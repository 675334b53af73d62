------------------------------ MODULE MasterLock ------------------------------
(***************************************************************************)
(* The master as the threads that serve its requests see it: one thread    *)
(* per HTTP request (flask) or CoAP request, all on the tables of db.py.   *)
(* The four handlers take the one lock; the GET routes read the tables     *)
(* without it.  Master, where a handler is one action, is what this        *)
(* implements.                                                             *)
(*                                                                         *)
(* A step ends where another thread could tell the difference.  A request  *)
(* that does not parse is answered without the lock and is left out.       *)
(* Handlers take milliseconds where the clock counts seconds: it stands    *)
(* still while one is at work.                                             *)
(***************************************************************************)
EXTENDS Master

CONSTANTS
  Slot,         \* the POST requests that may be under way at the same time
  Reader,       \* and the GET requests
  Nobody,       \* the lock is free
  NoAgent,      \* an empty Agent.id in a ping
  TextTimeout   \* whether --offer-timeout may be given, so that it is a string

ASSUME LockAssumption ==
  /\ Nobody \notin Slot /\ NoAgent \notin Agent /\ TextTimeout \in SUBSET BOOLEAN

VARIABLES
  text,     \* offer_timeout is a string in this process
  holder,   \* the slot of the request whose thread holds the lock
  settled,  \* history: agents, lastPing and tasks when the lock was last free
  at,       \* where each thread is; "dead" when it has ended with the lock
  job,      \* what the request of the holder asks for
  listed    \* of a GET: its table, the keys it walks and those left to read, and
            \* (history) what it has read of tasks that was not settled

threadVars == <<at, job, listed>>
lockVars == <<masterVars, text, holder, settled, threadVars>>

Tables  == [agents |-> agents, lastPing |-> lastPing, tasks |-> tasks]
NoJob   == [kind |-> "none"]
Nothing == [table |-> "none", keys |-> {}, left |-> {}, unsettled |-> {}]

LockInit ==
  /\ MasterInit /\ text \in TextTimeout
  /\ holder = Nobody /\ settled = Tables
  /\ at = [r \in Slot |-> "idle"] /\ job = NoJob
  /\ listed = [g \in Reader |-> Nothing]
-----------------------------------------------------------------------------
\* MaxRounds bounds the requests for offers.
OfferJobs == {j \in {[kind |-> "offers"]} : Len(offers) < MaxRounds}
\* A task id is minted for one request.
RunJobs   == [kind : {"run"}, task : Task \ submitted, offer : 1..MaxRounds]
KillJobs  == [kind : {"kill"}, task : submitted]
PingJobs  ==
  [kind : {"ping"}, agent : {NoAgent}]
  \cup UNION {[kind : {"ping"}, agent : {a}, resources : Reportable,
               reports : ReportsOver(issued \cap TasksOn(a))] : a \in Agent}

\* A request comes in and its thread begins.  The four POST routes and the four
\* CoAP resources go straight to their handler's lock.acquire().
Arrive(r) ==
  /\ at[r] = "idle" /\ at' = [at EXCEPT ![r] = "waiting"]
  /\ UNCHANGED <<masterVars, text, holder, settled, job, listed>>

\* What it asks for matters to nobody before it has the lock, and is chosen then.
Acquire(r) ==
  /\ at[r] = "waiting" /\ holder = Nobody
  /\ \E j \in OfferJobs \cup RunJobs \cup KillJobs \cup PingJobs :
       /\ job' = j
       /\ at' = [at EXCEPT ![r] = j.kind]
  /\ holder' = r
  /\ UNCHANGED <<masterVars, text, settled, listed>>

\* The handler has only this to do before its next step.
Goes(r, from, to) ==
  /\ at[r] = from /\ at' = [at EXCEPT ![r] = to]
  /\ UNCHANGED <<text, holder, settled, job, listed>>

States(table) == {<<t, table[t]>> : t \in DOMAIN table}

\* lock.release() and the answer.
Releases(r) ==
  /\ at' = [at EXCEPT ![r] = "idle"]
  /\ job' = NoJob /\ UNCHANGED text
  /\ holder' = Nobody /\ settled' = Tables'
  /\ listed' = [g \in Reader |-> [listed[g] EXCEPT !.unsettled = @ \ States(tasks')]]

\* The handler raises between the two: the lock stays taken.
Dies(r, from) == Goes(r, from, "dead")
-----------------------------------------------------------------------------
(* GetResourceOffer.                                                       *)

ClearStale(r) ==
  /\ Goes(r, "offers", "cleared")
  /\ agents' = [a \in Fresh |-> agents[a]]
  /\ lastPing' = [a \in Fresh |-> lastPing[a]]
  /\ UNCHANGED <<now, offers, tasks, taskOrder, killtasks, frameworks, submitted, issued, restarts>>

\* time.time() + offer_timeout raises at the first agent, if there is one.
TimeoutRaises == text /\ DOMAIN agents # {}

\* With no agent the answer is empty: a request without offers.
MakeOffers(r) ==
  \/ /\ at[r] = "cleared" /\ ~TimeoutRaises
     /\ offers' = Append(offers, [expiration |-> now + OfferTimeout,
                    free |-> [a \in Agent |-> [res \in Resource |->
                                IF a \in DOMAIN agents THEN Free(a, res) ELSE 0]]])
     /\ UNCHANGED <<now, agents, lastPing, tasks, taskOrder, killtasks, frameworks,
                    submitted, issued, restarts>>
     /\ Releases(r)
  \/ /\ TimeoutRaises /\ Dies(r, "cleared")
     /\ UNCHANGED masterVars
-----------------------------------------------------------------------------
(* RunTask.                                                                *)

\* One of the four answers of type ERROR.
Reject_KeepsLock(r) ==
  /\ Dies(r, "run")
  /\ ~Redeemable(job.task, job.offer, AgentOf[job.task])
  /\ UNCHANGED masterVars
Reject(r) ==
  /\ at[r] = "run"
  /\ ~Redeemable(job.task, job.offer, AgentOf[job.task])
  /\ UNCHANGED masterVars
  /\ Releases(r)

\* add_task puts the framework's own record into the table, whose state is not
\* set, and then sets it.
InsertTask(r) ==
  /\ Goes(r, "run", "inserted")
  /\ Redeemable(job.task, job.offer, AgentOf[job.task])
  /\ tasks' = [t \in DOMAIN tasks \cup {job.task} |-> IF t = job.task THEN "UNSET" ELSE tasks[t]]
  /\ UNCHANGED <<now, agents, lastPing, offers, taskOrder, killtasks, frameworks,
                 submitted, issued, restarts>>

Stated_Forgotten(t) == tasks
Stated(t) == [tasks EXCEPT ![t] = "UNISSUED"]

AcceptTask(r) ==
  LET t == job.task IN
  /\ at[r] = "inserted"
  /\ tasks' = Stated(t)
  /\ taskOrder' = Append(taskOrder, t)
  /\ frameworks' = frameworks \cup {FrameworkOf[t]}
  /\ submitted' = submitted \cup {t}
  /\ UNCHANGED <<now, agents, lastPing, offers, killtasks, issued, restarts>>
  /\ Releases(r)
-----------------------------------------------------------------------------
(* KillTask.  Its state and its record are told apart by nobody.  Over     *)
(* CoAP the resource raises after that and the kill stands.                *)

RecordKill(r) ==
  /\ at[r] = "kill"
  /\ \/ KillTask(job.task)
     \/ /\ Known(job.task) /\ tasks[job.task] \in {"KILLED", "COMPLETED"}
        /\ UNCHANGED masterVars
  /\ Releases(r)
-----------------------------------------------------------------------------
(* GetPing.                                                                *)

\* "return self" where there is no self.
NamelessPing(r) ==
  /\ at[r] = "ping" /\ job.agent = NoAgent
  /\ Dies(r, "ping")
  /\ UNCHANGED masterVars

StoreAgent(r) ==
  LET a == job.agent IN
  /\ Goes(r, "ping", "stored") /\ a # NoAgent
  /\ agents' = [x \in DOMAIN agents \cup {a} |-> IF x = a THEN job.resources ELSE agents[x]]
  /\ UNCHANGED <<now, lastPing, offers, tasks, taskOrder, killtasks, frameworks,
                 submitted, issued, restarts>>

StampAgent(r) ==
  LET a == job.agent IN
  /\ Goes(r, "stored", "stamped")
  /\ lastPing' = [x \in DOMAIN lastPing \cup {a} |-> IF x = a THEN now ELSE lastPing[x]]
  /\ UNCHANGED <<now, agents, offers, tasks, taskOrder, killtasks, frameworks,
                 submitted, issued, restarts>>

Told_Overwrites(reports) ==
  [t \in DOMAIN tasks \cup DOMAIN reports |-> IF t \in DOMAIN reports THEN reports[t] ELSE tasks[t]]
\* refresh_tasks, its first loop.
Told(reports) ==
  [t \in DOMAIN tasks \cup DOMAIN reports |->
     IF t \in DOMAIN reports THEN Reported(t, reports[t]) ELSE tasks[t]]

TakeReports(r) ==
  /\ Goes(r, "stamped", "reported")
  /\ tasks' = Told(job.reports)
  /\ UNCHANGED <<now, agents, lastPing, offers, taskOrder, killtasks, frameworks,
                 submitted, issued, restarts>>

Swept_Reported(a, reports) == [t \in DOMAIN tasks |-> Missing(a, t)]
\* refresh_tasks, its second loop.
Swept(a, reports) ==
  [t \in DOMAIN tasks |-> IF t \in DOMAIN reports THEN tasks[t] ELSE Missing(a, t)]

\* With it goes the choice of the task to run and the one to kill.
AnswerPing(r) ==
  LET table == Swept(job.agent, job.reports)
      run   == NextTask(job.agent, table)
  IN /\ at[r] = "reported"
     /\ tasks' = Issue(table, run)
     /\ issued' = issued \cup ({run} \ {NoTask})
     /\ UNCHANGED <<now, agents, lastPing, offers, taskOrder, killtasks, frameworks,
                    submitted, restarts>>
     /\ Releases(r)
-----------------------------------------------------------------------------
(* GET /agents, /tasks and /frameworks: iteration over a dictionary.  Each *)
(* step of it raises when the size is not what it was when it began.       *)

Keys(table) ==
  CASE table = "agents" -> DOMAIN agents
    [] table = "tasks" -> DOMAIN tasks
    [] table = "frameworks" -> frameworks

ReadBegins(g) ==
  /\ listed[g].table = "none"
  /\ \E table \in {"agents", "tasks", "frameworks"} :
       listed' = [listed EXCEPT ![g] =
         [table |-> table, keys |-> Keys(table), left |-> Keys(table), unsettled |-> {}]]
  /\ UNCHANGED <<masterVars, text, holder, settled, at, job>>

Reading(g)  == listed[g].table # "none"
SameSize(g) == Cardinality(Keys(listed[g].table)) = Cardinality(listed[g].keys)

\* MessageToDict of one more task.
ReadTask(g) ==
  /\ listed[g].table = "tasks" /\ SameSize(g)
  /\ \E t \in listed[g].left :
       listed' = [listed EXCEPT ![g].left = @ \ {t},
                                ![g].unsettled = @ \cup ({<<t, tasks[t]>>} \ States(settled.tasks))]
  /\ UNCHANGED <<masterVars, text, holder, settled, at, job>>

\* A registered agent has an entry in agentsDict too, but not yet or no longer
\* when the read comes between the two.
Torn(g) ==
  /\ listed[g].table = "agents"
  /\ \E a \in listed[g].keys \cup DOMAIN agents : a \notin DOMAIN lastPing

Ended(g) ==
  /\ listed' = [listed EXCEPT ![g] = Nothing]
  /\ UNCHANGED <<masterVars, text, holder, settled, at, job>>

ReadEnds(g) ==
  /\ Reading(g) /\ SameSize(g)
  /\ listed[g].table = "tasks" => listed[g].left = {}
  /\ Ended(g)

ReadRaises(g) == Reading(g) /\ (~SameSize(g) \/ Torn(g)) /\ Ended(g)
-----------------------------------------------------------------------------
LockTick ==
  /\ \A r \in Slot : holder = r => at[r] = "dead"
  /\ Tick
  /\ UNCHANGED <<text, holder, settled, threadVars>>

\* All threads end with the process.
LockRestart ==
  /\ Restart /\ text' \in TextTimeout
  /\ holder' = Nobody /\ settled' = Tables'
  /\ at' = [r \in Slot |-> "idle"] /\ job' = NoJob
  /\ listed' = [g \in Reader |-> Nothing]

Handler(r) ==
  \/ ClearStale(r) \/ MakeOffers(r)
  \/ Reject(r) \/ InsertTask(r) \/ AcceptTask(r)
  \/ RecordKill(r)
  \/ NamelessPing(r) \/ StoreAgent(r) \/ StampAgent(r) \/ TakeReports(r) \/ AnswerPing(r)

Read(g) == ReadBegins(g) \/ ReadTask(g) \/ ReadEnds(g) \/ ReadRaises(g)

LockNext ==
  \/ LockTick \/ LockRestart
  \/ \E r \in Slot : Arrive(r) \/ Acquire(r) \/ Handler(r)
  \/ \E g \in Reader : Read(g)

LockSpec == LockInit /\ [][LockNext]_lockVars

\* Threads run on, and a free lock goes to one of those that wait for it, which
\* one is not said.
LockProgress ==
  /\ WF_lockVars(\E r \in Slot : Acquire(r))
  /\ \A r \in Slot : WF_lockVars(Handler(r))

FairLockSpec == LockSpec /\ LockProgress
-----------------------------------------------------------------------------
Stage == {"idle", "waiting", "offers", "cleared", "run", "inserted", "kill", "ping",
          "stored", "stamped", "reported", "dead"}

LockTypeOK ==
  /\ text \in BOOLEAN /\ holder \in Slot \cup {Nobody}
  /\ at \in [Slot -> Stage]
  /\ DOMAIN agents \subseteq Agent /\ DOMAIN tasks \subseteq Task
  /\ \A t \in DOMAIN tasks : \/ tasks[t] \in TaskState
                             \/ tasks[t] = "UNSET" /\ holder # Nobody /\ at[holder] = "inserted"
  /\ \A g \in Reader : listed[g].unsettled \subseteq Task \X (TaskState \cup {"UNSET"})

(* What a thread that does not hold the lock may rely on: with the tables   *)
(* as they were when the lock was last free, the master is Master, each     *)
(* handler one atomic action, and a request that is refused or dies nothing *)
(* at all (master.py 29-215).                                               *)
Coarse == INSTANCE Master WITH
  agents <- settled.agents, lastPing <- settled.lastPing, tasks <- settled.tasks
HandlersAreAtomic == Coarse!MasterSpec

(* A listing of the tasks, taken without the lock, says of each task only   *)
(* what was true of it before or after the handler that was at work when it *)
(* was read, or nothing at all of a task then being accepted (db.py 62-92,  *)
(* 151-156).                                                                *)
ListedWasSettled ==
  holder = Nobody => \A g \in Reader : \A pair \in listed[g].unsettled : pair[2] = "UNSET"

\* The two requests that end with the lock.
Deadly == \/ job.kind = "ping" /\ job.agent = NoAgent
          \/ job.kind = "offers" /\ text

(* Every thread that takes the lock gives it back, whatever it is asked, as *)
(* long as no ping is without an agent id and the offer timeout is not a    *)
(* string; and while somebody waits the lock does not stay free (master.py  *)
(* 29-215).                                                                 *)
LockGoesOn ==
  /\ \A r \in Slot : holder = r ~> holder # r \/ Deadly
  /\ []<>(holder # Nobody \/ \A r \in Slot : at[r] # "waiting")
=============================================================================
