-------------------------------- MODULE Master --------------------------------
(***************************************************************************)
(* The master: master/python/master.py and its tables, master/python/db.py.*)
(*                                                                         *)
(* Every handler takes the one global lock first and gives it back last,   *)
(* so a handler is one action.  A handler that only answers an error       *)
(* leaves the tables as they are and is not an action.  All the tables are *)
(* dictionaries in memory, written here as functions over the keys they    *)
(* hold; a restart loses them all.                                         *)
(***************************************************************************)
EXTENDS EdgeTypes

CONSTANTS
  Framework, FrameworkOf,  \* TaskInfo.framework.framework_id
  Resource,         \* names of resources
  Device,           \* those of type DEVICE; the others are SCALAR
  Demand,           \* TaskInfo.resources: amount asked, 0 when not listed
  Reportable,       \* what AgentInfo.resources may say
  OfferTimeout,     \* the option --offer-timeout
  StaleAfter,       \* 3 * AgentInfo.ping_rate
  MaxTime, MaxRounds, MaxRestarts   \* bounds on now, offers and restarts

ASSUME MasterAssumption ==
  /\ FrameworkOf \in [Task -> Framework]
  /\ Device \subseteq Resource
  /\ Demand \in [Task -> [Resource -> Nat]]
  /\ Reportable \subseteq [Resource -> Nat]
  /\ OfferTimeout \in Nat /\ StaleAfter \in Nat
  /\ MaxTime \in Nat /\ MaxRounds \in Nat /\ MaxRestarts \in Nat

VARIABLES
  now,        \* the master's clock
  agents,     \* agents: what each registered agent last said of its resources
  lastPing,   \* agentsDict[..]['lastPing']
  offers,     \* offers and agentOffers: one record per GetResourceOffer call,
              \* with the offer for every agent; nothing for one not registered
  tasks,      \* tasks: the state of each task the master knows
  taskOrder,  \* the accepted tasks in the order of the dictionary
  killtasks,  \* killtasks: the keys in the order of the dictionary
  frameworks, \* frameworks: the keys
  submitted,  \* history: task ids whose RunTask has been accepted
  issued,     \* history: task ids some pong has carried
  restarts    \* history: number of restarts

tables == <<agents, lastPing, offers, tasks, taskOrder, killtasks, frameworks>>
masterVars == <<now, tables, submitted, issued, restarts>>

MasterInit ==
  /\ now = 0
  /\ agents = [a \in {} |-> 0] /\ lastPing = [a \in {} |-> 0]
  /\ offers = <<>>
  /\ tasks = [t \in {} |-> "UNISSUED"] /\ taskOrder = <<>>
  /\ killtasks = <<>> /\ frameworks = {}
  /\ submitted = {} /\ issued = {} /\ restarts = 0
-----------------------------------------------------------------------------
(* GetResourceOffer: what is left of an agent's resources.                 *)

\* clear_stale_agents keeps these.
Fresh == {a \in DOMAIN agents : now - lastPing[a] <= StaleAfter}

\* get_all_pending_tasks_by_agent
Pending(a, t) == AgentOf[t] = a /\ tasks[t] \in {"UNISSUED", "ISSUED"}

Outstanding_Expired(k) == offers[k].expiration < now
\* An offer of get_offers_by_agent_id still counts.
Outstanding(k) == now < offers[k].expiration

\* Nothing is taken from a value that has come down to 0: it counts as unset.
Less(value, amount) == IF value # 0 /\ amount # 0 THEN value - amount ELSE value

\* What is left of a value after each of the amounts, in their order.
Left(value, amounts) ==
  LET left[i \in 0..Len(amounts)] ==
        IF i = 0 THEN value ELSE Less(left[i-1], amounts[i])
  IN  left

AfterAll(value, amounts) == Left(value, amounts)[Len(amounts)]

\* A task that is not pending and an offer that no longer counts take nothing.
Demanded(a, r) ==
  [i \in 1..Len(taskOrder) |-> IF Pending(a, taskOrder[i]) THEN Demand[taskOrder[i]][r] ELSE 0]
Promised(a, r) ==
  [k \in 1..Len(offers) |-> IF Outstanding(k) THEN offers[k].free[a][r] ELSE 0]

Kept_NegativesToo(value) == value
\* A scalar of at most 0.001, a negative one too, is removed from the offer.
Kept(value) == IF value \in Nat THEN value ELSE 0

\* Only scalars are subtracted and removed: a device has no scalar value.
Free(a, r) ==
  IF r \in Device THEN agents[a][r]
  ELSE Kept(AfterAll(AfterAll(agents[a][r], Demanded(a, r)), Promised(a, r)))

\* One offer per agent; one with nothing left is stored but not sent.
GetResourceOffer ==
  /\ Len(offers) < MaxRounds
  /\ agents' = [a \in Fresh |-> agents[a]]
  /\ lastPing' = [a \in Fresh |-> lastPing[a]]
  /\ offers' = Append(offers, [expiration |-> now + OfferTimeout,
                               free |-> [a \in Agent |-> [r \in Resource |->
                                           IF a \in Fresh THEN Free(a, r) ELSE 0]]])
  /\ UNCHANGED <<now, tasks, taskOrder, killtasks, frameworks, submitted, issued, restarts>>
-----------------------------------------------------------------------------
(* RunTask, for the offer the k-th GetResourceOffer made for agent a.      *)

\* Known (it has been sent), not past its expiration, and large enough for
\* each resource.
Redeemable(t, k, a) ==
  /\ k \in 1..Len(offers) /\ \E r \in Resource : offers[k].free[a][r] > 0
  /\ now <= offers[k].expiration
  /\ \A r \in Resource : Demand[t][r] <= offers[k].free[a][r]

\* add_task
WithTask(t) == [x \in DOMAIN tasks \cup {t} |-> IF x = t THEN "UNISSUED" ELSE tasks[x]]

\* The offer stays where it is.  A task id is used once (uuid1).
RunTask(t, k, a) ==
  /\ t \notin submitted
  /\ Redeemable(t, k, a)
  /\ tasks' = WithTask(t)
  /\ taskOrder' = Append(taskOrder, t)
  /\ frameworks' = frameworks \cup {FrameworkOf[t]}
  /\ submitted' = submitted \cup {t}
  /\ UNCHANGED <<now, agents, lastPing, offers, killtasks, issued, restarts>>
-----------------------------------------------------------------------------
(* KillTask.                                                               *)

Known(t) == t \in DOMAIN tasks

KillTask_Unrecorded(t) ==
  /\ ~(Known(t) /\ tasks[t] \in {"KILLED", "COMPLETED"})
  /\ tasks' = IF Known(t) /\ tasks[t] # "UNISSUED"
                THEN [tasks EXCEPT ![t] = "KILLING"] ELSE tasks
  /\ UNCHANGED <<now, agents, lastPing, offers, taskOrder, killtasks, frameworks,
                 submitted, issued, restarts>>
KillTask_NoReturn(t) ==
  /\ tasks' = IF Known(t) /\ tasks[t] # "UNISSUED"
                THEN [tasks EXCEPT ![t] = "KILLING"] ELSE tasks
  /\ killtasks' = IF \E i \in 1..Len(killtasks) : killtasks[i] = t
                    THEN killtasks ELSE Append(killtasks, t)
  /\ UNCHANGED <<now, agents, lastPing, offers, taskOrder, frameworks,
                 submitted, issued, restarts>>
\* add_kill_task.  The statement for an UNISSUED task compares its state with
\* KILLED and assigns nothing; the request is recorded in every other case.
KillTask(t) ==
  /\ ~(Known(t) /\ tasks[t] \in {"KILLED", "COMPLETED"})
  /\ tasks' = IF Known(t) /\ tasks[t] # "UNISSUED"
                THEN [tasks EXCEPT ![t] = "KILLING"] ELSE tasks
  /\ killtasks' = IF \E i \in 1..Len(killtasks) : killtasks[i] = t
                    THEN killtasks ELSE Append(killtasks, t)
  /\ UNCHANGED <<now, agents, lastPing, offers, taskOrder, frameworks,
                 submitted, issued, restarts>>
-----------------------------------------------------------------------------
(* GetPing from agent a with reports on the tasks in its table.            *)

Reported_KeepsIssued(t, state) ==
  IF Known(t) /\ tasks[t] \in {"KILLING", "ISSUED"} /\ state = "RUNNING" THEN tasks[t] ELSE state
Reported_AlwaysBelieved(t, state) == state
\* refresh_tasks, a task in the ping.  COMPLETED is 0 in the enumeration, so
\* it takes the branch for unknown tasks and replaces the whole record by the
\* agent's copy: the state it leaves is the reported one again.
Reported(t, state) ==
  IF Known(t) /\ tasks[t] = "KILLING" /\ state = "RUNNING" THEN "KILLING" ELSE state

Missing_Reschedules(a, t) ==
  IF AgentOf[t] = a /\ tasks[t] \in {"RUNNING", "KILLING"} THEN "UNISSUED" ELSE tasks[t]
Missing_Completes(a, t) ==
  IF AgentOf[t] = a /\ tasks[t] \in {"RUNNING", "KILLING"} THEN "COMPLETED" ELSE tasks[t]
\* refresh_tasks, a task of a that is not in the ping: assumed killed
Missing(a, t) ==
  IF AgentOf[t] = a /\ tasks[t] \in {"RUNNING", "KILLING"} THEN "KILLED" ELSE tasks[t]

Refreshed(a, reports) ==
  [t \in DOMAIN tasks \cup DOMAIN reports |->
     IF t \in DOMAIN reports THEN Reported(t, reports[t]) ELSE Missing(a, t)]

FirstIn_Last(seq, S) ==
  IF \E i \in 1..Len(seq) : seq[i] \in S
    THEN seq[CHOOSE i \in 1..Len(seq) : seq[i] \in S /\ \A j \in (i+1)..Len(seq) : seq[j] \notin S]
    ELSE NoTask
\* The first of the sequence that is in S.
FirstIn(seq, S) ==
  IF \E i \in 1..Len(seq) : seq[i] \in S
    THEN seq[CHOOSE i \in 1..Len(seq) : seq[i] \in S /\ \A j \in 1..(i-1) : seq[j] \notin S]
    ELSE NoTask

InState_AnyAgent(a, table, states) == {t \in DOMAIN table : table[t] \in states}
InState(a, table, states) == {t \in DOMAIN table : AgentOf[t] = a /\ table[t] \in states}

NextTask_NoResend(a, table) == FirstIn(taskOrder, InState(a, table, {"UNISSUED"}))
\* get_next_unissued_task_by_agent: UNISSUED ones first, then a re-send.  Tasks
\* learnt from a ping are in neither state, so their place does not matter.
NextTask(a, table) ==
  LET first == FirstIn(taskOrder, InState(a, table, {"UNISSUED"}))
  IN  IF first # NoTask THEN first ELSE FirstIn(taskOrder, InState(a, table, {"ISSUED"}))

NextKill_Unasked(a, table) == FirstIn(taskOrder, InState(a, table, {"RUNNING", "KILLING"}))
NextKill_NotKilling(a, table) == FirstIn(killtasks, InState(a, table, {"RUNNING", "ISSUED"}))
\* get_next_unissued_kill_by_agent
NextKill(a, table) ==
  FirstIn(killtasks, InState(a, table, {"RUNNING", "KILLING", "ISSUED"}))

Issue(table, t) == [x \in DOMAIN table |-> IF x = t THEN "ISSUED" ELSE table[x]]

TasksAfter(a, reports) ==
  LET table == Refreshed(a, reports) IN Issue(table, NextTask(a, table))

Pong(a, reports) ==
  [run  |-> NextTask(a, Refreshed(a, reports)),
   kill |-> NextKill(a, TasksAfter(a, reports))]

\* refresh_agent, for agents and agentsDict
RefreshAgent(a, resources) ==
  /\ agents' = [x \in DOMAIN agents \cup {a} |-> IF x = a THEN resources ELSE agents[x]]
  /\ lastPing' = [x \in DOMAIN lastPing \cup {a} |-> IF x = a THEN now ELSE lastPing[x]]

GetPing(a, resources, reports) ==
  /\ RefreshAgent(a, resources)
  /\ tasks' = TasksAfter(a, reports)
  /\ issued' = issued \cup ({Pong(a, reports).run} \ {NoTask})
  /\ UNCHANGED <<now, offers, taskOrder, killtasks, frameworks, submitted, restarts>>
-----------------------------------------------------------------------------
Tick ==
  /\ now < MaxTime /\ now' = now + 1
  /\ UNCHANGED <<tables, submitted, issued, restarts>>

\* The process ends and starts again.
Restart ==
  /\ restarts < MaxRestarts /\ restarts' = restarts + 1
  /\ agents' = [a \in {} |-> 0] /\ lastPing' = [a \in {} |-> 0]
  /\ offers' = <<>>
  /\ tasks' = [t \in {} |-> "UNISSUED"] /\ taskOrder' = <<>>
  /\ killtasks' = <<>> /\ frameworks' = {}
  /\ UNCHANGED <<now, submitted, issued>>

\* What frameworks and agents may ask for: a task is run on the agent of the
\* offer it redeems, killed once it has been submitted, and reported only by
\* the agent it was handed to.
MasterNext ==
  \/ Tick
  \/ Restart
  \/ GetResourceOffer
  \/ \E t \in Task, k \in 1..MaxRounds : RunTask(t, k, AgentOf[t])
  \/ \E t \in submitted : KillTask(t)
  \/ \E a \in Agent, resources \in Reportable :
       \E reports \in ReportsOver(issued \cap TasksOn(a)) : GetPing(a, resources, reports)

MasterSpec == MasterInit /\ [][MasterNext]_masterVars
-----------------------------------------------------------------------------
Offer == [expiration : Nat, free : [Agent -> [Resource -> Nat]]]

MasterTypeOK ==
  /\ now \in Nat
  /\ DOMAIN agents \subseteq Agent /\ agents \in [DOMAIN agents -> [Resource -> Nat]]
  /\ lastPing \in [DOMAIN agents -> Nat]
  /\ offers \in Seq(Offer)
  /\ DOMAIN tasks \subseteq Task /\ tasks \in [DOMAIN tasks -> TaskState]
  /\ taskOrder \in Seq(Task) /\ killtasks \in Seq(Task)
  /\ frameworks \subseteq Framework
  /\ submitted \subseteq Task /\ issued \subseteq Task
  /\ restarts \in Nat

(* Tasks of one agent are handed out in the order they were accepted: a     *)
(* task that waits to be issued is not overtaken by a later one, whatever   *)
(* is killed, reported or re-sent in between (db.py 129-138).               *)
NoOvertaking ==
  \A i, j \in 1..Len(taskOrder) :
    i < j /\ AgentOf[taskOrder[i]] = AgentOf[taskOrder[j]] /\ taskOrder[j] \in issued
      => tasks[taskOrder[i]] # "UNISSUED"

(* A task the master shows as KILLING has its kill request on record, so    *)
(* that a pong can carry it (db.py 100-110, 62-85).                         *)
KillingIsOnRecord ==
  \A t \in DOMAIN tasks : tasks[t] = "KILLING" => \E i \in 1..Len(killtasks) : killtasks[i] = t

(* Once the master has heard of a task from its agent, or has marked it     *)
(* KILLING, no sequence of late, repeated or empty pings makes it eligible  *)
(* for a pong's run_task again (db.py 62-85, 129-138).                      *)
Handable(table) == {t \in DOMAIN table : table[t] \in {"UNISSUED", "ISSUED"}}
NeverHandedOutAgain ==
  [][\A t \in DOMAIN tasks \cap DOMAIN tasks' : t \in Handable(tasks') => t \in Handable(tasks)]_masterVars

(* A pong never asks an agent to run a task that the ping it answers        *)
(* reports, nor to kill one it does not report, but beside a task that was  *)
(* handed out and may never have arrived: agents that look no duplicates up *)
(* rely on it (db.py 62-85, 129-146).                                       *)
PongsFitPings ==
  \A a \in Agent : \A reports \in ReportsOver(issued \cap TasksOn(a)) :
    LET pong == Pong(a, reports) IN
    /\ pong.run \notin DOMAIN reports
    /\ pong.run = NoTask => pong.kill \in DOMAIN reports \cup {NoTask}

(* What an agent has promised already: to tasks that wait or are on their   *)
(* way, and in offers that still count.  Every unit of it is counted.       *)
Units(amount) == UNION {{x} \X (1..amount[x]) : x \in DOMAIN amount}
ToTasks(a, r)  == Units([t \in Handable(tasks) \cap TasksOn(a) |-> Demand[t][r]])
ToOffers(a, r) ==
  Units([k \in {k \in 1..Len(offers) : now < offers[k].expiration} |-> offers[k].free[a][r]])

(* A scalar in a new offer is really there: the agent has pinged within     *)
(* StaleAfter, and with everything it has promised already the new offer    *)
(* stays within what it last said it has (master.py 29-100).                *)
OffersAreBacked ==
  [][\A k \in DOMAIN offers' \ DOMAIN offers :
       \A a \in Agent, r \in Resource \ Device :
         offers'[k].free[a][r] > 0 =>
           /\ a \in DOMAIN agents /\ now - lastPing[a] <= StaleAfter
           /\ offers'[k].free[a][r] + Cardinality(ToTasks(a, r)) + Cardinality(ToOffers(a, r))
                <= agents[a][r]]_masterVars

(* README.md, "Resources are anything that needs to be shared are           *)
(* partitioned by tasks running on an agent node": the tasks accepted for   *)
(* an agent and not yet started share out what it last reported.  The code  *)
(* lets one offer be redeemed by any number of tasks (master.py 114-160).   *)
ResourcesPartitioned ==
  \A a \in DOMAIN agents, r \in Resource \ Device :
    Cardinality(ToTasks(a, r)) <= agents[a][r]

(* A kill request reaches a task before it has been issued: the branch for  *)
(* UNISSUED tasks means to end it there (db.py 105-106), so it is never     *)
(* handed to the agent.                                                     *)
KilledBeforeIssueStays ==
  [][\A t \in DOMAIN tasks \cap DOMAIN tasks' :
       tasks[t] = "UNISSUED" /\ (\E i \in 1..Len(killtasks) : killtasks[i] = t)
         => tasks'[t] # "ISSUED"]_masterVars
=============================================================================
