------------------------------ MODULE Schedulers ------------------------------
(***************************************************************************)
(* Frameworks as clients of one master: the library edgerm/framework.py    *)
(* and the scheduler programs under frameworks/ that are written with it,  *)
(* and simple-camera/scheduler.py, which is not.                           *)
(*                                                                         *)
(* A program is a script of calls.  One that makes an HTTP request is a    *)
(* step: other programs, the agents and the clock go on between any two.   *)
(* What only looks at the program's own copies of the offers is a step     *)
(* too.  A program may end anywhere (any request may raise, and nothing    *)
(* catches it): it just takes no further step.                             *)
(***************************************************************************)
EXTENDS Master

CONSTANTS
  Scheduler,  \* runs of scheduler programs
  Programs,   \* the programs; each is its own framework
  Casts,      \* which program each of them may be a run of
  NameOf,     \* TaskInfo.name: the search the task's agent was found by
  Want,       \* the resources each search names, and how much of a scalar
  Suits,      \* the agents that pass the other filters of each search
  Check,      \* what simple-camera/scheduler.py looks for in an offer instead
  Ask,        \* and what it puts in the request
  Spoken      \* the states agents report

Search == {"server", "classify", "camera", "device", "map", "profile"}

ASSUME SchedulersAssumption ==
  /\ Programs \subseteq {"camera", "sensor", "profiler", "ddflow", "map-reduce", "file"}
  /\ Programs \subseteq Framework /\ Casts \subseteq [Scheduler -> Programs]
  /\ NameOf \in [Task -> Search]
  /\ Want \in [Search -> [Resource -> Nat]] /\ Suits \in [Search -> SUBSET Agent]
  /\ Check \in [Search -> [Resource -> Nat]] /\ Ask \in [Search -> [Resource -> Nat]]
  /\ Spoken \subseteq ReportedState

VARIABLES
  program,   \* which program each run is of
  step,      \* its next call; 0 when it has ended
  hand,      \* its offers: the request they answer, and what is left in each
  picks,     \* the agents each of its searches has found
  reuse,     \* it has found its server running already
  where,     \* the agent of the server
  todo,      \* what is left of a loop over agents or over tasks
  aim,       \* the task about to be killed
  book,      \* simple-camera/scheduler.py: the names in its list of tasks
  file,      \* and those in its file
  matched    \* history: the tasks it set out to kill, when, and which of those
             \* it had been through a ping has since brought back

localVars == <<program, step, hand, picks, reuse, where, todo, aim, book, file, matched>>
schedVars == <<masterVars, localVars>>
-----------------------------------------------------------------------------
(* The programs.  Calls on a server are left out when one is running.      *)

CameraScheduler ==   \* simple-camera/new-scheduler.py
  <<<<"look">>, <<"offers">>, <<"find", "classify">>, <<"find", "camera">>,
    <<"find", "server">>, <<"run", "server">>, <<"domain">>,
    <<"run", "classify">>, <<"run", "camera">>>>

SensorScheduler ==   \* simple-sensor/sensor-scheduler.py
  <<<<"look">>, <<"offers">>, <<"find", "server">>, <<"run", "server">>, <<"domain">>,
    <<"find", "map">>, <<"run", "map">>>>

Profiler ==          \* profiler/scheduler.py
  <<<<"look">>, <<"offers">>, <<"find", "server">>, <<"run", "server">>, <<"domain">>,
    <<"find", "profile">>, <<"each", "profile">>>>

DDFlow ==            \* ddflow/ddflow-scheduler.py
  <<<<"offers">>, <<"look">>, <<"find", "server">>, <<"run", "server">>,
    <<"find", "device">>, <<"run", "device">>>>

MapReduce ==         \* map-reduce/map-reduce.py --reissue-tasks
  <<<<"offers">>, <<"look">>, <<"find", "server">>, <<"run", "server">>, <<"domain">>,
    <<"match">>, <<"kill">>, <<"find", "map">>, <<"each", "map">>, <<"offers">>, <<"again", 8>>>>

FileScheduler ==     \* simple-camera/scheduler.py
  <<<<"load">>, <<"offers">>, <<"select", "camera">>, <<"select", "server">>, <<"select", "classify">>,
    <<"run", "server">>, <<"dump">>, <<"run", "classify">>, <<"dump">>, <<"run", "camera">>, <<"dump">>>>

Script(s) ==
  CASE program[s] = "camera"     -> CameraScheduler
    [] program[s] = "sensor"     -> SensorScheduler
    [] program[s] = "profiler"   -> Profiler
    [] program[s] = "ddflow"     -> DDFlow
    [] program[s] = "map-reduce" -> MapReduce
    [] program[s] = "file"       -> FileScheduler

\* The next call is this one.
At(s, op) == step[s] # 0 /\ Script(s)[step[s]][1] = op
Subject(s) == Script(s)[step[s]][2]

After(s, i) == IF i = Len(Script(s)) THEN 0 ELSE i + 1

\* The call left out, or done: on to the next.
NextStep(s) == After(s, step[s])
Onward(s) == step' = [step EXCEPT ![s] = NextStep(s)]
Ends(s)   == step' = [step EXCEPT ![s] = 0]

\* A request that is left out or refused is not followed by a dump of the list.
Unlisted(s) == IF program[s] = "file" THEN After(s, NextStep(s)) ELSE NextStep(s)
PassOver(s) == step' = [step EXCEPT ![s] = Unlisted(s)]

LeftOut(s) == reuse[s] /\ Subject(s) = "server"
-----------------------------------------------------------------------------
NoOffers == [round |-> 0, epoch |-> 0, left |-> [a \in {} |-> [r \in Resource |-> 0]]]

SchedulersInit ==
  /\ MasterInit
  /\ program \in Casts
  /\ step = [s \in Scheduler |-> 1]
  /\ hand = [s \in Scheduler |-> NoOffers]
  /\ picks = [s \in Scheduler |-> [v \in Search |-> {}]]
  /\ reuse = [s \in Scheduler |-> FALSE] /\ where = [s \in Scheduler |-> {}]
  /\ todo = [s \in Scheduler |-> {}] /\ aim = [s \in Scheduler |-> NoTask]
  /\ book = [s \in Scheduler |-> {}] /\ file = {}
  /\ matched = [s \in Scheduler |-> [tasks |-> {}, epoch |-> 0, revived |-> {}]]

\* getTasks: those of the own framework.
Own(s) == {t \in DOMAIN tasks : FrameworkOf[t] = program[s]}
Servers(s) == {t \in Own(s) : NameOf[t] = "server" /\ tasks[t] = "RUNNING"}

\* getAgentInfoForRunningTask
Look(s) ==
  /\ At(s, "look") /\ Onward(s)
  /\ \/ /\ Servers(s) = {} /\ UNCHANGED <<reuse, where>>
     \/ \E t \in Servers(s) :
          /\ reuse' = [reuse EXCEPT ![s] = TRUE]
          /\ where' = [where EXCEPT ![s] = {AgentOf[t]}]
  /\ UNCHANGED <<masterVars, program, hand, picks, todo, aim, book, file, matched>>

GetOffers_KeepsFound(s) ==
  /\ At(s, "offers") /\ GetResourceOffer /\ Onward(s)
  /\ LET free == offers'[Len(offers')].free IN
     hand' = [hand EXCEPT ![s] =
       [round |-> Len(offers'), epoch |-> restarts,
        left |-> [a \in {x \in Agent : \E r \in Resource : free[x][r] > 0} |-> free[a]]]]
  /\ UNCHANGED <<program, picks, reuse, where, todo, aim, book, file, matched>>
\* getOffers.  An offer with nothing left in it is not sent.
GetOffers(s) ==
  /\ At(s, "offers") /\ GetResourceOffer /\ Onward(s)
  /\ LET free == offers'[Len(offers')].free IN
     hand' = [hand EXCEPT ![s] =
       [round |-> Len(offers'), epoch |-> restarts,
        left |-> [a \in {x \in Agent : \E r \in Resource : free[x][r] > 0} |-> free[a]]]]
  /\ picks' = [picks EXCEPT ![s] = [v \in Search |-> {}]]
  /\ UNCHANGED <<program, reuse, where, todo, aim, book, file, matched>>
-----------------------------------------------------------------------------
(* findAgents.                                                             *)

Named(v) == {r \in Resource : Want[v][r] > 0}

Passes_Loose(left, v, a) == a \in Suits[v] /\ \A r \in Named(v) : left[a][r] > 0
\* The filters of search v let the offer for a through.
Passes(left, v, a) == a \in Suits[v] /\ \A r \in Named(v) : left[a][r] >= Want[v][r]

\* Then the offer itself is changed: scalars that are named become what the
\* search wants of them, devices that are not named are removed.
Trimmed(amounts, v) ==
  [r \in Resource |-> IF r \in Device THEN (IF r \in Named(v) THEN amounts[r] ELSE 0)
                                      ELSE (IF r \in Named(v) THEN Want[v][r] ELSE amounts[r])]

Found(s, v) == {a \in DOMAIN hand[s].left : Passes(hand[s].left, v, a)}

\* Searches that a loop follows may find nothing.
FindAgents(s) ==
  /\ At(s, "find")
  /\ LET v == Subject(s) IN
     \/ LeftOut(s) /\ Onward(s) /\ UNCHANGED <<hand, picks>>
     \/ /\ ~LeftOut(s) /\ (Found(s, v) # {} \/ Script(s)[NextStep(s)][1] = "each")
        /\ picks' = [picks EXCEPT ![s][v] = Found(s, v)]
        /\ hand' = [hand EXCEPT ![s].left =
             [a \in DOMAIN @ |-> IF a \in Found(s, v) THEN Trimmed(@[a], v) ELSE @[a]]]
        /\ Onward(s)
     \/ /\ ~LeftOut(s) /\ Found(s, v) = {} /\ Script(s)[NextStep(s)][1] # "each"
        /\ Ends(s) /\ UNCHANGED <<hand, picks>>
  /\ UNCHANGED <<masterVars, program, reuse, where, todo, aim, book, file, matched>>
-----------------------------------------------------------------------------
(* runTask.                                                                *)

\* The resources in the request: those left in the offer, or for the program
\* without the library the ones it always asks for.
Asks(s, v, a) == IF program[s] = "file" THEN Ask[v] ELSE hand[s].left[a]

\* The tasks a program may request of an agent, and of these the fresh ids for
\* this request; which one is drawn (uuid1) makes no difference.
Requests ==
  [x \in Programs \X Search \X Agent |->
     {t \in Task : FrameworkOf[t] = x[1] /\ NameOf[t] = x[2] /\ AgentOf[t] = x[3]}]
Ids(s, v, a) ==
  {t \in Requests[program[s], v, a] \ submitted : Demand[t] = Asks(s, v, a)}

\* The master takes the task if the offer for agent a stands and is large enough.
Accepted(s, v, a) ==
  /\ hand[s].epoch = restarts /\ Ids(s, v, a) # {}
  /\ RunTask(CHOOSE t \in Ids(s, v, a) : TRUE, hand[s].round, a)

TooMuch(s, v, a) ==
  \E r \in Resource : Asks(s, v, a)[r] > offers[hand[s].round].free[a][r]

\* The request for v is one the master takes.
Stands(s, v, a) ==
  hand[s].epoch = restarts /\ now <= offers[hand[s].round].expiration /\ ~TooMuch(s, v, a)

\* It answers an error: the offer is of another process, too old, or too small.
Refused(s, v, a) == ~Stands(s, v, a) /\ UNCHANGED masterVars

Booked_Always(s, v, accepted) == IF program[s] = "file" THEN book[s] \cup {v} ELSE book[s]
\* Whether it was accepted only the program with a list of tasks looks at.
Booked(s, v, accepted) ==
  IF program[s] = "file" /\ accepted THEN book[s] \cup {v} ELSE book[s]

Run(s) ==
  /\ At(s, "run")
  /\ LET v == Subject(s) IN
     \/ LeftOut(s) /\ PassOver(s) /\ UNCHANGED <<masterVars, where, book>>
     \/ /\ ~LeftOut(s)
        /\ \E a \in picks[s][v] :
             /\ \/ Accepted(s, v, a) /\ book' = [book EXCEPT ![s] = Booked(s, v, TRUE)] /\ Onward(s)
                \/ Refused(s, v, a)  /\ book' = [book EXCEPT ![s] = Booked(s, v, FALSE)] /\ PassOver(s)
             /\ where' = IF v = "server" THEN [where EXCEPT ![s] = {a}] ELSE where
  /\ UNCHANGED <<program, hand, picks, reuse, todo, aim, file, matched>>

\* One task on each of the agents the search has found.
RunEach(s) ==
  /\ At(s, "each")
  /\ LET v == Subject(s) IN
     \/ /\ picks[s][v] = {} /\ Onward(s) /\ UNCHANGED <<masterVars, picks>>
     \/ \E a \in picks[s][v] :
          /\ Accepted(s, v, a) \/ Refused(s, v, a)
          /\ picks' = [picks EXCEPT ![s][v] = @ \ {a}]
          /\ UNCHANGED step
  /\ UNCHANGED <<program, hand, reuse, where, todo, aim, book, file, matched>>

\* getAgentProperty(.., 'domain'): with an agent the master does not list it is
\* None, and what the program makes of that raises.
Domain(s) ==
  /\ At(s, "domain")
  /\ IF where[s] \subseteq DOMAIN agents THEN Onward(s) ELSE Ends(s)
  /\ UNCHANGED <<masterVars, program, hand, picks, reuse, where, todo, aim, book, file, matched>>

\* The loop of map-reduce.py.
Again(s) ==
  /\ At(s, "again") /\ step' = [step EXCEPT ![s] = Subject(s)]
  /\ UNCHANGED <<masterVars, program, hand, picks, reuse, where, todo, aim, book, file, matched>>
-----------------------------------------------------------------------------
(* killTasksThatMatch: one listing for the loop, and one more in each      *)
(* killTask before it posts.                                               *)

Over == {"KILLED", "COMPLETED"}
Live(t) == tasks[t] \notin Over \cup {"ERRORED"}

Match(s) ==
  /\ At(s, "match") /\ Onward(s)
  /\ LET found == {t \in Own(s) : NameOf[t] = "map" /\ Live(t)} IN
     /\ todo' = [todo EXCEPT ![s] = found]
     /\ matched' = [matched EXCEPT ![s] = [tasks |-> found, epoch |-> restarts, revived |-> {}]]
  /\ UNCHANGED <<masterVars, program, hand, picks, reuse, where, aim, book, file>>

StillListed_Running(s, t) == t \in Own(s) /\ tasks[t] = "RUNNING"
\* killTask looks for the id only, whatever has become of the task.
StillListed(s, t) == t \in Own(s)

ListAgain(s) ==
  /\ At(s, "kill") /\ aim[s] = NoTask
  /\ \/ /\ todo[s] = {} /\ Onward(s) /\ UNCHANGED <<todo, aim>>
     \/ \E t \in todo[s] :
          /\ todo' = [todo EXCEPT ![s] = @ \ {t}]
          /\ aim' = [aim EXCEPT ![s] = IF StillListed(s, t) THEN t ELSE NoTask]
          /\ UNCHANGED step
  /\ UNCHANGED <<masterVars, program, hand, picks, reuse, where, book, file, matched>>

PostKill(s) ==
  /\ At(s, "kill") /\ aim[s] # NoTask
  /\ \/ KillTask(aim[s])
     \/ Known(aim[s]) /\ tasks[aim[s]] \in Over /\ UNCHANGED masterVars
  /\ aim' = [aim EXCEPT ![s] = NoTask]
  /\ UNCHANGED <<program, step, hand, picks, reuse, where, todo, book, file, matched>>
-----------------------------------------------------------------------------
(* simple-camera/scheduler.py.                                             *)

\* loadTasks, which takes a file it cannot read for an empty one, as it is while
\* another run writes it.  taskAlreadyRunning("HTTP endpoint") looks at the list.
LoadTasks(s) ==
  /\ At(s, "load") /\ Onward(s)
  /\ \E names \in {file} \cup {{} : u \in {x \in Scheduler : At(x, "dump")}} :
       /\ book' = [book EXCEPT ![s] = names]
       /\ reuse' = [reuse EXCEPT ![s] = "server" \in names]
  /\ UNCHANGED <<masterVars, program, hand, picks, where, todo, aim, file, matched>>

Fit(s, v) ==
  {a \in DOMAIN hand[s].left \cap Suits[v] : \A r \in Resource : hand[s].left[a][r] >= Check[v][r]}

\* getCamTask, getServerTask and getClassifyTask: the same offers, unchanged.
Select(s) ==
  /\ At(s, "select")
  /\ LET v == Subject(s) IN
     \/ LeftOut(s) /\ Onward(s) /\ UNCHANGED picks
     \/ /\ ~LeftOut(s)
        /\ picks' = [picks EXCEPT ![s][v] = Fit(s, v)]
        /\ IF Fit(s, v) = {} THEN Ends(s) ELSE Onward(s)
  /\ UNCHANGED <<masterVars, program, hand, reuse, where, todo, aim, book, file, matched>>

\* dumpTasks, or stopped when the file is empty.
DumpTasks(s) ==
  /\ At(s, "dump")
  /\ \/ Onward(s) /\ file' = book[s]
     \/ Ends(s) /\ file' = {}
  /\ UNCHANGED <<masterVars, program, hand, picks, reuse, where, todo, aim, book, matched>>
-----------------------------------------------------------------------------
Call(s) ==
  \/ Look(s) \/ GetOffers(s) \/ FindAgents(s) \/ Run(s) \/ RunEach(s) \/ Domain(s) \/ Again(s)
  \/ Match(s) \/ ListAgain(s) \/ PostKill(s)
  \/ LoadTasks(s) \/ Select(s) \/ DumpTasks(s)

\* The matched tasks whose turn has passed.
Passed(s) == matched[s].tasks \ (todo[s] \cup {aim[s]})

\* Agents report what they please of the tasks they have been handed: a ping may
\* be late, or come from an agent that has lost its table.
AgentPings(a) ==
  \E resources \in Reportable, told \in SUBSET {t \in issued : AgentOf[t] = a} :
    \E reports \in [told -> Spoken] : GetPing(a, resources, reports)

\* Tasks the master showed as over, and does so no more.
Revived == {t \in DOMAIN tasks \cap DOMAIN tasks' : tasks[t] \in Over /\ tasks'[t] \notin Over}

Elsewhere ==
  \/ (Tick \/ Restart) /\ UNCHANGED localVars
  \/ /\ \E a \in Agent : AgentPings(a)
     /\ matched' = [s \in Scheduler |->
          [matched[s] EXCEPT !.revived = @ \cup (Passed(s) \cap Revived)]]
     /\ UNCHANGED <<program, step, hand, picks, reuse, where, todo, aim, book, file>>

SchedulersNext == Elsewhere \/ \E s \in Scheduler : Call(s)

SchedulersSpec == SchedulersInit /\ [][SchedulersNext]_schedVars
-----------------------------------------------------------------------------
SchedulersTypeOK ==
  /\ \A s \in Scheduler :
       /\ program[s] \in Programs
       /\ step[s] \in 0..Len(Script(s))
       /\ DOMAIN hand[s].left \subseteq Agent
       /\ \A v \in Search : picks[s][v] \subseteq DOMAIN hand[s].left
       /\ todo[s] \subseteq Task /\ aim[s] \in Task \cup {NoTask}
  /\ file \subseteq Search

(* What findAgents returns can be redeemed: whatever other searches have    *)
(* made of the same offers before and since, no program of the library asks *)
(* the master for more than it has offered, so that a refusal only ever     *)
(* means that the offer is too old or the master a new one; the program     *)
(* without the library asks for fixed amounts (framework.py 101-176,        *)
(* master.py 114-157).                                                      *)
FoundIsRedeemable ==
  \A s \in Scheduler, v \in Search : \A a \in picks[s][v] :
    program[s] # "file" /\ hand[s].epoch = restarts => ~TooMuch(s, v, a)

(* A reissue loses no task on the way: each one that matched when it began  *)
(* is over or has its kill on record when its turn has passed, although the *)
(* tasks are listed anew for each, and agents report in between whatever    *)
(* they like.  One way out is left: a task shown as over when its turn came *)
(* is not killed, and runs on when a later ping names it as running, as     *)
(* after a ping that was late (framework.py 178-211, db.py 81-85, 103-104). *)
MatchedAreKilled ==
  \A s \in Scheduler : matched[s].epoch = restarts =>
    \A t \in Passed(s) :
      \/ tasks[t] \in Over \/ t \in matched[s].revived
      \/ \E i \in 1..Len(killtasks) : killtasks[i] = t

(* Every task in the file of simple-camera/scheduler.py has been accepted,  *)
(* although runs of it overlap and overwrite each other's file (scheduler.py*)
(* 21-45, 76-91).                                                           *)
FileIsTrue ==
  \A v \in file : \E t \in submitted : FrameworkOf[t] = "file" /\ NameOf[t] = v
=============================================================================
