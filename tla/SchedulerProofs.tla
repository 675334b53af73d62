---------------------------- MODULE SchedulerProofs ----------------------------
(***************************************************************************)
(* Theorems about scheduler programs, for any number of runs of them and   *)
(* any offers, searches, refusals, reports and restarts of the master.     *)
(***************************************************************************)
EXTENDS Schedulers, MasterProofs

CallOK(call, n) ==
  /\ call[1] \in {"find", "select", "run", "each"} => call[2] \in Search
  /\ call[1] = "again" => call[2] \in 1..n
ScriptOK(script) ==
  /\ Len(script) \in Nat \ {0}
  /\ \A i \in 1..Len(script) : CallOK(script[i], Len(script))

Steps ==
  /\ program \in [Scheduler -> Programs]
  /\ step \in [Scheduler -> Nat]
  /\ \A s \in Scheduler : step[s] <= Len(Script(s))

\* What is left of an offer is part of it as long as its master lives.
HandHolds(s) ==
  /\ DOMAIN hand[s] = {"round", "epoch", "left"}
  /\ hand[s].epoch \in Nat /\ hand[s].epoch <= restarts
  /\ DOMAIN hand[s].left \subseteq Agent
  /\ hand[s].left = [a \in DOMAIN hand[s].left |-> hand[s].left[a]]
  /\ \A v \in Search : picks[s][v] \subseteq DOMAIN hand[s].left
  /\ \A a \in DOMAIN hand[s].left, r \in Resource :
       /\ hand[s].left[a][r] \in Nat
       /\ hand[s].epoch = restarts =>
            /\ hand[s].round \in 1..Len(offers)
            /\ hand[s].left[a][r] <= offers[hand[s].round].free[a][r]
HandsHold ==
  /\ DOMAIN hand = Scheduler /\ hand = [s \in Scheduler |-> hand[s]]
  /\ picks \in [Scheduler -> [Search -> SUBSET Agent]]
  /\ \A s \in Scheduler : HandHolds(s)

\* A name on a list of tasks is that of a task accepted.
IsTrue(v) == v \in Search /\ \E t \in submitted : FrameworkOf[t] = "file" /\ NameOf[t] = v
BooksAreTrue ==
  /\ DOMAIN book = Scheduler
  /\ \A s \in Scheduler : \A v \in book[s] : IsTrue(v)
  /\ \A v \in file : IsTrue(v)

OnRecord(t) == \E i \in 1..Len(killtasks) : killtasks[i] = t

\* Each task that matched is still to come, or over or brought back, or its kill
\* on record.
KillsReach(s) ==
  /\ DOMAIN matched[s] = {"tasks", "epoch", "revived"}
  /\ matched[s].epoch \in Nat /\ matched[s].epoch <= restarts
  /\ matched[s].epoch = restarts =>
       \A t \in matched[s].tasks :
         /\ t \in DOMAIN tasks /\ FrameworkOf[t] = program[s]
         /\ t \in todo[s] \/ t = aim[s] \/ tasks[t] \in Over \/ t \in matched[s].revived \/ OnRecord(t)
KillsAdvance ==
  /\ todo \in [Scheduler -> SUBSET submitted]
  /\ aim \in [Scheduler -> submitted \cup {NoTask}]
  /\ DOMAIN matched = Scheduler
  /\ \A s \in Scheduler : KillsReach(s)

SchedInv ==
  /\ MasterInv /\ Len(offers) <= MaxRounds
  /\ Steps /\ HandsHold /\ BooksAreTrue /\ KillsAdvance
-----------------------------------------------------------------------------
(* Searches and tasks are named where they are due, and the loop of         *)
(* map-reduce.py goes back to one of its calls.                             *)
LEMMA ScriptsFit ==
  ASSUME Steps, NEW s \in Scheduler
  PROVE  ScriptOK(Script(s))
<1>1. program[s] \in {"camera", "sensor", "profiler", "ddflow", "map-reduce", "file"}
  BY SchedulersAssumption DEF Steps
<1>2. ScriptOK(CameraScheduler)
  BY DEF CameraScheduler, ScriptOK, CallOK, Search
<1>3. ScriptOK(SensorScheduler)
  BY DEF SensorScheduler, ScriptOK, CallOK, Search
<1>4. ScriptOK(Profiler)
  BY DEF Profiler, ScriptOK, CallOK, Search
<1>5. ScriptOK(DDFlow)
  BY DEF DDFlow, ScriptOK, CallOK, Search
<1>6. ScriptOK(MapReduce)
  BY DEF MapReduce, ScriptOK, CallOK, Search
<1>7. ScriptOK(FileScheduler)
  BY DEF FileScheduler, ScriptOK, CallOK, Search
<1> QED BY <1>1, <1>2, <1>3, <1>4, <1>5, <1>6, <1>7 DEF Script

(* A program never leaves its script.                                       *)
LEMMA CallsFit ==
  ASSUME Steps, NEW s \in Scheduler, NEW op, At(s, op)
  PROVE  /\ step[s] \in 1..Len(Script(s))
         /\ op \in {"find", "select", "run", "each"} => Subject(s) \in Search
         /\ op = "again" => Subject(s) \in 1..Len(Script(s))
         /\ NextStep(s) \in 0..Len(Script(s)) /\ Unlisted(s) \in 0..Len(Script(s))
<1>1. ScriptOK(Script(s))
  BY ScriptsFit
<1>2. step[s] \in 1..Len(Script(s))
  BY <1>1 DEF At, Steps, ScriptOK
<1>3. \A i \in 0..Len(Script(s)) : After(s, i) \in 0..Len(Script(s))
  BY <1>1 DEF ScriptOK, After
<1>4. NextStep(s) \in 0..Len(Script(s)) /\ Unlisted(s) \in 0..Len(Script(s))
  BY <1>1, <1>2, <1>3 DEF ScriptOK, NextStep, Unlisted
<1> QED BY <1>1, <1>2, <1>4 DEF At, Subject, ScriptOK, CallOK

(* A request that is accepted is one of a fresh task of the program, by the *)
(* name of the search, for the agent of the offer (framework.py 221-283).   *)
LEMMA AcceptedIsRun ==
  ASSUME SchedInv, NEW s \in Scheduler, NEW v \in Search, NEW a \in picks[s][v], Accepted(s, v, a)
  PROVE  \E t \in Task, k \in 1..MaxRounds :
           RunTask(t, k, AgentOf[t]) /\ FrameworkOf[t] = program[s] /\ NameOf[t] = v
<1> DEFINE t == CHOOSE x \in Ids(s, v, a) : TRUE
<1>1. t \in Ids(s, v, a) /\ RunTask(t, hand[s].round, a)
  BY DEF Accepted
<1>2. a \in Agent /\ program[s] \in Programs
  BY DEF SchedInv, HandsHold, Steps
<1>3. t \in Task /\ FrameworkOf[t] = program[s] /\ NameOf[t] = v /\ AgentOf[t] = a
  <2>1. <<program[s], v, a>> \in Programs \X Search \X Agent
    BY <1>2
  <2>2. Requests[program[s], v, a] =
          {x \in Task : FrameworkOf[x] = program[s] /\ NameOf[x] = v /\ AgentOf[x] = a}
    BY <2>1 DEF Requests
  <2> QED BY <1>1, <2>2 DEF Ids
<1>4. hand[s].round \in 1..MaxRounds
  BY <1>1, MasterAssumption DEF RunTask, Redeemable, SchedInv, MasterInv, MasterTypeOK
<1> QED BY <1>1, <1>3, <1>4
-----------------------------------------------------------------------------
(* What the agents report is what an agent may report.                      *)
LEMMA PingsAreMasters ==
  ASSUME SchedInv, NEW a \in Agent, AgentPings(a)
  PROVE  MasterNext
<1> PICK resources \in Reportable, told \in SUBSET {t \in issued : AgentOf[t] = a} :
      \E reports \in [told -> Spoken] : GetPing(a, resources, reports)
  BY DEF AgentPings
<1> PICK reports \in [told -> Spoken] : GetPing(a, resources, reports)
  OBVIOUS
<1>1. reports \in [told -> ReportedState]
  BY SchedulersAssumption
<1>2. told \subseteq issued \cap TasksOn(a)
  BY DEF TasksOn, SchedInv, MasterInv, MasterTypeOK
<1>3. reports \in ReportsOver(issued \cap TasksOn(a))
  BY <1>1, <1>2 DEF ReportsOver
<1> QED BY <1>3 DEF MasterNext

(* A call that changes the tables is a handler called once (framework.py).  *)
LEMMA CallsAreMasters ==
  ASSUME SchedInv, NEW s \in Scheduler, Call(s)
  PROVE  [MasterNext]_masterVars
<1>1. CASE GetOffers(s)
  BY <1>1 DEF GetOffers, MasterNext
<1>2. ASSUME NEW v \in Search, NEW a \in picks[s][v], Accepted(s, v, a) PROVE MasterNext
  BY <1>2, AcceptedIsRun DEF MasterNext
<1>3. CASE Run(s)
  <2>1. Subject(s) \in Search
    BY <1>3, CallsFit DEF Run, SchedInv
  <2> QED BY <1>2, <1>3, <2>1 DEF Run, Refused
<1>4. CASE RunEach(s)
  <2>1. Subject(s) \in Search
    BY <1>4, CallsFit DEF RunEach, SchedInv
  <2> QED BY <1>2, <1>4, <2>1 DEF RunEach, Refused
<1>5. CASE PostKill(s)
  <2>1. aim[s] \in submitted
    BY <1>5 DEF PostKill, SchedInv, KillsAdvance
  <2> QED BY <1>5, <2>1 DEF PostKill, MasterNext
<1>6. CASE Look(s) \/ FindAgents(s) \/ Domain(s) \/ Again(s) \/ Match(s) \/ ListAgain(s)
           \/ LoadTasks(s) \/ Select(s) \/ DumpTasks(s)
  BY <1>6 DEF Look, FindAgents, Domain, Again, Match, ListAgain, LoadTasks, Select, DumpTasks
<1> QED BY <1>1, <1>3, <1>4, <1>5, <1>6 DEF Call

(* To the master a program is a client like any other (framework.py).       *)
LEMMA StepsOfMaster ==
  SchedInv /\ [SchedulersNext]_schedVars => [MasterNext]_masterVars
<1> SUFFICES ASSUME SchedInv, [SchedulersNext]_schedVars PROVE [MasterNext]_masterVars
  OBVIOUS
<1>1. CASE Elsewhere
  BY <1>1, PingsAreMasters DEF Elsewhere, MasterNext
<1>2. ASSUME NEW s \in Scheduler, Call(s) PROVE [MasterNext]_masterVars
  BY <1>2, CallsAreMasters
<1>3. CASE UNCHANGED schedVars
  BY <1>3 DEF schedVars
<1> QED BY <1>1, <1>2, <1>3 DEF SchedulersNext
-----------------------------------------------------------------------------
(* In the life of one master offers, tasks and kill requests only add up.   *)
\* What one master has taken in it keeps.
Grown ==
  /\ submitted \subseteq submitted' /\ restarts <= restarts'
  /\ restarts' = restarts =>
       /\ Len(offers) <= Len(offers')
       /\ \A k \in 1..Len(offers) : offers'[k] = offers[k]
       /\ DOMAIN tasks \subseteq DOMAIN tasks'
       /\ \A t \in Task : OnRecord(t) => OnRecord(t)'

LEMMA TablesGrow ==
  ASSUME MasterInv, [MasterNext]_masterVars
  PROVE  Grown
<1> USE DEF MasterInv, MasterTypeOK, Grown
<1>1. CASE Tick
  BY <1>1 DEF Tick, tables, OnRecord
<1>2. CASE Restart
  BY <1>2 DEF Restart
<1>3. CASE GetResourceOffer
  BY <1>3 DEF GetResourceOffer, OnRecord
<1>4. ASSUME NEW t \in Task, NEW k \in 1..MaxRounds, RunTask(t, k, AgentOf[t])
      PROVE  Grown
  BY <1>4 DEF RunTask, WithTask, OnRecord
<1>5. ASSUME NEW t \in submitted, KillTask(t) PROVE Grown
  <2>1. DOMAIN tasks \subseteq DOMAIN tasks' /\ UNCHANGED <<restarts, offers, submitted>>
    BY <1>5 DEF KillTask
  <2>2. /\ killtasks \in Seq(Task) /\ Len(killtasks) <= Len(killtasks')
        /\ \A i \in 1..Len(killtasks) : killtasks'[i] = killtasks[i]
    BY <1>5 DEF KillTask
  <2>3. \A x \in Task : OnRecord(x) => OnRecord(x)'
    BY <2>2 DEF OnRecord
  <2> QED BY <2>1, <2>3
<1>6. ASSUME NEW a \in Agent, NEW resources \in Reportable,
             NEW reports \in ReportsOver(issued \cap TasksOn(a)), GetPing(a, resources, reports)
      PROVE  Grown
  BY <1>6 DEF GetPing, TasksAfter, Issue, Refreshed, OnRecord
<1>7. CASE UNCHANGED masterVars
  BY <1>7 DEF masterVars, tables, OnRecord
<1> QED BY <1>1, <1>2, <1>3, <1>4, <1>5, <1>6, <1>7 DEF MasterNext

(* Only a request for offers makes more of them (master.py 29-100).         *)
LEMMA RoundsStayBounded ==
  ASSUME SchedInv, [MasterNext]_masterVars
  PROVE  Len(offers') <= MaxRounds
<1> USE MasterAssumption DEF SchedInv, MasterInv, MasterTypeOK
<1>1. CASE Tick
  BY <1>1 DEF Tick, tables
<1>2. CASE Restart
  BY <1>2 DEF Restart
<1>3. CASE GetResourceOffer
  BY <1>3 DEF GetResourceOffer
<1>4. ASSUME NEW t \in Task, NEW k \in 1..MaxRounds, RunTask(t, k, AgentOf[t])
      PROVE  UNCHANGED offers
  BY <1>4 DEF RunTask
<1>5. ASSUME NEW t \in submitted, KillTask(t) PROVE UNCHANGED offers
  BY <1>5 DEF KillTask
<1>6. ASSUME NEW a \in Agent, NEW resources \in Reportable,
             NEW reports \in ReportsOver(issued \cap TasksOn(a)), GetPing(a, resources, reports)
      PROVE  UNCHANGED offers
  BY <1>6 DEF GetPing
<1>7. CASE UNCHANGED masterVars
  BY <1>7 DEF masterVars, tables
<1> QED BY <1>1, <1>2, <1>3, <1>4, <1>5, <1>6, <1>7 DEF MasterNext

(* A program goes from one of its calls to the next, to the start of its    *)
(* loop, or to its end.                                                     *)
LEMMA StepsKept ==
  ASSUME SchedInv, [SchedulersNext]_schedVars
  PROVE  Steps'
<1>1. Steps
  BY DEF SchedInv
<1>2. UNCHANGED program
  BY DEF SchedulersNext, Elsewhere, Call, Look, GetOffers, FindAgents, Run, RunEach, Domain, Again,
         Match, ListAgain, PostKill, LoadTasks, Select, DumpTasks, schedVars, localVars
<1>3. UNCHANGED step \/ \E s \in Scheduler :
        \/ step' = [step EXCEPT ![s] = 0]
        \/ \E op : At(s, op) /\ step' = [step EXCEPT ![s] = NextStep(s)]
        \/ \E op : At(s, op) /\ step' = [step EXCEPT ![s] = Unlisted(s)]
        \/ At(s, "again") /\ step' = [step EXCEPT ![s] = Subject(s)]
  BY DEF SchedulersNext, Elsewhere, Call, Look, GetOffers, FindAgents, Run, RunEach, Domain, Again,
         Match, ListAgain, PostKill, LoadTasks, Select, DumpTasks, schedVars, localVars,
         Onward, PassOver, Ends
<1>4. \A s \in Scheduler : Len(Script(s)) \in Nat
  BY <1>1, ScriptsFit DEF ScriptOK
<1>5. \A s \in Scheduler : Script(s)' = Script(s)
  BY <1>2 DEF Script
<1>6. UNCHANGED step \/ \E s \in Scheduler : \E n \in 0..Len(Script(s)) : step' = [step EXCEPT ![s] = n]
  BY <1>1, <1>3, <1>4, CallsFit
<1> QED BY <1>1, <1>2, <1>4, <1>5, <1>6 DEF Steps

(* Only a ping brings back what is over: a kill leaves it alone, and a new  *)
(* task has a new id (db.py 87-110).                                        *)
Settle ==
  \A t \in DOMAIN tasks : restarts' = restarts /\ tasks[t] \in Over => tasks'[t] \in Over

LEMMA CallsSettle ==
  ASSUME SchedInv, NEW s \in Scheduler, Call(s)
  PROVE  Settle
<1> USE DEF SchedInv, MasterInv
<1>1. CASE UNCHANGED tasks
  BY <1>1 DEF Settle
<1>2. ASSUME NEW v, NEW a, Accepted(s, v, a) PROVE Settle
  <2> DEFINE t == CHOOSE t \in Ids(s, v, a) : TRUE
  <2>1. t \notin submitted /\ tasks' = WithTask(t)
    BY <1>2 DEF Accepted, RunTask
  <2>2. t \notin DOMAIN tasks
    BY <2>1 DEF OnlyAccepted
  <2> HIDE DEF t
  <2> QED BY <2>1, <2>2 DEF WithTask, Settle
<1>3. ASSUME NEW t, KillTask(t) PROVE Settle
  BY <1>3 DEF KillTask, Settle, Known, Over
<1>4. CASE UNCHANGED masterVars \/ GetResourceOffer
  BY <1>1, <1>4 DEF masterVars, tables, GetResourceOffer
<1>5. CASE PostKill(s)
  BY <1>3, <1>4, <1>5 DEF PostKill
<1> QED BY <1>2, <1>4, <1>5
        DEF Call, Look, GetOffers, FindAgents, Run, RunEach, Refused, Domain, Again, Match, ListAgain,
            LoadTasks, Select, DumpTasks
-----------------------------------------------------------------------------
(* A search leaves in an offer no more than was in it, and at least what it *)
(* looks for (framework.py 101-176).                                        *)
LEMMA TrimmedIsLess ==
  ASSUME NEW v \in Search, NEW amounts, NEW r \in Resource, amounts[r] \in Nat,
         r \in Named(v) => amounts[r] >= Want[v][r]
  PROVE  Trimmed(amounts, v)[r] \in Nat /\ Trimmed(amounts, v)[r] <= amounts[r]
<1>1. Want[v][r] \in Nat
  BY SchedulersAssumption
<1> QED BY <1>1 DEF Trimmed

\* Nothing a hand rests on is taken back, so it holds when it is not changed.
LEMMA HandsRest ==
  ASSUME SchedInv, [MasterNext]_masterVars, NEW s \in Scheduler,
         hand'[s] = hand[s], \A v \in Search : picks'[s][v] \subseteq picks[s][v]
  PROVE  HandHolds(s)'
<1>1. Grown /\ HandHolds(s)
  BY TablesGrow DEF SchedInv, HandsHold
<1>2. hand[s].epoch \in Nat /\ restarts \in Nat /\ restarts' \in Nat /\ Len(offers) \in Nat /\ Len(offers') \in Nat
  <2>1. MasterTypeOK /\ MasterTypeOK'
    BY TypesKept DEF SchedInv, MasterInv
  <2> QED BY <1>1, <2>1 DEF HandHolds, MasterTypeOK
<1>3. hand'[s].epoch = restarts' => hand[s].epoch = restarts /\ restarts' = restarts
  BY <1>1, <1>2 DEF Grown, HandHolds
<1> QED BY <1>1, <1>2, <1>3 DEF Grown, HandHolds

(* Searches take from a program's hand only what the master has put there.  *)
LEMMA HandsKept ==
  ASSUME SchedInv, [SchedulersNext]_schedVars
  PROVE  HandsHold'
<1>1. [MasterNext]_masterVars
  BY StepsOfMaster
<1>2. /\ DOMAIN hand = Scheduler /\ hand = [s \in Scheduler |-> hand[s]]
      /\ picks \in [Scheduler -> [Search -> SUBSET Agent]]
      /\ \A s \in Scheduler : HandHolds(s)
  BY DEF SchedInv, HandsHold
<1>3. ASSUME NEW s \in Scheduler, GetOffers(s) PROVE HandsHold'
  <2> DEFINE free == offers'[Len(offers')].free
             mine == {x \in Agent : \E r \in Resource : free[x][r] > 0}
  <2>1. MasterTypeOK'
    BY <1>1, TypesKept DEF SchedInv, MasterInv
  <2>2. Len(offers') = Len(offers) + 1 /\ Len(offers) \in Nat /\ restarts' = restarts /\ restarts \in Nat
    BY <1>3 DEF GetOffers, GetResourceOffer, SchedInv, MasterInv, MasterTypeOK
  <2>3. offers'[Len(offers')] \in Offer
    BY <2>1, <2>2 DEF MasterTypeOK
  <2>4. \A a \in Agent, r \in Resource : free[a][r] \in Nat
    BY <2>3 DEF Offer
  <2>5. hand' = [hand EXCEPT ![s] = [round |-> Len(offers'), epoch |-> restarts,
                                     left |-> [a \in mine |-> free[a]]]]
    BY <1>3 DEF GetOffers
  <2>6. picks' = [picks EXCEPT ![s] = [v \in Search |-> {}]]
    BY <1>3 DEF GetOffers
  <2>7. HandHolds(s)'
    <3>1. /\ DOMAIN hand'[s] = {"round", "epoch", "left"}
          /\ hand'[s].round = Len(offers') /\ hand'[s].epoch = restarts
          /\ hand'[s].left = [a \in mine |-> free[a]]
      BY <1>2, <2>5
    <3>2. mine \subseteq Agent /\ DOMAIN hand'[s].left = mine /\ \A a \in mine : hand'[s].left[a] = free[a]
      BY <3>1
    <3>3. \A v \in Search : picks'[s][v] = {}
      BY <1>2, <2>6
    <3>4. hand'[s].round \in 1..Len(offers')
      BY <2>2, <3>1
    <3>5. ASSUME NEW a \in mine, NEW r \in Resource
          PROVE  /\ hand'[s].left[a][r] \in Nat
                 /\ hand'[s].left[a][r] <= offers'[hand'[s].round].free[a][r]
      <4>1. hand'[s].left[a][r] = free[a][r] /\ offers'[hand'[s].round].free[a][r] = free[a][r]
        BY <3>1, <3>2
      <4> QED BY <2>4, <4>1
    <3>6. hand'[s].left = [a \in DOMAIN hand'[s].left |-> hand'[s].left[a]]
      BY <3>1
    <3> HIDE DEF free, mine
    <3> QED BY <2>2, <3>1, <3>2, <3>3, <3>4, <3>5, <3>6 DEF HandHolds
  <2>8. ASSUME NEW u \in Scheduler, u # s PROVE HandHolds(u)'
    BY <1>1, <1>2, <2>5, <2>6, <2>8, HandsRest
  <2> QED BY <1>2, <2>5, <2>6, <2>7, <2>8 DEF HandsHold
<1>4. ASSUME NEW s \in Scheduler, At(s, "find"), Subject(s) \in Search, UNCHANGED masterVars,
             picks' = [picks EXCEPT ![s][Subject(s)] = Found(s, Subject(s))],
             hand' = [hand EXCEPT ![s].left =
               [a \in DOMAIN @ |-> IF a \in Found(s, Subject(s)) THEN Trimmed(@[a], Subject(s)) ELSE @[a]]]
      PROVE  HandsHold'
  <2> DEFINE v == Subject(s)
             left == hand[s].left
  <2>1. /\ DOMAIN hand'[s] = {"round", "epoch", "left"}
        /\ hand'[s].round = hand[s].round /\ hand'[s].epoch = hand[s].epoch
        /\ hand'[s].left = [a \in DOMAIN left |-> IF a \in Found(s, v) THEN Trimmed(left[a], v) ELSE left[a]]
        /\ hand' = [u \in Scheduler |-> hand'[u]] /\ \A u \in Scheduler \ {s} : hand'[u] = hand[u]
    <3> DEFINE rest == [a \in DOMAIN left |-> IF a \in Found(s, v) THEN Trimmed(left[a], v) ELSE left[a]]
    <3>1. hand' = [hand EXCEPT ![s].left = rest]
      BY <1>4
    <3>2. DOMAIN hand = Scheduler /\ DOMAIN hand[s] = {"round", "epoch", "left"}
      BY <1>2 DEF HandHolds
    <3> HIDE DEF rest
    <3>3. /\ DOMAIN hand' = Scheduler /\ hand' = [u \in Scheduler |-> hand'[u]]
          /\ hand'[s] = [hand[s] EXCEPT !.left = rest] /\ \A u \in Scheduler \ {s} : hand'[u] = hand[u]
      BY <3>1, <3>2
    <3>4. /\ DOMAIN hand'[s] = {"round", "epoch", "left"} /\ hand'[s].left = rest
          /\ hand'[s].round = hand[s].round /\ hand'[s].epoch = hand[s].epoch
      BY <3>2, <3>3
    <3> QED BY <3>3, <3>4 DEF rest
  <2>2. Found(s, v) \subseteq DOMAIN left /\ DOMAIN left \subseteq Agent
    BY <1>2 DEF Found, HandHolds
  <2>3. /\ picks' \in [Scheduler -> [Search -> SUBSET Agent]]
        /\ \A u \in Scheduler, w \in Search :
             picks'[u][w] = IF u = s /\ w = v THEN Found(s, v) ELSE picks[u][w]
    BY <1>2, <1>4, <2>2
  <2>4. ASSUME NEW a \in DOMAIN left, NEW r \in Resource
        PROVE  hand'[s].left[a][r] \in Nat /\ hand'[s].left[a][r] <= left[a][r]
    <3>1. left[a][r] \in Nat
      BY <1>2 DEF HandHolds
    <3>2. a \in Found(s, v) => Trimmed(left[a], v)[r] \in Nat /\ Trimmed(left[a], v)[r] <= left[a][r]
      BY <1>4, <3>1, TrimmedIsLess DEF Found, Passes
    <3> QED BY <2>1, <3>1, <3>2
  <2>5. HandHolds(s)'
    <3>1. /\ DOMAIN hand'[s].left = DOMAIN left
          /\ hand'[s].left = [a \in DOMAIN hand'[s].left |-> hand'[s].left[a]]
      BY <2>1
    <3>2. UNCHANGED <<restarts, offers>>
      BY <1>4 DEF masterVars, tables
    <3>3. \A w \in Search : picks'[s][w] \subseteq DOMAIN left
      BY <1>2, <2>2, <2>3 DEF HandHolds
    <3>4. ASSUME NEW a \in DOMAIN left, NEW r \in Resource, hand[s].epoch = restarts
          PROVE  /\ hand[s].round \in 1..Len(offers)
                 /\ hand'[s].left[a][r] <= offers[hand[s].round].free[a][r]
      <4>1. /\ hand[s].round \in 1..Len(offers)
            /\ left[a][r] <= offers[hand[s].round].free[a][r] /\ left[a][r] \in Nat /\ a \in Agent
        BY <1>2, <2>2, <3>4 DEF HandHolds
      <4>2. offers[hand[s].round].free[a][r] \in Nat
        <5>1. offers[hand[s].round] \in Offer
          BY <4>1 DEF SchedInv, MasterInv, MasterTypeOK
        <5> QED BY <4>1, <5>1 DEF Offer
      <4> QED BY <2>4, <4>1, <4>2
    <3>5. /\ DOMAIN hand'[s] = {"round", "epoch", "left"} /\ hand'[s].round = hand[s].round
          /\ hand'[s].epoch = hand[s].epoch /\ hand[s].epoch \in Nat /\ hand[s].epoch <= restarts
      BY <1>2, <2>1 DEF HandHolds
    <3>6. DOMAIN hand'[s].left \subseteq Agent
      BY <2>2, <3>1
    <3>7. \A w \in Search : picks'[s][w] \subseteq DOMAIN hand'[s].left
      BY <3>1, <3>3
    <3>8. \A a \in DOMAIN hand'[s].left, r \in Resource :
            /\ hand'[s].left[a][r] \in Nat
            /\ hand[s].epoch = restarts =>
                 hand[s].round \in 1..Len(offers) /\ hand'[s].left[a][r] <= offers[hand[s].round].free[a][r]
      BY <2>4, <3>1, <3>4
    <3> HIDE DEF left
    <3> QED BY <3>1, <3>2, <3>5, <3>6, <3>7, <3>8 DEF HandHolds
  <2>6. ASSUME NEW u \in Scheduler, u # s PROVE HandHolds(u)'
    BY <1>1, <1>2, <2>1, <2>3, <2>6, HandsRest
  <2> QED BY <2>1, <2>3, <2>5, <2>6 DEF HandsHold
<1>5. ASSUME NEW s \in Scheduler, At(s, "select"), Subject(s) \in Search, UNCHANGED <<masterVars, hand>>,
             picks' = [picks EXCEPT ![s][Subject(s)] = Fit(s, Subject(s))]
      PROVE  HandsHold'
  <2> DEFINE v == Subject(s)
  <2>2. Fit(s, v) \subseteq DOMAIN hand[s].left /\ DOMAIN hand[s].left \subseteq Agent
    BY <1>2 DEF Fit, HandHolds
  <2>3. /\ picks' \in [Scheduler -> [Search -> SUBSET Agent]]
        /\ \A u \in Scheduler, w \in Search :
             picks'[u][w] = IF u = s /\ w = v THEN Fit(s, v) ELSE picks[u][w]
    BY <1>2, <1>5, <2>2
  <2>4. UNCHANGED <<restarts, offers>>
    BY <1>5 DEF masterVars, tables
  <2>5. ASSUME NEW u \in Scheduler PROVE HandHolds(u)'
    BY <1>2, <1>5, <2>2, <2>3, <2>4 DEF HandHolds
  <2> QED BY <1>2, <1>5, <2>3, <2>5 DEF HandsHold
<1>6. ASSUME UNCHANGED hand, picks' \in [Scheduler -> [Search -> SUBSET Agent]],
             \A s \in Scheduler, v \in Search : picks'[s][v] \subseteq picks[s][v]
      PROVE  HandsHold'
  <2>1. ASSUME NEW s \in Scheduler PROVE HandHolds(s)'
    BY <1>1, <1>6, HandsRest
  <2> QED BY <1>2, <1>6, <2>1 DEF HandsHold
<1>7. ASSUME NEW s \in Scheduler, Call(s) PROVE HandsHold'
  <2>1. CASE UNCHANGED <<hand, picks>>
    BY <1>2, <1>6, <2>1
  <2>2. CASE FindAgents(s)
    <3>1. At(s, "find") /\ Subject(s) \in Search
      BY <2>2, CallsFit DEF FindAgents, SchedInv
    <3> QED BY <1>4, <2>1, <2>2, <3>1 DEF FindAgents
  <2>3. CASE Select(s)
    <3>1. At(s, "select") /\ Subject(s) \in Search
      BY <2>3, CallsFit DEF Select, SchedInv
    <3> QED BY <1>5, <2>1, <2>3, <3>1 DEF Select
  <2>4. CASE RunEach(s)
    <3>1. UNCHANGED picks \/ \E a : picks' = [picks EXCEPT ![s][Subject(s)] = @ \ {a}]
      BY <2>4 DEF RunEach
    <3>2. /\ picks' \in [Scheduler -> [Search -> SUBSET Agent]]
          /\ \A u \in Scheduler, v \in Search : picks'[u][v] \subseteq picks[u][v]
      <4>1. CASE UNCHANGED picks
        BY <1>2, <4>1
      <4>2. ASSUME NEW a, picks' = [picks EXCEPT ![s][Subject(s)] = @ \ {a}]
            PROVE  /\ picks' \in [Scheduler -> [Search -> SUBSET Agent]]
                   /\ \A u \in Scheduler, v \in Search : picks'[u][v] \subseteq picks[u][v]
        <5>1. /\ DOMAIN picks' = Scheduler /\ picks' = [u \in Scheduler |-> picks'[u]]
              /\ \A u \in Scheduler : u # s => picks'[u] = picks[u]
              /\ picks'[s] = [picks[s] EXCEPT ![Subject(s)] = @ \ {a}]
          BY <1>2, <4>2
        <5>2. picks[s] \in [Search -> SUBSET Agent]
          BY <1>2
        <5>3. /\ picks'[s] \in [Search -> SUBSET Agent]
              /\ \A v \in Search : picks'[s][v] \subseteq picks[s][v]
          BY <5>1, <5>2
        <5> QED BY <1>2, <5>1, <5>3
      <4> QED BY <3>1, <4>1, <4>2
    <3> QED BY <1>6, <2>4, <3>2 DEF RunEach
  <2> QED BY <1>3, <1>7, <2>1, <2>2, <2>3, <2>4
          DEF Call, Look, Run, Domain, Again, Match, ListAgain, PostKill, LoadTasks, DumpTasks
<1>8. CASE UNCHANGED <<hand, picks>>
  BY <1>2, <1>6, <1>8
<1> QED BY <1>7, <1>8 DEF SchedulersNext, Elsewhere, schedVars, localVars
-----------------------------------------------------------------------------
(* What has been accepted stays accepted.                                   *)
LEMMA TruthStays ==
  ASSUME SchedInv, [MasterNext]_masterVars, NEW v, IsTrue(v)
  PROVE  IsTrue(v)'
BY TablesGrow DEF SchedInv, IsTrue, Grown

(* A name enters a list of tasks with its task, and a file from a list.     *)
LEMMA BooksKept ==
  ASSUME SchedInv, [SchedulersNext]_schedVars
  PROVE  BooksAreTrue'
<1>1. [MasterNext]_masterVars
  BY StepsOfMaster
<1>2. BooksAreTrue
  BY DEF SchedInv
<1>3. CASE UNCHANGED <<book, file>>
  BY <1>1, <1>2, <1>3, TruthStays DEF BooksAreTrue
<1>4. ASSUME NEW s \in Scheduler, LoadTasks(s) PROVE BooksAreTrue'
  <2>1. UNCHANGED file /\ \E names \in {file, {}} : book' = [book EXCEPT ![s] = names]
    BY <1>4 DEF LoadTasks
  <2> QED BY <1>1, <1>2, <2>1, TruthStays DEF BooksAreTrue
<1>5. ASSUME NEW s \in Scheduler, DumpTasks(s) PROVE BooksAreTrue'
  <2>1. UNCHANGED book /\ (file' = book[s] \/ file' = {})
    BY <1>5 DEF DumpTasks
  <2> QED BY <1>1, <1>2, <2>1, TruthStays DEF BooksAreTrue
<1>6. ASSUME NEW s \in Scheduler, Run(s) PROVE BooksAreTrue'
  <2> DEFINE v == Subject(s)
  <2>1. UNCHANGED file
    BY <1>6 DEF Run
  <2>2. v \in Search
    BY <1>6, CallsFit DEF Run, SchedInv
  <2>3. CASE UNCHANGED book
    BY <1>3, <2>1, <2>3
  <2>4. ASSUME book' = [book EXCEPT ![s] = book[s]] PROVE BooksAreTrue'
    <3>1. DOMAIN book' = Scheduler /\ \A u \in Scheduler : book'[u] = book[u]
      BY <1>2, <2>4 DEF BooksAreTrue
    <3> QED BY <1>1, <1>2, <2>1, <3>1, TruthStays DEF BooksAreTrue
  <2>5. ASSUME NEW a \in picks[s][v], Accepted(s, v, a), book' = [book EXCEPT ![s] = Booked(s, v, TRUE)]
        PROVE  BooksAreTrue'
    <3>1. CASE program[s] = "file"
      <4>1. ASSUME NEW w, w = v PROVE IsTrue(w)'
        <5>1. PICK t \in Task, k \in 1..MaxRounds :
                RunTask(t, k, AgentOf[t]) /\ FrameworkOf[t] = program[s] /\ NameOf[t] = v
          BY <2>2, <2>5, AcceptedIsRun
        <5>2. t \in submitted'
          BY <5>1 DEF RunTask
        <5> QED BY <2>2, <3>1, <4>1, <5>1, <5>2 DEF IsTrue
      <4>2. book' = [book EXCEPT ![s] = book[s] \cup {v}]
        BY <2>5, <3>1 DEF Booked
      <4>3. ASSUME NEW u \in Scheduler, NEW w \in book'[u] PROVE IsTrue(w)'
        <5>1. w = v \/ w \in book[u]
          BY <1>2, <4>2 DEF BooksAreTrue
        <5>2. w \in book[u] => IsTrue(w)
          BY <1>2 DEF BooksAreTrue
        <5> QED BY <1>1, <4>1, <5>1, <5>2, TruthStays
      <4>4. DOMAIN book' = Scheduler
        BY <1>2, <4>2 DEF BooksAreTrue
      <4>5. \A w \in file' : IsTrue(w)'
        BY <1>1, <1>2, <2>1, TruthStays DEF BooksAreTrue
      <4> QED BY <4>3, <4>4, <4>5 DEF BooksAreTrue
    <3>2. CASE program[s] # "file"
      <4>1. book' = [book EXCEPT ![s] = book[s]]
        BY <2>5, <3>2 DEF Booked
      <4> QED BY <2>4, <4>1
    <3> QED BY <3>1, <3>2
  <2>6. ASSUME book' = [book EXCEPT ![s] = Booked(s, v, FALSE)] PROVE BooksAreTrue'
    BY <2>6, <2>4 DEF Booked
  <2> QED BY <1>6, <2>3, <2>5, <2>6 DEF Run
<1>7. ASSUME NEW s \in Scheduler, Call(s) PROVE BooksAreTrue'
  BY <1>3, <1>4, <1>5, <1>6, <1>7
     DEF Call, Look, GetOffers, FindAgents, RunEach, Domain, Again, Match, ListAgain, PostKill, Select
<1> QED BY <1>3, <1>7 DEF SchedulersNext, Elsewhere, schedVars, localVars
-----------------------------------------------------------------------------
(* Whoever moves, a task that matched stays listed, until it is over, has   *)
(* its kill on record, or is brought back.                                  *)
LEMMA KillsRest ==
  ASSUME SchedInv, [MasterNext]_masterVars, NEW s \in Scheduler, UNCHANGED program,
         DOMAIN matched'[s] = DOMAIN matched[s],
         matched'[s].tasks = matched[s].tasks, matched'[s].epoch = matched[s].epoch,
         matched[s].revived \subseteq matched'[s].revived,
         \A t \in matched[s].tasks \cap DOMAIN tasks :
           matched[s].epoch = restarts /\ restarts' = restarts =>
             \/ t \in todo'[s] \/ t = aim'[s] \/ OnRecord(t)'
             \/ tasks'[t] \in Over \/ t \in matched'[s].revived
             \/ t \notin todo[s] /\ t # aim[s] /\ tasks[t] \notin Over
  PROVE  KillsReach(s)'
<1>1. Grown /\ KillsReach(s)
  BY TablesGrow DEF SchedInv, KillsAdvance
<1>2. restarts \in Nat /\ restarts' \in Nat /\ DOMAIN tasks \subseteq Task
  <2>1. MasterTypeOK /\ MasterTypeOK'
    BY TypesKept DEF SchedInv, MasterInv
  <2> QED BY <2>1 DEF MasterTypeOK
<1>3. matched'[s].epoch = restarts' => matched[s].epoch = restarts /\ restarts' = restarts
  BY <1>1, <1>2 DEF Grown, KillsReach
<1>4. /\ DOMAIN matched'[s] = {"tasks", "epoch", "revived"}
      /\ matched'[s].epoch \in Nat /\ matched'[s].epoch <= restarts'
  BY <1>1, <1>2 DEF Grown, KillsReach
<1>5. ASSUME matched'[s].epoch = restarts', NEW t \in matched'[s].tasks
      PROVE  /\ t \in DOMAIN tasks' /\ FrameworkOf[t] = program'[s]
             /\ \/ t \in todo'[s] \/ t = aim'[s] \/ tasks'[t] \in Over
                \/ t \in matched'[s].revived \/ OnRecord(t)'
  <2>1. /\ t \in matched[s].tasks /\ matched[s].epoch = restarts /\ restarts' = restarts
        /\ t \in DOMAIN tasks /\ FrameworkOf[t] = program[s]
        /\ t \in todo[s] \/ t = aim[s] \/ tasks[t] \in Over \/ t \in matched[s].revived \/ OnRecord(t)
    BY <1>1, <1>3, <1>5 DEF KillsReach
  <2>2. t \in DOMAIN tasks' /\ (OnRecord(t) => OnRecord(t)')
    BY <1>1, <1>2, <2>1 DEF Grown
  <2> QED BY <2>1, <2>2
<1> QED BY <1>4, <1>5 DEF KillsReach

(* A reissue drops a task only when it is no longer listed, which it always *)
(* is, or its kill has been posted (framework.py 178-211).                  *)
LEMMA KillsKept ==
  ASSUME SchedInv, [SchedulersNext]_schedVars
  PROVE  KillsAdvance'
<1>1. [MasterNext]_masterVars
  BY StepsOfMaster
<1>2. /\ todo \in [Scheduler -> SUBSET submitted] /\ aim \in [Scheduler -> submitted \cup {NoTask}]
      /\ DOMAIN matched = Scheduler /\ \A s \in Scheduler : KillsReach(s)
  BY DEF SchedInv, KillsAdvance
<1>3. submitted \subseteq submitted'
  BY <1>1, TablesGrow DEF SchedInv, Grown
<1>4. UNCHANGED program
  BY DEF SchedulersNext, Elsewhere, Call, Look, GetOffers, FindAgents, Run, RunEach, Domain, Again,
         Match, ListAgain, PostKill, LoadTasks, Select, DumpTasks, schedVars, localVars
<1>5. ASSUME todo' \in [Scheduler -> SUBSET submitted], aim' \in [Scheduler -> submitted \cup {NoTask}],
             DOMAIN matched' = Scheduler, \A s \in Scheduler : KillsReach(s)'
      PROVE  KillsAdvance'
  BY <1>3, <1>5 DEF KillsAdvance
<1>6. ASSUME Settle, UNCHANGED <<todo, aim, matched>> PROVE KillsAdvance'
  <2>1. ASSUME NEW s \in Scheduler PROVE KillsReach(s)'
    BY <1>1, <1>4, <1>6, KillsRest DEF Settle
  <2> QED BY <1>2, <1>5, <1>6, <2>1
<1>7. ASSUME NEW s \in Scheduler, Match(s) PROVE KillsAdvance'
  <2> DEFINE found == {t \in Own(s) : NameOf[t] = "map" /\ Live(t)}
  <2>1. /\ todo' = [todo EXCEPT ![s] = found] /\ UNCHANGED <<masterVars, aim>>
        /\ matched' = [matched EXCEPT ![s] = [tasks |-> found, epoch |-> restarts, revived |-> {}]]
    BY <1>7 DEF Match
  <2>2. found \subseteq DOMAIN tasks /\ found \subseteq submitted /\ \A t \in found : FrameworkOf[t] = program[s]
    BY DEF Own, SchedInv, MasterInv, OnlyAccepted
  <2>3. restarts \in Nat /\ UNCHANGED <<restarts, tasks, killtasks>>
    BY <2>1 DEF masterVars, tables, SchedInv, MasterInv, MasterTypeOK
  <2> HIDE DEF found
  <2>4. ASSUME NEW u \in Scheduler PROVE KillsReach(u)'
    BY <1>2, <1>4, <2>1, <2>2, <2>3 DEF KillsReach, OnRecord
  <2> QED BY <1>2, <1>5, <2>1, <2>2, <2>4
<1>8. ASSUME NEW s \in Scheduler, ListAgain(s) PROVE KillsAdvance'
  <2>1. UNCHANGED <<matched, masterVars>> /\ aim[s] = NoTask /\ Settle
    BY <1>8, CallsSettle DEF ListAgain, Call
  <2>2. CASE UNCHANGED <<todo, aim>>
    BY <1>6, <2>1, <2>2
  <2>3. ASSUME NEW t \in todo[s], todo' = [todo EXCEPT ![s] = @ \ {t}],
               aim' = [aim EXCEPT ![s] = IF StillListed(s, t) THEN t ELSE NoTask]
        PROVE  KillsAdvance'
    <3>1. /\ todo' \in [Scheduler -> SUBSET submitted] /\ aim' \in [Scheduler -> submitted \cup {NoTask}]
          /\ \A u \in Scheduler : u # s => todo'[u] = todo[u] /\ aim'[u] = aim[u]
          /\ todo'[s] = todo[s] \ {t} /\ aim'[s] = IF StillListed(s, t) THEN t ELSE NoTask
      BY <1>2, <2>3
    <3>2. ASSUME NEW x \in matched[s].tasks, matched[s].epoch = restarts
          PROVE  x # NoTask /\ (x = t => StillListed(s, t))
      BY <1>2, <3>2, TaskInfoAssumption DEF KillsReach, StillListed, Own, SchedInv, MasterInv, MasterTypeOK
    <3>3. KillsReach(s)'
      BY <1>1, <1>4, <2>1, <3>1, <3>2, KillsRest DEF Settle
    <3>4. ASSUME NEW u \in Scheduler, u # s PROVE KillsReach(u)'
      BY <1>1, <1>4, <2>1, <3>1, <3>4, KillsRest DEF Settle
    <3> QED BY <1>2, <1>5, <2>1, <3>1, <3>3, <3>4
  <2> QED BY <1>8, <2>2, <2>3 DEF ListAgain
<1>9. ASSUME NEW s \in Scheduler, PostKill(s) PROVE KillsAdvance'
  <2>1. UNCHANGED <<matched, todo>> /\ aim' = [aim EXCEPT ![s] = NoTask] /\ aim[s] # NoTask /\ Settle
    BY <1>9, CallsSettle DEF PostKill, Call
  <2>2. /\ aim' \in [Scheduler -> submitted \cup {NoTask}]
        /\ \A u \in Scheduler : u # s => aim'[u] = aim[u]
    BY <1>2, <2>1
  <2>3. ASSUME NEW t, t = aim[s] PROVE OnRecord(t)' \/ tasks[t] \in Over
    <3>1. CASE KillTask(t)
      <4>1. killtasks \in Seq(Task) /\ t \in Task
        BY <1>2, <2>1, <2>3 DEF SchedInv, MasterInv, MasterTypeOK
      <4>2. \/ killtasks' = killtasks /\ OnRecord(t)
            \/ killtasks' = Append(killtasks, t)
        BY <3>1 DEF KillTask, OnRecord
      <4>3. killtasks' = Append(killtasks, t) =>
              Len(killtasks) + 1 \in 1..Len(killtasks') /\ killtasks'[Len(killtasks) + 1] = t
        BY <4>1
      <4> QED BY <4>2, <4>3 DEF OnRecord
    <3> QED BY <1>9, <2>3, <3>1 DEF PostKill
  <2>4. KillsReach(s)'
    BY <1>1, <1>4, <2>1, <2>3, KillsRest DEF Settle
  <2>5. ASSUME NEW u \in Scheduler, u # s PROVE KillsReach(u)'
    BY <1>1, <1>4, <2>1, <2>2, <2>5, KillsRest DEF Settle
  <2> QED BY <1>2, <1>5, <2>1, <2>2, <2>4, <2>5
<1>10. ASSUME NEW s \in Scheduler, Call(s) PROVE KillsAdvance'
  <2>1. Settle
    BY <1>10, CallsSettle
  <2> QED BY <1>6, <1>7, <1>8, <1>9, <1>10, <2>1
          DEF Call, Look, GetOffers, FindAgents, Run, RunEach, Domain, Again, LoadTasks, Select, DumpTasks
<1>11. ASSUME NEW a \in Agent, AgentPings(a), UNCHANGED <<todo, aim>>,
              matched' = [s \in Scheduler |->
                [matched[s] EXCEPT !.revived = @ \cup (Passed(s) \cap Revived)]]
       PROVE  KillsAdvance'
  <2>1. ASSUME NEW s \in Scheduler PROVE KillsReach(s)'
    <3>1. /\ DOMAIN matched'[s] = DOMAIN matched[s]
          /\ matched'[s].tasks = matched[s].tasks /\ matched'[s].epoch = matched[s].epoch
          /\ matched'[s].revived = matched[s].revived \cup (Passed(s) \cap Revived)
      BY <1>2, <1>11 DEF KillsReach
    <3>2. ASSUME NEW t \in matched[s].tasks \cap DOMAIN tasks, restarts' = restarts, tasks[t] \in Over,
                 t \notin todo[s], t # aim[s]
          PROVE  tasks'[t] \in Over \/ t \in matched'[s].revived
      <4>1. t \in DOMAIN tasks'
        BY <1>1, <3>2, TablesGrow DEF SchedInv, Grown
      <4> QED BY <3>1, <3>2, <4>1 DEF Passed, Revived
    <3> QED BY <1>1, <1>4, <1>11, <3>1, <3>2, KillsRest
  <2> QED BY <1>2, <1>5, <1>11, <2>1
<1>12. CASE Elsewhere
  <2>1. CASE (Tick \/ Restart) /\ UNCHANGED localVars
    <3>1. Settle
      BY <2>1 DEF Tick, Restart, tables, Settle, SchedInv, MasterInv, MasterTypeOK
    <3> QED BY <1>6, <2>1, <3>1 DEF localVars
  <2> QED BY <1>11, <1>12, <2>1 DEF Elsewhere
<1>13. CASE UNCHANGED schedVars
  <2>1. Settle
    BY <1>13 DEF schedVars, masterVars, tables, Settle
  <2> QED BY <1>6, <1>13, <2>1 DEF schedVars, localVars
<1> QED BY <1>10, <1>12, <1>13 DEF SchedulersNext
-----------------------------------------------------------------------------
(* What a program holds is never more than the master has offered; what it  *)
(* has noted of its tasks is true; what it is to kill is in its loop.       *)
THEOREM SchedulersInvariance == SchedulersSpec => []SchedInv
<1>1. SchedulersInit => SchedInv
  <2> SUFFICES ASSUME SchedulersInit PROVE SchedInv
    OBVIOUS
  <2>1. MasterInv /\ Len(offers) <= MaxRounds
    BY MasterAssumption, MasterStartsWell DEF SchedulersInit, MasterInit
  <2>2. program \in [Scheduler -> Programs]
    BY SchedulersAssumption DEF SchedulersInit
  <2>3. Steps
    <3>1. ASSUME NEW s \in Scheduler PROVE 1 <= Len(Script(s))
      <4>1. program[s] \in {"camera", "sensor", "profiler", "ddflow", "map-reduce", "file"}
        BY <2>2, SchedulersAssumption
      <4> QED BY <4>1 DEF Script, CameraScheduler, SensorScheduler, Profiler, DDFlow, MapReduce, FileScheduler
    <3> QED BY <2>2, <3>1 DEF SchedulersInit, Steps
  <2>4. HandsHold
    BY DEF SchedulersInit, MasterInit, HandsHold, HandHolds, NoOffers
  <2>5. BooksAreTrue /\ KillsAdvance
    BY DEF SchedulersInit, MasterInit, BooksAreTrue, KillsAdvance, KillsReach
  <2> QED BY <2>1, <2>3, <2>4, <2>5 DEF SchedInv
<1>2. SchedInv /\ [SchedulersNext]_schedVars => SchedInv'
  <2> SUFFICES ASSUME SchedInv, [SchedulersNext]_schedVars PROVE SchedInv'
    OBVIOUS
  <2>1. [MasterNext]_masterVars
    BY StepsOfMaster
  <2>2. MasterInv'
    BY <2>1, TypesKept, HandlersKeepInv DEF SchedInv, MasterInv
  <2> QED BY <2>1, <2>2, RoundsStayBounded, StepsKept, HandsKept, BooksKept, KillsKept
          DEF SchedInv
<1> QED BY <1>1, <1>2, PTL DEF SchedulersSpec

(* Programs, whatever they run into and wherever they end, are clients the  *)
(* master's specification allows: what is proved of it holds for them       *)
(* (framework.py, master.py 29-215).                                        *)
THEOREM ProgramsUseTheMaster == SchedulersSpec => MasterSpec
<1>1. SchedulersInit => MasterInit
  BY DEF SchedulersInit
<1>2. SchedInv /\ [SchedulersNext]_schedVars => [MasterNext]_masterVars
  BY StepsOfMaster
<1> QED BY <1>1, <1>2, SchedulersInvariance, PTL DEF SchedulersSpec, MasterSpec

(* So the master keeps its promises to any number of programs, wherever     *)
(* they end (master.py 29-215).                                             *)
THEOREM ProgramsAreServed ==
  SchedulersSpec => /\ []NoOvertaking /\ []KillingIsOnRecord /\ []PongsFitPings
                    /\ OffersAreBacked /\ NeverHandedOutAgain
BY ProgramsUseTheMaster, HandedOutInOrder, KillsAreOnRecord, AnswersFit, OffersBacked, HandedOutForGood, PTL

(* Programs keep to their scripts, and everything else to its type.         *)
THEOREM SchedulersTyping == SchedulersSpec => []SchedulersTypeOK
<1>1. SchedInv => SchedulersTypeOK
  <2> SUFFICES ASSUME SchedInv PROVE SchedulersTypeOK
    OBVIOUS
  <2>1. ASSUME NEW s \in Scheduler
        PROVE  /\ program[s] \in Programs /\ step[s] \in 0..Len(Script(s))
               /\ DOMAIN hand[s].left \subseteq Agent /\ \A v \in Search : picks[s][v] \subseteq DOMAIN hand[s].left
               /\ todo[s] \subseteq Task /\ aim[s] \in Task \cup {NoTask}
    <3>1. program[s] \in Programs /\ step[s] \in Nat /\ step[s] <= Len(Script(s)) /\ Len(Script(s)) \in Nat
      BY ScriptsFit DEF SchedInv, Steps, ScriptOK
    <3>2. DOMAIN hand[s].left \subseteq Agent /\ \A v \in Search : picks[s][v] \subseteq DOMAIN hand[s].left
      BY DEF SchedInv, HandsHold, HandHolds
    <3>3. todo[s] \subseteq Task /\ aim[s] \in Task \cup {NoTask}
      BY DEF SchedInv, KillsAdvance, MasterInv, MasterTypeOK
    <3> QED BY <3>1, <3>2, <3>3
  <2>2. file \subseteq Search
    BY DEF SchedInv, BooksAreTrue, IsTrue
  <2> QED BY <2>1, <2>2 DEF SchedulersTypeOK
<1> QED BY <1>1, SchedulersInvariance, PTL

(* No request asks for more than the master has offered, for any searches   *)
(* in any order (framework.py 101-176, master.py 114-157).                  *)
THEOREM FoundCanBeRedeemed == SchedulersSpec => []FoundIsRedeemable
<1>1. SchedInv => FoundIsRedeemable
  <2> SUFFICES ASSUME SchedInv, NEW s \in Scheduler, NEW v \in Search, NEW a \in picks[s][v],
                      program[s] # "file", hand[s].epoch = restarts, NEW r \in Resource,
                      Asks(s, v, a)[r] > offers[hand[s].round].free[a][r]
               PROVE  FALSE
    BY DEF FoundIsRedeemable, TooMuch
  <2>1. a \in DOMAIN hand[s].left /\ a \in Agent
    BY DEF SchedInv, HandsHold, HandHolds
  <2>2. /\ hand[s].round \in 1..Len(offers) /\ hand[s].left[a][r] \in Nat
        /\ hand[s].left[a][r] <= offers[hand[s].round].free[a][r]
    BY <2>1 DEF SchedInv, HandsHold, HandHolds
  <2>3. offers[hand[s].round] \in Offer
    BY <2>2 DEF SchedInv, MasterInv, MasterTypeOK
  <2>4. offers[hand[s].round].free[a][r] \in Nat
    BY <2>1, <2>3 DEF Offer
  <2> QED BY <2>2, <2>4 DEF Asks
<1> QED BY <1>1, SchedulersInvariance, PTL

(* A reissue leaves no matched task behind, whatever the agents report and  *)
(* however late, but one that was shown as over when its turn came and that *)
(* a ping has brought back since (framework.py 178-211, db.py 81-85,        *)
(* 103-104).                                                                *)
THEOREM ReissuesMissNone == SchedulersSpec => []MatchedAreKilled
<1>1. SchedInv => MatchedAreKilled
  BY DEF SchedInv, KillsAdvance, KillsReach, MatchedAreKilled, Passed, OnRecord
<1> QED BY <1>1, SchedulersInvariance, PTL

(* The file of simple-camera/scheduler.py names accepted tasks only.        *)
THEOREM FilesStayTrue == SchedulersSpec => []FileIsTrue
<1>1. SchedInv => FileIsTrue
  BY DEF SchedInv, BooksAreTrue, IsTrue, FileIsTrue
<1> QED BY <1>1, SchedulersInvariance, PTL
=============================================================================
