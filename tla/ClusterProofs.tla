----------------------------- MODULE ClusterProofs -----------------------------
(***************************************************************************)
(* Theorems about a deployment of any size, with any number of exchanges   *)
(* given up, late requests, crashes and restarts.  The detailed system     *)
(* implements the master with its clients left open (MasterSpec) and the   *)
(* agents with their master left open (AgentSpec): what those promise of   *)
(* each other is what the invariant here says of the messages in between.  *)
(***************************************************************************)
EXTENDS Cluster, MasterProofs, AgentProofs, FiniteSetTheorems

\* The tasks the master has handed to an agent.
Handed(a) == issued \cap TasksOn(a)

\* An outcome that a report tells has happened.
Truthful(a, reports) ==
  \A t \in Of("DOCKER", DOMAIN reports) :
    reports[t] \in {"COMPLETED", "ERRORED"} => <<t, reports[t]>> \in ended[a]

\* A ping of agent a, on its way or late, tells of tasks handed to it.
PingKnows(a, reports) == reports \in ReportsOver(Handed(a)) /\ Truthful(a, reports)

\* An agent, its daemon and its file have no task but those handed to it.
TablesKnow(a) ==
  /\ DOMAIN db[a] \subseteq Handed(a) /\ saved[a] \subseteq Handed(a)
  /\ DOMAIN docker[a] \subseteq Handed(a) /\ modules[a] \subseteq Handed(a)

\* A ping tells of the agent's whole table, and what comes back to run is not
\* in it; what comes back to kill has been asked killed.
ExchangeKnows(a) ==
  /\ exchange[a].phase = "asked" =>
       PingKnows(a, exchange[a].reports) /\ DOMAIN exchange[a].reports = DOMAIN db[a]
  /\ exchange[a].phase = "answered" =>
       /\ exchange[a].pong.run \in (Handed(a) \ DOMAIN db[a]) \cup {NoTask}
       /\ exchange[a].pong.kill \in (killAsked \cap TasksOn(a)) \cup {NoTask}

\* How a container ended is what its status says.
StatusHappened(a) ==
  \A t \in DOMAIN docker[a] :
    /\ docker[a][t] = "exited0" => <<t, "COMPLETED">> \in ended[a]
    /\ docker[a][t] = "exited1" => <<t, "ERRORED">> \in ended[a]

AgentKnows(a) == TablesKnow(a) /\ ExchangeKnows(a) /\ StatusHappened(a)

LateKnow == \A ping \in late : ping[1] \in Agent /\ PingKnows(ping[1], ping[2])

KillsWereAsked ==
  killAsked \subseteq Task /\ \A i \in 1..Len(killtasks) : killtasks[i] \in killAsked

\* There is an exchange under way only while the process is in the loop.
LoopExchanges ==
  \A a \in Agent : exchange[a].phase # "closed" => pc[a] \in {"waiting", "launching"}

Knowledge ==
  /\ \A a \in Agent : AgentKnows(a)
  /\ LateKnow /\ KillsWereAsked /\ LoopExchanges /\ giveUps \in Nat

ClusterInv ==
  MasterInv /\ AgentInv /\ Knowledge /\ OnlyRequestedKills /\ OutcomesHappened
-----------------------------------------------------------------------------
(* A pong names a task that waits to be handed to the agent and that the    *)
(* ping does not tell of, and one whose kill is on record (db.py 129-146).  *)
LEMMA PongsAreKnown ==
  ASSUME MasterInv, KillsWereAsked, NEW a \in Agent, NEW reports,
         DOMAIN reports \subseteq Task, reports \in [DOMAIN reports -> ReportedState]
  PROVE  LET pong == Pong(a, reports) IN
         /\ pong \in PongTo(a)
         /\ pong.run \in (TasksOn(a) \ DOMAIN reports) \cup {NoTask}
         /\ pong.kill \in (killAsked \cap TasksOn(a)) \cup {NoTask}
<1> DEFINE table == Refreshed(a, reports)
           run == NextTask(a, table)
           kill == NextKill(a, TasksAfter(a, reports))
<1>1. run \in (TasksOn(a) \ DOMAIN reports) \cup {NoTask}
  <2>1. ASSUME run # NoTask PROVE run \in TasksOn(a) /\ run \notin DOMAIN reports
    <3>1. run \in Task /\ AgentOf[run] = a /\ table[run] \in {"UNISSUED", "ISSUED"}
      BY <2>1, NextTaskWaits DEF MasterInv, MasterTypeOK
    <3> HIDE DEF run
    <3>2. run \notin DOMAIN reports
      BY <3>1 DEF Refreshed, Reported, ReportedState
    <3> QED BY <3>1, <3>2 DEF TasksOn
  <2> QED BY <2>1
<1>2. kill \in (killAsked \cap TasksOn(a)) \cup {NoTask}
  BY FirstInFinds DEF MasterInv, MasterTypeOK, KillsWereAsked, NextKill, InState, TasksOn
<1>3. Pong(a, reports) = [run |-> run, kill |-> kill]
  BY DEF Pong
<1> HIDE DEF run, kill
<1> QED BY <1>1, <1>2, <1>3 DEF PongTo

(* A report over some tasks is one over more of them.                       *)
LEMMA ReportsAreOver ==
  ASSUME NEW S, NEW reports \in ReportsOver(S)
  PROVE  /\ DOMAIN reports \subseteq S /\ reports \in [DOMAIN reports -> ReportedState]
         /\ \A T : S \subseteq T => reports \in ReportsOver(T)
BY DEF ReportsOver

(* What a ping tells stays true as the master hands out more and as more    *)
(* containers end.                                                          *)
LEMMA PingStaysKnown ==
  ASSUME NEW a \in Agent, NEW reports, PingKnows(a, reports),
         issued \subseteq issued', ended[a] \subseteq ended'[a]
  PROVE  PingKnows(a, reports)'
<1>1. Handed(a) \subseteq Handed(a)'
  BY DEF Handed
<1> QED BY <1>1, ReportsAreOver DEF PingKnows, Truthful

(* Nothing an agent knows is disturbed by what happens elsewhere.           *)
LEMMA OthersKnow ==
  ASSUME NEW a \in Agent, AgentKnows(a), issued \subseteq issued', killAsked \subseteq killAsked',
         ended[a] \subseteq ended'[a], db'[a] = db[a], saved'[a] = saved[a], docker'[a] = docker[a],
         modules'[a] \subseteq modules[a], exchange'[a] = exchange[a] \/ exchange'[a] = Closed
  PROVE  AgentKnows(a)'
<1>1. Handed(a) \subseteq Handed(a)'
  BY DEF Handed
<1>2. TablesKnow(a)' /\ StatusHappened(a)'
  BY <1>1 DEF AgentKnows, TablesKnow, StatusHappened
<1>3. ExchangeKnows(a)'
  <2>1. CASE exchange'[a] = Closed
    BY <2>1 DEF ExchangeKnows, Closed
  <2>2. CASE exchange'[a] = exchange[a]
    BY <1>1, <2>2, PingStaysKnown DEF AgentKnows, ExchangeKnows
  <2> QED BY <2>1, <2>2
<1> QED BY <1>2, <1>3 DEF AgentKnows
-----------------------------------------------------------------------------
(* What each step of an agent does with what it knows.                      *)
LEMMA LoadKnows ==
  ASSUME AgentInv, Knowledge, NEW a \in Agent, Load(a), UNCHANGED <<issued, killAsked>>
  PROVE  AgentKnows(a)'
<1>1. /\ db'[a] = LoadedTable(a) /\ exchange'[a].phase = "closed"
      /\ UNCHANGED <<saved, docker, modules, ended>>
  BY DEF Load, LoopExchanges, Knowledge, AgentInv, AgentTypeOK, wasmVars
<1> QED BY <1>1 DEF Knowledge, AgentKnows, TablesKnow, ExchangeKnows, StatusHappened, LoadedTable,
            Handed

LEMMA EstablishKnows ==
  ASSUME AgentInv, Knowledge, NEW a \in Agent, Establish(a), UNCHANGED <<issued, killAsked>>
  PROVE  AgentKnows(a)'
<1>1. /\ docker'[a] = [t \in Running(a) |-> "running"] /\ modules'[a] = {}
      /\ UNCHANGED <<db, saved, exchange, ended>>
  BY DEF Establish, AgentInv, AgentTypeOK
<1>2. exchange[a].phase = "closed"
  BY DEF Establish, LoopExchanges, Knowledge
<1> QED BY <1>1, <1>2 DEF Knowledge, AgentKnows, TablesKnow, ExchangeKnows, StatusHappened,
            Running, Handed

LEMMA SendPingKnows ==
  ASSUME AgentInv, Knowledge, NEW a \in Agent, SendPing(a), UNCHANGED <<issued, killAsked>>
  PROVE  AgentKnows(a)'
<1>1. /\ db'[a] = Statuses(a) /\ saved'[a] = ToSave(Statuses(a)) /\ exchange'[a] = Asked(Statuses(a))
      /\ UNCHANGED <<docker, modules, ended>> /\ Statable(a) /\ AgentTypeOK
  BY DEF SendPing, AgentInv, AgentTypeOK, wasmVars
<1>2. DOMAIN Statuses(a) = DOMAIN db[a] /\ DOMAIN db[a] \subseteq Handed(a)
  BY DEF Statuses, Knowledge, AgentKnows, TablesKnow
<1>3. Statuses(a) \in [DOMAIN db[a] -> ReportedState]
  BY <1>1, <1>2, StatusesAreTyped, TablesAreDicts, ReportsAreOver
<1>4. Statuses(a) \in ReportsOver(Handed(a))
  BY <1>2, <1>3 DEF ReportsOver
<1>5. Truthful(a, Statuses(a))
  <2>1. ASSUME NEW t \in Of("DOCKER", DOMAIN Statuses(a)), Statuses(a)[t] \in {"COMPLETED", "ERRORED"}
        PROVE  <<t, Statuses(a)[t]>> \in ended[a]
    <3>1. t \in DOMAIN docker[a] /\ Statuses(a)[t] = StatusOf(docker[a][t])
      BY <1>1, <1>2 DEF Statuses, Statable, Of
    <3>2. docker[a][t] \in ContainerStatus
      BY <1>1, <3>1, RunningAreTasks
    <3>3. \/ docker[a][t] = "exited0" /\ Statuses(a)[t] = "COMPLETED"
          \/ docker[a][t] = "exited1" /\ Statuses(a)[t] = "ERRORED"
      BY <2>1, <3>1, <3>2 DEF StatusOf, ContainerStatus
    <3> QED BY <3>1, <3>3 DEF Knowledge, AgentKnows, StatusHappened
  <2> QED BY <2>1 DEF Truthful
<1> PICK reports : reports = Statuses(a)
  OBVIOUS
<1>6. exchange'[a].phase = "asked" /\ exchange'[a].reports = reports
  BY <1>1 DEF Asked
<1>7. Handed(a)' = Handed(a) /\ Truthful(a, reports)'
  BY <1>1, <1>5 DEF Handed, Truthful
<1>8. ToSave(reports) \subseteq DOMAIN db[a]
  BY <1>2 DEF ToSave
<1>9. TablesKnow(a)' /\ StatusHappened(a)'
  BY <1>1, <1>2, <1>7, <1>8 DEF Knowledge, AgentKnows, TablesKnow, StatusHappened
<1>10. ExchangeKnows(a)'
  BY <1>1, <1>2, <1>4, <1>6, <1>7 DEF ExchangeKnows, PingKnows
<1> QED BY <1>9, <1>10 DEF AgentKnows

(* A container that ends, by itself or killed.                              *)
LEMMA EndKnows ==
  ASSUME AgentInv, Knowledge, NEW a \in Agent, NEW t \in Running(a),
         NEW status \in {"exited0", "exited1", "exited137"},
         docker' = [docker EXCEPT ![a][t] = status],
         ended' = [ended EXCEPT ![a] = @ \cup {<<t, StatusOf(status)>>}],
         UNCHANGED <<db, saved, modules, exchange, issued, killAsked>>
  PROVE  AgentKnows(a)'
<1>1. /\ t \in DOMAIN docker[a] /\ DOMAIN docker'[a] = DOMAIN docker[a] /\ docker'[a][t] = status
      /\ \A x \in DOMAIN docker[a] \ {t} : docker'[a][x] = docker[a][x]
      /\ ended'[a] = ended[a] \cup {<<t, StatusOf(status)>>}
  BY DEF AgentInv, AgentTypeOK, Running
<1>2. StatusOf("exited0") = "COMPLETED" /\ StatusOf("exited1") = "ERRORED"
  BY DEF StatusOf
<1>3. TablesKnow(a)'
  BY <1>1 DEF Knowledge, AgentKnows, TablesKnow, Handed
<1>4. StatusHappened(a)'
  BY <1>1, <1>2 DEF Knowledge, AgentKnows, StatusHappened
<1>5. ExchangeKnows(a)'
  BY <1>1, PingStaysKnown DEF Knowledge, AgentKnows, ExchangeKnows, Handed
<1> QED BY <1>3, <1>4, <1>5 DEF AgentKnows

LEMMA HandleRunKnows ==
  ASSUME AgentInv, Knowledge, NEW a \in Agent, HandleRun(a), UNCHANGED <<issued, killAsked>>
  PROVE  AgentKnows(a)'
<1> DEFINE t == exchange[a].pong.run
<1>1. t \in Handed(a) \cup {NoTask}
  BY DEF HandleRun, AgentInv, PongInHand, Knowledge, AgentKnows, ExchangeKnows
<1>2. Storable(a, t) => t \in Handed(a)
  BY <1>1 DEF Storable
<1>3. Storable(a, t) => /\ DOMAIN Stored(a, t) \subseteq Handed(a)
                        /\ ToSave(Stored(a, t)) \subseteq Handed(a)
  BY <1>2 DEF Stored, ToSave, Knowledge, AgentKnows, TablesKnow
<1>4. Handed(a)' = Handed(a) /\ ended' = ended /\ exchange'[a].phase = "closed"
  BY DEF HandleRun, Handed, Raise, Gone, Closed, AgentInv, AgentTypeOK
<1>5. db'[a] = db[a] \/ db'[a] = None \/ (Storable(a, t) /\ db'[a] = Stored(a, t))
  BY DEF HandleRun, Raise, Gone, AgentInv, AgentTypeOK
<1>6. saved'[a] = saved[a] \/ (Storable(a, t) /\ saved'[a] = ToSave(Stored(a, t)))
  BY DEF HandleRun, AgentInv, AgentTypeOK
<1>7. modules'[a] \subseteq modules[a] \cup Handed(a)
  BY <1>2 DEF HandleRun, LoadModule, AgentInv, AgentTypeOK
<1>8. /\ DOMAIN docker'[a] \subseteq DOMAIN docker[a] \cup Handed(a)
      /\ \A x \in DOMAIN docker'[a] :
           docker'[a][x] = "running" \/ (x \in DOMAIN docker[a] /\ docker'[a][x] = docker[a][x])
  <2> DEFINE more == [x \in DOMAIN docker[a] \cup {t} |-> IF x = t THEN "running" ELSE docker[a][x]]
  <2>1. docker' = docker \/ (Storable(a, t) /\ docker' = [docker EXCEPT ![a] = more])
    BY DEF HandleRun, Launch
  <2>2. CASE docker' = docker
    BY <2>2
  <2>3. CASE Storable(a, t) /\ docker' = [docker EXCEPT ![a] = more]
    <3>1. docker'[a] = more
      BY <2>3 DEF AgentInv, AgentTypeOK
    <3> QED BY <1>2, <2>3, <3>1
  <2> QED BY <2>1, <2>2, <2>3
<1> HIDE DEF t
<1>9. TablesKnow(a)'
  BY <1>3, <1>4, <1>5, <1>6, <1>7, <1>8 DEF Knowledge, AgentKnows, TablesKnow, None
<1>10. StatusHappened(a)'
  BY <1>4, <1>8 DEF Knowledge, AgentKnows, StatusHappened
<1> QED BY <1>4, <1>9, <1>10 DEF AgentKnows, ExchangeKnows

(* A process that is gone leaves the daemon, the file and the history.      *)
LEMMA GoneKnows ==
  ASSUME AgentInv, Knowledge, NEW a \in Agent, Gone(a), UNCHANGED <<docker, ended, issued, killAsked>>,
         saved'[a] \subseteq saved[a], modules'[a] \subseteq modules[a]
  PROVE  AgentKnows(a)'
<1>1. db'[a] = None /\ exchange'[a].phase = "closed" /\ Handed(a)' = Handed(a)
  BY DEF Gone, AgentInv, AgentTypeOK, Closed, Handed
<1> QED BY <1>1 DEF Knowledge, AgentKnows, TablesKnow, ExchangeKnows, StatusHappened, None
-----------------------------------------------------------------------------
(* No step of an agent unmakes an end of a container.                       *)
LEMMA EndsStay ==
  ASSUME AgentInv, [AgentNext]_agentVars, NEW b \in Agent
  PROVE  ended[b] \subseteq ended'[b]
<1> USE DEF AgentInv, AgentTypeOK
<1>1. ASSUME NEW a \in Agent, HandleKill(a) PROVE ended[b] \subseteq ended'[b]
  BY <1>1 DEF HandleKill
<1>2. ASSUME NEW a \in Agent, NEW t \in Task, ContainerEnds(a, t)
      PROVE  ended[b] \subseteq ended'[b]
  BY <1>2 DEF ContainerEnds
<1>3. CASE UNCHANGED ended
  BY <1>3
<1> QED BY <1>1, <1>2, <1>3 DEF AgentNext, AgentStep, agentVars, GiveUp, Load, Establish, SendPing,
           StatusRaises, HandleRun, Crash, CrashInSave, RuntimeServes, RuntimeEnds, Answer

(* An exchange ends with the process and with the turn of the loop.         *)
LEMMA LoopExchangesStay ==
  AgentInv /\ LoopExchanges /\ [AgentNext]_agentVars => LoopExchanges'
<1> SUFFICES ASSUME AgentInv, LoopExchanges, [AgentNext]_agentVars PROVE LoopExchanges'
  OBVIOUS
<1> USE DEF AgentInv, AgentTypeOK, LoopExchanges
<1>1. CASE UNCHANGED <<pc, exchange>>
  BY <1>1
<1>2. ASSUME NEW S \in SUBSET Agent, GiveUp(S) PROVE LoopExchanges'
  BY <1>2 DEF GiveUp, Closed
<1>3. ASSUME NEW a \in Agent, Load(a) \/ Establish(a) PROVE LoopExchanges'
  BY <1>3 DEF Load, Establish
<1>4. ASSUME NEW a \in Agent, SendPing(a) PROVE LoopExchanges'
  BY <1>4 DEF SendPing
<1>5. ASSUME NEW a \in Agent, Gone(a) PROVE LoopExchanges'
  BY <1>5 DEF Gone, Closed
<1>6. ASSUME NEW a \in Agent, HandleKill(a) PROVE LoopExchanges'
  BY <1>5, <1>6 DEF HandleKill, Raise
<1>7. ASSUME NEW a \in Agent, HandleRun(a) PROVE LoopExchanges'
  BY <1>5, <1>7 DEF HandleRun, Raise, Closed
<1>8. ASSUME NEW a \in Agent, NEW pong \in PongTo(a), Answer(a, pong) PROVE LoopExchanges'
  BY <1>8 DEF Answer
<1> QED BY <1>1, <1>2, <1>3, <1>4, <1>5, <1>6, <1>7, <1>8
        DEF AgentNext, AgentStep, agentVars, StatusRaises, Raise, Crash, CrashInSave, Stopped,
            RuntimeServes, RuntimeEnds, ContainerEnds

(* Steps of one agent, while the master does nothing.                       *)
OwnStep(a) ==
  \/ AgentStep(a) \/ Crash(a) \/ CrashInSave(a)
  \/ RuntimeServes(a) \/ RuntimeEnds(a) \/ \E t \in Task : ContainerEnds(a, t)

LEMMA OwnStepLeavesOthers ==
  ASSUME AgentInv, NEW a \in Agent, NEW b \in Agent \ {a}, OwnStep(a)
  PROVE  /\ db'[b] = db[b] /\ saved'[b] = saved[b] /\ docker'[b] = docker[b]
         /\ modules'[b] = modules[b] /\ exchange'[b] = exchange[b] /\ ended'[b] = ended[b]
         /\ pc'[b] = pc[b] /\ boots'[b] = boots[b]
<1> USE DEF AgentInv, AgentTypeOK
<1> DEFINE Same == /\ db'[b] = db[b] /\ saved'[b] = saved[b] /\ docker'[b] = docker[b]
                   /\ modules'[b] = modules[b] /\ exchange'[b] = exchange[b] /\ ended'[b] = ended[b]
                   /\ pc'[b] = pc[b] /\ boots'[b] = boots[b]
<1>1. CASE Load(a) \/ Establish(a) \/ SendPing(a)
  BY <1>1 DEF Load, Establish, SendPing, wasmVars
<1>2. CASE StatusRaises(a) \/ Crash(a) \/ CrashInSave(a)
  BY <1>2 DEF StatusRaises, Raise, Gone, Crash, CrashInSave, Stopped
<1>3. CASE HandleKill(a)
  BY <1>3 DEF HandleKill, Raise, Gone, wasmVars
<1>4. CASE HandleRun(a)
  <2>1. /\ UNCHANGED ended /\ db'[b] = db[b] /\ saved'[b] = saved[b] /\ exchange'[b] = exchange[b]
        /\ pc'[b] = pc[b] /\ UNCHANGED boots
    BY <1>4 DEF HandleRun, Raise, Gone
  <2>2. docker'[b] = docker[b] /\ modules'[b] = modules[b]
    BY <1>4 DEF HandleRun, Launch, LoadModule
  <2> QED BY <2>1, <2>2
<1>5. CASE RuntimeServes(a) \/ RuntimeEnds(a)
  BY <1>5 DEF RuntimeServes, RuntimeEnds
<1>6. ASSUME NEW t \in Task, ContainerEnds(a, t) PROVE Same
  BY <1>6 DEF ContainerEnds, wasmVars
<1> QED BY <1>1, <1>2, <1>3, <1>4, <1>5, <1>6 DEF OwnStep, AgentStep

LEMMA OwnStepKnows ==
  ASSUME AgentInv, Knowledge, NEW a \in Agent, OwnStep(a), UNCHANGED <<issued, killAsked>>
  PROVE  \A b \in Agent : AgentKnows(b)'
<1> USE DEF AgentInv, AgentTypeOK
<1>1. ASSUME NEW b \in Agent \ {a} PROVE AgentKnows(b)'
  BY OwnStepLeavesOthers, OthersKnow DEF Knowledge
<1>2. ASSUME StatusRaises(a) \/ Crash(a) \/ CrashInSave(a) PROVE AgentKnows(a)'
  BY <1>2, GoneKnows DEF StatusRaises, Raise, Crash, CrashInSave, Stopped
<1>3. ASSUME HandleKill(a) PROVE AgentKnows(a)'
  <2>1. CASE UNCHANGED <<db, saved, handles, docker, wasmVars, exchange, boots, raised, ended>>
    BY <2>1, OthersKnow DEF Knowledge, wasmVars
  <2>2. CASE Raise(a) /\ UNCHANGED <<saved, docker, runtime, modules, boots, ended>>
    BY <2>2, GoneKnows DEF Raise
  <2>3. ASSUME NEW t \in Running(a), docker' = [docker EXCEPT ![a][t] = "exited137"],
               ended' = [ended EXCEPT ![a] = @ \cup {<<t, "KILLED">>}],
               UNCHANGED <<db, saved, modules, exchange>>
        PROVE  AgentKnows(a)'
    <3>1. StatusOf("exited137") = "KILLED"
      BY DEF StatusOf
    <3> QED BY <2>3, <3>1, EndKnows
  <2> QED BY <1>3, <2>1, <2>2, <2>3 DEF HandleKill, wasmVars
<1>4. ASSUME NEW t \in Task, ContainerEnds(a, t) PROVE AgentKnows(a)'
  <2>1. PICK status \in {"exited0", "exited1"} :
          /\ docker' = [docker EXCEPT ![a][t] = status]
          /\ ended' = [ended EXCEPT ![a] = @ \cup {<<t, StatusOf(status)>>}]
    BY <1>4 DEF ContainerEnds
  <2>2. t \in Running(a) /\ UNCHANGED <<db, saved, modules, exchange>>
    BY <1>4 DEF ContainerEnds, wasmVars
  <2> QED BY <2>1, <2>2, EndKnows
<1>5. ASSUME RuntimeServes(a) \/ RuntimeEnds(a) PROVE AgentKnows(a)'
  BY <1>5, OthersKnow DEF RuntimeServes, RuntimeEnds, Knowledge
<1>6. AgentKnows(a)'
  BY <1>2, <1>3, <1>4, <1>5, LoadKnows, EstablishKnows, SendPingKnows, HandleRunKnows
     DEF OwnStep, AgentStep
<1> QED BY <1>1, <1>6
-----------------------------------------------------------------------------
(* A step of the deployment is one of the master, or a stutter, and one of  *)
(* the agents, or a stutter: a ping tells of tasks that were handed out, a  *)
(* pong names tasks of its agent.                                           *)
LEMMA PongAnswers ==
  ASSUME ClusterInv, NEW a \in Agent, exchange[a].phase = "asked"
  PROVE  LET pong == Pong(a, exchange[a].reports) IN
         /\ exchange[a].reports \in ReportsOver(issued \cap TasksOn(a))
         /\ pong \in PongTo(a)
         /\ pong.run \in (TasksOn(a) \ DOMAIN db[a]) \cup {NoTask}
         /\ pong.kill \in (killAsked \cap TasksOn(a)) \cup {NoTask}
<1> PICK reports : reports = exchange[a].reports
  OBVIOUS
<1>1. /\ PingKnows(a, reports) /\ DOMAIN reports = DOMAIN db[a]
      /\ MasterInv /\ KillsWereAsked
  BY DEF ClusterInv, Knowledge, AgentKnows, ExchangeKnows
<1>2. reports \in ReportsOver(issued \cap TasksOn(a))
  BY <1>1 DEF PingKnows, Handed
<1>3. DOMAIN reports \subseteq Task /\ reports \in [DOMAIN reports -> ReportedState]
  BY <1>2, ReportsAreOver DEF TasksOn
<1> QED BY <1>1, <1>2, <1>3, PongsAreKnown

LEMMA StepsOfBoth ==
  ASSUME ClusterInv, [Next]_vars
  PROVE  [MasterNext]_masterVars /\ [AgentNext]_agentVars
<1>1. ASSUME NEW a \in Agent, NEW resources \in Reportable, ServePing(a, resources)
      PROVE  MasterNext /\ AgentNext
  BY <1>1, PongAnswers DEF ServePing, MasterNext, AgentNext
<1>2. ASSUME NEW ping \in late, NEW resources \in Reportable, ServeLatePing(ping, resources)
      PROVE  MasterNext /\ UNCHANGED agentVars
  BY <1>2 DEF ServeLatePing, ClusterInv, Knowledge, LateKnow, PingKnows, Handed, MasterNext
<1>3. CASE MasterRestarts
  <2>1. {a \in Agent : exchange[a].phase = "asked"} \in SUBSET Agent
    OBVIOUS
  <2> QED BY <1>3, <2>1 DEF MasterRestarts, MasterNext, AgentNext
<1>4. CASE \/ ClockTicks \/ RequestOffers \/ \E t \in Task : AskKill(t)
           \/ \E t \in Task, k \in 1..MaxRounds : Submit(t, k)
  BY <1>4 DEF ClockTicks, RequestOffers, AskKill, Submit, MasterNext
<1>5. ASSUME NEW a \in Agent, AgentGivesUp(a)
      PROVE  AgentNext /\ UNCHANGED masterVars
  BY <1>5 DEF AgentGivesUp, AgentNext
<1>6. ASSUME NEW a \in Agent,
             AgentActs(a) \/ AgentStops(a) \/ RuntimeActs(a) \/ \E t \in Task : TaskEnds(a, t)
      PROVE  AgentNext /\ UNCHANGED masterVars
  BY <1>6 DEF AgentActs, AgentStops, RuntimeActs, TaskEnds, AgentNext
<1> QED BY <1>1, <1>2, <1>3, <1>4, <1>5, <1>6 DEF Next, vars

(* The four kinds of steps, as what they do to what is known.               *)
LEMMA FrameworkKnows ==
  ASSUME ClusterInv, ClockTicks \/ RequestOffers \/ (\E t \in Task : AskKill(t))
                     \/ \E t \in Task, k \in 1..MaxRounds : Submit(t, k)
  PROVE  /\ UNCHANGED <<agentVars, late, giveUps, issued>> /\ killAsked \subseteq killAsked'
         /\ KillsWereAsked'
<1> USE DEF ClusterInv, MasterInv, MasterTypeOK
<1>1. ASSUME NEW t \in Task, AskKill(t)
      PROVE  /\ UNCHANGED <<agentVars, late, giveUps, issued>> /\ killAsked \subseteq killAsked'
             /\ KillsWereAsked'
  <2>1. \A i \in 1..Len(killtasks') : killtasks'[i] = t \/ \E j \in 1..Len(killtasks) : killtasks'[i] = killtasks[j]
    BY <1>1 DEF AskKill, KillTask
  <2> QED BY <1>1, <2>1 DEF AskKill, KillTask, Knowledge, KillsWereAsked
<1>2. ASSUME NEW t \in Task, NEW k \in 1..MaxRounds, Submit(t, k)
      PROVE  UNCHANGED <<agentVars, late, giveUps, issued, killAsked, killtasks>>
  BY <1>2 DEF Submit, RunTask, networkVars
<1>3. CASE ClockTicks \/ RequestOffers
  BY <1>3 DEF ClockTicks, RequestOffers, Tick, GetResourceOffer, networkVars, tables, Knowledge,
     KillsWereAsked
<1> QED BY <1>1, <1>2, <1>3 DEF Knowledge, KillsWereAsked

(* Late pings stay true; one that is left behind was true of its exchange.  *)
LEMMA LateStays ==
  ASSUME LateKnow, issued \subseteq issued', \A a \in Agent : ended[a] \subseteq ended'[a],
         \A ping \in late' : ping \in late \/ (ping[1] \in Agent /\ PingKnows(ping[1], ping[2]))
  PROVE  LateKnow'
<1> SUFFICES ASSUME NEW ping \in late' PROVE ping[1] \in Agent /\ PingKnows(ping[1], ping[2])'
  BY DEF LateKnow
<1>1. ping[1] \in Agent /\ PingKnows(ping[1], ping[2])
  BY DEF LateKnow
<1> QED BY <1>1, PingStaysKnown

LEMMA LeftBehindKnows ==
  ASSUME Knowledge, NEW a \in Agent, LeftBehind(a)
  PROVE  \A ping \in late' : ping \in late \/ (ping[1] \in Agent /\ PingKnows(ping[1], ping[2]))
BY DEF LeftBehind, Knowledge, AgentKnows, ExchangeKnows

(* The end of an exchange, for whatever reason.                             *)
LEMMA GiveUpKnows ==
  ASSUME AgentInv, Knowledge, NEW S \in SUBSET Agent, GiveUp(S), UNCHANGED <<issued, killAsked>>
  PROVE  \A a \in Agent : AgentKnows(a)'
<1> SUFFICES ASSUME NEW a \in Agent PROVE AgentKnows(a)'
  OBVIOUS
<1>1. /\ exchange'[a] = exchange[a] \/ exchange'[a] = Closed
      /\ UNCHANGED <<db, saved, docker, modules, ended>>
  BY DEF GiveUp, wasmVars
<1> QED BY <1>1, OthersKnow DEF Knowledge

LEMMA ServePingKnows ==
  ASSUME ClusterInv, NEW a \in Agent, NEW resources \in Reportable, ServePing(a, resources)
  PROVE  /\ \A b \in Agent : AgentKnows(b)'
         /\ UNCHANGED <<late, giveUps, killAsked, killtasks, ended>> /\ issued \subseteq issued'
<1> PICK pong : pong = Pong(a, exchange[a].reports)
  OBVIOUS
<1>1. /\ issued' = issued \cup ({pong.run} \ {NoTask})
      /\ exchange' = [exchange EXCEPT ![a] = Answered(pong)]
      /\ UNCHANGED <<db, saved, docker, modules, ended, late, giveUps, killAsked, killtasks>>
      /\ exchange[a].phase = "asked"
  BY DEF ServePing, GetPing, Answer, networkVars, wasmVars
<1>2. ASSUME NEW b \in Agent \ {a} PROVE AgentKnows(b)'
  BY <1>1, OthersKnow DEF ClusterInv, Knowledge
<1>3. /\ pong.run \in (TasksOn(a) \ DOMAIN db[a]) \cup {NoTask}
      /\ pong.kill \in (killAsked \cap TasksOn(a)) \cup {NoTask}
  BY <1>1, PongAnswers
<1>4. /\ exchange'[a].phase = "answered" /\ exchange'[a].pong = pong
      /\ Handed(a) \subseteq Handed(a)' /\ Handed(a)' = issued' \cap TasksOn(a)
  BY <1>1 DEF ClusterInv, AgentInv, AgentTypeOK, Answered, Handed
<1>5. ExchangeKnows(a)'
  BY <1>1, <1>3, <1>4 DEF ExchangeKnows
<1>6. TablesKnow(a)' /\ StatusHappened(a)'
  BY <1>1, <1>4 DEF ClusterInv, Knowledge, AgentKnows, TablesKnow, StatusHappened
<1> QED BY <1>1, <1>2, <1>5, <1>6 DEF AgentKnows

LEMMA KnowledgeKept ==
  ASSUME ClusterInv, [Next]_vars
  PROVE  Knowledge'
<1>1. LoopExchanges' /\ \A a \in Agent : ended[a] \subseteq ended'[a]
  BY StepsOfBoth, EndsStay, LoopExchangesStay DEF ClusterInv, Knowledge
<1> DEFINE LateOK ==
      \A ping \in late' : ping \in late \/ (ping[1] \in Agent /\ PingKnows(ping[1], ping[2]))
<1>2. ASSUME \A a \in Agent : AgentKnows(a)', issued \subseteq issued', LateOK, KillsWereAsked',
             giveUps' \in Nat
      PROVE  Knowledge'
  BY <1>1, <1>2, LateStays DEF ClusterInv, Knowledge
<1>3. ASSUME UNCHANGED <<agentVars, giveUps>>, late' \subseteq late, issued \subseteq issued',
             killAsked \subseteq killAsked', KillsWereAsked'
      PROVE  Knowledge'
  <2>1. \A a \in Agent : AgentKnows(a)'
    BY <1>3, OthersKnow DEF ClusterInv, Knowledge, agentVars, wasmVars
  <2> QED BY <1>2, <1>3, <2>1 DEF ClusterInv, Knowledge
<1>4. CASE \/ ClockTicks \/ RequestOffers \/ (\E t \in Task : AskKill(t))
           \/ \E t \in Task, k \in 1..MaxRounds : Submit(t, k)
  BY <1>3, <1>4, FrameworkKnows
<1>5. ASSUME NEW a \in Agent, NEW resources \in Reportable, ServePing(a, resources)
      PROVE  Knowledge'
  BY <1>2, <1>5, ServePingKnows DEF ClusterInv, Knowledge, KillsWereAsked
<1>6. ASSUME NEW ping \in late, NEW resources \in Reportable, ServeLatePing(ping, resources)
      PROVE  Knowledge'
  BY <1>3, <1>6 DEF ServeLatePing, GetPing, ClusterInv, Knowledge, KillsWereAsked
<1>7. CASE MasterRestarts
  <2>1. \A a \in Agent : AgentKnows(a)'
    BY <1>7, GiveUpKnows DEF MasterRestarts, Restart, ClusterInv
  <2> QED BY <1>2, <1>7, <2>1 DEF MasterRestarts, Restart, ClusterInv, Knowledge, KillsWereAsked
<1>8. ASSUME NEW a \in Agent, AgentGivesUp(a) PROVE Knowledge'
  <2>1. UNCHANGED <<issued, killAsked, killtasks>> /\ GiveUp({a}) /\ giveUps' = giveUps + 1
    BY <1>8 DEF AgentGivesUp, masterVars, tables
  <2>2. LateOK
    BY <1>8, LeftBehindKnows DEF AgentGivesUp, ClusterInv
  <2> QED BY <1>2, <2>1, <2>2, GiveUpKnows DEF ClusterInv, Knowledge, KillsWereAsked
<1>9. ASSUME NEW a \in Agent,
             AgentActs(a) \/ AgentStops(a) \/ RuntimeActs(a) \/ \E t \in Task : TaskEnds(a, t)
      PROVE  Knowledge'
  <2>1. UNCHANGED <<issued, killAsked, killtasks, giveUps>> /\ OwnStep(a)
    BY <1>9 DEF AgentActs, AgentStops, RuntimeActs, TaskEnds, OwnStep, masterVars, tables, networkVars
  <2>2. LateOK
    BY <1>9, LeftBehindKnows DEF AgentActs, AgentStops, RuntimeActs, TaskEnds, networkVars, ClusterInv
  <2>3. \A b \in Agent : AgentKnows(b)'
    BY <2>1, OwnStepKnows DEF ClusterInv
  <2> QED BY <1>2, <2>1, <2>2, <2>3 DEF ClusterInv, Knowledge, KillsWereAsked
<1>10. CASE UNCHANGED vars
  BY <1>3, <1>10 DEF vars, masterVars, tables, networkVars, ClusterInv, Knowledge, KillsWereAsked
<1> QED BY <1>4, <1>5, <1>6, <1>7, <1>8, <1>9, <1>10 DEF Next
-----------------------------------------------------------------------------
(* What a ping makes of an outcome has happened (db.py 62-85).              *)
LEMMA PingOutcomes ==
  ASSUME MasterInv, OutcomesHappened, NEW a \in Agent, NEW reports, PingKnows(a, reports),
         NEW t \in Of("DOCKER", DOMAIN TasksAfter(a, reports)),
         TasksAfter(a, reports)[t] \in {"COMPLETED", "ERRORED"}
  PROVE  <<t, TasksAfter(a, reports)[t]>> \in ended[AgentOf[t]]
<1>1. DOMAIN reports \subseteq TasksOn(a) /\ reports \in [DOMAIN reports -> ReportedState]
  BY ReportsAreOver DEF PingKnows, Handed
<1>2. DOMAIN reports \subseteq Task
  BY <1>1 DEF TasksOn
<1>3. /\ t \in DOMAIN tasks \cup DOMAIN reports
      /\ TasksAfter(a, reports)[t] = Refreshed(a, reports)[t]
  BY <1>1, <1>2, TableAfterPing, AfterPing DEF MasterInv, Of
<1>4. CASE t \in DOMAIN reports
  <2>1. Refreshed(a, reports)[t] = Reported(t, reports[t]) /\ AgentOf[t] = a
    BY <1>1, <1>4 DEF Refreshed, TasksOn
  <2>2. TasksAfter(a, reports)[t] = reports[t]
    BY <1>3, <2>1 DEF Reported
  <2> QED BY <1>4, <2>1, <2>2 DEF PingKnows, Truthful, Of
<1>5. CASE t \notin DOMAIN reports
  <2>1. t \in DOMAIN tasks /\ TasksAfter(a, reports)[t] = Missing(a, t)
    BY <1>3, <1>5 DEF Refreshed
  <2>2. TasksAfter(a, reports)[t] = tasks[t]
    BY <2>1 DEF Missing
  <2> QED BY <2>1, <2>2 DEF OutcomesHappened, Of
<1> QED BY <1>4, <1>5

LEMMA OutcomesKept ==
  ASSUME ClusterInv, [Next]_vars
  PROVE  OutcomesHappened'
<1>1. \A a \in Agent : ended[a] \subseteq ended'[a]
  BY StepsOfBoth, EndsStay DEF ClusterInv
<1>2. ASSUME NEW t \in Of("DOCKER", DOMAIN tasks'), tasks'[t] \in {"COMPLETED", "ERRORED"}
      PROVE  <<t, tasks'[t]>> \in ended'[AgentOf[t]]
  <2>1. AgentOf[t] \in Agent
    BY StepsOfBoth, TypesKept, TaskInfoAssumption DEF ClusterInv, MasterInv, MasterTypeOK, Of
  <2>2. CASE UNCHANGED tasks
    BY <1>1, <1>2, <2>1, <2>2 DEF ClusterInv, OutcomesHappened
  <2>3. ASSUME NEW a \in Agent, NEW reports, PingKnows(a, reports), tasks' = TasksAfter(a, reports)
        PROVE  <<t, tasks'[t]>> \in ended'[AgentOf[t]]
    BY <1>1, <1>2, <2>1, <2>3, PingOutcomes DEF ClusterInv
  <2>4. ASSUME NEW a \in Agent, NEW resources \in Reportable, ServePing(a, resources)
        PROVE  <<t, tasks'[t]>> \in ended'[AgentOf[t]]
    BY <2>3, <2>4 DEF ServePing, GetPing, ClusterInv, Knowledge, AgentKnows, ExchangeKnows
  <2>5. ASSUME NEW ping \in late, NEW resources \in Reportable, ServeLatePing(ping, resources)
        PROVE  <<t, tasks'[t]>> \in ended'[AgentOf[t]]
    BY <2>3, <2>5 DEF ServeLatePing, GetPing, ClusterInv, Knowledge, LateKnow
  <2>6. ASSUME NEW x \in Task, NEW k \in 1..MaxRounds, Submit(x, k)
        PROVE  t \in Of("DOCKER", DOMAIN tasks) /\ tasks'[t] = tasks[t]
    BY <1>2, <2>6 DEF Submit, RunTask, WithTask, Of
  <2>7. ASSUME NEW x \in Task, AskKill(x)
        PROVE  t \in Of("DOCKER", DOMAIN tasks) /\ tasks'[t] = tasks[t]
    BY <1>2, <2>7 DEF AskKill, KillTask, Of, ClusterInv, MasterInv, MasterTypeOK
  <2>8. CASE MasterRestarts
    BY <1>2, <2>8 DEF MasterRestarts, Restart, Of
  <2>9. ASSUME t \in Of("DOCKER", DOMAIN tasks), tasks'[t] = tasks[t]
        PROVE  <<t, tasks'[t]>> \in ended'[AgentOf[t]]
    BY <1>1, <1>2, <2>1, <2>9 DEF ClusterInv, OutcomesHappened
  <2> QED BY <2>2, <2>4, <2>5, <2>6, <2>7, <2>8, <2>9
          DEF Next, vars, masterVars, tables, ClockTicks, Tick, RequestOffers, GetResourceOffer,
              AgentActs, AgentStops, AgentGivesUp, RuntimeActs, TaskEnds
<1> QED BY <1>2 DEF OutcomesHappened

LEMMA KillsKept ==
  ASSUME ClusterInv, [Next]_vars
  PROVE  OnlyRequestedKills'
<1> USE DEF ClusterInv, AgentInv, AgentTypeOK
<1>1. killAsked \subseteq killAsked'
  BY DEF Next, vars, networkVars, ClockTicks, MasterRestarts, RequestOffers, Submit, AskKill, ServePing,
         ServeLatePing, AgentActs, AgentGivesUp, AgentStops, RuntimeActs, TaskEnds
<1>2. ASSUME NEW b \in Agent, NEW x \in Task, <<x, "KILLED">> \in ended'[b]
      PROVE  <<x, "KILLED">> \in ended[b] \/ x \in killAsked
  <2>1. CASE UNCHANGED ended
    BY <1>2, <2>1
  <2>2. ASSUME NEW a \in Agent, HandleKill(a)
        PROVE  <<x, "KILLED">> \in ended[b] \/ x \in killAsked
    <3> DEFINE t == exchange[a].pong.kill
    <3>1. t \in killAsked \cup {NoTask}
      BY <2>2 DEF HandleKill, Knowledge, AgentKnows, ExchangeKnows
    <3>2. ended' = ended \/ ended' = [ended EXCEPT ![a] = @ \cup {<<t, "KILLED">>}]
      BY <2>2 DEF HandleKill
    <3>3. x # NoTask
      BY TaskInfoAssumption
    <3> HIDE DEF t
    <3> QED BY <1>2, <3>1, <3>2, <3>3
  <2>3. ASSUME NEW a \in Agent, NEW t \in Task, ContainerEnds(a, t)
        PROVE  <<x, "KILLED">> \in ended[b]
    <3>1. PICK how \in {"COMPLETED", "ERRORED"} : ended' = [ended EXCEPT ![a] = @ \cup {<<t, how>>}]
      BY <2>3 DEF ContainerEnds, StatusOf
    <3> QED BY <1>2, <3>1
  <2>4. [AgentNext]_agentVars
    BY StepsOfBoth
  <2> QED BY <2>1, <2>2, <2>3, <2>4
          DEF AgentNext, AgentStep, agentVars, GiveUp, Load, Establish, SendPing, StatusRaises,
              HandleRun, Crash, CrashInSave, RuntimeServes, RuntimeEnds, Answer
<1> QED BY <1>1, <1>2 DEF OnlyRequestedKills
-----------------------------------------------------------------------------
(* ClusterInv holds in every state.                                         *)
THEOREM ClusterInvariance == Spec => []ClusterInv
<1>1. Init => ClusterInv
  <2> SUFFICES ASSUME Init PROVE ClusterInv
    OBVIOUS
  <2>1. MasterInv
    BY MasterStartsWell DEF Init
  <2>2. AgentInv
    BY AgentStartsWell DEF Init
  <2>3. \A a \in Agent : AgentKnows(a)
    BY DEF Init, AgentInit, None, Closed, AgentKnows, TablesKnow, ExchangeKnows, StatusHappened
  <2>4. Knowledge
    BY <2>3 DEF Init, MasterInit, AgentInit, Closed, Knowledge, LateKnow, KillsWereAsked, LoopExchanges
  <2>5. OnlyRequestedKills /\ OutcomesHappened
    BY DEF Init, MasterInit, AgentInit, OnlyRequestedKills, OutcomesHappened, Of
  <2> QED BY <2>1, <2>2, <2>4, <2>5 DEF ClusterInv
<1>2. ClusterInv /\ [Next]_vars => ClusterInv'
  <2> SUFFICES ASSUME ClusterInv, [Next]_vars PROVE ClusterInv'
    OBVIOUS
  <2>1. MasterInv'
    BY StepsOfBoth, TypesKept, HandlersKeepInv DEF ClusterInv, MasterInv
  <2>2. AgentInv'
    BY StepsOfBoth, AgentKeepsInv DEF ClusterInv
  <2> QED BY <2>1, <2>2, KnowledgeKept, OutcomesKept, KillsKept DEF ClusterInv
<1> QED BY <1>1, <1>2, PTL DEF Spec

(* The master of a deployment is the master with open clients: what is      *)
(* proved of MasterSpec holds in every deployment, whatever is lost, late,  *)
(* crashed or restarted (master.py 29-215).                                 *)
THEOREM ImplementsMaster == Spec => MasterSpec
<1>1. Init => MasterInit
  BY DEF Init
<1>2. ClusterInv /\ [Next]_vars => [MasterNext]_masterVars
  BY StepsOfBoth
<1> QED BY <1>1, <1>2, ClusterInvariance, PTL DEF Spec, MasterSpec

(* The agents of a deployment are agents with an open master: what is       *)
(* proved of AgentSpec holds in every deployment (agent.py 115-229).        *)
THEOREM ImplementsAgents == Spec => AgentSpec
<1>1. Init => AgentInit
  BY DEF Init
<1>2. ClusterInv /\ [Next]_vars => [AgentNext]_agentVars
  BY StepsOfBoth
<1> QED BY <1>1, <1>2, ClusterInvariance, PTL DEF Spec, AgentSpec

(* So all that is proved of the parts holds of the whole, across crashes,   *)
(* restarts, and requests lost, given up or late: what the master promises  *)
(* frameworks and agents, and what an agent knows of what runs on its       *)
(* device (master.py 29-215, agent.py 115-229).                             *)
THEOREM DeploymentsKeepPromises ==
  Spec => /\ []NoOvertaking /\ []KillingIsOnRecord /\ []PongsFitPings
          /\ OffersAreBacked /\ NeverHandedOutAgain
          /\ []HandlesCoverDocker /\ []ModulesAreStored
BY ImplementsMaster, HandedOutInOrder, KillsAreOnRecord, AnswersFit, OffersBacked, HandedOutForGood,
   ImplementsAgents, HandlesAreEnough, NoUnreportedModule, PTL

(* Everything keeps its type; late pings tell of their agent's tasks only.  *)
THEOREM ClusterTyping == Spec => []TypeOK
<1>1. ClusterInv => TypeOK
  <2> SUFFICES ASSUME ClusterInv PROVE TypeOK
    OBVIOUS
  <2>1. ASSUME NEW ping \in late PROVE ping[1] \in Agent /\ ping[2] \in ReportsOver(TasksOn(ping[1]))
    <3>1. ping[1] \in Agent /\ ping[2] \in ReportsOver(Handed(ping[1]))
      BY DEF ClusterInv, Knowledge, LateKnow, PingKnows
    <3>2. Handed(ping[1]) \subseteq TasksOn(ping[1])
      BY DEF Handed
    <3> QED BY <3>1, <3>2, ReportsAreOver
  <2> QED BY <2>1 DEF ClusterInv, MasterInv, AgentInv, Knowledge, KillsWereAsked, TypeOK
<1> QED BY <1>1, ClusterInvariance, PTL

(* Containers and modules are of tasks a framework had accepted for that    *)
(* agent, whatever is lost, late, crashed or restarted (master.py 187-215,  *)
(* agent.py 197-216).                                                       *)
THEOREM RunsWereAccepted == Spec => []RunsWhereAccepted
<1>1. ClusterInv => RunsWhereAccepted
  BY DEF ClusterInv, MasterInv, OnlyAccepted, Knowledge, AgentKnows, TablesKnow, Handed,
         RunsWhereAccepted
<1> QED BY <1>1, ClusterInvariance, PTL

(* A container is killed only when a framework has asked for it (db.py      *)
(* 140-146, agent.py 193-195).                                              *)
THEOREM KillsWereRequested == Spec => []OnlyRequestedKills
<1>1. ClusterInv => OnlyRequestedKills
  BY DEF ClusterInv
<1> QED BY <1>1, ClusterInvariance, PTL

(* An outcome the master shows of a docker task has happened (db.py 62-85,  *)
(* dockerhelper.py 91-111).                                                 *)
THEOREM OutcomesAreTrue == Spec => []OutcomesHappened
<1>1. ClusterInv => OutcomesHappened
  BY DEF ClusterInv
<1> QED BY <1>1, ClusterInvariance, PTL

(* No module is loaded over itself: what a pong gives an agent to run is    *)
(* not in the table it has pinged of, and every module that is loaded is    *)
(* (wasmhelper.py 85-104, db.py 62-79, 129-138).                            *)
THEOREM NothingIsReloaded == Spec => []NeverReloaded
<1>1. ClusterInv => NeverReloaded
  <2> SUFFICES ASSUME ClusterInv, NEW a \in Agent, pc[a] = "launching"
               PROVE  exchange[a].pong.run \notin modules[a]
    BY DEF NeverReloaded
  <2>1. modules[a] \subseteq DOMAIN db[a] /\ exchange[a].phase = "answered" /\ modules[a] \subseteq Task
    BY DEF ClusterInv, AgentInv, AgentTypeOK, PongInHand, ModulesAreStored
  <2>2. exchange[a].pong.run \notin DOMAIN db[a] \/ exchange[a].pong.run = NoTask
    BY <2>1 DEF ClusterInv, Knowledge, AgentKnows, ExchangeKnows
  <2> QED BY <2>1, <2>2, TaskInfoAssumption
<1> QED BY <1>1, ClusterInvariance, PTL
-----------------------------------------------------------------------------
(* What the master concludes from a ping that lacks a task, when pings are  *)
(* served in the order they are sent.  A pong that is being carried out     *)
(* names a task the master shows as ISSUED or KILLING or has lost; a first  *)
(* start has every container in its table; a killed one stays killed.       *)
Settled(a) ==
  /\ \A t \in DOMAIN docker[a] : ContainerType[t] = "DOCKER"
  /\ boots[a] = 0 => pc[a] = "down" /\ DOMAIN docker[a] = {}
  /\ boots[a] = 1 /\ pc[a] # "down" => DOMAIN docker[a] \subseteq DOMAIN db[a]
  /\ exchange[a].phase = "asked" =>
       \A t \in DOMAIN docker[a] \cap DOMAIN exchange[a].reports :
         exchange[a].reports[t] = "KILLED" => docker[a][t] = "exited137"
  /\ exchange[a].phase = "answered" /\ exchange[a].pong.run \in DOMAIN tasks =>
       tasks[exchange[a].pong.run] \in {"ISSUED", "KILLING"}

InOrder == late = {} /\ (\A a \in Agent : Settled(a)) /\ MissingIsGone

(* No request is left behind when none may be late.                         *)
LEMMA NoneLate ==
  ASSUME MaxLate = 0, late = {}, [Next]_vars
  PROVE  late' = {}
<1>1. Cardinality(late) = 0
  BY FS_EmptySet
<1>2. \A a \in Agent : LeftBehind(a) => late' = {}
  BY <1>1 DEF LeftBehind
<1> QED BY <1>2 DEF Next, vars, networkVars, ClockTicks, MasterRestarts, RequestOffers, Submit, AskKill,
            ServePing, ServeLatePing, AgentActs, AgentGivesUp, AgentStops, RuntimeActs, TaskEnds

(* What an agent's own steps do with it.                                    *)
LEMMA OwnStepSettles ==
  ASSUME ClusterInv, NEW a \in Agent, Settled(a), OwnStep(a), UNCHANGED tasks
  PROVE  /\ Settled(a)' /\ boots[a] <= boots'[a]
         /\ \A t \in Running(a)' \ Running(a) : t \in DOMAIN tasks => tasks[t] \in {"ISSUED", "KILLING"}
<1> USE DEF ClusterInv, AgentInv, AgentTypeOK, Running
<1> DEFINE Goal == /\ Settled(a)' /\ boots[a] <= boots'[a]
                   /\ \A t \in Running(a)' \ Running(a) :
                        t \in DOMAIN tasks => tasks[t] \in {"ISSUED", "KILLING"}
<1>1. CASE Load(a)
  <2>1. boots'[a] = boots[a] + 1 /\ docker' = docker /\ exchange' = exchange /\ boots[a] \in Nat
    BY <1>1 DEF Load
  <2>2. exchange[a].phase = "closed"
    BY <1>1 DEF Load, Knowledge, LoopExchanges
  <2> QED BY <2>1, <2>2 DEF Settled
<1>2. CASE Establish(a)
  <2>1. /\ docker'[a] = [t \in Running(a) |-> "running"] /\ exchange' = exchange
        /\ UNCHANGED <<boots, db>> /\ pc[a] = "loaded"
    BY <1>2 DEF Establish
  <2>2. exchange[a].phase = "closed"
    BY <1>2 DEF Establish, Knowledge, LoopExchanges
  <2> QED BY <2>1, <2>2 DEF Settled
<1>3. CASE SendPing(a)
  <2>1. /\ UNCHANGED <<docker, boots>> /\ pc[a] = "looping"
        /\ db'[a] = Statuses(a) /\ exchange'[a] = Asked(Statuses(a))
    BY <1>3 DEF SendPing
  <2>2. PICK reports : reports = Statuses(a)
    OBVIOUS
  <2>3. exchange'[a].phase = "asked" /\ exchange'[a].reports = reports /\ DOMAIN db'[a] = DOMAIN db[a]
    BY <2>1, <2>2 DEF Asked, Statuses
  <2>4. ASSUME NEW t \in DOMAIN docker[a], t \in DOMAIN reports, reports[t] = "KILLED"
        PROVE  docker[a][t] = "exited137"
    <3>1. reports[t] = StatusOf(docker[a][t])
      BY <2>2, <2>4 DEF Statuses, Settled
    <3>2. docker[a][t] \in ContainerStatus
      BY RunningAreTasks
    <3> QED BY <2>4, <3>1, <3>2 DEF StatusOf, ContainerStatus
  <2> QED BY <2>1, <2>3, <2>4 DEF Settled
<1>4. CASE Gone(a) /\ UNCHANGED <<docker, boots>>
  BY <1>4 DEF Gone, Closed, Settled
<1>5. ASSUME NEW t \in Running(a), NEW status \in {"exited0", "exited1", "exited137"},
             docker' = [docker EXCEPT ![a][t] = status], UNCHANGED <<db, exchange, boots>>,
             pc'[a] = pc[a] \/ pc[a] = "waiting"
      PROVE  Goal
  <2>1. /\ DOMAIN docker'[a] = DOMAIN docker[a] /\ docker'[a][t] = status /\ docker[a][t] = "running"
        /\ \A x \in DOMAIN docker[a] \ {t} : docker'[a][x] = docker[a][x]
    BY <1>5
  <2>2. Settled(a)'
    BY <1>5, <2>1 DEF Settled
  <2>3. Running(a)' \subseteq Running(a)
    BY <2>1
  <2> QED BY <1>5, <2>2, <2>3
<1>6. CASE HandleKill(a)
  <2>1. CASE pc' = [pc EXCEPT ![a] = "launching"] /\ UNCHANGED <<db, docker, exchange, boots>>
    BY <1>6, <2>1 DEF HandleKill, Settled
  <2> QED BY <1>4, <1>5, <1>6, <2>1 DEF HandleKill, Raise
<1>7. CASE HandleRun(a)
  <2> DEFINE t == exchange[a].pong.run
  <2>1. /\ exchange[a].phase = "answered" /\ pc[a] = "launching" /\ UNCHANGED boots
        /\ exchange'[a].phase = "closed"
    BY <1>7 DEF HandleRun, PongInHand, Raise, Gone, Closed
  <2>2. t \in DOMAIN tasks => tasks[t] \in {"ISSUED", "KILLING"}
    BY <2>1 DEF Settled
  <2>3. CASE docker' = docker /\ (pc'[a] = "down" \/ DOMAIN db[a] \subseteq DOMAIN db'[a])
    BY <2>1, <2>3 DEF Settled
  <2>4. CASE /\ docker' = [docker EXCEPT ![a] =
                    [x \in DOMAIN docker[a] \cup {t} |-> IF x = t THEN "running" ELSE docker[a][x]]]
             /\ db' = [db EXCEPT ![a] = Stored(a, t)] /\ ContainerType[t] = "DOCKER"
    <3>1. /\ DOMAIN docker'[a] = DOMAIN docker[a] \cup {t}
          /\ \A x \in DOMAIN docker[a] \ {t} : docker'[a][x] = docker[a][x]
          /\ DOMAIN db'[a] = DOMAIN db[a] \cup {t}
      BY <2>4 DEF Stored
    <3>2. Running(a)' \ Running(a) \subseteq {t}
      BY <3>1
    <3> HIDE DEF t
    <3> QED BY <2>1, <2>2, <2>4, <3>1, <3>2 DEF Settled
  <2>5. \/ docker' = docker /\ (pc'[a] = "down" \/ db'[a] = db[a] \/ db'[a] = Stored(a, t))
        \/ /\ docker' = [docker EXCEPT ![a] =
                 [x \in DOMAIN docker[a] \cup {t} |-> IF x = t THEN "running" ELSE docker[a][x]]]
           /\ db' = [db EXCEPT ![a] = Stored(a, t)] /\ ContainerType[t] = "DOCKER"
    BY <1>7 DEF HandleRun, Launch, Raise, Gone
  <2>6. DOMAIN db[a] \subseteq DOMAIN Stored(a, t)
    BY DEF Stored
  <2> QED BY <2>3, <2>4, <2>5, <2>6
<1>8. CASE RuntimeServes(a) \/ RuntimeEnds(a)
  BY <1>8 DEF RuntimeServes, RuntimeEnds, Settled
<1>9. ASSUME NEW t \in Task, ContainerEnds(a, t) PROVE Goal
  BY <1>5, <1>9 DEF ContainerEnds
<1> QED BY <1>1, <1>2, <1>3, <1>4, <1>6, <1>7, <1>8, <1>9
        DEF OwnStep, AgentStep, StatusRaises, Raise, Crash, CrashInSave, Stopped

(* A ping that is served in its turn.                                       *)
LEMMA ServePingSettles ==
  ASSUME ClusterInv, InOrder, NEW a \in Agent, NEW resources \in Reportable, ServePing(a, resources)
  PROVE  (\A b \in Agent : Settled(b)') /\ MissingIsGone'
<1>a. MasterInv /\ MasterTypeOK /\ AgentInv /\ AgentTypeOK /\ Knowledge
  BY DEF ClusterInv, MasterInv, AgentInv
<1> PICK reports : reports = exchange[a].reports
  OBVIOUS
<1> DEFINE table == Refreshed(a, reports)
           run == NextTask(a, table)
<1>1. /\ tasks' = TasksAfter(a, reports) /\ exchange' = [exchange EXCEPT ![a] = Answered(Pong(a, reports))]
      /\ UNCHANGED <<pc, db, docker, boots>> /\ exchange[a].phase = "asked"
  BY <1>a DEF ServePing, GetPing, Answer
<1>2. /\ reports \in ReportsOver(Handed(a)) /\ DOMAIN reports = DOMAIN db[a]
      /\ pc[a] \in {"waiting", "launching"}
  BY <1>1, <1>a DEF Knowledge, AgentKnows, ExchangeKnows, PingKnows, LoopExchanges
<1>3. /\ DOMAIN reports \subseteq Task /\ DOMAIN reports \subseteq TasksOn(a)
      /\ reports \in [DOMAIN reports -> ReportedState]
  BY <1>2, ReportsAreOver DEF Handed, TasksOn
<1>4. /\ DOMAIN tasks' = DOMAIN tasks \cup DOMAIN reports
      /\ \A t \in DOMAIN tasks' : tasks'[t] = IF t = run THEN "ISSUED" ELSE table[t]
  BY <1>1, <1>3, <1>a, TableAfterPing, AfterPing
<1>5. run # NoTask => run \in DOMAIN tasks /\ AgentOf[run] = a
  BY <1>3, <1>a, PongTaskWaited, NextTaskWaits DEF MasterTypeOK
<1>6. ASSUME NEW t \in DOMAIN tasks', t \in Task, AgentOf[t] # a
      PROVE  t \in DOMAIN tasks /\ tasks'[t] = tasks[t]
  BY <1>3, <1>4, <1>5, <1>6, TaskInfoAssumption DEF Refreshed, Missing, TasksOn
<1>7. Pong(a, reports).run = run
  BY DEF Pong
<1>8. Settled(a)'
  <2>1. exchange'[a].phase = "answered" /\ exchange'[a].pong.run = run
    BY <1>1, <1>7, <1>a DEF Answered, AgentTypeOK
  <2>2. run \in DOMAIN tasks' => tasks'[run] = "ISSUED"
    BY <1>4
  <2> HIDE DEF run
  <2> QED BY <1>1, <2>1, <2>2 DEF InOrder, Settled
<1> HIDE DEF run
<1>9. ASSUME NEW b \in Agent \ {a} PROVE Settled(b)'
  <2>1. exchange'[b] = exchange[b]
    BY <1>1, <1>a DEF AgentTypeOK
  <2>2. exchange[b].phase = "answered" => exchange[b].pong.run \in TasksOn(b) \cup {NoTask}
    BY <1>a DEF AgentTypeOK, PongTo
  <2>3. DOMAIN tasks' \subseteq Task
    BY <1>3, <1>4, <1>a DEF MasterTypeOK
  <2>4. exchange[b].phase = "answered" /\ exchange[b].pong.run \in DOMAIN tasks' =>
          /\ exchange[b].pong.run \in DOMAIN tasks
          /\ tasks'[exchange[b].pong.run] = tasks[exchange[b].pong.run]
    BY <1>6, <2>2, <2>3, TaskInfoAssumption DEF TasksOn
  <2> QED BY <1>1, <2>1, <2>4 DEF InOrder, Settled
<1>10. ASSUME NEW t \in DOMAIN tasks', tasks'[t] = "KILLED", boots'[AgentOf[t]] <= 1,
              t \in Running(AgentOf[t])'
       PROVE  FALSE
  <2>1. t \in Task /\ t \in Running(AgentOf[t]) /\ boots[AgentOf[t]] <= 1
    BY <1>1, <1>3, <1>4, <1>10, <1>a DEF Running, MasterTypeOK
  <2>2. ~(t \in DOMAIN tasks /\ tasks[t] = "KILLED")
    BY <2>1 DEF InOrder, MissingIsGone
  <2>3. AgentOf[t] = a
    BY <1>6, <1>10, <2>1, <2>2
  <2>4. t \in DOMAIN docker[a] /\ docker[a][t] = "running"
    BY <2>1, <2>3 DEF Running
  <2>5. boots[a] = 0 \/ boots[a] = 1
    BY <1>a, <2>1, <2>3 DEF AgentTypeOK
  <2>6. t \in DOMAIN db[a]
    BY <1>2, <2>4, <2>5 DEF InOrder, Settled
  <2>7. tasks'[t] = Reported(t, reports[t])
    BY <1>2, <1>4, <1>10, <2>6 DEF Refreshed
  <2>8. reports[t] = "KILLED"
    BY <1>10, <2>7 DEF Reported
  <2> QED BY <1>1, <1>2, <2>4, <2>6, <2>8 DEF InOrder, Settled
<1> QED BY <1>8, <1>9, <1>10 DEF MissingIsGone

LEMMA InOrderKept ==
  ASSUME MaxLate = 0, ClusterInv, InOrder, [Next]_vars
  PROVE  InOrder'
<1>a. /\ MasterInv /\ MasterTypeOK /\ AgentInv /\ AgentTypeOK /\ Knowledge
      /\ MasterTypeOK' /\ AgentTypeOK'
  BY StepsOfBoth, TypesKept, AgentKeepsInv DEF ClusterInv, MasterInv, AgentInv
<1>1. late' = {}
  BY NoneLate DEF InOrder
<1> DEFINE Goal == (\A a \in Agent : Settled(a)') /\ MissingIsGone'
<1>2. ASSUME UNCHANGED <<pc, db, docker, boots, exchange>>,
             \A t \in DOMAIN tasks' :
               \/ t \in DOMAIN tasks /\ tasks'[t] \in {tasks[t], "KILLING"}
               \/ t \notin issued /\ tasks'[t] = "UNISSUED"
      PROVE  Goal
  <2>1. ASSUME NEW a \in Agent PROVE Settled(a)'
    <3>1. exchange[a].phase = "answered" => exchange[a].pong.run \in issued \cup {NoTask}
      BY <1>a DEF Knowledge, AgentKnows, ExchangeKnows, Handed
    <3>2. NoTask \notin DOMAIN tasks'
      BY <1>a, TaskInfoAssumption DEF MasterTypeOK
    <3>3. exchange[a].phase = "answered" /\ exchange[a].pong.run \in DOMAIN tasks' =>
            tasks'[exchange[a].pong.run] \in {"ISSUED", "KILLING"}
      BY <1>2, <3>1, <3>2 DEF InOrder, Settled
    <3> QED BY <1>2, <3>3 DEF InOrder, Settled
  <2>2. MissingIsGone'
    BY <1>2 DEF InOrder, MissingIsGone, Running
  <2> QED BY <2>1, <2>2
<1>3. ASSUME ClockTicks \/ RequestOffers \/ UNCHANGED vars PROVE Goal
  BY <1>2, <1>3 DEF ClockTicks, RequestOffers, Tick, GetResourceOffer, tables, agentVars, vars, masterVars
<1>4. ASSUME NEW t \in Task, AskKill(t) PROVE Goal
  BY <1>2, <1>4, <1>a DEF AskKill, KillTask, agentVars, MasterTypeOK
<1>5. ASSUME NEW t \in Task, NEW k \in 1..MaxRounds, Submit(t, k) PROVE Goal
  <2>1. t \notin issued
    BY <1>5, <1>a DEF Submit, RunTask, MasterInv, OnlyAccepted
  <2> QED BY <1>2, <1>5, <2>1 DEF Submit, RunTask, WithTask, agentVars
<1>6. ASSUME UNCHANGED <<db, docker, boots>>, tasks' = tasks \/ DOMAIN tasks' = {},
             \A a \in Agent : \/ exchange'[a] = exchange[a] /\ pc'[a] = pc[a]
                              \/ exchange'[a] = Closed /\ pc[a] = "waiting"
      PROVE  Goal
  <2>1. ASSUME NEW a \in Agent PROVE Settled(a)'
    BY <1>6 DEF InOrder, Settled, Closed
  <2>2. MissingIsGone'
    BY <1>6 DEF InOrder, MissingIsGone, Running
  <2> QED BY <2>1, <2>2
<1>7. ASSUME MasterRestarts PROVE Goal
  BY <1>6, <1>7 DEF MasterRestarts, Restart, GiveUp
<1>8. ASSUME NEW a \in Agent, AgentGivesUp(a) PROVE Goal
  BY <1>6, <1>8 DEF AgentGivesUp, GiveUp, masterVars, tables
<1>9. ASSUME NEW a \in Agent, OwnStep(a), UNCHANGED tasks PROVE Goal
  <2>1. /\ Settled(a)' /\ boots[a] <= boots'[a]
        /\ \A t \in Running(a)' \ Running(a) : t \in DOMAIN tasks => tasks[t] \in {"ISSUED", "KILLING"}
    BY <1>9, OwnStepSettles DEF InOrder
  <2>2. ASSUME NEW b \in Agent \ {a}
        PROVE  Settled(b)' /\ Running(b)' = Running(b) /\ boots'[b] = boots[b]
    <3>1. /\ db'[b] = db[b] /\ docker'[b] = docker[b] /\ exchange'[b] = exchange[b]
          /\ pc'[b] = pc[b] /\ boots'[b] = boots[b] /\ tasks' = tasks /\ Settled(b)
      BY <1>9, <1>a, OwnStepLeavesOthers DEF InOrder
    <3> QED BY <3>1 DEF Settled, Running
  <2>3. ASSUME NEW t \in DOMAIN tasks, tasks[t] = "KILLED", boots'[AgentOf[t]] <= 1
        PROVE  t \notin Running(AgentOf[t])'
    <3>1. AgentOf[t] \in Agent /\ boots[AgentOf[t]] \in Nat /\ boots'[AgentOf[t]] \in Nat
      BY <1>a, <2>3, TaskInfoAssumption DEF MasterTypeOK, AgentTypeOK
    <3>2. boots[AgentOf[t]] <= 1
      BY <2>1, <2>2, <2>3, <3>1
    <3>3. t \notin Running(AgentOf[t])
      BY <2>3, <3>2 DEF InOrder, MissingIsGone
    <3> QED BY <2>1, <2>2, <2>3, <3>1, <3>3
  <2> QED BY <1>9, <2>1, <2>2, <2>3 DEF MissingIsGone
<1>10. ASSUME NEW a \in Agent,
              AgentActs(a) \/ AgentStops(a) \/ RuntimeActs(a) \/ \E t \in Task : TaskEnds(a, t)
       PROVE  Goal
  BY <1>9, <1>10 DEF AgentActs, AgentStops, RuntimeActs, TaskEnds, OwnStep, masterVars, tables
<1>11. ASSUME NEW ping \in late, NEW resources \in Reportable, ServeLatePing(ping, resources) PROVE FALSE
  BY DEF InOrder
<1>12. Goal
  BY <1>3, <1>4, <1>5, <1>7, <1>8, <1>10, <1>11, ServePingSettles DEF Next
<1> QED BY <1>1, <1>12 DEF InOrder

LEMMA InitInOrder == Init => InOrder
BY DEF Init, MasterInit, AgentInit, None, Closed, InOrder, Settled, MissingIsGone, Running

(* What the master shows as KILLED does not run on an agent that has not    *)
(* been started again, when no ping is late, although the master concludes  *)
(* it from a ping that lacks the task (db.py 81-85).                        *)
THEOREM MissingAreGone == ASSUME MaxLate = 0 PROVE Spec => []MissingIsGone
<1>1. Init => InOrder
  BY InitInOrder
<1>2. ClusterInv /\ InOrder /\ [Next]_vars => InOrder'
  BY InOrderKept
<1>3. InOrder => MissingIsGone
  BY DEF InOrder
<1> QED BY <1>1, <1>2, <1>3, ClusterInvariance, PTL DEF Spec
-----------------------------------------------------------------------------
(* What becomes of a task that is over, when pings are served in the order  *)
(* they are sent: what the agent would say of it is what the master shows,  *)
(* and nothing that starts again from the file says otherwise.  Only a kill *)
(* takes an ERRORED task from there.                                        *)
Over == {"COMPLETED", "KILLED", "ERRORED"}

\* From here on the agent says this of t, if it says anything.
IsOver(a, t, state) ==
  IF ContainerType[t] = "DOCKER" THEN t \in DOMAIN docker[a] => StatusOf(docker[a][t]) = state
                                 ELSE state = "COMPLETED" /\ t \notin modules[a]

Unsaved(a, t) == t \notin saved[a] /\ t \notin ToSave(db[a])

OverFits(a) ==
  /\ \A t \in DOMAIN tasks : AgentOf[t] = a /\ tasks[t] \in Over =>
       /\ Unsaved(a, t)
       /\ t \in DOMAIN db[a] => IsOver(a, t, tasks[t])
       /\ exchange[a].phase = "asked" /\ t \in DOMAIN db[a] => db[a][t] = tasks[t]
  /\ exchange[a].phase = "asked" =>
       /\ exchange[a].reports = db[a] /\ saved[a] \subseteq ToSave(db[a])
       /\ \A t \in DOMAIN db[a] :
            db[a][t] # "STARTING" /\ (db[a][t] \in Over => IsOver(a, t, db[a][t]))

(* What is over stays so when nothing is started.                           *)
LEMMA OverStaysOver ==
  ASSUME NEW a \in Agent, NEW t, NEW state \in Over, IsOver(a, t, state),
         \A x \in DOMAIN docker'[a] :
           \/ x \in DOMAIN docker[a] /\ docker'[a][x] = docker[a][x]
           \/ x \in DOMAIN docker[a] /\ docker[a][x] = "running"
           \/ x # t,
         t \in modules'[a] => t \in modules[a]
  PROVE  IsOver(a, t, state)'
<1>1. StatusOf("running") \notin Over
  BY DEF StatusOf, Over
<1> QED BY <1>1 DEF IsOver

(* A step of an agent that puts nothing over on its feet again, whatever    *)
(* else it starts, ends, forgets or reads from its file.                    *)
LEMMA OverFitsKept ==
  ASSUME NEW a \in Agent, OverFits(a), tasks' = tasks,
         NEW started, \A t \in started : t \notin DOMAIN tasks \/ tasks[t] \notin Over,
         \A x \in DOMAIN docker'[a] :
           \/ x \in started
           \/ x \in DOMAIN docker[a] /\ (docker'[a][x] = docker[a][x] \/ docker[a][x] = "running"),
         modules'[a] \subseteq modules[a] \cup started,
         ToSave(db'[a]) \cup saved'[a] \subseteq ToSave(db[a]) \cup saved[a] \cup started,
         DOMAIN db'[a] \subseteq DOMAIN db[a] \cup saved[a] \cup started,
         exchange'[a].phase = "asked" =>
           started = {} /\ UNCHANGED <<exchange[a], db[a], saved[a]>>
  PROVE  OverFits(a)'
<1>1. ASSUME NEW t \in DOMAIN tasks, AgentOf[t] = a, tasks[t] \in Over
      PROVE  /\ Unsaved(a, t)'
             /\ t \in DOMAIN db'[a] => IsOver(a, t, tasks[t])'
             /\ exchange'[a].phase = "asked" /\ t \in DOMAIN db'[a] => db'[a][t] = tasks[t]
  <2>1. t \notin started /\ Unsaved(a, t)
    BY <1>1 DEF OverFits
  <2>2. Unsaved(a, t)'
    BY <2>1 DEF Unsaved, ToSave
  <2>3. t \in DOMAIN db'[a] => t \in DOMAIN db[a] /\ IsOver(a, t, tasks[t])
    BY <1>1, <2>1 DEF Unsaved, OverFits
  <2>4. IsOver(a, t, tasks[t]) => IsOver(a, t, tasks[t])'
    BY <1>1, <2>1, OverStaysOver
  <2> QED BY <1>1, <2>2, <2>3, <2>4 DEF OverFits
<1>2. ASSUME exchange'[a].phase = "asked"
      PROVE  /\ exchange'[a].reports = db'[a] /\ saved'[a] \subseteq ToSave(db'[a])
             /\ \A t \in DOMAIN db'[a] :
                  db'[a][t] # "STARTING" /\ (db'[a][t] \in Over => IsOver(a, t, db[a][t])')
  <2>1. UNCHANGED <<exchange[a], db[a], saved[a]>> /\ started = {} /\ exchange[a].phase = "asked"
    BY <1>2
  <2>2. ASSUME NEW t \in DOMAIN db[a], db[a][t] \in Over PROVE IsOver(a, t, db[a][t])'
    <3>1. IsOver(a, t, db[a][t])
      BY <2>1, <2>2 DEF OverFits
    <3> QED BY <2>1, <2>2, <3>1, OverStaysOver
  <2> QED BY <2>1, <2>2 DEF OverFits
<1> QED BY <1>1, <1>2 DEF OverFits

LEMMA NothingStarts ==
  ASSUME NEW a \in Agent, OverFits(a), tasks' = tasks,
         \A x \in DOMAIN docker'[a] :
           x \in DOMAIN docker[a] /\ (docker'[a][x] = docker[a][x] \/ docker[a][x] = "running"),
         modules'[a] \subseteq modules[a],
         ToSave(db'[a]) \cup saved'[a] \subseteq ToSave(db[a]) \cup saved[a],
         DOMAIN db'[a] \subseteq DOMAIN db[a] \cup saved[a],
         exchange'[a].phase = "asked" => UNCHANGED <<exchange[a], db[a], saved[a]>>
  PROVE  OverFits(a)'
<1> DEFINE started == {}
<1>1. /\ \A t \in started : t \notin DOMAIN tasks \/ tasks[t] \notin Over
      /\ \A x \in DOMAIN docker'[a] :
           \/ x \in started
           \/ x \in DOMAIN docker[a] /\ (docker'[a][x] = docker[a][x] \/ docker[a][x] = "running")
      /\ modules'[a] \subseteq modules[a] \cup started
      /\ ToSave(db'[a]) \cup saved'[a] \subseteq ToSave(db[a]) \cup saved[a] \cup started
      /\ DOMAIN db'[a] \subseteq DOMAIN db[a] \cup saved[a] \cup started
      /\ exchange'[a].phase = "asked" => started = {} /\ UNCHANGED <<exchange[a], db[a], saved[a]>>
  OBVIOUS
<1> HIDE DEF started
<1> QED BY <1>1, OverFitsKept

LEMMA SendPingFits ==
  ASSUME AgentInv, NEW a \in Agent, OverFits(a), SendPing(a), tasks' = tasks
  PROVE  OverFits(a)'
<1>1. /\ db'[a] = Statuses(a) /\ saved'[a] = ToSave(Statuses(a)) /\ exchange'[a] = Asked(Statuses(a))
      /\ UNCHANGED <<docker, modules>> /\ Statable(a) /\ AgentTypeOK
  BY DEF SendPing, AgentInv, AgentTypeOK, wasmVars
<1> PICK reports : reports = Statuses(a)
  OBVIOUS
<1>2. exchange'[a].phase = "asked" /\ exchange'[a].reports = reports /\ DOMAIN reports = DOMAIN db[a]
  BY <1>1 DEF Asked, Statuses
<1>3. ASSUME NEW t \in DOMAIN reports, NEW state \in Over
      PROVE  IsOver(a, t, state) <=> reports[t] = state
  <2>1. CASE ContainerType[t] = "DOCKER"
    <3>1. t \in DOMAIN docker[a] /\ reports[t] = StatusOf(docker[a][t])
      BY <1>1, <1>2, <2>1 DEF Statuses, Statable, Of
    <3> QED BY <2>1, <3>1 DEF IsOver
  <2>2. CASE ContainerType[t] # "DOCKER"
    <3>1. reports[t] = ModuleStatus(a, t)
      BY <1>2, <2>2 DEF Statuses
    <3> QED BY <2>2, <3>1 DEF IsOver, ModuleStatus, Over
  <2> QED BY <2>1, <2>2
<1>4. \A t, state : IsOver(a, t, state)' <=> IsOver(a, t, state)
  BY <1>1 DEF IsOver
<1>8. ASSUME NEW t \in DOMAIN reports PROVE reports[t] # "STARTING"
  <2>1. CASE ContainerType[t] = "DOCKER"
    <3>1. t \in DOMAIN docker[a] /\ reports[t] = StatusOf(docker[a][t])
      BY <1>1, <1>2, <1>8, <2>1 DEF Statuses, Statable, Of
    <3>2. docker[a][t] \in ContainerStatus
      BY <1>1, <3>1, RunningAreTasks
    <3> QED BY <3>1, <3>2 DEF StatusOf, ContainerStatus
  <2>2. CASE ContainerType[t] # "DOCKER"
    BY <1>2, <1>8, <2>2 DEF Statuses, ModuleStatus
  <2> QED BY <2>1, <2>2
<1>5. \A t \in DOMAIN reports : reports[t] \in Over => t \notin ToSave(reports)
  BY DEF ToSave, Over
<1>6. ToSave(reports) \subseteq DOMAIN reports
  BY DEF ToSave
<1>7. ASSUME NEW t \in DOMAIN tasks, AgentOf[t] = a, tasks[t] \in Over
      PROVE  t \notin ToSave(reports) /\ (t \in DOMAIN reports => reports[t] = tasks[t])
  BY <1>2, <1>3, <1>5, <1>6, <1>7 DEF OverFits
<1> QED BY <1>1, <1>2, <1>3, <1>4, <1>7, <1>8 DEF OverFits, Unsaved

LEMMA OwnStepFits ==
  ASSUME ClusterInv, NEW a \in Agent, Settled(a), OverFits(a), OwnStep(a), tasks' = tasks
  PROVE  OverFits(a)'
<1> USE DEF ClusterInv, AgentInv, AgentTypeOK
<1>1. CASE Load(a)
  <2>1. /\ db'[a] = LoadedTable(a) /\ exchange' = exchange /\ UNCHANGED <<saved, docker, modules>>
        /\ exchange[a].phase # "asked"
    BY <1>1 DEF Load, Knowledge, LoopExchanges, wasmVars
  <2>2. DOMAIN db'[a] = saved[a] /\ ToSave(db'[a]) \subseteq saved[a]
    BY <2>1 DEF LoadedTable, ToSave
  <2> QED BY <2>1, <2>2, NothingStarts
<1>2. CASE Establish(a)
  <2>1. /\ docker'[a] = [t \in Running(a) |-> "running"] /\ modules'[a] = {}
        /\ UNCHANGED <<db, saved, exchange>> /\ pc[a] = "loaded"
    BY <1>2 DEF Establish
  <2>2. exchange[a].phase # "asked"
    BY <2>1 DEF Knowledge, LoopExchanges
  <2>3. \A x \in DOMAIN docker'[a] : x \in DOMAIN docker[a] /\ docker'[a][x] = docker[a][x]
    BY <2>1 DEF Running
  <2> QED BY <2>1, <2>2, <2>3, NothingStarts
<1>3. CASE SendPing(a)
  BY <1>3, SendPingFits
<1>4. ASSUME Gone(a), docker' = docker, modules'[a] \subseteq modules[a],
             saved'[a] \subseteq saved[a] \cup ToSave(db[a])
      PROVE  OverFits(a)'
  <2>1. DOMAIN db'[a] = {} /\ ToSave(db'[a]) = {} /\ exchange'[a].phase = "closed"
    BY <1>4 DEF Gone, None, Closed, ToSave
  <2> QED BY <1>4, <2>1, NothingStarts
<1>5. ASSUME NEW t \in Running(a), NEW status,
             docker' = [docker EXCEPT ![a][t] = status], UNCHANGED <<db, saved, modules, exchange>>
      PROVE  OverFits(a)'
  <2>1. \A x \in DOMAIN docker'[a] :
          x \in DOMAIN docker[a] /\ (docker'[a][x] = docker[a][x] \/ docker[a][x] = "running")
    BY <1>5 DEF Running
  <2> QED BY <1>5, <2>1, NothingStarts
<1>6. CASE HandleKill(a)
  <2>1. CASE UNCHANGED <<db, saved, docker, modules, exchange>>
    BY <2>1, NothingStarts
  <2> QED BY <1>4, <1>5, <1>6, <2>1 DEF HandleKill, Raise, wasmVars
<1>7. CASE HandleRun(a)
  <2> DEFINE t == exchange[a].pong.run
             more == [x \in DOMAIN docker[a] \cup {t} |-> IF x = t THEN "running" ELSE docker[a][x]]
  <2>1. exchange[a].phase = "answered" /\ exchange'[a].phase = "closed"
    BY <1>7 DEF HandleRun, PongInHand, Raise, Gone, Closed
  <2>2. t \notin DOMAIN tasks \/ tasks[t] \notin Over
    BY <2>1 DEF Settled, Over
  <2>3. /\ db'[a] = db[a] \/ db'[a] = None \/ db'[a] = Stored(a, t)
        /\ saved'[a] = saved[a] \/ saved'[a] = ToSave(Stored(a, t))
    BY <1>7 DEF HandleRun, Raise, Gone
  <2>4. modules'[a] \subseteq modules[a] \cup {t}
    BY <1>7 DEF HandleRun, LoadModule
  <2>5. docker' = docker \/ docker'[a] = more
    BY <1>7 DEF HandleRun, Launch
  <2>6. \A x \in DOMAIN docker'[a] :
          x \in {t} \/ (x \in DOMAIN docker[a] /\ docker'[a][x] = docker[a][x])
    BY <2>5
  <2>7. DOMAIN Stored(a, t) = DOMAIN db[a] \cup {t} /\ ToSave(Stored(a, t)) \subseteq ToSave(db[a])
    BY DEF Stored, ToSave
  <2>8. DOMAIN None = {} /\ ToSave(None) = {}
    BY DEF None, ToSave
  <2> HIDE DEF t
  <2>9. /\ ToSave(db'[a]) \cup saved'[a] \subseteq ToSave(db[a]) \cup saved[a] \cup {t}
        /\ DOMAIN db'[a] \subseteq DOMAIN db[a] \cup saved[a] \cup {t}
    BY <2>3, <2>7, <2>8
  <2> DEFINE started == {t}
  <2>10. /\ \A x \in started : x \notin DOMAIN tasks \/ tasks[x] \notin Over
         /\ \A x \in DOMAIN docker'[a] :
              \/ x \in started
              \/ x \in DOMAIN docker[a] /\ (docker'[a][x] = docker[a][x] \/ docker[a][x] = "running")
         /\ modules'[a] \subseteq modules[a] \cup started
         /\ ToSave(db'[a]) \cup saved'[a] \subseteq ToSave(db[a]) \cup saved[a] \cup started
         /\ DOMAIN db'[a] \subseteq DOMAIN db[a] \cup saved[a] \cup started
    BY <2>2, <2>4, <2>6, <2>9
  <2> HIDE DEF started
  <2>11. exchange'[a].phase # "asked"
    BY <2>1
  <2> QED BY <2>10, <2>11, OverFitsKept
<1>8. CASE RuntimeServes(a) \/ RuntimeEnds(a)
  <2>1. UNCHANGED <<db, saved, docker, exchange>> /\ modules'[a] \subseteq modules[a]
    BY <1>8 DEF RuntimeServes, RuntimeEnds
  <2> QED BY <2>1, NothingStarts
<1>9. ASSUME NEW t \in Task, ContainerEnds(a, t) PROVE OverFits(a)'
  BY <1>5, <1>9 DEF ContainerEnds, wasmVars
<1>10. CASE StatusRaises(a) \/ Crash(a) \/ CrashInSave(a)
  BY <1>4, <1>10 DEF StatusRaises, Raise, Crash, CrashInSave, Stopped
<1> QED BY <1>1, <1>2, <1>3, <1>6, <1>7, <1>8, <1>9, <1>10 DEF OwnStep, AgentStep

(* A ping served in its turn says of what is over that it is over, and what *)
(* it makes over the agent has said or does not know.                       *)
LEMMA ServePingFits ==
  ASSUME ClusterInv, InOrder, \A b \in Agent : OverFits(b),
         NEW a \in Agent, NEW resources \in Reportable, ServePing(a, resources)
  PROVE  /\ \A b \in Agent : OverFits(b)'
         /\ \A t \in DOMAIN tasks \cap DOMAIN tasks' : tasks[t] \in Over => tasks'[t] = tasks[t]
<1>a. MasterInv /\ MasterTypeOK /\ AgentInv /\ AgentTypeOK /\ Knowledge
  BY DEF ClusterInv, MasterInv, AgentInv
<1> PICK reports : reports = exchange[a].reports
  OBVIOUS
<1> DEFINE table == Refreshed(a, reports)
           run == NextTask(a, table)
<1>1. /\ tasks' = TasksAfter(a, reports) /\ exchange' = [exchange EXCEPT ![a] = Answered(Pong(a, reports))]
      /\ UNCHANGED <<db, saved, docker, modules>> /\ exchange[a].phase = "asked"
  BY <1>a DEF ServePing, GetPing, Answer, wasmVars
<1>2. /\ reports = db[a] /\ saved[a] \subseteq ToSave(db[a])
      /\ \A t \in DOMAIN db[a] : db[a][t] \in Over => IsOver(a, t, db[a][t])
  BY <1>1 DEF OverFits
<1>3. /\ DOMAIN reports \subseteq Task /\ DOMAIN reports \subseteq TasksOn(a)
      /\ reports \in [DOMAIN reports -> ReportedState]
  <2>1. reports \in ReportsOver(Handed(a))
    BY <1>1, <1>a DEF Knowledge, AgentKnows, ExchangeKnows, PingKnows
  <2> QED BY <2>1, ReportsAreOver DEF Handed, TasksOn
<1>4. /\ DOMAIN tasks' = DOMAIN tasks \cup DOMAIN reports
      /\ \A t \in DOMAIN tasks' : tasks'[t] = IF t = run THEN "ISSUED" ELSE table[t]
  <2>1. TasksAfter(a, reports) \in [DOMAIN tasks \cup DOMAIN reports -> TaskState]
    BY <1>3, <1>a, TableAfterPing
  <2>2. \A t \in DOMAIN tasks \cup DOMAIN reports :
          TasksAfter(a, reports)[t] = IF t = run THEN "ISSUED" ELSE table[t]
    BY <1>3, <1>a, AfterPing
  <2> HIDE DEF table, run
  <2> QED BY <1>1, <2>1, <2>2
<1>5. run # NoTask => run \in DOMAIN tasks /\ AgentOf[run] = a /\ tasks[run] \in {"UNISSUED", "ISSUED"}
  BY <1>3, <1>a, PongTaskWaited, NextTaskWaits DEF MasterTypeOK
<1>6. DOMAIN tasks' \subseteq Task
  BY <1>3, <1>4, <1>a DEF MasterTypeOK
<1> HIDE DEF run
<1>7. ASSUME NEW t \in DOMAIN tasks', AgentOf[t] # a
      PROVE  t \in DOMAIN tasks /\ tasks'[t] = tasks[t]
  BY <1>3, <1>4, <1>5, <1>6, <1>7, TaskInfoAssumption DEF Refreshed, Missing, TasksOn
<1>8. ASSUME NEW t \in DOMAIN tasks, AgentOf[t] = a, tasks[t] \in Over
      PROVE  tasks'[t] = tasks[t]
  <2>1. t # run
    BY <1>5, <1>6, <1>4, <1>8, TaskInfoAssumption DEF Over
  <2>2. t \in DOMAIN reports => reports[t] = tasks[t]
    BY <1>1, <1>2, <1>8 DEF OverFits
  <2>3. tasks'[t] = table[t]
    BY <1>4, <2>1
  <2> QED BY <1>8, <2>2, <2>3 DEF Refreshed, Reported, Missing, Over
<1>9. OverFits(a)'
  <2>1. exchange'[a].phase = "answered"
    BY <1>1, <1>a DEF Answered, AgentTypeOK
  <2>2. ASSUME NEW t \in DOMAIN tasks', AgentOf[t] = a, tasks'[t] \in Over
        PROVE  Unsaved(a, t) /\ (t \in DOMAIN db[a] => IsOver(a, t, tasks'[t]))
    <3>1. tasks'[t] = table[t]
      BY <1>4, <2>2 DEF Over
    <3>2. CASE t \in DOMAIN db[a]
      <4>1. tasks'[t] = db[a][t]
        BY <1>2, <1>4, <2>2, <3>1, <3>2 DEF Refreshed, Reported, Over
      <4>2. t \notin ToSave(db[a])
        BY <2>2, <4>1 DEF ToSave, Over
      <4> QED BY <1>2, <2>2, <4>1, <4>2 DEF Unsaved
    <3>3. CASE t \notin DOMAIN db[a]
      BY <1>2, <3>3 DEF Unsaved, ToSave
    <3> QED BY <3>2, <3>3
  <2>3. \A t, state : /\ IsOver(a, t, state)' <=> IsOver(a, t, state)
                      /\ Unsaved(a, t)' <=> Unsaved(a, t)
    BY <1>1 DEF IsOver, Unsaved
  <2> QED BY <1>1, <2>1, <2>2, <2>3 DEF OverFits
<1>10. ASSUME NEW b \in Agent \ {a} PROVE OverFits(b)'
  <2>1. exchange'[b] = exchange[b] /\ UNCHANGED <<db, saved, docker, modules>>
    BY <1>1, <1>a DEF AgentTypeOK
  <2>2. \A t, state : /\ IsOver(b, t, state)' <=> IsOver(b, t, state)
                      /\ Unsaved(b, t)' <=> Unsaved(b, t)
    BY <2>1 DEF IsOver, Unsaved
  <2> QED BY <1>7, <2>1, <2>2 DEF OverFits
<1>11. ASSUME NEW t \in DOMAIN tasks \cap DOMAIN tasks', tasks[t] \in Over PROVE tasks'[t] = tasks[t]
  BY <1>7, <1>8, <1>11
<1> QED BY <1>9, <1>10, <1>11

(* A step that touches no agent and nothing over.                           *)
LEMMA OverUntouched ==
  ASSUME NEW a \in Agent, OverFits(a), UNCHANGED <<db, saved, docker, modules, exchange>>,
         \A t \in DOMAIN tasks' : tasks'[t] \in Over => t \in DOMAIN tasks /\ tasks'[t] = tasks[t]
  PROVE  OverFits(a)'
<1>1. \A t, state : /\ IsOver(a, t, state)' <=> IsOver(a, t, state)
                    /\ Unsaved(a, t)' <=> Unsaved(a, t)
  BY DEF IsOver, Unsaved
<1> QED BY <1>1 DEF OverFits

(* Every step of a deployment whose pings are served in order.              *)
LEMMA OverKept ==
  ASSUME MaxLate = 0, ClusterInv, InOrder, \A a \in Agent : OverFits(a), [Next]_vars
  PROVE  /\ \A a \in Agent : OverFits(a)'
         /\ \A t \in DOMAIN tasks \cap DOMAIN tasks' :
              tasks[t] \in Over => tasks'[t] = tasks[t] \/ tasks[t] = "ERRORED"
<1>a. MasterInv /\ MasterTypeOK /\ AgentInv /\ AgentTypeOK /\ Knowledge
  BY DEF ClusterInv, MasterInv, AgentInv
<1> DEFINE Goal == /\ \A a \in Agent : OverFits(a)'
                   /\ \A t \in DOMAIN tasks \cap DOMAIN tasks' :
                        tasks[t] \in Over => tasks'[t] = tasks[t] \/ tasks[t] = "ERRORED"
<1>2. ASSUME ClockTicks \/ RequestOffers \/ UNCHANGED vars PROVE Goal
  <2>1. UNCHANGED <<tasks, db, saved, docker, modules, exchange>>
    BY <1>2 DEF ClockTicks, RequestOffers, Tick, GetResourceOffer, tables, agentVars, wasmVars, vars, masterVars
  <2> QED BY <2>1, OverUntouched
<1>3. ASSUME NEW t \in Task, AskKill(t) PROVE Goal
  <2>1. UNCHANGED <<db, saved, docker, modules, exchange>>
    BY <1>3 DEF AskKill, agentVars, wasmVars
  <2>2. \/ tasks' = tasks
        \/ /\ tasks' = [tasks EXCEPT ![t] = "KILLING"]
           /\ t \in DOMAIN tasks => tasks[t] \notin {"KILLED", "COMPLETED"}
    BY <1>3 DEF AskKill, KillTask, Known, Over
  <2>3. /\ \A x \in DOMAIN tasks' : tasks'[x] \in Over => x \in DOMAIN tasks /\ tasks'[x] = tasks[x]
        /\ \A x \in DOMAIN tasks \cap DOMAIN tasks' :
             tasks[x] \in Over => tasks'[x] = tasks[x] \/ tasks[x] = "ERRORED"
    BY <2>2 DEF Over
  <2> QED BY <2>1, <2>3, OverUntouched
<1>4. ASSUME NEW t \in Task, NEW k \in 1..MaxRounds, Submit(t, k) PROVE Goal
  <2>1. t \notin DOMAIN tasks
    BY <1>4, <1>a DEF Submit, RunTask, MasterInv, OnlyAccepted
  <2>2. UNCHANGED <<db, saved, docker, modules, exchange>> /\ tasks' = WithTask(t)
    BY <1>4 DEF Submit, RunTask, agentVars, wasmVars
  <2>3. /\ \A x \in DOMAIN tasks' : tasks'[x] \in Over => x \in DOMAIN tasks /\ tasks'[x] = tasks[x]
        /\ \A x \in DOMAIN tasks \cap DOMAIN tasks' : tasks[x] \in Over => tasks'[x] = tasks[x]
    BY <2>1, <2>2 DEF WithTask, Over
  <2> QED BY <2>2, <2>3, OverUntouched
<1>5. ASSUME UNCHANGED <<db, saved, docker, modules>>, tasks' = tasks \/ DOMAIN tasks' = {},
             \A a \in Agent : exchange'[a] = exchange[a] \/ exchange'[a] = Closed
      PROVE  Goal
  <2>1. \A a, t, state : /\ IsOver(a, t, state)' <=> IsOver(a, t, state)
                         /\ Unsaved(a, t)' <=> Unsaved(a, t)
    BY <1>5 DEF IsOver, Unsaved
  <2>2. ASSUME NEW a \in Agent PROVE OverFits(a)'
    <3>1. exchange'[a].phase = "asked" => exchange'[a] = exchange[a]
      BY <1>5 DEF Closed
    <3>2. \A t \in DOMAIN tasks' : t \in DOMAIN tasks /\ tasks'[t] = tasks[t]
      BY <1>5
    <3>3. UNCHANGED <<db, saved>> /\ OverFits(a)
      BY <1>5
    <3> QED BY <2>1, <3>1, <3>2, <3>3 DEF OverFits
  <2> QED BY <1>5, <2>2
<1>6. ASSUME MasterRestarts PROVE Goal
  BY <1>5, <1>6 DEF MasterRestarts, Restart, GiveUp, wasmVars
<1>7. ASSUME NEW a \in Agent, AgentGivesUp(a) PROVE Goal
  BY <1>5, <1>7 DEF AgentGivesUp, GiveUp, masterVars, tables, wasmVars
<1>8. ASSUME NEW a \in Agent, OwnStep(a), tasks' = tasks PROVE Goal
  <2>1. OverFits(a)'
    BY <1>8, OwnStepFits DEF InOrder
  <2>2. ASSUME NEW b \in Agent \ {a} PROVE OverFits(b)'
    <3>1. /\ db'[b] = db[b] /\ saved'[b] = saved[b] /\ docker'[b] = docker[b]
          /\ modules'[b] = modules[b] /\ exchange'[b] = exchange[b]
      BY <1>8, <1>a, OwnStepLeavesOthers
    <3>2. \A t, state : /\ IsOver(b, t, state)' <=> IsOver(b, t, state)
                        /\ Unsaved(b, t)' <=> Unsaved(b, t)
      BY <3>1 DEF IsOver, Unsaved
    <3> QED BY <1>8, <3>1, <3>2 DEF OverFits
  <2> QED BY <1>8, <2>1, <2>2
<1>9. ASSUME NEW a \in Agent,
             AgentActs(a) \/ AgentStops(a) \/ RuntimeActs(a) \/ \E t \in Task : TaskEnds(a, t)
      PROVE  Goal
  BY <1>8, <1>9 DEF AgentActs, AgentStops, RuntimeActs, TaskEnds, OwnStep, masterVars, tables
<1>10. ASSUME NEW ping \in late, NEW resources \in Reportable, ServeLatePing(ping, resources) PROVE FALSE
  BY <1>10 DEF InOrder
<1> QED BY <1>2, <1>3, <1>4, <1>6, <1>7, <1>9, <1>10, ServePingFits DEF Next

(* A task shown as COMPLETED or KILLED stays that way when no ping is late, *)
(* although agents and the master restart, agents give up on exchanges, and *)
(* ended containers stay in the agent's reports (db.py 62-85, 100-110,      *)
(* dockerhelper.py 91-111).                                                 *)
THEOREM OverStays == ASSUME MaxLate = 0 PROVE Spec => OverIsOver
<1> DEFINE OverInv == InOrder /\ \A a \in Agent : OverFits(a)
<1>1. Init => OverInv
  <2>1. Init => InOrder
    BY InitInOrder
  <2>2. Init => \A a \in Agent : OverFits(a)
    BY DEF Init, MasterInit, AgentInit, Closed, OverFits
  <2> QED BY <2>1, <2>2
<1>2. ClusterInv /\ OverInv /\ [Next]_vars => OverInv'
  <2> SUFFICES ASSUME ClusterInv, OverInv, [Next]_vars PROVE OverInv'
    OBVIOUS
  <2>1. InOrder'
    BY InOrderKept
  <2>2. \A a \in Agent : OverFits(a)'
    BY OverKept
  <2> QED BY <2>1, <2>2
<1>3. ClusterInv /\ OverInv /\ [Next]_vars =>
        [\A t \in DOMAIN tasks \cap DOMAIN tasks' :
           tasks[t] \in {"COMPLETED", "KILLED"} => tasks'[t] = tasks[t]]_vars
  BY OverKept DEF Over
<1> HIDE DEF OverInv
<1> QED BY <1>1, <1>2, <1>3, ClusterInvariance, PTL DEF Spec, OverIsOver
-----------------------------------------------------------------------------
(* The life of tasks, on the same condition.  Python agents never say that  *)
(* a task is starting (dockerhelper.py 91-111).                             *)
NoneStarting == \A t \in DOMAIN tasks : tasks[t] # "STARTING"

(* An exchange served in its turn moves each task onward: what is over      *)
(* stays, what was never handed out is not heard of.                        *)
LEMMA ExchangeMovesOn ==
  ASSUME ClusterInv, InOrder, \A b \in Agent : OverFits(b), NoneStarting,
         NEW a \in Agent, NEW resources \in Reportable, ServePing(a, resources)
  PROVE  Life!HearFrom(a) /\ NoneStarting'
<1>a. MasterInv /\ MasterTypeOK /\ Knowledge
  BY DEF ClusterInv, MasterInv
<1> PICK reports : reports = exchange[a].reports
  OBVIOUS
<1> DEFINE table == Refreshed(a, reports)
           run == NextTask(a, table)
<1>1. /\ tasks' = TasksAfter(a, reports) /\ issued' = issued \cup ({run} \ {NoTask})
      /\ exchange[a].phase = "asked" /\ UNCHANGED <<submitted, killAsked>>
  BY DEF ServePing, GetPing, Pong, networkVars
<1>2. reports = db[a] /\ \A t \in DOMAIN reports : reports[t] # "STARTING"
  BY <1>1 DEF OverFits
<1>3. /\ DOMAIN reports \subseteq Task /\ DOMAIN reports \subseteq Handed(a)
      /\ reports \in [DOMAIN reports -> ReportedState]
  <2>1. reports \in ReportsOver(Handed(a))
    BY <1>1, <1>a DEF Knowledge, AgentKnows, ExchangeKnows, PingKnows
  <2> QED BY <2>1, ReportsAreOver DEF Handed, TasksOn
<1>4. /\ DOMAIN table = DOMAIN tasks \cup DOMAIN reports /\ DOMAIN tasks' = DOMAIN table
      /\ \A t \in DOMAIN tasks' : tasks'[t] = IF t = run THEN "ISSUED" ELSE table[t]
  <2>1. /\ DOMAIN TasksAfter(a, reports) = DOMAIN tasks \cup DOMAIN reports
        /\ DOMAIN table = DOMAIN tasks \cup DOMAIN reports
    BY <1>3, <1>a, TableAfterPing
  <2>2. \A t \in DOMAIN tasks \cup DOMAIN reports :
          TasksAfter(a, reports)[t] = IF t = run THEN "ISSUED" ELSE table[t]
    BY <1>3, <1>a, AfterPing
  <2> HIDE DEF table, run
  <2> QED BY <1>1, <2>1, <2>2
<1>5. run # NoTask => /\ run \in DOMAIN tasks /\ AgentOf[run] = a
                      /\ tasks[run] \in {"UNISSUED", "ISSUED"}
  BY <1>3, <1>a, PongTaskWaited, NextTaskWaits DEF MasterTypeOK
<1>6. DOMAIN tasks \subseteq Task /\ DOMAIN tasks' \subseteq Task /\ NoTask \notin Task
  BY <1>3, <1>4, <1>a, TaskInfoAssumption DEF MasterTypeOK
<1>7. \A t \in DOMAIN tasks \cap DOMAIN tasks' : tasks[t] \in Over => tasks'[t] = tasks[t]
  BY ServePingFits
<1>8. \A t \in DOMAIN tasks : /\ tasks[t] \in TaskState \ {"STARTING"}
                              /\ tasks[t] = "UNISSUED" <=> t \notin issued
  BY <1>a DEF MasterInv, MasterTypeOK, IssuedInAPong, NoneStarting
<1>9. ASSUME NEW t \in DOMAIN reports
      PROVE  /\ t \in issued /\ AgentOf[t] = a /\ reports[t] \in {"RUNNING"} \cup Life!Ended
             /\ table[t] = Reported(t, reports[t])
  BY <1>2, <1>3, <1>9 DEF Handed, TasksOn, ReportedState, Life!Ended, Refreshed
<1>10. ASSUME NEW t \in DOMAIN tasks \ DOMAIN reports PROVE table[t] = Missing(a, t)
  BY DEF Refreshed
<1> HIDE DEF run, table
<1>11. ASSUME NEW t \in DOMAIN tasks'
       PROVE  \/ t \in DOMAIN tasks /\ tasks'[t] = tasks[t]
              \/ t = run /\ t \in DOMAIN tasks /\ tasks[t] = "UNISSUED" /\ tasks'[t] = "ISSUED"
              \/ /\ t # run /\ AgentOf[t] = a /\ t \in issued /\ tasks'[t] \in {"RUNNING"} \cup Life!Ended
                 /\ \/ t \notin DOMAIN tasks \/ tasks[t] = "ISSUED"
                    \/ tasks[t] \in {"RUNNING", "KILLING"} /\ tasks'[t] \in Life!Ended
  <2>1. CASE t = run
    BY <1>4, <1>5, <1>6, <1>11, <2>1
  <2>2. CASE t # run /\ t \in DOMAIN reports /\ t \in DOMAIN tasks
    <3>1. tasks'[t] = IF tasks[t] = "KILLING" /\ reports[t] = "RUNNING" THEN "KILLING" ELSE reports[t]
      BY <1>4, <1>9, <2>2 DEF Reported, Known
    <3>2. tasks[t] \in {"ISSUED", "RUNNING", "KILLING"} \cup Over
      BY <1>8, <1>9, <2>2 DEF TaskState, Over
    <3> QED BY <1>7, <1>9, <2>2, <3>1, <3>2 DEF Life!Ended
  <2>3. CASE t # run /\ t \in DOMAIN reports /\ t \notin DOMAIN tasks
    BY <1>4, <1>9, <2>3 DEF Reported, Known
  <2>4. CASE t # run /\ t \notin DOMAIN reports
    <3>1. t \in DOMAIN tasks /\ tasks'[t] = Missing(a, t)
      BY <1>4, <1>10, <2>4
    <3> QED BY <1>8, <2>4, <3>1 DEF Missing, Life!Ended
  <2> QED BY <2>1, <2>2, <2>3, <2>4
<1>12. NoneStarting'
  BY <1>8, <1>11 DEF NoneStarting, Life!Ended
<1>13. \A t \in DOMAIN tasks' : tasks'[t] \in TaskState
  BY <1>8, <1>11 DEF TaskState, Life!Ended
<1>14. \A t \in Task : /\ Shown[t] = IF t \in DOMAIN tasks THEN tasks[t] ELSE "UNKNOWN"
                       /\ Shown'[t] = IF t \in DOMAIN tasks' THEN tasks'[t] ELSE "UNKNOWN"
  BY DEF Shown
<1>15. ASSUME NEW t \in Life!Moved
       PROVE  /\ t \in Task /\ AgentOf[t] = a /\ <<Shown[t], Shown'[t]>> \in Life!Onward
              /\ Shown[t] = "UNISSUED" => t = run
              /\ Shown[t] = "UNISSUED" \/ t \in issued
  <2>1. t \in Task /\ Shown'[t] # Shown[t]
    BY DEF Life!Moved
  <2>2. t \in DOMAIN tasks'
    BY <1>4, <1>14, <2>1
  <2> QED BY <1>5, <1>6, <1>11, <1>14, <2>1, <2>2 DEF Life!Onward
<1>16. issued' = issued \cup {t \in Life!Moved : Shown[t] = "UNISSUED"}
  <2>1. CASE run \in DOMAIN tasks /\ tasks[run] = "UNISSUED"
    <3>1. Shown[run] = "UNISSUED" /\ Shown'[run] = "ISSUED" /\ run \in Task /\ run # NoTask
      BY <1>4, <1>6, <1>14, <2>1
    <3>2. run \in Life!Moved
      BY <3>1 DEF Life!Moved
    <3>3. {t \in Life!Moved : Shown[t] = "UNISSUED"} = {run}
      BY <1>15, <3>1, <3>2
    <3> QED BY <1>1, <3>1, <3>3
  <2>2. CASE ~(run \in DOMAIN tasks /\ tasks[run] = "UNISSUED")
    <3>1. {t \in Life!Moved : Shown[t] = "UNISSUED"} = {}
      BY <1>6, <1>14, <1>15, <2>2
    <3>2. {run} \ {NoTask} \subseteq issued
      BY <1>5, <1>8, <2>2
    <3> QED BY <1>1, <3>1, <3>2
  <2> QED BY <2>1, <2>2
<1>17. Shown' \in [Task -> Life!ShownState]
  BY <1>13 DEF Shown, Life!ShownState, Life!TaskState, TaskState
<1>18. \A t, u \in Life!Moved : Shown[t] = "UNISSUED" /\ Shown[u] = "UNISSUED" => t = u
  BY <1>15
<1> QED BY <1>1, <1>12, <1>15, <1>16, <1>17, <1>18 DEF Life!HearFrom

(* Every step of a deployment is a step in the lives of its tasks, or none. *)
LEMMA StepsMoveOn ==
  ASSUME MaxLate = 0, ClusterInv, InOrder, \A a \in Agent : OverFits(a), NoneStarting, [Next]_vars
  PROVE  [Life!LifeNext]_Life!lifeVars /\ NoneStarting'
<1>a. MasterInv /\ MasterTypeOK
  BY DEF ClusterInv, MasterInv
<1> DEFINE Goal == [Life!LifeNext]_Life!lifeVars /\ NoneStarting'
<1>1. ASSUME UNCHANGED <<tasks, submitted, issued, killAsked>> PROVE Goal
  BY <1>1 DEF Life!lifeVars, Shown, NoneStarting
<1>2. ASSUME ClockTicks \/ RequestOffers \/ UNCHANGED vars PROVE Goal
  BY <1>1, <1>2 DEF ClockTicks, RequestOffers, Tick, GetResourceOffer, tables, vars, masterVars, networkVars
<1>3. ASSUME NEW t \in Task, AskKill(t) PROVE Goal
  <2>1. /\ t \in submitted /\ killAsked' = killAsked \cup {t} /\ UNCHANGED <<submitted, issued>>
        /\ t \in DOMAIN tasks => tasks[t] \notin {"KILLED", "COMPLETED"}
        /\ tasks' = IF t \in DOMAIN tasks /\ tasks[t] # "UNISSUED"
                      THEN [tasks EXCEPT ![t] = "KILLING"] ELSE tasks
    BY <1>3 DEF AskKill, KillTask, Known
  <2>2. Shown[t] = IF t \in DOMAIN tasks THEN tasks[t] ELSE "UNKNOWN"
    BY DEF Shown
  <2>3. "UNKNOWN" \notin TaskState /\ (t \in DOMAIN tasks => tasks[t] \in TaskState)
    BY <1>a DEF MasterTypeOK, TaskState
  <2>4. Shown' = IF Shown[t] \in {"UNKNOWN", "UNISSUED"} THEN Shown
                 ELSE [Shown EXCEPT ![t] = "KILLING"]
    <3>1. CASE t \in DOMAIN tasks /\ tasks[t] # "UNISSUED"
      BY <2>1, <2>2, <2>3, <3>1 DEF Shown
    <3>2. CASE ~(t \in DOMAIN tasks /\ tasks[t] # "UNISSUED")
      BY <2>1, <2>2, <3>2 DEF Shown
    <3> QED BY <3>1, <3>2
  <2>5. Life!AskToKill(t)
    BY <2>1, <2>2, <2>4 DEF Life!AskToKill
  <2>6. NoneStarting'
    BY <2>1 DEF NoneStarting
  <2> QED BY <2>5, <2>6 DEF Life!LifeNext
<1>4. ASSUME NEW t \in Task, NEW k \in 1..MaxRounds, Submit(t, k) PROVE Goal
  <2>1. t \notin DOMAIN tasks /\ t \notin submitted
    BY <1>4, <1>a DEF Submit, RunTask, MasterInv, OnlyAccepted
  <2>2. tasks' = WithTask(t) /\ submitted' = submitted \cup {t} /\ UNCHANGED <<issued, killAsked>>
    BY <1>4 DEF Submit, RunTask, networkVars
  <2>3. Shown[t] = "UNKNOWN" /\ Shown' = [Shown EXCEPT ![t] = "UNISSUED"]
    BY <2>1, <2>2 DEF Shown, WithTask
  <2>4. Life!Accept(t)
    BY <2>1, <2>2, <2>3 DEF Life!Accept
  <2>5. NoneStarting'
    BY <2>2 DEF NoneStarting, WithTask
  <2> QED BY <2>4, <2>5 DEF Life!LifeNext
<1>5. ASSUME MasterRestarts PROVE Goal
  <2>1. DOMAIN tasks' = {} /\ UNCHANGED <<submitted, issued, killAsked>>
    BY <1>5 DEF MasterRestarts, Restart
  <2>2. Life!Forget
    BY <2>1 DEF Life!Forget, Shown
  <2> QED BY <2>1, <2>2 DEF Life!LifeNext, NoneStarting
<1>6. ASSUME NEW a \in Agent, NEW resources \in Reportable, ServePing(a, resources) PROVE Goal
  BY <1>6, ExchangeMovesOn DEF Life!LifeNext
<1>7. ASSUME NEW a \in Agent,
             \/ AgentActs(a) \/ AgentGivesUp(a) \/ AgentStops(a) \/ RuntimeActs(a)
             \/ \E t \in Task : TaskEnds(a, t)
      PROVE  Goal
  BY <1>1, <1>7 DEF AgentActs, AgentGivesUp, AgentStops, RuntimeActs, TaskEnds, masterVars, tables, networkVars
<1>8. ASSUME NEW ping \in late, NEW resources \in Reportable, ServeLatePing(ping, resources) PROVE FALSE
  BY <1>8 DEF InOrder
<1> QED BY <1>2, <1>3, <1>4, <1>5, <1>6, <1>7, <1>8 DEF Next

(* A deployment implements the life of tasks when no ping is late, for any  *)
(* number of agents, tasks, timeouts, crashes and restarts (db.py 62-110,   *)
(* 129-138).                                                                *)
THEOREM LivesMoveOnward == ASSUME MaxLate = 0 PROVE Spec => LivesGoOnward
<1> DEFINE LifeInv == InOrder /\ NoneStarting /\ \A a \in Agent : OverFits(a)
<1>1. Init => LifeInv /\ Life!LifeInit
  <2>1. Init => InOrder
    BY InitInOrder
  <2>2. Init => NoneStarting /\ \A a \in Agent : OverFits(a)
    BY DEF Init, MasterInit, AgentInit, Closed, OverFits, NoneStarting
  <2>3. Init => Life!LifeInit
    BY DEF Init, MasterInit, Life!LifeInit, Shown
  <2> QED BY <2>1, <2>2, <2>3
<1>2. ClusterInv /\ LifeInv /\ [Next]_vars => LifeInv' /\ [Life!LifeNext]_Life!lifeVars
  <2> SUFFICES ASSUME ClusterInv, LifeInv, [Next]_vars
               PROVE  LifeInv' /\ [Life!LifeNext]_Life!lifeVars
    OBVIOUS
  <2>1. InOrder'
    BY InOrderKept
  <2>2. \A a \in Agent : OverFits(a)'
    BY OverKept
  <2>3. NoneStarting' /\ [Life!LifeNext]_Life!lifeVars
    BY StepsMoveOn
  <2> QED BY <2>1, <2>2, <2>3
<1> HIDE DEF LifeInv
<1> QED BY <1>1, <1>2, ClusterInvariance, PTL DEF Spec, LivesGoOnward, Life!LifeSpec
=============================================================================
