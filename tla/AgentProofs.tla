------------------------------ MODULE AgentProofs ------------------------------
(***************************************************************************)
(* Theorems about the Python agent, for any agents, tasks and starts, and  *)
(* for any pongs a master may answer with.                                 *)
(***************************************************************************)
EXTENDS PyAgent, TLAPS

\* A pong is being carried out only after it has been received.
PongInHand == \A a \in Agent : pc[a] = "launching" => exchange[a].phase = "answered"

\* Between the load of the handles and the prune of the containers those that
\* run have handles; the others may be containers that ended while the agent
\* was down.
RunningCovered ==
  \A a \in Agent : pc[a] = "loaded" => Running(a) \subseteq DOMAIN handles[a]

AgentInv ==
  AgentTypeOK /\ PongInHand /\ RunningCovered /\ HandlesCoverDocker /\ ModulesAreStored

\* The parts of the invariant that are not about types.
Parts == PongInHand /\ RunningCovered /\ HandlesCoverDocker /\ ModulesAreStored
-----------------------------------------------------------------------------
(* A dictionary keyed by task is a function from some of the tasks.         *)
LEMMA DictMembers ==
  ASSUME NEW S, NEW f
  PROVE  f \in Dict(S) <=> DOMAIN f \subseteq Task /\ f \in [DOMAIN f -> S]
BY DEF Dict

LEMMA TablesAreDicts ==
  /\ TaskTable = Dict(TaskState) /\ ContainerTable = Dict(ContainerStatus)
  /\ HandleTable = Dict(ContainerStatus \cup {"created"})
  /\ Reports = ReportsOver(Task)
BY DEF TaskTable, ContainerTable, HandleTable, Reports

(* The HTTP exchanges there are.                                            *)
LEMMA Exchanges ==
  /\ Closed \in Exchange /\ Closed.phase = "closed"
  /\ \A r \in Reports : Asked(r) \in Exchange /\ Asked(r).phase = "asked"
  /\ \A a \in Agent : \A p \in PongTo(a) :
       Answered(p) \in Exchange /\ Answered(p).phase = "answered" /\ Answered(p).pong = p
BY DEF Exchange, Closed, Asked, Answered, PongTo, TasksOn

(* The containers that run are among those of the agent's tasks.            *)
LEMMA RunningAreTasks ==
  ASSUME AgentTypeOK, NEW a \in Agent
  PROVE  /\ Running(a) \subseteq DOMAIN docker[a] /\ Running(a) \subseteq Task
         /\ DOMAIN docker[a] \subseteq Task /\ docker[a] \in [DOMAIN docker[a] -> ContainerStatus]
         /\ DOMAIN handles[a] \subseteq Task
         /\ handles[a] \in [DOMAIN handles[a] -> ContainerStatus \cup {"created"}]
         /\ DOMAIN db[a] \subseteq Task /\ db[a] \in [DOMAIN db[a] -> TaskState]
BY DictMembers, TablesAreDicts DEF AgentTypeOK, Running

(* What a ping says of a task, whatever became of its container             *)
(* (dockerhelper.py 91-111).                                                *)
LEMMA StatusIsReportable ==
  ASSUME NEW status \in ContainerStatus
  PROVE  StatusOf(status) \in {"RUNNING", "COMPLETED", "KILLED", "ERRORED"}
BY DEF ContainerStatus, StatusOf

LEMMA StatusesAreTyped ==
  ASSUME AgentTypeOK, NEW a \in Agent, Statable(a)
  PROVE  /\ Statuses(a) \in TaskTable
         /\ Statuses(a) \in Reports
         /\ ToSave(Statuses(a)) \subseteq Task
<1> DEFINE shown(t) == IF ContainerType[t] = "DOCKER" THEN StatusOf(docker[a][t])
                                                      ELSE ModuleStatus(a, t)
<1>1. ASSUME NEW t \in DOMAIN db[a]
      PROVE  shown(t) \in {"RUNNING", "COMPLETED", "KILLED", "ERRORED"}
  <2>1. CASE ContainerType[t] = "DOCKER"
    <3>1. t \in DOMAIN docker[a]
      BY <2>1 DEF Statable, Of
    <3>2. docker[a][t] \in ContainerStatus
      BY <3>1, RunningAreTasks
    <3> QED BY <2>1, <3>2, StatusIsReportable
  <2>2. CASE ContainerType[t] # "DOCKER"
    BY <2>2 DEF ModuleStatus
  <2> QED BY <2>1, <2>2
<1>2. Statuses(a) \in [DOMAIN db[a] -> {"RUNNING", "COMPLETED", "KILLED", "ERRORED"}]
  BY <1>1 DEF Statuses
<1>3. DOMAIN db[a] \subseteq Task
  BY RunningAreTasks
<1>4. Statuses(a) \in [DOMAIN db[a] -> TaskState] /\ Statuses(a) \in [DOMAIN db[a] -> ReportedState]
  BY <1>2 DEF TaskState, ReportedState
<1>5. Statuses(a) \in TaskTable
  BY <1>3, <1>4, DictMembers, TablesAreDicts
<1>6. Statuses(a) \in Reports
  BY <1>3, <1>4, TablesAreDicts DEF ReportsOver
<1>7. ToSave(Statuses(a)) \subseteq Task
  BY <1>2, <1>3 DEF ToSave
<1> QED BY <1>5, <1>6, <1>7

-----------------------------------------------------------------------------
(* A process that is gone has an empty memory, whatever ended it            *)
(* (agent.py 219-229).                                                      *)
LEMMA GoneKeepsInv ==
  ASSUME AgentInv, NEW a \in Agent, Gone(a),
         saved' \in [Agent -> SUBSET Task], raised' \in [Agent -> BOOLEAN],
         runtime' \in [Agent -> {"absent", "starting", "serving", "stopped"}],
         modules' \in [Agent -> SUBSET Task], \A b \in Agent : modules'[b] \subseteq modules[b],
         UNCHANGED <<docker, boots, ended>>
  PROVE  AgentInv'
<1>1. None \in TaskTable /\ None \in HandleTable
  BY DictMembers, TablesAreDicts DEF None
<1>2. AgentTypeOK'
  BY <1>1, Exchanges DEF AgentInv, AgentTypeOK, Gone
<1>3. PongInHand' /\ RunningCovered' /\ HandlesCoverDocker'
  BY DEF AgentInv, AgentTypeOK, Gone, PongInHand, RunningCovered, HandlesCoverDocker, Running
<1>4. ModulesAreStored'
  BY DEF AgentInv, AgentTypeOK, Gone, ModulesAreStored
<1> QED BY <1>2, <1>3, <1>4 DEF AgentInv

(* An exception keeps the containers, the runtime's included.               *)
LEMMA RaiseKeepsInv ==
  ASSUME AgentInv, NEW a \in Agent, Raise(a), saved' \in [Agent -> SUBSET Task],
         UNCHANGED <<docker, runtime, modules, boots, ended>>
  PROVE  AgentInv'
BY GoneKeepsInv DEF Raise, AgentInv, AgentTypeOK

(* A stop from outside may take the runtime along.                          *)
LEMMA StoppedKeepsInv ==
  ASSUME AgentInv, NEW a \in Agent, Stopped(a), saved' \in [Agent -> SUBSET Task],
         UNCHANGED <<docker, boots, raised, ended>>
  PROVE  AgentInv'
<1>1. runtime' \in [Agent -> {"absent", "starting", "serving", "stopped"}]
      /\ modules' \in [Agent -> SUBSET Task] /\ \A b \in Agent : modules'[b] \subseteq modules[b]
  BY DEF Stopped, AgentInv, AgentTypeOK
<1> QED BY <1>1, GoneKeepsInv DEF Stopped, AgentInv, AgentTypeOK

LEMMA LoadKeepsInv ==
  ASSUME AgentInv, NEW a \in Agent, Load(a)
  PROVE  AgentInv'
<1>1. AgentTypeOK
  BY DEF AgentInv, Parts
<1>2. LoadedTable(a) \in TaskTable
  BY <1>1, DictMembers, TablesAreDicts DEF LoadedTable, AgentTypeOK, TaskState
<1> DEFINE listed == [t \in Running(a) |-> "running"]
<1>3. listed \in HandleTable /\ DOMAIN listed = Running(a)
  BY <1>1, RunningAreTasks, DictMembers, TablesAreDicts DEF ContainerStatus
<1> HIDE DEF listed
<1>4. handles' = [handles EXCEPT ![a] = listed]
  BY DEF Load, listed
<1>5. boots' \in [Agent -> Nat]
  BY <1>1 DEF AgentTypeOK, Load
<1>6. AgentTypeOK'
  BY <1>1, <1>2, <1>3, <1>4, <1>5 DEF wasmVars, AgentTypeOK, Load
<1>7. Parts'
  BY <1>3, <1>4 DEF wasmVars, AgentInv, AgentTypeOK, Load, Parts,
     PongInHand, RunningCovered, HandlesCoverDocker, ModulesAreStored, Running
<1> QED BY <1>6, <1>7 DEF AgentInv, Parts

(* The new runtime starts without modules, and the containers that are left *)
(* have handles (wasmhelper.py 40-66).                                      *)
LEMMA EstablishKeepsInv ==
  ASSUME AgentInv, NEW a \in Agent, Establish(a)
  PROVE  AgentInv'
<1>1. AgentTypeOK
  BY DEF AgentInv
<1> DEFINE kept == [t \in Running(a) |-> "running"]
<1>2. kept \in ContainerTable /\ DOMAIN kept = Running(a)
  BY <1>1, RunningAreTasks, DictMembers, TablesAreDicts DEF ContainerStatus
<1> HIDE DEF kept
<1>3. /\ docker' = [docker EXCEPT ![a] = kept] /\ pc' = [pc EXCEPT ![a] = "looping"]
      /\ pc[a] = "loaded" /\ modules' = [modules EXCEPT ![a] = {}]
      /\ UNCHANGED <<db, saved, handles, exchange, boots, raised, ended>>
  BY DEF Establish, kept
<1>4. enabled' \in [Agent -> BOOLEAN]
      /\ runtime' \in [Agent -> {"absent", "starting", "serving", "stopped"}]
  <2>1. PICK load \in LoadWasm[a] :
          /\ enabled' = [enabled EXCEPT ![a] = load \/ runtime[a] = "stopped"]
          /\ runtime' = [runtime EXCEPT ![a] = IF load THEN "starting" ELSE "absent"]
    BY DEF Establish
  <2>2. load \in BOOLEAN
    BY AgentAssumption
  <2> QED BY <1>1, <2>1, <2>2 DEF AgentTypeOK
<1>5. AgentTypeOK'
  BY <1>1, <1>2, <1>3, <1>4 DEF AgentTypeOK
<1>6. Running(a) \subseteq DOMAIN handles[a]
  BY <1>3 DEF AgentInv, RunningCovered
<1>7. Parts'
  BY <1>2, <1>3, <1>6 DEF AgentInv, AgentTypeOK, Parts, PongInHand, RunningCovered,
     HandlesCoverDocker, ModulesAreStored, Running
<1> QED BY <1>5, <1>7 DEF AgentInv, Parts

LEMMA SendPingKeepsInv ==
  ASSUME AgentInv, NEW a \in Agent, SendPing(a)
  PROVE  AgentInv'
<1>1. AgentTypeOK /\ Statable(a)
  BY DEF AgentInv, SendPing
<1> DEFINE reloaded == [t \in DOMAIN handles[a] |-> IF t \in Of("DOCKER", DOMAIN db[a]) THEN docker[a][t]
                                                                    ELSE handles[a][t]]
<1>2. reloaded \in HandleTable /\ DOMAIN reloaded = DOMAIN handles[a]
  <2>1. ASSUME NEW t \in DOMAIN handles[a] PROVE reloaded[t] \in ContainerStatus \cup {"created"}
    BY <1>1, RunningAreTasks DEF Statable, Of
  <2> QED BY <1>1, <2>1, RunningAreTasks, DictMembers, TablesAreDicts
<1> HIDE DEF reloaded
<1>3. handles' = [handles EXCEPT ![a] = reloaded]
  BY DEF SendPing, reloaded
<1>4. AgentTypeOK'
  BY <1>1, <1>2, <1>3, StatusesAreTyped, Exchanges DEF wasmVars, AgentTypeOK, SendPing
<1>5. DOMAIN Statuses(a) = DOMAIN db[a]
  BY DEF Statuses
<1>6. Parts'
  BY <1>2, <1>3, <1>5 DEF wasmVars, AgentInv, AgentTypeOK, SendPing, Parts,
     PongInHand, RunningCovered, HandlesCoverDocker, ModulesAreStored, Running
<1> QED BY <1>4, <1>6 DEF AgentInv, Parts

LEMMA GiveUpKeepsInv ==
  ASSUME AgentInv, NEW S \in SUBSET Agent, GiveUp(S)
  PROVE  AgentInv'
<1>1. AgentTypeOK'
  BY Exchanges DEF wasmVars, AgentInv, AgentTypeOK, GiveUp
<1>2. Parts'
  BY DEF wasmVars, AgentInv, GiveUp, Parts,
     PongInHand, RunningCovered, HandlesCoverDocker, ModulesAreStored, Running
<1> QED BY <1>1, <1>2 DEF AgentInv, Parts

LEMMA AnswerKeepsInv ==
  ASSUME AgentInv, NEW a \in Agent, NEW pong \in PongTo(a), Answer(a, pong)
  PROVE  AgentInv'
<1>1. AgentTypeOK'
  BY Exchanges DEF wasmVars, AgentInv, AgentTypeOK, Answer
<1>2. Parts'
  BY Exchanges DEF wasmVars, AgentInv, AgentTypeOK, Answer, Parts,
     PongInHand, RunningCovered, HandlesCoverDocker, ModulesAreStored, Running
<1> QED BY <1>1, <1>2 DEF AgentInv, Parts

(* A container that ends, by itself or killed, is still a container of the  *)
(* daemon, and one fewer runs.                                              *)
LEMMA EndKeepsInv ==
  ASSUME AgentInv, NEW a \in Agent, NEW t \in Running(a),
         NEW status \in {"exited0", "exited1", "exited137"},
         docker' = [docker EXCEPT ![a][t] = status],
         ended' = [ended EXCEPT ![a] = @ \cup {<<t, StatusOf(status)>>}],
         UNCHANGED <<db, saved, handles, wasmVars, exchange, boots, raised>>,
         pc' = pc \/ (exchange[a].phase = "answered" /\ pc[a] = "waiting"
                        /\ pc' = [pc EXCEPT ![a] = "launching"])
  PROVE  AgentInv'
<1>1. AgentTypeOK /\ t \in Task /\ t \in DOMAIN docker[a]
  BY RunningAreTasks DEF AgentInv, Parts
<1>2. StatusOf(status) \in {"COMPLETED", "ERRORED", "KILLED"}
  BY DEF StatusOf
<1> DEFINE after == [docker[a] EXCEPT ![t] = status]
<1>3. after \in ContainerTable /\ DOMAIN after = DOMAIN docker[a]
      /\ \A x \in DOMAIN after : after[x] = "running" => docker[a][x] = "running"
  BY <1>1, RunningAreTasks, DictMembers, TablesAreDicts DEF ContainerStatus
<1>4. docker' = [docker EXCEPT ![a] = after]
  BY <1>1 DEF AgentTypeOK
<1> HIDE DEF after
<1>5. pc' \in [Agent -> {"down", "loaded", "looping", "waiting", "launching"}]
  BY <1>1 DEF AgentTypeOK
<1>6. ended' \in [Agent -> SUBSET (Task \X {"COMPLETED", "ERRORED", "KILLED"})]
  BY <1>1, <1>2 DEF AgentTypeOK
<1>7. docker' \in [Agent -> ContainerTable]
  BY <1>1, <1>3, <1>4 DEF AgentTypeOK
<1>8. AgentTypeOK'
  BY <1>1, <1>5, <1>6, <1>7 DEF wasmVars, AgentTypeOK
<1>9. Parts'
  BY <1>1, <1>3, <1>4 DEF wasmVars, AgentInv, AgentTypeOK, Parts,
     PongInHand, RunningCovered, HandlesCoverDocker, ModulesAreStored, Running
<1> QED BY <1>8, <1>9 DEF AgentInv, Parts

LEMMA HandleKillKeepsInv ==
  ASSUME AgentInv, NEW a \in Agent, HandleKill(a)
  PROVE  AgentInv'
<1> DEFINE t == exchange[a].pong.kill
<1>1. CASE /\ t \in Running(a)
           /\ docker' = [docker EXCEPT ![a][t] = "exited137"]
           /\ ended' = [ended EXCEPT ![a] = @ \cup {<<t, "KILLED">>}]
           /\ pc' = [pc EXCEPT ![a] = "launching"]
           /\ UNCHANGED <<db, saved, handles, wasmVars, exchange, boots, raised>>
  <2>1. StatusOf("exited137") = "KILLED"
    BY DEF StatusOf
  <2>2. exchange[a].phase = "answered" /\ pc[a] = "waiting"
    BY DEF HandleKill
  <2> HIDE DEF t
  <2> QED BY <1>1, <2>1, <2>2, EndKeepsInv
<1>2. CASE /\ pc' = [pc EXCEPT ![a] = "launching"]
           /\ UNCHANGED <<db, saved, handles, docker, wasmVars, exchange, boots, raised, ended>>
  <2>1. exchange[a].phase = "answered" /\ pc[a] = "waiting"
    BY DEF HandleKill
  <2>2. AgentTypeOK'
    BY <1>2 DEF wasmVars, AgentInv, AgentTypeOK
  <2>3. Parts'
    BY <1>2, <2>1 DEF wasmVars, AgentInv, AgentTypeOK, Parts,
       PongInHand, RunningCovered, HandlesCoverDocker, ModulesAreStored, Running
  <2> QED BY <2>2, <2>3 DEF AgentInv, Parts
<1>3. CASE Raise(a) /\ UNCHANGED <<saved, docker, runtime, modules, boots, ended>>
  BY <1>3, RaiseKeepsInv DEF AgentInv, AgentTypeOK
<1> QED BY <1>1, <1>2, <1>3 DEF HandleKill
-----------------------------------------------------------------------------
(* What a launch leaves behind: the new container has its handle            *)
(* (dockerhelper.py 67-82).                                                 *)
LEMMA LaunchIsCovered ==
  ASSUME AgentInv, NEW a \in Agent, NEW t \in Task, Launch(a, t), pc[a] = "launching"
  PROVE  /\ handles' \in [Agent -> HandleTable]
         /\ docker' \in [Agent -> ContainerTable]
         /\ DOMAIN docker'[a] \subseteq DOMAIN handles'[a]
         /\ \A b \in Agent \ {a} : docker'[b] = docker[b] /\ handles'[b] = handles[b]
<1>1. AgentTypeOK /\ DOMAIN docker[a] \subseteq DOMAIN handles[a]
  BY DEF AgentInv, HandlesCoverDocker
<1>2. CASE UNCHANGED <<handles, docker>>
  BY <1>1, <1>2 DEF AgentTypeOK
<1> DEFINE hs == [x \in DOMAIN handles[a] \cup {t} |-> IF x = t THEN "created" ELSE handles[a][x]]
           ds == [x \in DOMAIN docker[a] \cup {t} |-> IF x = t THEN "running" ELSE docker[a][x]]
<1>3. ASSUME handles' = [handles EXCEPT ![a] = hs], docker' = [docker EXCEPT ![a] = ds]
      PROVE  /\ handles' \in [Agent -> HandleTable]
             /\ docker' \in [Agent -> ContainerTable]
             /\ DOMAIN docker'[a] \subseteq DOMAIN handles'[a]
             /\ \A b \in Agent \ {a} : docker'[b] = docker[b] /\ handles'[b] = handles[b]
  <2>1. hs \in HandleTable /\ DOMAIN hs = DOMAIN handles[a] \cup {t}
    BY <1>1, RunningAreTasks, DictMembers, TablesAreDicts
  <2>2. ds \in ContainerTable /\ DOMAIN ds = DOMAIN docker[a] \cup {t}
    BY <1>1, RunningAreTasks, DictMembers, TablesAreDicts DEF ContainerStatus
  <2> HIDE DEF hs, ds
  <2> QED BY <1>1, <1>3, <2>1, <2>2 DEF AgentTypeOK
<1> QED BY <1>2, <1>3 DEF Launch

(* A load adds the task's module at most (wasmhelper.py 68-76).             *)
LEMMA LoadIsStored ==
  ASSUME AgentInv, NEW a \in Agent, NEW t \in Task, LoadModule(a, t)
  PROVE  /\ modules' \in [Agent -> SUBSET Task]
         /\ modules'[a] \subseteq modules[a] \cup {t}
         /\ \A b \in Agent \ {a} : modules'[b] = modules[b]
BY DEF LoadModule, AgentInv, AgentTypeOK

LEMMA HandleRunKeepsInv ==
  ASSUME AgentInv, NEW a \in Agent, HandleRun(a)
  PROVE  AgentInv'
<1> DEFINE t == exchange[a].pong.run
<1>1. /\ AgentTypeOK /\ pc[a] = "launching" /\ t \in TasksOn(a) \cup {NoTask}
      /\ UNCHANGED <<runtime, boots, ended>>
      /\ modules[a] \subseteq DOMAIN db[a] /\ DOMAIN docker[a] \subseteq DOMAIN handles[a]
  BY DEF AgentInv, PongInHand, HandlesCoverDocker, ModulesAreStored, HandleRun, AgentTypeOK, PongTo
<1>2. Storable(a, t) => t \in Task
  BY <1>1 DEF Storable, TasksOn
<1> HIDE DEF t
<1>3. Storable(a, t) => /\ Stored(a, t) \in TaskTable /\ ToSave(Stored(a, t)) \subseteq Task
                        /\ DOMAIN Stored(a, t) = DOMAIN db[a] \cup {t}
  BY <1>1, <1>2, RunningAreTasks, DictMembers, TablesAreDicts DEF Stored, ToSave, TaskState
<1>4. CASE /\ pc' = [pc EXCEPT ![a] = "looping"]
           /\ exchange' = [exchange EXCEPT ![a] = Closed]
           /\ UNCHANGED <<db, saved, handles, docker, enabled, modules, raised>>
  <2>1. AgentTypeOK'
    BY <1>1, <1>4, Exchanges DEF AgentTypeOK
  <2>2. Parts'
    BY <1>1, <1>4 DEF AgentInv, AgentTypeOK, Parts, PongInHand, RunningCovered, HandlesCoverDocker,
       ModulesAreStored, Running
  <2> QED BY <2>1, <2>2 DEF AgentInv, Parts
<1>5. CASE /\ Storable(a, t)
           /\ IF ContainerType[t] = "DOCKER" THEN Launch(a, t) /\ UNCHANGED modules
                                             ELSE LoadModule(a, t) /\ UNCHANGED <<handles, docker>>
           /\ pc' = [pc EXCEPT ![a] = "looping"]
           /\ exchange' = [exchange EXCEPT ![a] = Closed]
           /\ db' = [db EXCEPT ![a] = Stored(a, t)]
           /\ saved' = [saved EXCEPT ![a] = ToSave(Stored(a, t))]
           /\ UNCHANGED <<enabled, raised>>
  <2>1. /\ handles' \in [Agent -> HandleTable] /\ docker' \in [Agent -> ContainerTable]
        /\ DOMAIN docker'[a] \subseteq DOMAIN handles'[a]
        /\ \A b \in Agent \ {a} : docker'[b] = docker[b] /\ handles'[b] = handles[b]
    <3>1. CASE ContainerType[t] = "DOCKER"
      BY <1>1, <1>2, <1>5, <3>1, LaunchIsCovered
    <3>2. CASE ContainerType[t] # "DOCKER"
      BY <1>1, <1>5, <3>2 DEF AgentTypeOK
    <3> QED BY <3>1, <3>2
  <2>2. /\ modules' \in [Agent -> SUBSET Task] /\ modules'[a] \subseteq modules[a] \cup {t}
        /\ \A b \in Agent \ {a} : modules'[b] = modules[b]
    <3>1. CASE ContainerType[t] = "DOCKER"
      BY <1>1, <1>5, <3>1 DEF AgentTypeOK
    <3>2. CASE ContainerType[t] # "DOCKER"
      BY <1>2, <1>5, <3>2, LoadIsStored
    <3> QED BY <3>1, <3>2
  <2>3. AgentTypeOK'
    BY <1>1, <1>3, <1>5, <2>1, <2>2, Exchanges DEF AgentTypeOK
  <2>4. PongInHand' /\ RunningCovered' /\ HandlesCoverDocker'
    BY <1>1, <1>5, <2>1 DEF AgentInv, AgentTypeOK, PongInHand, RunningCovered, HandlesCoverDocker, Running
  <2>5. ModulesAreStored'
    BY <1>1, <1>3, <1>5, <2>2 DEF AgentInv, AgentTypeOK, ModulesAreStored
  <2> QED BY <2>3, <2>4, <2>5 DEF AgentInv
<1>6. CASE /\ Storable(a, t) /\ Raise(a)
           /\ saved' = [saved EXCEPT ![a] = ToSave(Stored(a, t))]
           /\ UNCHANGED <<docker, modules>>
  <2>1. saved' \in [Agent -> SUBSET Task]
    BY <1>1, <1>3, <1>6 DEF AgentTypeOK
  <2> QED BY <1>1, <1>6, <2>1, RaiseKeepsInv
<1> QED BY <1>1, <1>4, <1>5, <1>6 DEF HandleRun, t

(* What happens to the runtime by itself takes modules away at most.        *)
LEMMA RuntimeKeepsInv ==
  ASSUME AgentInv, NEW a \in Agent, RuntimeServes(a) \/ RuntimeEnds(a)
  PROVE  AgentInv'
<1>1. /\ UNCHANGED <<pc, db, saved, handles, docker, enabled, exchange, boots, raised, ended>>
      /\ runtime' \in [Agent -> {"absent", "starting", "serving", "stopped"}]
      /\ modules' \in [Agent -> SUBSET Task] /\ \A b \in Agent : modules'[b] \subseteq modules[b]
  BY DEF RuntimeServes, RuntimeEnds, AgentInv, AgentTypeOK
<1>2. AgentTypeOK'
  BY <1>1 DEF AgentInv, AgentTypeOK
<1>3. PongInHand' /\ RunningCovered' /\ HandlesCoverDocker'
  BY <1>1 DEF AgentInv, PongInHand, RunningCovered, HandlesCoverDocker, Running
<1>4. ModulesAreStored'
  BY <1>1 DEF AgentInv, ModulesAreStored
<1> QED BY <1>2, <1>3, <1>4 DEF AgentInv
-----------------------------------------------------------------------------
(* No step of an agent breaks its invariant (agent.py 115-229).             *)
LEMMA AgentKeepsInv ==
  AgentInv /\ [AgentNext]_agentVars => AgentInv'
<1> SUFFICES ASSUME AgentInv, [AgentNext]_agentVars PROVE AgentInv'
  OBVIOUS
<1>1. CASE UNCHANGED agentVars
  <2>1. AgentTypeOK'
    BY <1>1 DEF agentVars, wasmVars, AgentInv, AgentTypeOK
  <2> QED BY <1>1, <2>1 DEF agentVars, wasmVars, AgentInv, PongInHand, RunningCovered,
               HandlesCoverDocker, ModulesAreStored, Running
<1>2. ASSUME NEW a \in Agent, StatusRaises(a) PROVE AgentInv'
  BY <1>2, RaiseKeepsInv DEF StatusRaises, AgentInv, AgentTypeOK
<1>3. ASSUME NEW a \in Agent, Crash(a) \/ CrashInSave(a) PROVE AgentInv'
  BY <1>3, StoppedKeepsInv DEF Crash, CrashInSave, AgentInv, AgentTypeOK
<1>4. ASSUME NEW a \in Agent, NEW t \in Task, ContainerEnds(a, t) PROVE AgentInv'
  BY <1>4, EndKeepsInv DEF ContainerEnds
<1>5. ASSUME NEW a \in Agent, AgentStep(a) PROVE AgentInv'
  BY <1>2, <1>5, LoadKeepsInv, EstablishKeepsInv, SendPingKeepsInv, HandleKillKeepsInv,
     HandleRunKeepsInv DEF AgentStep
<1> QED BY <1>1, <1>3, <1>4, <1>5, GiveUpKeepsInv, AnswerKeepsInv, RuntimeKeepsInv DEF AgentNext

(* Agents that have not been started have nothing (agent.py 41-113).        *)
LEMMA AgentStartsWell == AgentInit => AgentInv
<1> SUFFICES ASSUME AgentInit PROVE AgentInv
  OBVIOUS
<1>1. None \in TaskTable /\ None \in HandleTable /\ None \in ContainerTable
  BY DictMembers, TablesAreDicts DEF None
<1>2. AgentTypeOK
  BY <1>1, Exchanges DEF AgentInit, AgentTypeOK
<1> QED BY <1>2 DEF AgentInit, AgentInv, PongInHand, RunningCovered, HandlesCoverDocker,
                ModulesAreStored

(* AgentInv holds in every state.                                           *)
THEOREM AgentInvariance == AgentSpec => []AgentInv
<1>1. AgentInit => AgentInv
  BY AgentStartsWell
<1>2. AgentInv /\ [AgentNext]_agentVars => AgentInv'
  BY AgentKeepsInv
<1> QED BY <1>1, <1>2, PTL DEF AgentSpec

(* Every variable of the agent keeps its type; what it reports is a state   *)
(* a report may have (agent.py 115-148).                                    *)
THEOREM AgentTyping == AgentSpec => []AgentTypeOK
<1>1. AgentInv => AgentTypeOK
  BY DEF AgentInv, Parts
<1> QED BY <1>1, AgentInvariance, PTL

(* While the loop runs every container of the daemon has a handle, so that  *)
(* the test for a duplicate request is enough (dockerhelper.py 122-124).    *)
THEOREM HandlesAreEnough == AgentSpec => []HandlesCoverDocker
<1>1. AgentInv => HandlesCoverDocker
  BY DEF AgentInv, Parts
<1> QED BY <1>1, AgentInvariance, PTL

(* Whatever module the runtime holds while the loop runs is of a task in    *)
(* the agent's table, across crashes and restarts of either                 *)
(* (wasmhelper.py 40-66).                                                   *)
THEOREM NoUnreportedModule == AgentSpec => []ModulesAreStored
<1>1. AgentInv => ModulesAreStored
  BY DEF AgentInv
<1> QED BY <1>1, AgentInvariance, PTL
=============================================================================
