-------------------------------- MODULE PyAgent --------------------------------
(***************************************************************************)
(* The Python agent: agent/python/agent.py with its table db.py and its    *)
(* view of docker, dockerhelper.py.  The docker daemon is external: it is  *)
(* what the calls of dockerhelper.py need of it.  The WASM runtime is one  *)
(* more container, LocalWasmRuntime, whose server (wasm-linux/docker) the  *)
(* agent starts and talks to in wasmhelper.py.                             *)
(*                                                                         *)
(* The process is one loop: report, post the ping, carry out the pong.     *)
(* Only a refused connection and a read timeout are caught; any other      *)
(* exception ends the process.                                             *)
(***************************************************************************)
EXTENDS EdgeTypes

CONSTANTS
  Unlaunchable,   \* tasks whose launch raises: no such image, no cpus or mem;
                  \* of the WASM tasks those with an environment
  LoadWasm,       \* what each agent's configuration may say of loadWasm
  MaxBoots        \* bounds on how often each agent is started

ASSUME AgentAssumption ==
  /\ Unlaunchable \subseteq Task
  /\ LoadWasm \in [Agent -> SUBSET BOOLEAN]
  /\ MaxBoots \in [Agent -> Nat]

VARIABLES
  pc,        \* where the process is in its loop; "down" when it does not run
  db,        \* db.__tasks: the state of each task in the agent's table
  saved,     \* tasks.json: the tasks in it
  handles,   \* dockerhelper.containers: the status each handle last loaded
  docker,    \* the daemon: the status of each container, named by its task
  runtime,   \* the daemon: the container of the WASM runtime
  enabled,   \* wasmhelper.WasmRuntimeContainer is not None
  modules,   \* ActiveModules of the runtime's server
  exchange,  \* the HTTP exchange of the current ping
  boots,     \* history: number of starts
  raised,    \* history: the process has been ended by an exception of its own
  ended      \* history: <<task, how>>, the ways containers have ended here

wasmVars == <<runtime, enabled, modules>>
agentVars == <<pc, db, saved, handles, docker, wasmVars, exchange, boots, raised, ended>>

ContainerStatus == {"running", "exited0", "exited1", "exited137"}

Closed == [phase |-> "closed"]
Asked(reports) == [phase |-> "asked", reports |-> reports]
Answered(pong) == [phase |-> "answered", pong |-> pong]

None == [t \in {} |-> "running"]

AgentInit ==
  /\ pc = [a \in Agent |-> "down"]
  /\ db = [a \in Agent |-> None] /\ handles = [a \in Agent |-> None]
  /\ docker = [a \in Agent |-> None]
  /\ runtime = [a \in Agent |-> "absent"] /\ enabled = [a \in Agent |-> FALSE]
  /\ modules = [a \in Agent |-> {}]
  /\ saved = [a \in Agent |-> {}]
  /\ exchange = [a \in Agent |-> Closed]
  /\ boots = [a \in Agent |-> 0]
  /\ raised = [a \in Agent |-> FALSE]
  /\ ended = [a \in Agent |-> {}]
-----------------------------------------------------------------------------
Running(a) == {t \in DOMAIN docker[a] : docker[a][t] = "running"}
\* The tasks of S for one kind of container.
Of(kind, S) == {t \in S : ContainerType[t] = kind}
\* The runtime's container runs; its server may not listen yet.
RuntimeUp(a) == runtime[a] \in {"starting", "serving"}

\* The process is gone, with everything it had in memory.
Gone(a) ==
  /\ pc' = [pc EXCEPT ![a] = "down"]
  /\ db' = [db EXCEPT ![a] = None]
  /\ handles' = [handles EXCEPT ![a] = None]
  /\ enabled' = [enabled EXCEPT ![a] = FALSE]
  /\ exchange' = [exchange EXCEPT ![a] = Closed]

\* An exception nobody catches.
Raise(a) == Gone(a) /\ raised' = [raised EXCEPT ![a] = TRUE]

\* db.load: tasks.json holds tasks that ran when it was written.
LoadedTable(a) == [t \in saved[a] |-> "RUNNING"]

\* main, before the loop: db.load and dockerhelper.load, which lists only the
\* containers that run.
Load(a) ==
  /\ pc[a] = "down" /\ boots[a] < MaxBoots[a]
  /\ pc' = [pc EXCEPT ![a] = "loaded"]
  /\ boots' = [boots EXCEPT ![a] = @ + 1]
  /\ db' = [db EXCEPT ![a] = LoadedTable(a)]
  /\ handles' = [handles EXCEPT ![a] = [t \in Running(a) |-> "running"]]
  /\ UNCHANGED <<saved, docker, wasmVars, exchange, raised, ended>>

Establish_NotPruned(a) ==
  /\ pc[a] = "loaded"
  /\ pc' = [pc EXCEPT ![a] = "looping"]
  /\ \E load \in LoadWasm[a] :
       /\ enabled' = [enabled EXCEPT ![a] = load \/ runtime[a] = "stopped"]
       /\ runtime' = [runtime EXCEPT ![a] = IF load THEN "starting" ELSE "absent"]
  /\ modules' = [modules EXCEPT ![a] = {}]
  /\ UNCHANGED <<db, saved, handles, docker, exchange, boots, raised, ended>>
Establish_Reused(a) ==
  /\ pc[a] = "loaded"
  /\ pc' = [pc EXCEPT ![a] = "looping"]
  /\ docker' = [docker EXCEPT ![a] = [t \in Running(a) |-> "running"]]
  /\ \E load \in LoadWasm[a] :
       /\ enabled' = [enabled EXCEPT ![a] = load]
       /\ runtime' = [runtime EXCEPT ![a] =
                       IF ~load THEN "absent" ELSE IF RuntimeUp(a) THEN @ ELSE "starting"]
  /\ UNCHANGED <<db, saved, handles, modules, exchange, boots, raised, ended>>
\* establishWasmRuntime.  A runtime that runs is stopped and forgotten; a stopped
\* one is not forgotten.  containers.prune removes what does not run, both of
\* these included, and then loadWasm asks for a new one.
Establish(a) ==
  /\ pc[a] = "loaded"
  /\ pc' = [pc EXCEPT ![a] = "looping"]
  /\ docker' = [docker EXCEPT ![a] = [t \in Running(a) |-> "running"]]
  /\ \E load \in LoadWasm[a] :
       /\ enabled' = [enabled EXCEPT ![a] = load \/ runtime[a] = "stopped"]
       /\ runtime' = [runtime EXCEPT ![a] = IF load THEN "starting" ELSE "absent"]
  /\ modules' = [modules EXCEPT ![a] = {}]
  /\ UNCHANGED <<db, saved, handles, exchange, boots, raised, ended>>
-----------------------------------------------------------------------------
StatusOf_Raw(container) == IF container = "running" THEN "RUNNING" ELSE container
\* getContainerStatus, the exit code of an ended container included
StatusOf(container) ==
  CASE container = "running"   -> "RUNNING"
    [] container = "exited0"   -> "COMPLETED"
    [] container = "exited137" -> "KILLED"
    [] container = "exited1"   -> "ERRORED"

\* updateTasks finds a handle and a container for every docker task of the
\* table, and a server to ask for the WASM tasks.
Statable(a) ==
  /\ Of("DOCKER", DOMAIN db[a]) \subseteq DOMAIN handles[a] \cap DOMAIN docker[a]
  /\ Of("WASM", DOMAIN db[a]) # {} => runtime[a] = "serving"

\* getTaskStatus: a task the server does not list is taken for completed.
ModuleStatus(a, t) == IF t \in modules[a] THEN "RUNNING" ELSE "COMPLETED"

Statuses_NotRefreshed(a) == db[a]
Statuses(a) ==
  [t \in DOMAIN db[a] |-> IF ContainerType[t] = "DOCKER" THEN StatusOf(docker[a][t])
                                                        ELSE ModuleStatus(a, t)]

\* db.save writes the tasks that are RUNNING or STARTING.
ToSave(table) == {t \in DOMAIN table : table[t] \in {"RUNNING", "STARTING"}}

\* updateTasks and the post of the ping.  A handle is brought up to date by
\* reload, so for the tasks of the table only.
SendPing(a) ==
  /\ pc[a] = "looping" /\ Statable(a)
  /\ pc' = [pc EXCEPT ![a] = "waiting"]
  /\ db' = [db EXCEPT ![a] = Statuses(a)]
  /\ saved' = [saved EXCEPT ![a] = ToSave(Statuses(a))]
  /\ handles' = [handles EXCEPT ![a] =
       [t \in DOMAIN handles[a] |->
          IF t \in Of("DOCKER", DOMAIN db[a]) THEN docker[a][t] ELSE handles[a][t]]]
  /\ exchange' = [exchange EXCEPT ![a] = Asked(Statuses(a))]
  /\ UNCHANGED <<docker, wasmVars, boots, raised, ended>>

\* A task has no handle (KeyError), its container is gone (NotFound) or the
\* server does not answer (ConnectionError, outside of the loop's try).
StatusRaises(a) ==
  /\ pc[a] = "looping" /\ ~Statable(a)
  /\ Raise(a)
  /\ UNCHANGED <<saved, docker, runtime, modules, boots, ended>>

\* ConnectionError or ReadTimeout: the loops of these agents go on.
GiveUp(S) ==
  /\ \A a \in S : pc[a] = "waiting"
  /\ pc' = [a \in Agent |-> IF a \in S THEN "looping" ELSE pc[a]]
  /\ exchange' = [a \in Agent |-> IF a \in S THEN Closed ELSE exchange[a]]
  /\ UNCHANGED <<db, saved, handles, docker, wasmVars, boots, raised, ended>>
-----------------------------------------------------------------------------
\* killContainer trusts the status its handle last loaded.
SeesRunning(a, t) == t \in DOMAIN handles[a] /\ handles[a][t] = "running"

\* The pong's kill_task comes first.  It has no effect on a WASM task, which has
\* no handle: wasmhelper.killTask does nothing.
HandleKill(a) ==
  /\ pc[a] = "waiting" /\ exchange[a].phase = "answered"
  /\ LET t == exchange[a].pong.kill IN
     \/ /\ SeesRunning(a, t) /\ t \in Running(a)
        /\ docker' = [docker EXCEPT ![a][t] = "exited137"]
        /\ ended' = [ended EXCEPT ![a] = @ \cup {<<t, "KILLED">>}]
        /\ pc' = [pc EXCEPT ![a] = "launching"]
        /\ UNCHANGED <<db, saved, handles, wasmVars, exchange, boots, raised>>
     \/ /\ ~SeesRunning(a, t)
        /\ pc' = [pc EXCEPT ![a] = "launching"]
        /\ UNCHANGED <<db, saved, handles, docker, wasmVars, exchange, boots, raised, ended>>
     \/ /\ SeesRunning(a, t) /\ t \notin Running(a)  \* kill of an ended container
        /\ Raise(a)
        /\ UNCHANGED <<saved, docker, runtime, modules, boots, ended>>

Stored_Forgotten(a, t) == db[a]
\* The table after db.set_task, which stores the master's copy of the task.
Stored(a, t) ==
  [x \in DOMAIN db[a] \cup {t} |-> IF x = t THEN "ISSUED" ELSE db[a][x]]

\* runImage pulls the image and asks the daemon for a container with the task's
\* name: either may raise, the second when the name is taken.
ImageRaises(a, t) == t \in Unlaunchable \/ t \in DOMAIN docker[a]

\* runImageFromRunTask.  A task with a handle is a duplicate request; the
\* handle of a new container keeps the status it was created with.
Launch(a, t) ==
  IF t \in DOMAIN handles[a]
    THEN UNCHANGED <<handles, docker>>
    ELSE /\ handles' = [handles EXCEPT ![a] =
              [x \in DOMAIN handles[a] \cup {t} |-> IF x = t THEN "created" ELSE handles[a][x]]]
         /\ docker' = [docker EXCEPT ![a] =
              [x \in DOMAIN docker[a] \cup {t} |-> IF x = t THEN "running" ELSE docker[a][x]]]

\* runModuleFromRunTask.  Without a server to take it (ConnectionError, caught
\* by the loop) or when the server cannot load it, the module is not there; one
\* of that name that is there is replaced.
LoadModule(a, t) ==
  \/ UNCHANGED modules
  \/ runtime[a] = "serving" /\ modules' = [modules EXCEPT ![a] = @ \cup {t}]

\* Without a runtime the agent cannot run a WASM task and does not store it.
Storable(a, t) == t # NoTask /\ (ContainerType[t] = "DOCKER" \/ enabled[a])

\* The exceptions that end the process between the two.
RunRaises(a, t) ==
  IF ContainerType[t] = "DOCKER" THEN t \notin DOMAIN handles[a] /\ ImageRaises(a, t)
                                 ELSE t \in Unlaunchable

\* The pong's run_task: stored first, then launched.
HandleRun(a) ==
  /\ pc[a] = "launching"
  /\ LET t == exchange[a].pong.run IN
     \/ /\ ~Storable(a, t)
        /\ pc' = [pc EXCEPT ![a] = "looping"]
        /\ exchange' = [exchange EXCEPT ![a] = Closed]
        /\ UNCHANGED <<db, saved, handles, docker, enabled, modules, raised>>
     \/ /\ Storable(a, t) /\ ~RunRaises(a, t)
        /\ IF ContainerType[t] = "DOCKER" THEN Launch(a, t) /\ UNCHANGED modules
                                          ELSE LoadModule(a, t) /\ UNCHANGED <<handles, docker>>
        /\ pc' = [pc EXCEPT ![a] = "looping"]
        /\ exchange' = [exchange EXCEPT ![a] = Closed]
        /\ db' = [db EXCEPT ![a] = Stored(a, t)]
        /\ saved' = [saved EXCEPT ![a] = ToSave(Stored(a, t))]
        /\ UNCHANGED <<enabled, raised>>
     \/ /\ Storable(a, t) /\ RunRaises(a, t)
        /\ Raise(a)
        /\ saved' = [saved EXCEPT ![a] = ToSave(Stored(a, t))]
        /\ UNCHANGED <<docker, modules>>
  /\ UNCHANGED <<runtime, boots, ended>>
-----------------------------------------------------------------------------
\* The process is stopped from outside, the machine and its containers go on.
\* An interrupt by its user, once it is in the loop, stops the runtime.
Stopped(a) ==
  /\ Gone(a)
  /\ \/ UNCHANGED <<runtime, modules>>
     \/ /\ pc[a] # "loaded" /\ enabled[a] /\ RuntimeUp(a)
        /\ runtime' = [runtime EXCEPT ![a] = "stopped"]
        /\ modules' = [modules EXCEPT ![a] = {}]

Crash(a) ==
  /\ pc[a] # "down"
  /\ Stopped(a)
  /\ UNCHANGED <<saved, docker, boots, raised, ended>>

\* db.save empties the file before it writes it: the process is stopped there.
CrashInSave(a) ==
  /\ \/ pc[a] = "looping" /\ Statable(a)
     \/ pc[a] = "launching" /\ Storable(a, exchange[a].pong.run)
  /\ Stopped(a)
  /\ saved' = [saved EXCEPT ![a] = {}]
  /\ UNCHANGED <<docker, boots, raised, ended>>

\* A container ends by itself, well or not.
ContainerEnds(a, t) ==
  /\ t \in Running(a)
  /\ \E status \in {"exited0", "exited1"} :
       /\ docker' = [docker EXCEPT ![a][t] = status]
       /\ ended' = [ended EXCEPT ![a] = @ \cup {<<t, StatusOf(status)>>}]
  /\ UNCHANGED <<pc, db, saved, handles, wasmVars, exchange, boots, raised>>

\* The server of the runtime begins to listen.
RuntimeServes(a) ==
  /\ runtime[a] = "starting" /\ runtime' = [runtime EXCEPT ![a] = "serving"]
  /\ UNCHANGED <<pc, db, saved, handles, docker, enabled, modules, exchange, boots, raised, ended>>

\* The runtime ends by itself, with all its modules.
RuntimeEnds(a) ==
  /\ RuntimeUp(a) /\ runtime' = [runtime EXCEPT ![a] = "stopped"]
  /\ modules' = [modules EXCEPT ![a] = {}]
  /\ UNCHANGED <<pc, db, saved, handles, docker, enabled, exchange, boots, raised, ended>>

\* What the agent does by itself.
AgentStep(a) ==
  \/ Load(a) \/ Establish(a)
  \/ SendPing(a) \/ StatusRaises(a)
  \/ HandleKill(a) \/ HandleRun(a)

\* Any master: an answer may name any of the agent's tasks.
Answer(a, pong) ==
  /\ exchange[a].phase = "asked"
  /\ exchange' = [exchange EXCEPT ![a] = Answered(pong)]
  /\ UNCHANGED <<pc, db, saved, handles, docker, wasmVars, boots, raised, ended>>

AgentNext ==
  \/ \E S \in SUBSET Agent : GiveUp(S)
  \/ \E a \in Agent :
       \/ AgentStep(a)
       \/ Crash(a) \/ CrashInSave(a)
       \/ RuntimeServes(a) \/ RuntimeEnds(a)
       \/ \E t \in Task : ContainerEnds(a, t)
       \/ \E pong \in PongTo(a) : Answer(a, pong)

AgentSpec == AgentInit /\ [][AgentNext]_agentVars
-----------------------------------------------------------------------------
Dict(S) == UNION {[D -> S] : D \in SUBSET Task}   \* a dictionary keyed by task

TaskTable      == Dict(TaskState)
ContainerTable == Dict(ContainerStatus)
HandleTable    == Dict(ContainerStatus \cup {"created"})
Reports        == ReportsOver(Task)

Exchange ==
  {Closed} \cup [phase : {"asked"}, reports : Reports]
    \cup [phase : {"answered"}, pong : [run : Task \cup {NoTask}, kill : Task \cup {NoTask}]]

AgentTypeOK ==
  /\ pc \in [Agent -> {"down", "loaded", "looping", "waiting", "launching"}]
  /\ db \in [Agent -> TaskTable]
  /\ saved \in [Agent -> SUBSET Task]
  /\ handles \in [Agent -> HandleTable]
  /\ docker \in [Agent -> ContainerTable]
  /\ runtime \in [Agent -> {"absent", "starting", "serving", "stopped"}]
  /\ enabled \in [Agent -> BOOLEAN] /\ modules \in [Agent -> SUBSET Task]
  /\ exchange \in [Agent -> Exchange]
  /\ \A a \in Agent : exchange[a].phase = "answered" => exchange[a].pong \in PongTo(a)
  /\ boots \in [Agent -> Nat]
  /\ raised \in [Agent -> BOOLEAN]
  /\ ended \in [Agent -> SUBSET (Task \X {"COMPLETED", "ERRORED", "KILLED"})]

(* While the loop runs there is a handle for every container the daemon     *)
(* has, across crashes, restarts, prunes and containers that end between    *)
(* the two loads and the prune: the test for a duplicate request looks at   *)
(* the handles only, and without this a re-sent task would be launched      *)
(* under a name that is taken and end the agent (dockerhelper.py 13-16,     *)
(* 122-124).                                                                *)
HandlesCoverDocker ==
  \A a \in Agent :
    pc[a] \in {"looping", "waiting", "launching"} => DOMAIN docker[a] \subseteq DOMAIN handles[a]

(* Every module the runtime's server holds is of a task in the agent's      *)
(* table while the loop runs, so none runs on unreported: the runtime is    *)
(* replaced at each start, when the table may have lost tasks, and it has   *)
(* lost its modules whenever a new server answers (wasmhelper.py 40-66).    *)
ModulesAreStored ==
  \A a \in Agent :
    pc[a] \in {"looping", "waiting", "launching"} => modules[a] \subseteq DOMAIN db[a]

(* test/test_task.py 115-117, "are they still running?", "assert            *)
(* agent.poll() is None": no exception ends the agent.  A container that    *)
(* ends between the ping and the kill makes container.kill raise            *)
(* (dockerhelper.py 88-89).                                                 *)
StaysUp == \A a \in Agent : ~raised[a]
=============================================================================
