------------------------------ MODULE EdgeTypes ------------------------------
(***************************************************************************)
(* What the master and the agents of an EdgeRM deployment have in common:  *)
(* the identities that travel in the messages of proto/messages.proto and  *)
(* the life-cycle states of a task.                                        *)
(*                                                                         *)
(* The identity of a task is the uuid its framework minted for one         *)
(* RunTaskMessage (framework.py, runTask), so everything of a TaskInfo     *)
(* that nobody writes after that (its agent, its container type) is a      *)
(* function of the identity.  Only the field "state" is ever assigned.     *)
(***************************************************************************)
EXTENDS Integers, Sequences, FiniteSets

CONSTANTS
  Agent,          \* ids of agents (Agent.id)
  Task,           \* ids of tasks (TaskInfo.task_id)
  AgentOf,        \* TaskInfo.agent_id: the agent a task is placed on
  ContainerType,  \* TaskInfo.container.type, "DOCKER" or "WASM"
  NoTask          \* an absent run_task or kill_task in a pong

ASSUME TaskInfoAssumption ==
  /\ AgentOf \in [Task -> Agent]
  /\ ContainerType \in [Task -> {"DOCKER", "WASM"}]
  /\ NoTask \notin Task

\* TaskInfo.TaskState.
TaskState ==
  {"COMPLETED", "ERRORED", "RUNNING", "ISSUED", "UNISSUED", "STARTING",
   "KILLED", "KILLING"}

\* The states agents put in their pings: ISSUED, UNISSUED and KILLING are the
\* master's own bookkeeping and every agent overwrites them before it pings.
ReportedState == {"COMPLETED", "ERRORED", "RUNNING", "STARTING", "KILLED"}

TasksOn(a) == {t \in Task : AgentOf[t] = a}

\* PongMessage: at most one task to run and at most one task to kill.
PongTo(a) == [run  : TasksOn(a) \cup {NoTask},
              kill : TasksOn(a) \cup {NoTask}]

\* PingMessage.tasks: the tasks of the agent's own table with their states.
\* Every function from a subset of S to ReportedState.
ReportsOver(S) == UNION {[D -> ReportedState] : D \in SUBSET S}
=============================================================================
