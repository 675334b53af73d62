------------------------------- MODULE TaskLife -------------------------------
(***************************************************************************)
(* What a framework may rely on about the tasks it has had accepted: the   *)
(* life of each task as the master's listing shows it, without the tables, *)
(* files, containers and messages behind it.  Cluster implements this as   *)
(* long as pings are served in the order they are sent.                    *)
(*                                                                         *)
(*   UNKNOWN --> UNISSUED --> ISSUED --> RUNNING ---> COMPLETED, KILLED    *)
(*                               \           \   /       and ERRORED       *)
(*                                -------> KILLING                         *)
(*                                                                         *)
(* A task moves to the right only, an ERRORED one that is asked killed     *)
(* excepted, until a restart of the master forgets all of them.            *)
(***************************************************************************)
EXTENDS EdgeTypes

VARIABLES
  shown,     \* the state in the listing, "UNKNOWN" for a task not in it
  accepted,  \* tasks the master has accepted
  handed,    \* those it has handed to their agents
  asked      \* those it has been asked to kill

lifeVars == <<shown, accepted, handed, asked>>

ShownState == TaskState \cup {"UNKNOWN"}
Ended == {"COMPLETED", "ERRORED", "KILLED"}

LifeInit ==
  /\ shown = [t \in Task |-> "UNKNOWN"]
  /\ accepted = {} /\ handed = {} /\ asked = {}

Accept(t) ==
  /\ t \notin accepted /\ accepted' = accepted \cup {t}
  /\ shown[t] = "UNKNOWN" /\ shown' = [shown EXCEPT ![t] = "UNISSUED"]
  /\ UNCHANGED <<handed, asked>>

\* Only what has been handed out is shown as KILLING.
AskToKill(t) ==
  /\ t \in accepted /\ shown[t] \notin {"COMPLETED", "KILLED"}
  /\ shown' = IF shown[t] \in {"UNKNOWN", "UNISSUED"} THEN shown
              ELSE [shown EXCEPT ![t] = "KILLING"]
  /\ asked' = asked \cup {t}
  /\ UNCHANGED <<accepted, handed>>

\* The moves a task can make in an exchange with its agent.  What a restart has
\* forgotten comes back with its agent's report.
Onward ==
  {<<"UNISSUED", "ISSUED">>}
    \cup ({"UNKNOWN", "ISSUED"} \X ({"RUNNING"} \cup Ended))
    \cup ({"RUNNING", "KILLING"} \X Ended)

Moved == {t \in Task : shown'[t] # shown[t]}

\* An exchange moves tasks of one agent: at most one is handed out, and nothing
\* is heard of one that never was.
HearFrom(a) ==
  /\ shown' \in [Task -> ShownState]
  /\ \A t \in Moved : AgentOf[t] = a /\ <<shown[t], shown'[t]>> \in Onward
  /\ \A t \in Moved : shown[t] = "UNISSUED" \/ t \in handed
  /\ \A t, u \in Moved : shown[t] = "UNISSUED" /\ shown[u] = "UNISSUED" => t = u
  /\ handed' = handed \cup {t \in Moved : shown[t] = "UNISSUED"}
  /\ UNCHANGED <<accepted, asked>>

Forget ==
  /\ shown' = [t \in Task |-> "UNKNOWN"]
  /\ UNCHANGED <<accepted, handed, asked>>

LifeNext ==
  \/ Forget
  \/ \E t \in Task : Accept(t) \/ AskToKill(t)
  \/ \E a \in Agent : HearFrom(a)

LifeSpec == LifeInit /\ [][LifeNext]_lifeVars
=============================================================================
