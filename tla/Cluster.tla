-------------------------------- MODULE Cluster --------------------------------
(***************************************************************************)
(* A deployment: one master, Python agents and frameworks over HTTP.       *)
(*                                                                         *)
(* A ping is one HTTP exchange.  An agent has one under way at a time, but *)
(* when it gives up (or is stopped) before the answer, the request it sent *)
(* may be lost or may still be on its way to the master: it then arrives   *)
(* late, after requests the agent has sent since, and its answer goes to   *)
(* nobody.                                                                 *)
(***************************************************************************)
EXTENDS Master, PyAgent

CONSTANTS
  MaxGiveUps,  \* bound on the exchanges that agents give up on
  MaxLate      \* bound on the requests on their way with nobody waiting

ASSUME ClusterAssumption == MaxGiveUps \in Nat /\ MaxLate \in Nat

VARIABLES
  late,       \* requests that arrive late, as <<agent, reports>>
  giveUps,    \* history: how many exchanges have been given up
  killAsked   \* history: task ids whose KillTask has been recorded

networkVars == <<late, giveUps, killAsked>>
vars == <<masterVars, agentVars, networkVars>>

Init == MasterInit /\ AgentInit /\ late = {} /\ giveUps = 0 /\ killAsked = {}
-----------------------------------------------------------------------------
\* Frameworks (edgerm/framework.py).
RequestOffers ==
  GetResourceOffer /\ UNCHANGED <<agentVars, networkVars>>

Submit(t, k) ==
  RunTask(t, k, AgentOf[t]) /\ UNCHANGED <<agentVars, networkVars>>

AskKill(t) ==
  /\ t \in submitted /\ KillTask(t)
  /\ killAsked' = killAsked \cup {t}
  /\ UNCHANGED <<agentVars, late, giveUps>>
-----------------------------------------------------------------------------
\* The master answers a ping whose agent is waiting for it.
ServePing(a, resources) ==
  /\ exchange[a].phase = "asked"
  /\ GetPing(a, resources, exchange[a].reports)
  /\ Answer(a, Pong(a, exchange[a].reports))
  /\ UNCHANGED networkVars

\* It answers one nobody waits for any more.
ServeLatePing(ping, resources) ==
  /\ ping \in late /\ late' = late \ {ping}
  /\ GetPing(ping[1], resources, ping[2])
  /\ UNCHANGED <<agentVars, giveUps, killAsked>>

\* What becomes of the request of an exchange that is broken off.
LeftBehind(a) ==
  \/ UNCHANGED late
  \/ /\ exchange[a].phase = "asked" /\ Cardinality(late) < MaxLate
     /\ late' = late \cup {<<a, exchange[a].reports>>}

AgentActs(a) == AgentStep(a) /\ UNCHANGED <<masterVars, networkVars>>

AgentGivesUp(a) ==
  /\ giveUps < MaxGiveUps /\ giveUps' = giveUps + 1
  /\ GiveUp({a}) /\ LeftBehind(a)
  /\ UNCHANGED <<masterVars, killAsked>>

AgentStops(a) ==
  /\ Crash(a) \/ CrashInSave(a)
  /\ LeftBehind(a)
  /\ UNCHANGED <<masterVars, giveUps, killAsked>>

TaskEnds(a, t) == ContainerEnds(a, t) /\ UNCHANGED <<masterVars, networkVars>>

RuntimeActs(a) == (RuntimeServes(a) \/ RuntimeEnds(a)) /\ UNCHANGED <<masterVars, networkVars>>

\* The master's connections go with it: late requests are lost, and an agent
\* that waits for an answer gets a ConnectionError.
MasterRestarts ==
  /\ Restart
  /\ late' = {}
  /\ GiveUp({a \in Agent : exchange[a].phase = "asked"})
  /\ UNCHANGED <<giveUps, killAsked>>

ClockTicks == Tick /\ UNCHANGED <<agentVars, networkVars>>

Next ==
  \/ ClockTicks
  \/ MasterRestarts
  \/ RequestOffers
  \/ \E t \in Task, k \in 1..MaxRounds : Submit(t, k)
  \/ \E t \in Task : AskKill(t)
  \/ \E resources \in Reportable :
       \/ \E a \in Agent : ServePing(a, resources)
       \/ \E ping \in late : ServeLatePing(ping, resources)
  \/ \E a \in Agent :
       \/ AgentActs(a) \/ AgentGivesUp(a) \/ AgentStops(a) \/ RuntimeActs(a)
       \/ \E t \in Task : TaskEnds(a, t)

Spec == Init /\ [][Next]_vars

\* The loops of agents that run go on and the master serves their pings.
\* Frameworks, clocks, containers and faults owe nothing.
Progress ==
  \A a \in Agent :
    /\ WF_vars(AgentActs(a))
    /\ WF_vars(\E resources \in Reportable : ServePing(a, resources))

FairSpec == Spec /\ Progress
-----------------------------------------------------------------------------
TypeOK ==
  /\ MasterTypeOK /\ AgentTypeOK
  /\ \A ping \in late : ping[1] \in Agent /\ ping[2] \in ReportsOver(TasksOn(ping[1]))
  /\ giveUps \in Nat /\ killAsked \subseteq Task

(* Containers run only where a framework's accepted request put them: each  *)
(* one on an agent is of a task submitted for that agent, and handed to it. *)
(* The same holds of the modules of its WASM runtime.  True whatever is     *)
(* lost, late, crashed or restarted (master.py 187-215, agent.py 197-216).  *)
RunsWhereAccepted ==
  \A a \in Agent : DOMAIN docker[a] \cup modules[a] \subseteq issued \cap submitted \cap TasksOn(a)

(* No module is loaded over itself, which would end what it does: the agent *)
(* does not look for duplicates of WASM tasks, but no loss, delay, crash or *)
(* restart makes the master hand out a task whose module is loaded          *)
(* (wasmhelper.py 85-104, server.py 52-53, db.py 62-79, 129-138).           *)
NeverReloaded ==
  \A a \in Agent : pc[a] = "launching" => exchange[a].pong.run \notin modules[a]

(* No container is killed that no framework has asked to kill, whatever     *)
(* kill requests are re-sent (db.py 140-146, agent.py 193-195).             *)
OnlyRequestedKills ==
  \A a \in Agent, t \in Task : <<t, "KILLED">> \in ended[a] => t \in killAsked

(* A docker task the master shows as COMPLETED or ERRORED has ended so on   *)
(* its agent, although the master guesses about tasks it does not hear of,  *)
(* agents forget theirs in a crash, and pings arrive late (db.py 62-85,     *)
(* dockerhelper.py 91-111).                                                 *)
OutcomesHappened ==
  \A t \in Of("DOCKER", DOMAIN tasks) :
    tasks[t] \in {"COMPLETED", "ERRORED"} => <<t, tasks[t]>> \in ended[AgentOf[t]]

(* A task shown as COMPLETED or KILLED stays that way, as long as pings     *)
(* are served in the order they are sent.                                   *)
OverIsOver ==
  [][\A t \in DOMAIN tasks \cap DOMAIN tasks' :
       tasks[t] \in {"COMPLETED", "KILLED"} => tasks'[t] = tasks[t]]_vars

(* What the master shows as KILLED does not run, although it concludes that *)
(* from a ping that lacks the task: as long as pings are served in order    *)
(* and the task's agent has not been restarted (db.py 81-85).               *)
MissingIsGone ==
  \A t \in DOMAIN tasks :
    tasks[t] = "KILLED" /\ boots[AgentOf[t]] <= 1 => t \notin Running(AgentOf[t])

(* What frameworks are shown of their tasks: each goes through its life in  *)
(* one direction, moved only by what its own agent reports, by a request to *)
(* kill it or by being handed out, until the master restarts, as long as    *)
(* pings are served in the order they are sent (db.py 62-110, 129-138).     *)
Shown == [t \in Task |-> IF t \in DOMAIN tasks THEN tasks[t] ELSE "UNKNOWN"]
Life == INSTANCE TaskLife WITH
  shown <- Shown, accepted <- submitted, handed <- issued, asked <- killAsked
LivesGoOnward == Life!LifeSpec

\* t waits to be re-sent, and a WASM task the agent refused, which stays ISSUED
\* too, comes before it in the master's dictionary and is re-sent instead.
ResendsBlocked(t) ==
  \E i, j \in 1..Len(taskOrder) :
    /\ i < j /\ taskOrder[j] = t /\ AgentOf[taskOrder[i]] = AgentOf[t]
    /\ ContainerType[taskOrder[i]] = "WASM" /\ tasks[taskOrder[i]] = "ISSUED" /\ tasks[t] = "ISSUED"

\* A container has been made for t, whatever has become of it.
Launched(t) ==
  t \in DOMAIN docker[AgentOf[t]] \/ \E ending \in ended[AgentOf[t]] : ending[1] = t

(* Every accepted docker task that can be launched is launched in the end,  *)
(* unless it has been asked killed, its agent is down for good, or its pong *)
(* was lost and a refused WASM task takes the place of its re-send for ever *)
(* after (master.py 21-23 asks "What if the agent never pings", "How do we  *)
(* ensure that the agent successfully started the task").                   *)
AcceptedIsLaunched ==
  \A t \in Of("DOCKER", Task) :
    t \in submitted ~> \/ Launched(t)
                       \/ t \in killAsked \/ [](pc[AgentOf[t]] = "down")
                       \/ []ResendsBlocked(t)

\* The kill of a WASM task, which is never carried out, comes before that of t:
\* every pong to the agent names it.
KillsBlocked(t) ==
  \E i, j \in 1..Len(killtasks) :
    /\ i < j /\ killtasks[j] = t /\ AgentOf[killtasks[i]] = AgentOf[t]
    /\ ContainerType[killtasks[i]] = "WASM"

(* A recorded kill request of a docker task takes effect: in the end it     *)
(* does not run, and never again, unless its agent stays down or the kill   *)
(* of a WASM task of that agent was asked before (db.py 140-146,            *)
(* wasmhelper.py 116-118).                                                  *)
KillTakesEffect ==
  \A t \in Of("DOCKER", Task) :
    t \in killAsked ~> \/ [](t \notin Running(AgentOf[t]))
                       \/ [](pc[AgentOf[t]] = "down") \/ KillsBlocked(t)
=============================================================================
