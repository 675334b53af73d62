----------------------------- MODULE MasterProofs -----------------------------
(***************************************************************************)
(* Theorems about the master, for all agents, tasks, resources and bounds. *)
(* First what its look-ups return, then the types, then the invariants.    *)
(***************************************************************************)
EXTENDS Master, NatFacts

(* A look-up in a dictionary's order returns an element that is in the set  *)
(* and before which nothing of the order is, or nothing (db.py 129-146).    *)
LEMMA FirstInFinds ==
  ASSUME NEW seq \in Seq(Task), NEW S
  PROVE  \/ /\ FirstIn(seq, S) = NoTask
            /\ \A i \in 1..Len(seq) : seq[i] \notin S
         \/ \E i \in 1..Len(seq) :
              /\ FirstIn(seq, S) = seq[i] /\ seq[i] \in S /\ seq[i] \in Task
              /\ \A j \in 1..(i-1) : seq[j] \notin S
<1> DEFINE T == {i \in 1..Len(seq) : seq[i] \in S}
<1>1. CASE T = {}
  BY <1>1 DEF FirstIn
<1>2. CASE T # {}
  <2>1. T \in SUBSET Nat
    OBVIOUS
  <2>2. PICK i \in T : \A j \in T : i <= j
    BY <1>2, <2>1, LeastExists
  <2>3. \A j \in 1..(i-1) : seq[j] \notin S
    BY <2>2
  <2>4. \E k \in 1..Len(seq) : seq[k] \in S /\ \A j \in 1..(k-1) : seq[j] \notin S
    BY <2>3
  <2>5. PICK k \in 1..Len(seq) :
          /\ FirstIn(seq, S) = seq[k] /\ seq[k] \in S
          /\ \A j \in 1..(k-1) : seq[j] \notin S
    BY <2>4, Zenon DEF FirstIn
  <2> QED BY <2>5
<1> QED BY <1>1, <1>2
(* What a scalar has left is a natural number, whatever was subtracted from *)
(* it (master.py 57-85).                                                    *)
LEMMA FreeIsNat ==
  ASSUME MasterTypeOK, NEW a \in DOMAIN agents, NEW r \in Resource
  PROVE  Free(a, r) \in Nat
<1>1. agents[a][r] \in Nat
  BY DEF MasterTypeOK
<1>2. Kept(AfterAll(AfterAll(agents[a][r], Demanded(a, r)), Promised(a, r))) \in Nat
  BY DEF Kept
<1> QED BY <1>1, <1>2 DEF Free

(* A ping leaves a table of known tasks in known states (db.py 62-85,       *)
(* 129-138).                                                                *)
LEMMA TableAfterPing ==
  ASSUME MasterTypeOK, NEW a \in Agent, NEW reports,
         DOMAIN reports \subseteq Task, reports \in [DOMAIN reports -> ReportedState]
  PROVE  /\ TasksAfter(a, reports) \in [DOMAIN tasks \cup DOMAIN reports -> TaskState]
         /\ Refreshed(a, reports) \in [DOMAIN tasks \cup DOMAIN reports -> TaskState]
<1>1. ASSUME NEW t \in DOMAIN reports PROVE Reported(t, reports[t]) \in TaskState
  BY <1>1 DEF Reported, TaskState, ReportedState
<1>2. ASSUME NEW t \in DOMAIN tasks PROVE Missing(a, t) \in TaskState
  BY <1>2 DEF Missing, TaskState, MasterTypeOK
<1>3. Refreshed(a, reports) \in [DOMAIN tasks \cup DOMAIN reports -> TaskState]
  BY <1>1, <1>2 DEF Refreshed
<1>4. "ISSUED" \in TaskState
  BY DEF TaskState
<1> QED BY <1>3, <1>4 DEF TasksAfter, Issue

(* The task a pong carries waits for its agent, and no task of that agent   *)
(* that has not been issued is ahead of it (db.py 129-138).                 *)
LEMMA NextTaskWaits ==
  ASSUME taskOrder \in Seq(Task), NEW a \in Agent, NEW table,
         NextTask(a, table) # NoTask
  PROVE  LET t == NextTask(a, table) IN
         /\ t \in Task /\ t \in DOMAIN table /\ AgentOf[t] = a
         /\ table[t] \in {"UNISSUED", "ISSUED"}
         /\ table[t] = "UNISSUED" =>
              \E k \in 1..Len(taskOrder) :
                /\ t = taskOrder[k]
                /\ \A j \in 1..(k-1) : taskOrder[j] \notin InState(a, table, {"UNISSUED"})
<1> DEFINE first == FirstIn(taskOrder, InState(a, table, {"UNISSUED"}))
           again == FirstIn(taskOrder, InState(a, table, {"ISSUED"}))
<1>1. CASE first # NoTask
  <2>1. NextTask(a, table) = first
    BY <1>1 DEF NextTask
  <2>2. PICK k \in 1..Len(taskOrder) :
          /\ first = taskOrder[k] /\ taskOrder[k] \in InState(a, table, {"UNISSUED"})
          /\ taskOrder[k] \in Task
          /\ \A j \in 1..(k-1) : taskOrder[j] \notin InState(a, table, {"UNISSUED"})
    BY <1>1, FirstInFinds
  <2> QED BY <2>1, <2>2 DEF InState
<1>2. CASE first = NoTask
  <2>1. NextTask(a, table) = again /\ again # NoTask
    BY <1>2 DEF NextTask
  <2>2. PICK k \in 1..Len(taskOrder) :
          /\ again = taskOrder[k] /\ taskOrder[k] \in InState(a, table, {"ISSUED"})
          /\ taskOrder[k] \in Task
    BY <2>1, FirstInFinds
  <2>3. again \in Task /\ again \in DOMAIN table /\ AgentOf[again] = a /\ table[again] = "ISSUED"
    BY <2>2 DEF InState
  <2> HIDE DEF again
  <2> QED BY <2>1, <2>3
<1> QED BY <1>1, <1>2
-----------------------------------------------------------------------------
(* No handler takes a table out of its type (master.py 29-215).             *)
LEMMA TypesKept ==
  MasterTypeOK /\ [MasterNext]_masterVars => MasterTypeOK'
<1> SUFFICES ASSUME MasterTypeOK, [MasterNext]_masterVars PROVE MasterTypeOK'
  OBVIOUS
<1> USE MasterAssumption, TaskInfoAssumption
<1>1. CASE Tick
  BY <1>1 DEF Tick, tables, MasterTypeOK
<1>2. CASE Restart
  BY <1>2 DEF Restart, MasterTypeOK
<1>3. CASE GetResourceOffer
  <2>1. Fresh \subseteq DOMAIN agents
    BY DEF Fresh
  <2>2. ASSUME NEW a \in Agent, NEW r \in Resource
        PROVE  (IF a \in Fresh THEN Free(a, r) ELSE 0) \in Nat
    BY <2>1, FreeIsNat
  <2>3. now + OfferTimeout \in Nat
    BY DEF MasterTypeOK
  <2>4. [expiration |-> now + OfferTimeout,
         free |-> [a \in Agent |-> [r \in Resource |-> IF a \in Fresh THEN Free(a, r) ELSE 0]]] \in Offer
    BY <2>2, <2>3 DEF Offer
  <2>5. offers' \in Seq(Offer)
    BY <1>3, <2>4 DEF GetResourceOffer, MasterTypeOK
  <2>6. /\ DOMAIN agents' = Fresh /\ agents' \in [Fresh -> [Resource -> Nat]]
        /\ lastPing' \in [Fresh -> Nat]
    BY <1>3, <2>1 DEF GetResourceOffer, MasterTypeOK
  <2> QED BY <1>3, <2>1, <2>5, <2>6 DEF GetResourceOffer, MasterTypeOK
<1>4. ASSUME NEW t \in Task, NEW k \in 1..MaxRounds, RunTask(t, k, AgentOf[t])
      PROVE  MasterTypeOK'
  <2>1. /\ DOMAIN tasks' = DOMAIN tasks \cup {t}
        /\ tasks' \in [DOMAIN tasks \cup {t} -> TaskState]
    BY <1>4 DEF RunTask, WithTask, MasterTypeOK, TaskState
  <2>2. frameworks' \subseteq Framework
    BY <1>4 DEF RunTask, MasterTypeOK
  <2>3. taskOrder' \in Seq(Task) /\ submitted' \subseteq Task
    BY <1>4 DEF RunTask, MasterTypeOK
  <2> QED BY <1>4, <2>1, <2>2, <2>3 DEF RunTask, MasterTypeOK
<1>5. ASSUME NEW t \in submitted, KillTask(t) PROVE MasterTypeOK'
  <2>1. DOMAIN tasks' = DOMAIN tasks /\ tasks' \in [DOMAIN tasks -> TaskState]
    BY <1>5 DEF KillTask, MasterTypeOK, TaskState
  <2>2. killtasks' \in Seq(Task)
    BY <1>5 DEF KillTask, MasterTypeOK
  <2> QED BY <1>5, <2>1, <2>2 DEF KillTask, MasterTypeOK
<1>6. ASSUME NEW a \in Agent, NEW resources \in Reportable,
             NEW reports \in ReportsOver(issued \cap TasksOn(a)), GetPing(a, resources, reports)
      PROVE  MasterTypeOK'
  <2>1. DOMAIN reports \subseteq Task /\ reports \in [DOMAIN reports -> ReportedState]
    BY DEF ReportsOver, TasksOn
  <2>2. tasks' \in [DOMAIN tasks \cup DOMAIN reports -> TaskState]
    BY <1>6, <2>1, TableAfterPing DEF GetPing
  <2>3. DOMAIN tasks' \subseteq Task /\ tasks' \in [DOMAIN tasks' -> TaskState]
    BY <2>1, <2>2 DEF MasterTypeOK
  <2>4. Pong(a, reports).run # NoTask => Pong(a, reports).run \in Task
    BY NextTaskWaits DEF Pong, MasterTypeOK
  <2>5. issued' \subseteq Task
    BY <1>6, <2>4 DEF GetPing, MasterTypeOK
  <2>6. /\ DOMAIN agents' = DOMAIN agents \cup {a}
        /\ agents' \in [DOMAIN agents \cup {a} -> [Resource -> Nat]]
        /\ lastPing' \in [DOMAIN agents \cup {a} -> Nat]
    BY <1>6 DEF GetPing, RefreshAgent, MasterTypeOK
  <2> QED BY <1>6, <2>3, <2>5, <2>6 DEF GetPing, MasterTypeOK
<1>7. CASE UNCHANGED masterVars
  BY <1>7 DEF masterVars, tables, MasterTypeOK
<1> QED BY <1>1, <1>2, <1>3, <1>4, <1>5, <1>6, <1>7 DEF MasterNext

(* The tables keep their types (db.py 7-25).                                *)
THEOREM MasterTyping == MasterSpec => []MasterTypeOK
<1>1. MasterInit => MasterTypeOK
  BY DEF MasterInit, MasterTypeOK
<1>2. MasterTypeOK /\ [MasterNext]_masterVars => MasterTypeOK'
  BY TypesKept
<1> QED BY <1>1, <1>2, PTL DEF MasterSpec
-----------------------------------------------------------------------------
(* What the handlers keep true of the tables together.  Only what has been  *)
(* accepted is known, ordered (once) or issued, a task waits to be issued   *)
(* until a pong has carried it, and what waits is in the order: without     *)
(* these a task could be issued before its turn, or its demand be forgotten.*)
OnlyAccepted ==
  /\ DOMAIN tasks \subseteq submitted
  /\ issued \subseteq submitted
  /\ \A i \in 1..Len(taskOrder) : taskOrder[i] \in DOMAIN tasks
  /\ \A i, j \in 1..Len(taskOrder) : taskOrder[i] = taskOrder[j] => i = j
IssuedInAPong ==
  \A t \in DOMAIN tasks : tasks[t] = "UNISSUED" <=> t \notin issued
WaitingIsOrdered ==
  \A t \in Handable(tasks) : \E i \in 1..Len(taskOrder) : taskOrder[i] = t
MasterInv ==
  /\ MasterTypeOK /\ OnlyAccepted /\ IssuedInAPong /\ WaitingIsOrdered
  /\ NoOvertaking /\ KillingIsOnRecord

(* A ping makes no task wait that did not wait before (db.py 62-85).        *)
LEMMA RefreshMakesNoneWait ==
  ASSUME MasterTypeOK, NEW a \in Agent, NEW reports,
         DOMAIN reports \subseteq Task, reports \in [DOMAIN reports -> ReportedState],
         NEW t \in DOMAIN Refreshed(a, reports),
         Refreshed(a, reports)[t] \in {"UNISSUED", "ISSUED"}
  PROVE  t \in DOMAIN tasks /\ tasks[t] = Refreshed(a, reports)[t]
<1>1. t \in DOMAIN tasks \cup DOMAIN reports
  BY TableAfterPing
<1>2. CASE t \in DOMAIN reports
  <2>1. Reported(t, reports[t]) \notin {"UNISSUED", "ISSUED"}
    BY <1>2 DEF Reported, ReportedState
  <2>2. Refreshed(a, reports)[t] = Reported(t, reports[t])
    BY <1>2 DEF Refreshed
  <2> QED BY <2>1, <2>2
<1>3. CASE t \notin DOMAIN reports
  <2>1. t \in DOMAIN tasks /\ Refreshed(a, reports)[t] = Missing(a, t)
    BY <1>1, <1>3 DEF Refreshed
  <2> QED BY <2>1 DEF Missing
<1> QED BY <1>2, <1>3

(* A ping makes no task KILLING that was not.                               *)
LEMMA RefreshMakesNoneKilling ==
  ASSUME MasterTypeOK, NEW a \in Agent, NEW reports,
         DOMAIN reports \subseteq Task, reports \in [DOMAIN reports -> ReportedState],
         NEW t \in DOMAIN Refreshed(a, reports), Refreshed(a, reports)[t] = "KILLING"
  PROVE  t \in DOMAIN tasks /\ tasks[t] = "KILLING"
<1>1. t \in DOMAIN tasks \cup DOMAIN reports
  BY TableAfterPing
<1>2. CASE t \in DOMAIN reports
  <2>1. Reported(t, reports[t]) = "KILLING"
    BY <1>2 DEF Refreshed
  <2> QED BY <1>2, <2>1 DEF Reported, ReportedState, Known
<1>3. CASE t \notin DOMAIN reports
  <2>1. t \in DOMAIN tasks /\ Refreshed(a, reports)[t] = Missing(a, t)
    BY <1>1, <1>3 DEF Refreshed
  <2> QED BY <2>1 DEF Missing
<1> QED BY <1>2, <1>3

(* The table after a ping: the task in the pong is ISSUED, the others are   *)
(* as refreshed.                                                            *)
LEMMA AfterPing ==
  ASSUME MasterTypeOK, NEW a \in Agent, NEW reports,
         DOMAIN reports \subseteq Task, reports \in [DOMAIN reports -> ReportedState],
         NEW t \in DOMAIN tasks \cup DOMAIN reports
  PROVE  TasksAfter(a, reports)[t] =
           IF t = NextTask(a, Refreshed(a, reports)) THEN "ISSUED" ELSE Refreshed(a, reports)[t]
<1>1. DOMAIN Refreshed(a, reports) = DOMAIN tasks \cup DOMAIN reports
  BY TableAfterPing
<1> QED BY <1>1 DEF TasksAfter, Issue

(* The task in a pong was waiting before the ping as well.                  *)
LEMMA PongTaskWaited ==
  ASSUME MasterTypeOK, NEW a \in Agent, NEW reports,
         DOMAIN reports \subseteq Task, reports \in [DOMAIN reports -> ReportedState],
         NextTask(a, Refreshed(a, reports)) # NoTask
  PROVE  LET t == NextTask(a, Refreshed(a, reports)) IN
         t \in DOMAIN tasks /\ tasks[t] \in {"UNISSUED", "ISSUED"}
<1> DEFINE table == Refreshed(a, reports)
           t == NextTask(a, table)
<1>1. t \in DOMAIN table /\ table[t] \in {"UNISSUED", "ISSUED"}
  BY NextTaskWaits DEF MasterTypeOK
<1>2. t \in DOMAIN tasks /\ tasks[t] = table[t]
  <2> HIDE DEF t
  <2> QED BY <1>1, RefreshMakesNoneWait
<1> QED BY <1>1, <1>2
(* The invariant is inductive: one step per handler.                        *)
LEMMA RunTaskKeepsInv ==
  ASSUME MasterInv, MasterTypeOK', NEW t \in Task, NEW k \in 1..MaxRounds,
         RunTask(t, k, AgentOf[t])
  PROVE  MasterInv'
<1> USE DEF MasterInv
<1>1. taskOrder \in Seq(Task) /\ tasks \in [DOMAIN tasks -> TaskState]
  BY DEF MasterTypeOK
<1>2. /\ Len(taskOrder') = Len(taskOrder) + 1 /\ taskOrder'[Len(taskOrder) + 1] = t
      /\ \A i \in 1..Len(taskOrder) : taskOrder'[i] = taskOrder[i]
  BY <1>1 DEF RunTask
<1>3. /\ t \notin submitted /\ submitted' = submitted \cup {t} /\ issued' = issued
      /\ killtasks' = killtasks /\ DOMAIN tasks' = DOMAIN tasks \cup {t}
      /\ tasks'[t] = "UNISSUED" /\ \A x \in DOMAIN tasks \ {t} : tasks'[x] = tasks[x]
  BY DEF RunTask, WithTask
<1>4. OnlyAccepted'
  BY <1>1, <1>2, <1>3 DEF OnlyAccepted
<1>5. IssuedInAPong'
  BY <1>3 DEF IssuedInAPong, OnlyAccepted
<1>6. NoOvertaking'
  <2>1. t \notin DOMAIN tasks /\ t \notin issued
    BY <1>3 DEF OnlyAccepted
  <2>2. ASSUME NEW i \in 1..Len(taskOrder'), NEW j \in 1..Len(taskOrder'), i < j,
               AgentOf[taskOrder'[i]] = AgentOf[taskOrder'[j]], taskOrder'[j] \in issued'
        PROVE  tasks'[taskOrder'[i]] # "UNISSUED"
    <3>1. j \in 1..Len(taskOrder) /\ i \in 1..Len(taskOrder)
      BY <1>1, <1>2, <1>3, <2>1, <2>2
    <3>2. tasks[taskOrder[i]] # "UNISSUED" /\ taskOrder[i] \in DOMAIN tasks
      BY <1>2, <1>3, <2>2, <3>1 DEF NoOvertaking, OnlyAccepted
    <3> QED BY <1>2, <1>3, <2>1, <3>1, <3>2
  <2> QED BY <2>2 DEF NoOvertaking
<1>7. KillingIsOnRecord'
  BY <1>3 DEF KillingIsOnRecord
<1>8. WaitingIsOrdered'
  BY <1>1, <1>2, <1>3 DEF WaitingIsOrdered, Handable
<1> QED BY <1>4, <1>5, <1>6, <1>7, <1>8

LEMMA KillTaskKeepsInv ==
  ASSUME MasterInv, MasterTypeOK', NEW t \in submitted, KillTask(t)
  PROVE  MasterInv'
<1> USE DEF MasterInv
<1>1. killtasks \in Seq(Task) /\ tasks \in [DOMAIN tasks -> TaskState]
  BY DEF MasterTypeOK
<1>2. /\ UNCHANGED <<taskOrder, submitted, issued>> /\ DOMAIN tasks' = DOMAIN tasks
      /\ \A x \in DOMAIN tasks :
           tasks'[x] = tasks[x] \/ (x = t /\ tasks[x] # "UNISSUED" /\ tasks'[x] = "KILLING")
  BY <1>1 DEF KillTask, Known
<1>3. /\ \E i \in 1..Len(killtasks') : killtasks'[i] = t
      /\ \A i \in 1..Len(killtasks) : i \in 1..Len(killtasks') /\ killtasks'[i] = killtasks[i]
  <2>1. CASE \E i \in 1..Len(killtasks) : killtasks[i] = t
    BY <2>1 DEF KillTask
  <2>2. CASE ~\E i \in 1..Len(killtasks) : killtasks[i] = t
    <3>1. killtasks' = Append(killtasks, t)
      BY <2>2 DEF KillTask
    <3>2. Len(killtasks') = Len(killtasks) + 1 /\ killtasks'[Len(killtasks) + 1] = t
      BY <1>1, <3>1
    <3> QED BY <1>1, <3>1, <3>2
  <2> QED BY <2>1, <2>2
<1>4. OnlyAccepted' /\ IssuedInAPong' /\ NoOvertaking' /\ WaitingIsOrdered'
  BY <1>2 DEF OnlyAccepted, IssuedInAPong, NoOvertaking, WaitingIsOrdered, Handable
<1>5. KillingIsOnRecord'
  <2>1. ASSUME NEW x \in DOMAIN tasks, tasks'[x] = "KILLING"
        PROVE  \E i \in 1..Len(killtasks') : killtasks'[i] = x
    <3>1. CASE x = t
      BY <1>3, <3>1
    <3>2. CASE x # t
      BY <1>2, <1>3, <2>1, <3>2 DEF KillingIsOnRecord
    <3> QED BY <3>1, <3>2
  <2> QED BY <1>2, <2>1 DEF KillingIsOnRecord
<1> QED BY <1>4, <1>5

LEMMA GetPingKeepsInv ==
  ASSUME MasterInv, MasterTypeOK', NEW a \in Agent, NEW resources \in Reportable,
         NEW reports \in ReportsOver(issued \cap TasksOn(a)), GetPing(a, resources, reports)
  PROVE  MasterInv'
<1> USE DEF MasterInv
<1> DEFINE table == Refreshed(a, reports)
           run == NextTask(a, table)
<1>1. /\ DOMAIN reports \subseteq Task /\ DOMAIN reports \subseteq issued
      /\ reports \in [DOMAIN reports -> ReportedState]
  BY DEF ReportsOver, TasksOn
<1>2. /\ UNCHANGED <<taskOrder, killtasks, submitted>> /\ tasks' = TasksAfter(a, reports)
      /\ issued' = issued \cup ({run} \ {NoTask})
  BY DEF GetPing, Pong
<1>3. DOMAIN table = DOMAIN tasks \cup DOMAIN reports /\ DOMAIN tasks' = DOMAIN table
  BY <1>1, <1>2, TableAfterPing
<1>4. run # NoTask => run \in DOMAIN tasks /\ tasks[run] \in {"UNISSUED", "ISSUED"}
  BY <1>1, PongTaskWaited
<1>5. \A t \in DOMAIN tasks' : tasks'[t] = IF t = run THEN "ISSUED" ELSE table[t]
  BY <1>1, <1>2, <1>3, AfterPing
<1>6. ASSUME NEW t \in DOMAIN table, table[t] \in {"UNISSUED", "ISSUED"}
      PROVE  t \in DOMAIN tasks /\ tasks[t] = table[t]
  BY <1>1, <1>6, RefreshMakesNoneWait
<1>7. ASSUME NEW t \in DOMAIN table, table[t] = "KILLING"
      PROVE  t \in DOMAIN tasks /\ tasks[t] = "KILLING"
  BY <1>1, <1>7, RefreshMakesNoneKilling
<1>8. run # NoTask /\ table[run] = "UNISSUED" =>
        \E k \in 1..Len(taskOrder) :
          run = taskOrder[k] /\ \A j \in 1..(k-1) : taskOrder[j] \notin InState(a, table, {"UNISSUED"})
  BY NextTaskWaits DEF MasterTypeOK
<1>9. run # NoTask => run \in DOMAIN table /\ AgentOf[run] = a /\ table[run] \in {"UNISSUED", "ISSUED"}
  BY NextTaskWaits DEF MasterTypeOK
<1> HIDE DEF table, run
<1>10. OnlyAccepted'
  BY <1>1, <1>2, <1>3, <1>4 DEF OnlyAccepted
<1>11. IssuedInAPong'
  <2>1. ASSUME NEW t \in DOMAIN tasks', t = run PROVE tasks'[t] = "ISSUED" /\ t \in issued'
    BY <1>2, <1>3, <1>5, <2>1, TaskInfoAssumption DEF MasterTypeOK
  <2>2. ASSUME NEW t \in DOMAIN tasks', t # run, t \in DOMAIN reports
        PROVE  tasks'[t] # "UNISSUED" /\ t \in issued'
    <3>1. tasks'[t] # "UNISSUED"
      BY <1>1, <1>3, <1>5, <2>2 DEF table, Refreshed, Reported, ReportedState
    <3> QED BY <1>1, <1>2, <2>2, <3>1
  <2>3. ASSUME NEW t \in DOMAIN tasks', t # run, t \notin DOMAIN reports
        PROVE  tasks'[t] = "UNISSUED" <=> t \notin issued'
    <3>1. t \in DOMAIN tasks /\ tasks'[t] = Missing(a, t)
      BY <1>3, <1>5, <2>3 DEF table, Refreshed
    <3>2. tasks'[t] = "UNISSUED" <=> tasks[t] = "UNISSUED"
      BY <3>1 DEF Missing
    <3> QED BY <1>2, <2>3, <3>1, <3>2 DEF IssuedInAPong
  <2> QED BY <2>1, <2>2, <2>3 DEF IssuedInAPong
<1>12. NoOvertaking'
  <2>1. ASSUME NEW i \in 1..Len(taskOrder), NEW j \in 1..Len(taskOrder), i < j,
               AgentOf[taskOrder[i]] = AgentOf[taskOrder[j]], taskOrder[j] \in issued',
               tasks'[taskOrder[i]] = "UNISSUED"
        PROVE  FALSE
    <3>1. taskOrder[i] \in DOMAIN tasks
      BY DEF OnlyAccepted
    <3>2. table[taskOrder[i]] = "UNISSUED" /\ tasks[taskOrder[i]] = "UNISSUED" /\ taskOrder[i] # run
      BY <1>3, <1>5, <1>6, <2>1, <3>1
    <3>3. taskOrder[j] \notin issued
      BY <2>1, <3>2 DEF NoOvertaking
    <3>4. run # NoTask /\ taskOrder[j] = run
      BY <1>2, <2>1, <3>3
    <3>5. table[run] = "UNISSUED"
      BY <1>4, <1>6, <1>9, <3>3, <3>4 DEF IssuedInAPong
    <3>6. PICK k \in 1..Len(taskOrder) :
            run = taskOrder[k] /\ \A x \in 1..(k-1) : taskOrder[x] \notin InState(a, table, {"UNISSUED"})
      BY <1>8, <3>4, <3>5
    <3>7. taskOrder[i] \in InState(a, table, {"UNISSUED"})
      BY <1>3, <1>9, <2>1, <3>1, <3>2, <3>4 DEF InState
    <3>8. k = j
      BY <3>4, <3>6 DEF OnlyAccepted
    <3> QED BY <2>1, <3>6, <3>7, <3>8
  <2> QED BY <1>2, <2>1 DEF NoOvertaking
<1>13. KillingIsOnRecord'
  BY <1>2, <1>3, <1>5, <1>7 DEF KillingIsOnRecord
<1>14. WaitingIsOrdered'
  <2>1. ASSUME NEW t \in DOMAIN tasks', tasks'[t] \in {"UNISSUED", "ISSUED"}
        PROVE  t \in DOMAIN tasks /\ tasks[t] \in {"UNISSUED", "ISSUED"}
    <3>1. CASE t = run
      BY <1>3, <1>4, <2>1, <3>1, TaskInfoAssumption DEF MasterTypeOK
    <3>2. CASE t # run
      BY <1>3, <1>5, <1>6, <2>1, <3>2
    <3> QED BY <3>1, <3>2
  <2> QED BY <1>2, <2>1 DEF WaitingIsOrdered, Handable
<1> QED BY <1>10, <1>11, <1>12, <1>13, <1>14
(* No handler breaks what they all keep true (master.py 29-215).            *)
LEMMA HandlersKeepInv ==
  MasterInv /\ MasterTypeOK' /\ [MasterNext]_masterVars => MasterInv'
<1> SUFFICES ASSUME MasterInv, MasterTypeOK', [MasterNext]_masterVars PROVE MasterInv'
  OBVIOUS
<1> USE DEF MasterInv, OnlyAccepted, IssuedInAPong, WaitingIsOrdered, Handable, NoOvertaking, KillingIsOnRecord
<1>1. CASE Tick
  BY <1>1 DEF Tick, tables
<1>2. CASE Restart
  BY <1>2 DEF Restart
<1>3. CASE GetResourceOffer
  BY <1>3 DEF GetResourceOffer
<1>4. CASE UNCHANGED masterVars
  BY <1>4 DEF masterVars, tables
<1> QED BY <1>1, <1>2, <1>3, <1>4, RunTaskKeepsInv, KillTaskKeepsInv, GetPingKeepsInv
        DEF MasterNext

LEMMA MasterStartsWell == MasterInit => MasterInv
BY DEF MasterInit, MasterInv, MasterTypeOK, OnlyAccepted, IssuedInAPong, WaitingIsOrdered,
       Handable, NoOvertaking, KillingIsOnRecord

(* MasterInv holds in every state.                                          *)
THEOREM MasterInvariance == MasterSpec => []MasterInv
<1>1. MasterInit => MasterInv
  BY MasterStartsWell
<1>2. MasterInv /\ MasterTypeOK' /\ [MasterNext]_masterVars => MasterInv'
  BY HandlersKeepInv
<1> QED BY <1>1, <1>2, MasterTyping, PTL DEF MasterSpec

(* Tasks of one agent are handed out in the order they were accepted, for   *)
(* any tasks, kills, reports and restarts (db.py 129-138).                  *)
THEOREM HandedOutInOrder == MasterSpec => []NoOvertaking
BY MasterInvariance, PTL DEF MasterInv

(* Whatever the master shows as KILLING a pong can ask to kill (db.py       *)
(* 100-110, 62-85).                                                         *)
THEOREM KillsAreOnRecord == MasterSpec => []KillingIsOnRecord
BY MasterInvariance, PTL DEF MasterInv

(* No ping, late or early, makes a task eligible again that the agent has   *)
(* reported or that is to be killed (db.py 62-85, 129-138).                 *)
THEOREM HandedOutForGood == MasterSpec => NeverHandedOutAgain
<1> DEFINE NoneAgain ==
      \A t \in DOMAIN tasks \cap DOMAIN tasks' : t \in Handable(tasks') => t \in Handable(tasks)
<1>1. MasterInv /\ [MasterNext]_masterVars => NoneAgain
  <2> SUFFICES ASSUME MasterInv, [MasterNext]_masterVars,
                      NEW t \in DOMAIN tasks, t \in DOMAIN tasks', t \in Handable(tasks')
               PROVE  t \in Handable(tasks)
    BY DEF MasterInv
  <2> USE DEF Handable
  <2>1. CASE UNCHANGED tasks
    BY <2>1
  <2>2. CASE Restart
    BY <2>2 DEF Restart
  <2>3. ASSUME NEW x \in Task, NEW k \in 1..MaxRounds, RunTask(x, k, AgentOf[x])
        PROVE  t \in Handable(tasks)
    BY <2>3 DEF RunTask, WithTask, MasterInv, OnlyAccepted
  <2>4. ASSUME NEW x \in submitted, KillTask(x) PROVE t \in Handable(tasks)
    BY <2>4 DEF KillTask
  <2>5. ASSUME NEW a \in Agent, NEW resources \in Reportable,
               NEW reports \in ReportsOver(issued \cap TasksOn(a)), GetPing(a, resources, reports)
        PROVE  t \in Handable(tasks)
    <3> USE DEF MasterInv
    <3>1. DOMAIN reports \subseteq Task /\ reports \in [DOMAIN reports -> ReportedState]
      BY DEF ReportsOver, TasksOn, MasterTypeOK
    <3>2. tasks'[t] = IF t = NextTask(a, Refreshed(a, reports)) THEN "ISSUED"
                      ELSE Refreshed(a, reports)[t]
      BY <2>5, <3>1, AfterPing DEF GetPing
    <3>3. CASE t = NextTask(a, Refreshed(a, reports))
      BY <3>1, <3>3, PongTaskWaited, TaskInfoAssumption DEF MasterTypeOK
    <3>4. CASE t # NextTask(a, Refreshed(a, reports))
      <4>1. t \in DOMAIN Refreshed(a, reports)
        BY <3>1, TableAfterPing
      <4> QED BY <3>1, <3>2, <3>4, <4>1, RefreshMakesNoneWait
    <3> QED BY <3>3, <3>4
  <2> QED BY <2>1, <2>2, <2>3, <2>4, <2>5
          DEF MasterNext, Tick, GetResourceOffer, masterVars, tables
<1>2. MasterInv /\ [MasterNext]_masterVars => [NoneAgain]_masterVars
  BY <1>1
<1> QED BY <1>2, MasterInvariance, PTL DEF MasterSpec, NeverHandedOutAgain

(* Whatever a ping reports, its pong runs nothing it reports, and kills     *)
(* something else only beside a task to run (db.py 62-85, 129-146).         *)
LEMMA PongFits ==
  ASSUME MasterInv, NEW a \in Agent, NEW reports \in ReportsOver(issued \cap TasksOn(a))
  PROVE  /\ Pong(a, reports).run \notin DOMAIN reports
         /\ Pong(a, reports).run = NoTask => Pong(a, reports).kill \in DOMAIN reports \cup {NoTask}
<1> USE DEF MasterInv
<1> DEFINE table == Refreshed(a, reports)
           run == NextTask(a, table)
           kill == NextKill(a, TasksAfter(a, reports))
<1>1. /\ DOMAIN reports \subseteq Task /\ reports \in [DOMAIN reports -> ReportedState]
      /\ taskOrder \in Seq(Task) /\ killtasks \in Seq(Task)
  BY DEF ReportsOver, TasksOn, MasterTypeOK
<1>2. /\ DOMAIN table = DOMAIN tasks \cup DOMAIN reports /\ DOMAIN TasksAfter(a, reports) = DOMAIN table
      /\ \A t \in DOMAIN table :
           TasksAfter(a, reports)[t] = IF t = run THEN "ISSUED" ELSE table[t]
  BY <1>1, TableAfterPing, AfterPing
<1>3. Pong(a, reports).run = run /\ Pong(a, reports).kill = kill
  BY DEF Pong
<1>4. run \notin DOMAIN reports
  <2> SUFFICES ASSUME run \in DOMAIN reports PROVE FALSE
    OBVIOUS
  <2>1. run # NoTask
    BY <1>1, TaskInfoAssumption
  <2>2. table[run] \in {"UNISSUED", "ISSUED"}
    BY <1>1, <2>1, NextTaskWaits
  <2>3. table[run] = Reported(run, reports[run])
    BY DEF Refreshed
  <2> HIDE DEF run
  <2> QED BY <1>1, <2>2, <2>3 DEF Reported, ReportedState
<1>5. ASSUME run = NoTask, kill # NoTask PROVE kill \in DOMAIN reports
  <2>1. kill \in InState(a, TasksAfter(a, reports), {"RUNNING", "KILLING", "ISSUED"})
    BY <1>1, <1>5, FirstInFinds DEF NextKill
  <2>2. kill \in DOMAIN table /\ kill \in Task
    BY <1>1, <1>2, <2>1 DEF InState, MasterTypeOK
  <2>3. AgentOf[kill] = a /\ table[kill] \in {"RUNNING", "KILLING", "ISSUED"}
    BY <1>2, <1>5, <2>1, <2>2, TaskInfoAssumption DEF InState
  <2> HIDE DEF kill
  <2>4. CASE table[kill] = "ISSUED"
    <3>1. kill \in Handable(tasks)
      BY <1>1, <2>2, <2>4, RefreshMakesNoneWait DEF Handable
    <3>2. PICK i \in 1..Len(taskOrder) : taskOrder[i] = kill
      BY <3>1 DEF WaitingIsOrdered
    <3>3. taskOrder[i] \in InState(a, table, {"ISSUED"})
      BY <2>2, <2>3, <2>4, <3>2 DEF InState
    <3>4. FirstIn(taskOrder, InState(a, table, {"ISSUED"})) # NoTask
      BY <1>1, <3>3, FirstInFinds, TaskInfoAssumption
    <3> QED BY <1>5, <3>4 DEF NextTask
  <2>5. CASE table[kill] \in {"RUNNING", "KILLING"} /\ kill \notin DOMAIN reports
    <3>1. table[kill] = Missing(a, kill)
      BY <2>2, <2>5 DEF Refreshed
    <3> QED BY <2>3, <2>5, <3>1 DEF Missing
  <2> QED BY <2>3, <2>4, <2>5
<1> QED BY <1>3, <1>4, <1>5

(* What the C agent takes for granted of its master holds of this one, for  *)
(* any tasks, kills, lost pongs and restarts.                               *)
THEOREM AnswersFit == MasterSpec => []PongsFitPings
<1>1. MasterInv => PongsFitPings
  BY PongFits, Zenon DEF PongsFitPings
<1> QED BY <1>1, MasterInvariance, PTL
-----------------------------------------------------------------------------
(* How much is subtracted for a new offer (master.py 57-76).  Values left   *)
(* are defined one from the one before, so the function is there if every   *)
(* beginning of it is.                                                      *)
Values(value, amounts, n, left) ==
  left = [i \in 0..n |-> IF i = 0 THEN value ELSE Less(left[i-1], amounts[i])]

LEMMA LeftIsDefined ==
  ASSUME NEW value \in Int, NEW amounts \in Seq(Nat)
  PROVE  Values(value, amounts, Len(amounts), Left(value, amounts))
<1> DEFINE Ns == {n \in Nat : \E left : Values(value, amounts, n, left)}
<1>1. 0 \in Ns
  <2> DEFINE left == [i \in 0..0 |-> value]
  <2>1. Values(value, amounts, 0, left)
    BY DEF Values
  <2> QED BY <2>1
<1>2. ASSUME NEW n \in 1..Len(amounts), n-1 \in Ns PROVE n \in Ns
  <2>1. PICK old : Values(value, amounts, n-1, old)
    BY <1>2
  <2> DEFINE left == [i \in 0..n |-> IF i < n THEN old[i] ELSE Less(old[n-1], amounts[n])]
  <2>2. \A i \in 0..(n-1) : left[i] = old[i]
    OBVIOUS
  <2>3. \A i \in 0..(n-1) : old[i] = IF i = 0 THEN value ELSE Less(old[i-1], amounts[i])
    BY <2>1, Zenon DEF Values
  <2>4. ASSUME NEW i \in 0..n
        PROVE  left[i] = IF i = 0 THEN value ELSE Less(left[i-1], amounts[i])
    <3>1. CASE i = n
      BY <2>2, <3>1
    <3>2. CASE i # n
      <4>1. i \in 0..(n-1) /\ (i # 0 => i-1 \in 0..(n-1))
        BY <3>2
      <4> HIDE DEF left
      <4> QED BY <2>2, <2>3, <4>1
    <3> QED BY <3>1, <3>2
  <2>5. Values(value, amounts, n, left)
    <3>1. left = [i \in 0..n |-> left[i]]
      OBVIOUS
    <3> HIDE DEF left
    <3> QED BY <2>4, <3>1 DEF Values
  <2> QED BY <2>5
<1>3. Len(amounts) \in Ns
  <2> HIDE DEF Ns
  <2>1. Len(amounts) \in Nat /\ Len(amounts) \in 0..Len(amounts)
    OBVIOUS
  <2>2. 0..Len(amounts) \subseteq Ns
    BY <1>1, <1>2, <2>1, AllUpTo
  <2> QED BY <2>1, <2>2
<1> QED BY <1>3, Zenon DEF Left, Values

(* One amount has as many units as it says.                                 *)
LEMMA UnitsOfOne ==
  ASSUME NEW x, NEW n \in Nat
  PROVE  IsFiniteSet({x} \X (1..n)) /\ Cardinality({x} \X (1..n)) = n
<1> DEFINE f == [k \in 1..n |-> <<x, k>>]
<1>1. f \in Bijection(1..n, {x} \X (1..n))
  BY DEF Bijection, Injection, Surjection, IsInjective
<1>2. IsFiniteSet(1..n) /\ Cardinality(1..n) = n
  BY FS_Interval
<1>3. ExistsBijection(1..n, {x} \X (1..n))
  BY <1>1 DEF ExistsBijection
<1> QED BY <1>2, <1>3, FS_Bijection

(* What is left of a value that has not come down to nothing is what it was *)
(* less every unit of every amount, in whatever order they are taken.       *)
LEMMA NothingIsLost ==
  ASSUME NEW value \in Int, NEW amounts \in Seq(Nat)
  PROVE  /\ IsFiniteSet(Units(amounts)) /\ AfterAll(value, amounts) \in Int
         /\ AfterAll(value, amounts) > 0 =>
              value > 0 /\ AfterAll(value, amounts) = value - Cardinality(Units(amounts))
<1> DEFINE left == Left(value, amounts)
           Before(n) == UNION {{i} \X (1..amounts[i]) : i \in 1..n}
           Holds(n) == /\ left[n] \in Int /\ IsFiniteSet(Before(n)) /\ Cardinality(Before(n)) \in Nat
                       /\ left[n] > 0 => value > 0 /\ left[n] = value - Cardinality(Before(n))
           Ns == {n \in 0..Len(amounts) : Holds(n)}
<1>1. left = [i \in 0..Len(amounts) |-> IF i = 0 THEN value ELSE Less(left[i-1], amounts[i])]
  BY LeftIsDefined DEF Values
<1>2. left[0] = value /\ \A i \in 1..Len(amounts) : left[i] = Less(left[i-1], amounts[i])
  <2> HIDE DEF left
  <2>1. Len(amounts) \in Nat
    OBVIOUS
  <2>2. 0 \in 0..Len(amounts) /\ \A i \in 1..Len(amounts) : i \in 0..Len(amounts) /\ i # 0
    BY <2>1
  <2>3. \A i \in 0..Len(amounts) : left[i] = IF i = 0 THEN value ELSE Less(left[i-1], amounts[i])
    BY <1>1, Zenon
  <2> QED BY <2>2, <2>3
<1> HIDE DEF left
<1>3. Holds(0)
  <2>1. Before(0) = {}
    OBVIOUS
  <2> HIDE DEF Before
  <2>2. IsFiniteSet(Before(0)) /\ Cardinality(Before(0)) = 0
    BY <2>1, FS_EmptySet
  <2> QED BY <1>2, <2>2
<1>4. ASSUME NEW n \in 1..Len(amounts), Holds(n-1) PROVE Holds(n)
  <2> DEFINE Last == {n} \X (1..amounts[n])
  <2>1. Before(n) = Before(n-1) \cup Last
    <3>1. 1..n = 1..(n-1) \cup {n}
      OBVIOUS
    <3> QED BY <3>1
  <2>2. Before(n-1) \cap Last = {}
    OBVIOUS
  <2>3. amounts[n] \in Nat
    OBVIOUS
  <2>4. IsFiniteSet(Last) /\ Cardinality(Last) = amounts[n]
    BY <2>3, UnitsOfOne
  <2> HIDE DEF Before, Last
  <2>5. IsFiniteSet(Before(n)) /\ Cardinality(Before(n)) = Cardinality(Before(n-1)) + amounts[n]
    <3>1. Cardinality(Before(n-1) \cap Last) = 0
      BY <2>2, FS_EmptySet
    <3>2. Cardinality(Before(n-1) \cup Last)
            = Cardinality(Before(n-1)) + Cardinality(Last) - Cardinality(Before(n-1) \cap Last)
      BY <1>4, <2>4, FS_Union
    <3>3. IsFiniteSet(Before(n-1) \cup Last)
      BY <1>4, <2>4, FS_Union
    <3> QED BY <1>4, <2>1, <2>3, <2>4, <3>1, <3>2, <3>3
  <2>6. left[n] = IF left[n-1] # 0 /\ amounts[n] # 0 THEN left[n-1] - amounts[n] ELSE left[n-1]
    BY <1>2 DEF Less
  <2> QED BY <1>4, <2>3, <2>5, <2>6
<1>5. Len(amounts) \in Ns
  <2> HIDE DEF Holds
  <2>1. 0 \in Ns /\ Len(amounts) \in Nat /\ Len(amounts) \in 0..Len(amounts)
    BY <1>3
  <2>2. \A n \in 1..Len(amounts) : n-1 \in Ns => n \in Ns
    BY <1>4
  <2> HIDE DEF Ns
  <2>3. 0..Len(amounts) \subseteq Ns
    BY <2>1, <2>2, AllUpTo
  <2> QED BY <2>1, <2>3
<1>6. Holds(Len(amounts))
  BY <1>5
<1>7. Units(amounts) = Before(Len(amounts))
  BY DEF Units
<1> HIDE DEF Before
<1> QED BY <1>6, <1>7 DEF AfterAll, left

(* The tasks that wait take at least what the pending ones of the order     *)
(* ask: every unit they were promised has its place there.                  *)
LEMMA TasksAreSubtracted ==
  ASSUME MasterInv, NEW a \in Agent, NEW r \in Resource
  PROVE  /\ Demanded(a, r) \in Seq(Nat) /\ IsFiniteSet(Units(Demanded(a, r)))
         /\ Cardinality(ToTasks(a, r)) \in Nat
         /\ Cardinality(ToTasks(a, r)) <= Cardinality(Units(Demanded(a, r)))
<1> DEFINE asked == Demanded(a, r)
           unit == [u \in Units(asked) |-> <<taskOrder[u[1]], u[2]>>]
<1>1. /\ taskOrder \in Seq(Task) /\ \A i \in 1..Len(taskOrder) : taskOrder[i] \in DOMAIN tasks
      /\ \A t \in Task : Demand[t][r] \in Nat
  BY MasterAssumption DEF MasterInv, MasterTypeOK, OnlyAccepted
<1>2. /\ asked \in Seq(Nat) /\ Len(asked) = Len(taskOrder)
      /\ \A i \in 1..Len(taskOrder) :
           asked[i] = IF Pending(a, taskOrder[i]) THEN Demand[taskOrder[i]][r] ELSE 0
  BY <1>1 DEF Demanded
<1> HIDE DEF asked
<1>3. \A u : u \in Units(asked) <=> /\ u = <<u[1], u[2]>> /\ u[1] \in 1..Len(taskOrder)
                                    /\ u[2] \in 1..asked[u[1]]
  BY <1>2 DEF Units
<1>4. \A v : v \in ToTasks(a, r) <=> /\ v = <<v[1], v[2]>> /\ v[1] \in Handable(tasks) \cap TasksOn(a)
                                     /\ v[2] \in 1..Demand[v[1]][r]
  BY DEF ToTasks, Units
<1>5. IsFiniteSet(Units(asked))
  BY <1>2, NothingIsLost
<1>6. ASSUME NEW u \in Units(asked) PROVE unit[u] \in ToTasks(a, r)
  <2>1. Pending(a, taskOrder[u[1]]) /\ u[2] \in 1..Demand[taskOrder[u[1]]][r]
    BY <1>1, <1>2, <1>3
  <2>2. taskOrder[u[1]] \in Handable(tasks) \cap TasksOn(a)
    BY <1>1, <1>3, <2>1 DEF Pending, Handable, TasksOn
  <2> QED BY <1>4, <2>1, <2>2
<1>7. ASSUME NEW v \in ToTasks(a, r) PROVE \E u \in Units(asked) : unit[u] = v
  <2>1. PICK i \in 1..Len(taskOrder) : taskOrder[i] = v[1]
    BY <1>4 DEF MasterInv, WaitingIsOrdered
  <2>2. asked[i] = Demand[v[1]][r]
    BY <1>2, <1>4, <2>1 DEF Pending, Handable, TasksOn
  <2>3. <<i, v[2]>> \in Units(asked)
    BY <1>3, <1>4, <2>1, <2>2
  <2> QED BY <1>4, <2>1, <2>3
<1>8. unit \in Surjection(Units(asked), ToTasks(a, r))
  BY <1>6, <1>7 DEF Surjection
<1>9. IsFiniteSet(ToTasks(a, r)) /\ Cardinality(ToTasks(a, r)) <= Cardinality(Units(asked))
  BY <1>5, <1>8, FS_Surjection
<1> QED BY <1>2, <1>5, <1>9, FS_CardinalityType DEF asked

(* The offers that still count take what they promise.                      *)
LEMMA OffersAreSubtracted ==
  ASSUME MasterInv, NEW a \in Agent, NEW r \in Resource
  PROVE  Promised(a, r) \in Seq(Nat) /\ Units(Promised(a, r)) = ToOffers(a, r)
<1>1. offers \in Seq(Offer) /\ \A k \in 1..Len(offers) : offers[k].free[a][r] \in Nat
  <2>1. offers \in Seq(Offer)
    BY DEF MasterInv, MasterTypeOK
  <2>2. ASSUME NEW o \in Offer PROVE o.free[a][r] \in Nat
    BY DEF Offer
  <2> QED BY <2>1, <2>2
<1>2. /\ Promised(a, r) \in Seq(Nat) /\ DOMAIN Promised(a, r) = 1..Len(offers)
      /\ \A k \in 1..Len(offers) :
           Promised(a, r)[k] = IF now < offers[k].expiration THEN offers[k].free[a][r] ELSE 0
  BY <1>1 DEF Promised, Outstanding
<1>3. \A u : u \in Units(Promised(a, r)) <=> /\ u = <<u[1], u[2]>> /\ u[1] \in 1..Len(offers)
                                             /\ u[2] \in 1..Promised(a, r)[u[1]]
  BY <1>2 DEF Units
<1>4. \A u : u \in ToOffers(a, r) <=> /\ u = <<u[1], u[2]>> /\ u[1] \in 1..Len(offers)
                                      /\ now < offers[u[1]].expiration
                                      /\ u[2] \in 1..offers[u[1]].free[a][r]
  <2> DEFINE K == {k \in 1..Len(offers) : now < offers[k].expiration}
             free == [k \in K |-> offers[k].free[a][r]]
  <2>1. \A u : u \in Units(free) <=> u = <<u[1], u[2]>> /\ u[1] \in K /\ u[2] \in 1..free[u[1]]
    <3>1. DOMAIN free = K
      OBVIOUS
    <3> HIDE DEF free, K
    <3> QED BY <3>1 DEF Units
  <2>2. ToOffers(a, r) = Units(free)
    BY DEF ToOffers
  <2>3. \A k \in K : free[k] = offers[k].free[a][r]
    OBVIOUS
  <2> HIDE DEF free
  <2> QED BY <2>1, <2>2, <2>3
<1>5. \A u : u \in Units(Promised(a, r)) <=> u \in ToOffers(a, r)
  BY <1>1, <1>2, <1>3, <1>4
<1> QED BY <1>2, <1>5

(* A scalar in an offer is there for the taking, whatever tasks and offers  *)
(* there are and in whatever order they came (master.py 29-100).            *)
THEOREM OffersBacked == MasterSpec => OffersAreBacked
<1> DEFINE Backed ==
      \A k \in DOMAIN offers' \ DOMAIN offers :
        \A a \in Agent, r \in Resource \ Device :
          offers'[k].free[a][r] > 0 =>
            /\ a \in DOMAIN agents /\ now - lastPing[a] <= StaleAfter
            /\ offers'[k].free[a][r] + Cardinality(ToTasks(a, r)) + Cardinality(ToOffers(a, r))
                 <= agents[a][r]
<1>1. MasterInv /\ [MasterNext]_masterVars => Backed
  <2> SUFFICES ASSUME MasterInv, [MasterNext]_masterVars,
                      NEW k \in DOMAIN offers' \ DOMAIN offers,
                      NEW a \in Agent, NEW r \in Resource \ Device, offers'[k].free[a][r] > 0
               PROVE  /\ a \in DOMAIN agents /\ now - lastPing[a] <= StaleAfter
                      /\ offers'[k].free[a][r] + Cardinality(ToTasks(a, r)) + Cardinality(ToOffers(a, r))
                           <= agents[a][r]
    OBVIOUS
  <2>1. GetResourceOffer
    <3>1. offers' # offers /\ offers' # <<>>
      OBVIOUS
    <3> QED BY <3>1 DEF MasterNext, Tick, Restart, RunTask, KillTask, GetPing, masterVars, tables
  <2>2. offers \in Seq(Offer) /\ k = Len(offers) + 1
    BY <2>1 DEF GetResourceOffer, MasterInv, MasterTypeOK
  <2>3. offers'[k].free[a][r] = IF a \in Fresh THEN Free(a, r) ELSE 0
    BY <2>1, <2>2 DEF GetResourceOffer
  <2>4. a \in Fresh /\ offers'[k].free[a][r] = Free(a, r)
    BY <2>3
  <2>5. a \in DOMAIN agents /\ now - lastPing[a] <= StaleAfter /\ agents[a][r] \in Int
    BY <2>4 DEF Fresh, MasterInv, MasterTypeOK
  <2> DEFINE left == AfterAll(agents[a][r], Demanded(a, r))
             rest == AfterAll(left, Promised(a, r))
  <2>6. Free(a, r) = Kept(rest)
    BY DEF Free
  <2>7. left \in Int /\ (left > 0 => left = agents[a][r] - Cardinality(Units(Demanded(a, r))))
    BY <2>5, TasksAreSubtracted, NothingIsLost
  <2> HIDE DEF left
  <2>8. rest \in Int /\ (rest > 0 => left > 0 /\ rest = left - Cardinality(ToOffers(a, r)))
    BY <2>7, OffersAreSubtracted, NothingIsLost
  <2> HIDE DEF rest
  <2>9. rest > 0 /\ Free(a, r) = rest
    BY <2>4, <2>6, <2>8 DEF Kept
  <2>10. /\ Cardinality(ToTasks(a, r)) \in Nat /\ Cardinality(Units(Demanded(a, r))) \in Nat
         /\ Cardinality(ToTasks(a, r)) <= Cardinality(Units(Demanded(a, r)))
    BY TasksAreSubtracted, FS_CardinalityType
  <2>11. Cardinality(ToOffers(a, r)) \in Nat
    BY <2>7, OffersAreSubtracted, NothingIsLost, FS_CardinalityType
  <2> QED BY <2>4, <2>5, <2>7, <2>8, <2>9, <2>10, <2>11
<1>2. MasterInv /\ [MasterNext]_masterVars => [Backed]_masterVars
  BY <1>1
<1> QED BY <1>2, MasterInvariance, PTL DEF MasterSpec, OffersAreBacked
=============================================================================
