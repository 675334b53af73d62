----------------------------- MODULE CAgentProofs -----------------------------
(***************************************************************************)
(* Theorems about the C agent, for any tasks and any number of slots.      *)
(***************************************************************************)
EXTENDS CAgent, NatFacts

\* A ping that is waited for names what the slots name.
PingNamesSlots == mode = "waiting" => DOMAIN asked = Named

\* The answer to the ping just sent brings no task that a slot names.
AnswersAreNew == mode = "handling" /\ ~strayed => reply.run \notin Named

\* What holds of the slots until a task is taken in twice.
OneSlotEach ==
  \A i, j \in Slot : slots[i].id # NoTask /\ slots[i].id = slots[j].id => i = j

ThreadsFit ==
  \A i \in Slot : Live(i) =>
    /\ slots[i].id = threads[i].task /\ slots[i].id # NoTask
    /\ slots[i].state = "RUNNING" /\ slots[i].binary

PingShowsStates ==
  mode = "waiting" => \A i \in Occupied : asked[slots[i].id] = slots[i].state

CAgentInv ==
  /\ CAgentTypeOK /\ PingNamesSlots /\ AnswersAreNew /\ OnlyStraysDouble
  /\ ~doubled => OneSlotEach /\ ThreadsFit /\ PingShowsStates
-----------------------------------------------------------------------------
(* The look-ups for a slot return one of the slots looked for               *)
(* (agent_library.c 321-343).                                               *)
LEMMA FirstIsIn ==
  ASSUME NEW S \in SUBSET Slot, S # {}
  PROVE  First(S) \in S
<1>1. S \in SUBSET Nat
  BY CAgentAssumption DEF Slot
<1>2. \E i \in S : \A j \in S : i <= j
  BY <1>1, LeastExists
<1> QED BY <1>2 DEF First

LEMMA LastIsIn ==
  ASSUME NEW S \in SUBSET Slot, S # {}
  PROVE  Last(S) \in S
<1>1. NumSlots - 1 \in Nat /\ S \in SUBSET (0 .. NumSlots - 1)
  BY CAgentAssumption DEF Slot
<1>2. \E i \in S : \A j \in S : j <= i
  BY <1>1, GreatestExists
<1> QED BY <1>2 DEF Last

LEMMA SpareIsSlots == Spare \in SUBSET Slot
BY DEF Spare, Free, Reusable

(* The pongs the master may answer with are pongs to this agent.            *)
LEMMA PongsAreTyped ==
  ASSUME NEW D, NEW p \in PongsFor(D)
  PROVE  p \in MyPong /\ p.run \notin D
BY DEF PongsFor

(* What the port may say of a slot's task is a state it can say.            *)
LEMMA PingIsTyped ==
  ASSUME CAgentTypeOK, Ping
  PROVE  CAgentTypeOK'
<1> USE DEF CAgentTypeOK, SlotRecord
<1>1. PICK seen \in [Occupied -> PortState] :
        slots' = [i \in Slot |-> IF i \in Occupied THEN Updated(slots[i], seen[i]) ELSE slots[i]]
  BY DEF Ping
<1>2. ASSUME NEW i \in Slot
      PROVE  slots'[i] \in SlotRecord
  BY <1>1 DEF Updated, Occupied
<1>3. slots' \in [Slot -> SlotRecord]
  BY <1>1, <1>2
<1>4. Named \subseteq MyTask
  BY DEF Named, Occupied
<1>5. asked' = [t \in Named |-> slots'[Last({i \in Slot : slots[i].id = t})].state]
  BY DEF Ping, Report
<1>6. ASSUME NEW t \in Named PROVE slots'[Last({i \in Slot : slots[i].id = t})].state \in PortState
  <2> DEFINE S == {i \in Slot : slots[i].id = t}
  <2>1. S \in SUBSET Slot /\ S # {}
    BY DEF Named, Occupied
  <2>2. Last(S) \in Slot
    BY <2>1, LastIsIn
  <2> QED BY <1>3, <2>2
<1>7. DOMAIN asked' \subseteq MyTask /\ asked' \in [DOMAIN asked' -> PortState]
  BY <1>4, <1>5, <1>6
<1>8. late' \subseteq MyPong /\ UNCHANGED <<threads, reply, strayed, doubled, started>> /\ mode' = "waiting"
  BY DEF Ping, historyVars
<1> QED BY <1>3, <1>7, <1>8

LEMMA TakeInIsTyped ==
  ASSUME CAgentTypeOK, TakeIn
  PROVE  CAgentTypeOK'
<1> USE DEF CAgentTypeOK, SlotRecord, ThreadRecord
<1> DEFINE i == First(Spare)
<1>1. i \in Slot
  BY FirstIsIn, SpareIsSlots DEF TakeIn
<1>2. reply.run \in MyTask
  BY DEF TakeIn, MyPong, PongTo, MyTask
<1>3. NoPong \in MyPong
  BY DEF NoPong, MyPong, PongTo
<1> HIDE DEF i
<1>4. PICK gotBinary \in BOOLEAN :
        \/ /\ slots' = [Table(i, gotBinary) EXCEPT ![i].state = "RUNNING"]
           /\ threads' = [threads EXCEPT ![i] = NewThread(i)]
           /\ started' = started \cup {reply.run}
        \/ /\ slots' = [Table(i, gotBinary) EXCEPT ![i].state = "ERRORED"]
           /\ UNCHANGED <<threads, started>>
  BY DEF TakeIn, i
<1>5. Decoded(i, gotBinary) \in SlotRecord
  BY <1>1, <1>2 DEF Decoded
<1>6. slots' \in [Slot -> SlotRecord]
  BY <1>1, <1>4, <1>5 DEF Table, PortState
<1>7. NewThread(i) \in ThreadRecord
  BY <1>1, <1>2 DEF NewThread
<1>8. threads' \in [Slot -> ThreadRecord]
      /\ started' \subseteq MyTask
  BY <1>1, <1>2, <1>4, <1>7
<1>9. mode' = "pinging" /\ reply' = NoPong /\ UNCHANGED <<asked, late, strayed>> /\ doubled' \in BOOLEAN
  BY DEF TakeIn
<1> QED BY <1>3, <1>6, <1>8, <1>9

LEMMA KillIsTyped ==
  ASSUME CAgentTypeOK, Kill
  PROVE  CAgentTypeOK'
<1> USE DEF CAgentTypeOK, ThreadRecord
<1>1. NoPong \in MyPong
  BY DEF NoPong, MyPong, PongTo
<1>2. CASE threads' = threads
  BY <1>1, <1>2 DEF Kill, historyVars
<1>3. ASSUME NEW S, S = Holders(slots, reply.kill), S # {}, threads' = [threads EXCEPT ![Last(S)] = Cleaned(@)]
      PROVE  CAgentTypeOK'
  <2>1. Last(S) \in Slot
    BY <1>3, LastIsIn DEF Holders
  <2>2. Cleaned(threads[Last(S)]) \in ThreadRecord
    BY <2>1 DEF Cleaned
  <2>3. threads' \in [Slot -> ThreadRecord]
    BY <1>3, <2>1, <2>2
  <2> QED BY <1>1, <2>3 DEF Kill, historyVars
<1>4. threads' = threads \/ \E S : /\ S = Holders(slots, reply.kill) /\ S # {}
                                  /\ threads' = [threads EXCEPT ![Last(S)] = Cleaned(@)]
  BY DEF Kill
<1> QED BY <1>2, <1>3, <1>4

(* The device starts with empty slots and no threads (agent_init).          *)
LEMMA InitIsTyped == CAgentInit => CAgentTypeOK
<1>1. EmptySlot \in SlotRecord /\ NoThread \in ThreadRecord
  BY DEF EmptySlot, SlotRecord, NoThread, ThreadRecord, PortState
<1>2. NoPong \in MyPong
  BY DEF NoPong, MyPong, PongTo
<1>3. NoPing \in [DOMAIN NoPing -> PortState] /\ DOMAIN NoPing \subseteq MyTask
  BY DEF NoPing
<1> QED BY <1>1, <1>2, <1>3 DEF CAgentInit, CAgentTypeOK

(* A step of a thread is of one that runs, and changes neither its task nor *)
(* another thread (iwasm_main).                                             *)
LEMMA ThreadSteps ==
  ASSUME CAgentTypeOK, NEW k \in Slot, Load(k) \/ NoRuntime(k) \/ Return(k) \/ Die(k)
  PROVE  \E thread \in ThreadRecord :
           /\ threads' = [threads EXCEPT ![k] = thread]
           /\ thread.task = threads[k].task /\ Live(k)
<1> USE DEF CAgentTypeOK, Live, ThreadRecord
<1>1. CASE Load(k)
  <2>1. PICK loaded \in BOOLEAN :
          threads' = [threads EXCEPT ![k] =
            [threads[k] EXCEPT !.phase = "running", !.errored = ~loaded,
                               !.module = IF loaded THEN "loaded" ELSE "null"]]
    BY <1>1 DEF Load
  <2> DEFINE thread == [threads[k] EXCEPT !.phase = "running", !.errored = ~loaded,
                               !.module = IF loaded THEN "loaded" ELSE "null"]
  <2>2. thread \in ThreadRecord /\ thread.task = threads[k].task /\ thread.phase = "running"
    OBVIOUS
  <2>3. Live(k) /\ threads' = [threads EXCEPT ![k] = thread]
    BY <1>1, <2>1 DEF Load
  <2> HIDE DEF thread
  <2> QED BY <2>2, <2>3
<1>2. CASE Return(k)
  <2>1. PICK exception \in BOOLEAN :
          threads' = [threads EXCEPT ![k] =
            [threads[k] EXCEPT !.phase = "returned", !.errored = @ \/ exception]]
    BY <1>2 DEF Return
  <2> DEFINE thread == [threads[k] EXCEPT !.phase = "returned", !.errored = @ \/ exception]
  <2>2. thread \in ThreadRecord /\ thread.task = threads[k].task /\ thread.phase = "returned"
    OBVIOUS
  <2>3. Live(k) /\ threads' = [threads EXCEPT ![k] = thread]
    BY <1>2, <2>1 DEF Return
  <2> HIDE DEF thread
  <2> QED BY <2>2, <2>3
<1>3. CASE Die(k)
  <2>1. Cleaned(threads[k]) \in ThreadRecord /\ Cleaned(threads[k]).task = threads[k].task
    BY DEF Cleaned
  <2> QED BY <1>3, <2>1 DEF Die
<1>4. CASE NoRuntime(k)
  <2>1. [threads[k] EXCEPT !.phase = "dead", !.errored = TRUE] \in ThreadRecord
    OBVIOUS
  <2> QED BY <1>4, <2>1 DEF NoRuntime
<1> QED BY <1>1, <1>2, <1>3, <1>4

(* Every variable keeps its type (agent_library.c, agent_port.c).           *)
THEOREM CAgentTyping == CAgentSpec => []CAgentTypeOK
<1>1. CAgentTypeOK /\ [CAgentNext]_cVars => CAgentTypeOK'
  <2> SUFFICES ASSUME CAgentTypeOK, [CAgentNext]_cVars PROVE CAgentTypeOK'
    OBVIOUS
  <2> USE DEF CAgentTypeOK, historyVars
  <2>1. NoPong \in MyPong /\ DOMAIN NoPing \subseteq MyTask /\ NoPing \in [DOMAIN NoPing -> PortState]
    BY DEF NoPong, NoPing, MyPong, PongTo
  <2>2. CASE Receive
    BY <2>1, <2>2, PongsAreTyped DEF Receive
  <2>3. CASE ReceiveLate
    <3>1. late' \subseteq MyPong
      BY <2>3, PongsAreTyped DEF ReceiveLate
    <3> QED BY <2>1, <2>3, <3>1 DEF ReceiveLate
  <2>4. CASE Timeout
    <3>1. late' \subseteq MyPong
      BY <2>4, PongsAreTyped DEF Timeout
    <3> QED BY <2>1, <2>4, <3>1 DEF Timeout
  <2>5. CASE TurnAway
    BY <2>1, <2>5 DEF TurnAway
  <2>6. CASE NothingToDo
    BY <2>6 DEF NothingToDo
  <2>7. ASSUME NEW i \in Slot, Load(i) \/ NoRuntime(i) \/ Return(i) \/ Die(i) PROVE CAgentTypeOK'
    <3>1. threads' \in [Slot -> ThreadRecord]
      BY <2>7, ThreadSteps
    <3> QED BY <2>7, <3>1 DEF Load, NoRuntime, Return, Die
  <2>8. CASE Fault
    BY <2>8 DEF Fault
  <2>9. CASE UNCHANGED cVars
    BY <2>9 DEF cVars
  <2> QED BY <2>2, <2>3, <2>4, <2>5, <2>6, <2>7, <2>8, <2>9,
             PingIsTyped, TakeInIsTyped, KillIsTyped DEF CAgentNext
<1> QED BY <1>1, InitIsTyped, PTL DEF CAgentSpec
-----------------------------------------------------------------------------
(* The port, asked for the task of a slot with a thread that runs, finds    *)
(* that thread (agent_port.c 191-221).                                      *)
LEMMA LiveIsSeenRunning ==
  ASSUME OneSlotEach, ThreadsFit, NEW i \in Slot, Live(i)
  PROVE  StatesOf(slots, slots[i].id) = {"RUNNING"}
<1> DEFINE S == Holders(slots, slots[i].id)
<1>1. S = {i}
  BY DEF OneSlotEach, ThreadsFit, Holders, Made, Live
<1>2. S \in SUBSET Slot /\ S # {}
  BY <1>1
<1>3. First(S) = i
  BY <1>1, <1>2, FirstIsIn
<1> QED BY <1>1, <1>2, <1>3 DEF StatesOf, ThreadState

LEMMA PingKeepsInv ==
  ASSUME CAgentInv, CAgentTypeOK', Ping
  PROVE  CAgentInv'
<1> USE DEF CAgentInv, CAgentTypeOK
<1>1. PICK seen \in [Occupied -> PortState] :
        /\ \A i \in Occupied : seen[i] \in StatesOf(slots, slots[i].id)
        /\ slots' = [i \in Slot |-> IF i \in Occupied THEN Updated(slots[i], seen[i]) ELSE slots[i]]
  BY DEF Ping
<1>2. /\ mode' = "waiting" /\ asked' = Report(slots')
      /\ UNCHANGED <<threads, reply, strayed, doubled, started>>
  BY DEF Ping, historyVars
<1>3. \A i \in Slot : slots'[i].id = slots[i].id
  BY <1>1 DEF Updated, SlotRecord
<1>4. Occupied' = Occupied /\ Named' = Named
  BY <1>3 DEF Occupied, Named
<1>5. PingNamesSlots' /\ AnswersAreNew' /\ OnlyStraysDouble'
  BY <1>2, <1>4 DEF PingNamesSlots, AnswersAreNew, OnlyStraysDouble, Report
<1>6. ASSUME ~doubled PROVE OneSlotEach' /\ ThreadsFit' /\ PingShowsStates'
  <2>1. OneSlotEach'
    BY <1>3, <1>6 DEF OneSlotEach
  <2>2. ASSUME NEW i \in Slot, Live(i)
        PROVE  /\ slots'[i].id = threads[i].task /\ slots'[i].id # NoTask
               /\ slots'[i].state = "RUNNING" /\ slots'[i].binary
    <3>1. i \in Occupied /\ slots[i].binary /\ slots[i].id = threads[i].task
      BY <1>6, <2>2 DEF ThreadsFit, Occupied
    <3>2. seen[i] = "RUNNING"
      BY <1>1, <1>6, <2>2, <3>1, LiveIsSeenRunning
    <3>3. slots'[i] = Updated(slots[i], "RUNNING")
      BY <1>1, <3>1, <3>2
    <3> QED BY <3>1, <3>3 DEF Updated, Occupied, SlotRecord
  <2>3. ThreadsFit'
    BY <1>2, <2>2 DEF ThreadsFit, Live
  <2>4. ASSUME NEW i \in Occupied PROVE asked'[slots'[i].id] = slots'[i].state
    <3> DEFINE S == {j \in Slot : slots[j].id = slots[i].id}
    <3>1. S = {i} /\ i \in Slot
      BY <1>6 DEF OneSlotEach, Occupied
    <3>2. Last(S) = i
      BY <3>1, LastIsIn
    <3>3. slots[i].id \in Named
      BY DEF Named
    <3> QED BY <1>2, <1>3, <3>1, <3>2, <3>3 DEF Report
  <2>5. PingShowsStates'
    BY <1>4, <2>4 DEF PingShowsStates
  <2> QED BY <2>1, <2>3, <2>5
<1> QED BY <1>2, <1>5, <1>6

LEMMA TakeInKeepsInv ==
  ASSUME CAgentInv, CAgentTypeOK', TakeIn
  PROVE  CAgentInv'
<1> USE DEF CAgentInv
<1> DEFINE i == First(Spare)
<1>1. i \in Spare /\ i \in Slot
  BY FirstIsIn, SpareIsSlots DEF TakeIn
<1> HIDE DEF i
<1>2. /\ mode = "handling" /\ mode' = "pinging" /\ reply.run # NoTask
      /\ doubled' = (doubled \/ reply.run \in Named) /\ strayed' = strayed
  BY DEF TakeIn
<1>3. PICK gotBinary \in BOOLEAN :
        \/ /\ slots' = [Table(i, gotBinary) EXCEPT ![i].state = "RUNNING"]
           /\ Table(i, gotBinary)[i].binary
           /\ threads' = [threads EXCEPT ![i] = NewThread(i)]
        \/ /\ slots' = [Table(i, gotBinary) EXCEPT ![i].state = "ERRORED"]
           /\ UNCHANGED threads
  BY DEF TakeIn, i
<1>4. slots'[i].id = reply.run /\ \A j \in Slot \ {i} : slots'[j] = slots[j] /\ threads'[j] = threads[j]
  BY <1>1, <1>3 DEF Table, Decoded, CAgentTypeOK
<1>5. PingNamesSlots' /\ AnswersAreNew' /\ (mode' = "waiting" => FALSE)
  BY <1>2 DEF PingNamesSlots, AnswersAreNew
<1>6. OnlyStraysDouble'
  BY <1>2 DEF OnlyStraysDouble, AnswersAreNew
<1>7. ASSUME ~doubled' PROVE OneSlotEach' /\ ThreadsFit'
  <2>1. ~doubled /\ reply.run \notin Named
    BY <1>2, <1>7 DEF CAgentTypeOK
  <2>2. \A j \in Slot : slots[j].id # reply.run
    BY <1>2, <2>1 DEF Named, Occupied
  <2>3. ~Live(i)
    BY <1>1, <2>1 DEF ThreadsFit, Spare, Free, Reusable
  <2>4. OneSlotEach'
    BY <1>4, <2>1, <2>2 DEF OneSlotEach
  <2>5. ASSUME NEW j \in Slot, Live(j)'
        PROVE  /\ slots'[j].id = threads'[j].task /\ slots'[j].id # NoTask
               /\ slots'[j].state = "RUNNING" /\ slots'[j].binary
    <3>1. CASE j # i
      BY <1>4, <2>1, <2>5, <3>1 DEF ThreadsFit, Live
    <3>2. CASE j = i
      <4>1. threads' # threads
        BY <2>3, <2>5, <3>2 DEF Live
      <4>2. /\ slots' = [Table(i, gotBinary) EXCEPT ![i].state = "RUNNING"]
            /\ Table(i, gotBinary)[i].binary
            /\ threads' = [threads EXCEPT ![i] = NewThread(i)]
        BY <1>3, <4>1
      <4>3. threads'[i].task = reply.run
        BY <1>1, <4>2 DEF NewThread, CAgentTypeOK
      <4>4. slots'[i].state = "RUNNING" /\ slots'[i].binary
        BY <1>1, <4>2 DEF Table, Decoded, CAgentTypeOK
      <4> QED BY <1>2, <1>4, <3>2, <4>3, <4>4
    <3> QED BY <3>1, <3>2
  <2>6. ThreadsFit'
    BY <2>5 DEF ThreadsFit
  <2> QED BY <2>4, <2>6
<1>8. PingShowsStates'
  BY <1>5 DEF PingShowsStates
<1> QED BY <1>5, <1>6, <1>7, <1>8

(* A step that makes no thread and leaves the slots alone.                  *)
LEMMA ThreadsEndKeepsInv ==
  ASSUME CAgentInv, CAgentTypeOK', UNCHANGED <<slots, asked, strayed, doubled>>,
         mode' # "waiting" \/ mode' = mode,
         mode' = "handling" => mode = "handling" /\ reply' = reply,
         \A i \in Slot : threads'[i].task = threads[i].task /\ (Live(i)' => Live(i))
  PROVE  CAgentInv'
<1> USE DEF CAgentInv
<1>1. Occupied' = Occupied /\ Named' = Named
  BY DEF Occupied, Named
<1>2. PingNamesSlots' /\ AnswersAreNew' /\ OnlyStraysDouble'
  BY <1>1 DEF PingNamesSlots, AnswersAreNew, OnlyStraysDouble
<1>3. ASSUME ~doubled PROVE OneSlotEach' /\ ThreadsFit' /\ PingShowsStates'
  BY <1>1, <1>3 DEF OneSlotEach, ThreadsFit, PingShowsStates
<1> QED BY <1>2, <1>3

(* What a kill aborts is a thread whose slot names the task to kill.        *)
LEMMA KillHits ==
  ASSUME CAgentTypeOK, Kill, threads' # threads
  PROVE  \E k \in Slot : /\ slots[k].id = reply.kill
                         /\ threads' = [threads EXCEPT ![k] = Cleaned(@)]
<1>1. PICK S : /\ S = Holders(slots, reply.kill) /\ S # {}
               /\ threads' = [threads EXCEPT ![Last(S)] = Cleaned(@)]
  BY DEF Kill
<1>2. Last(S) \in S
  BY <1>1, LastIsIn DEF Holders
<1> QED BY <1>1, <1>2 DEF Holders
-----------------------------------------------------------------------------
(* CAgentInv holds in every state.                                          *)
THEOREM CAgentInvariance == CAgentSpec => []CAgentInv
<1>1. CAgentInit => CAgentInv
  <2> SUFFICES ASSUME CAgentInit PROVE CAgentInv
    OBVIOUS
  <2>1. CAgentTypeOK
    BY InitIsTyped
  <2>2. /\ mode = "idle" /\ ~doubled
        /\ \A i \in Slot : slots[i].id = NoTask /\ threads[i].phase = "none"
    BY DEF CAgentInit, EmptySlot, NoThread
  <2> QED BY <2>1, <2>2 DEF CAgentInv, PingNamesSlots, AnswersAreNew, OnlyStraysDouble,
               OneSlotEach, ThreadsFit, PingShowsStates, Live
<1>2. CAgentInv /\ CAgentTypeOK' /\ [CAgentNext]_cVars => CAgentInv'
  <2> SUFFICES ASSUME CAgentInv, CAgentTypeOK', [CAgentNext]_cVars PROVE CAgentInv'
    OBVIOUS
  <2>1. CASE Receive
    <3>1. reply'.run \notin Named /\ mode' = "handling" /\ UNCHANGED <<slots, threads, strayed, doubled>>
      BY <2>1, PongsAreTyped DEF Receive, historyVars, CAgentInv, PingNamesSlots
    <3> QED BY <3>1 DEF CAgentInv, PingNamesSlots, AnswersAreNew, OnlyStraysDouble,
               OneSlotEach, ThreadsFit, PingShowsStates, Live, Named, Occupied
  <2>2. CASE ReceiveLate
    <3>1. mode' = "handling" /\ strayed' /\ UNCHANGED <<slots, threads, doubled>>
      BY <2>2 DEF ReceiveLate
    <3> QED BY <3>1 DEF CAgentInv, PingNamesSlots, AnswersAreNew, OnlyStraysDouble,
               OneSlotEach, ThreadsFit, PingShowsStates, Live
  <2>3. CASE Timeout
    <3>1. mode' = "idle" /\ UNCHANGED <<slots, threads, strayed, doubled>>
      BY <2>3 DEF Timeout, historyVars
    <3> QED BY <3>1 DEF CAgentInv, PingNamesSlots, AnswersAreNew, OnlyStraysDouble,
               OneSlotEach, ThreadsFit, PingShowsStates, Live
  <2>4. CASE TurnAway
    BY <2>4, ThreadsEndKeepsInv DEF TurnAway, Live, historyVars
  <2>5. CASE Kill
    <3>1. \A i \in Slot : threads'[i].task = threads[i].task /\ (Live(i)' => Live(i))
      <4>1. CASE threads' = threads
        BY <4>1 DEF Live
      <4>2. ASSUME NEW k \in Slot, threads' = [threads EXCEPT ![k] = Cleaned(@)]
            PROVE  \A i \in Slot : threads'[i].task = threads[i].task /\ (Live(i)' => Live(i))
        BY <4>2 DEF Live, Cleaned, CAgentInv, CAgentTypeOK, ThreadRecord
      <4> QED BY <2>5, <4>1, <4>2, KillHits DEF CAgentInv
    <3> QED BY <2>5, <3>1, ThreadsEndKeepsInv DEF Kill, historyVars
  <2>6. CASE NothingToDo
    BY <2>6, ThreadsEndKeepsInv DEF NothingToDo, Live, historyVars
  <2>7. ASSUME NEW k \in Slot, Load(k) \/ NoRuntime(k) \/ Return(k) \/ Die(k) PROVE CAgentInv'
    <3>1. \A i \in Slot : threads'[i].task = threads[i].task /\ (Live(i)' => Live(i))
      BY <2>7, ThreadSteps DEF Live, CAgentInv, CAgentTypeOK
    <3>2. UNCHANGED <<slots, mode, asked, reply, strayed, doubled>>
      BY <2>7 DEF Load, NoRuntime, Return, Die, historyVars
    <3> QED BY <3>1, <3>2, ThreadsEndKeepsInv
  <2>8. CASE Fault
    BY <2>8, ThreadsEndKeepsInv DEF Fault, Live, historyVars
  <2>9. CASE UNCHANGED cVars
    BY <2>9, ThreadsEndKeepsInv DEF cVars, Live, historyVars
  <2> QED BY <2>1, <2>2, <2>3, <2>4, <2>5, <2>6, <2>7, <2>8, <2>9,
             PingKeepsInv, TakeInKeepsInv DEF CAgentNext, CAgentInv
<1> QED BY <1>1, <1>2, CAgentTyping, PTL DEF CAgentSpec

(* With any number of slots, the slot of a module that runs names its task  *)
(* and keeps its binary until a task is taken in twice (agent_library.c     *)
(* 321-343, 530-577).                                                       *)
THEOREM SlotsKeepTheirTasks == CAgentSpec => []SlotKeepsItsTask
<1>1. CAgentInv => SlotKeepsItsTask
  BY DEF CAgentInv, ThreadsFit, SlotKeepsItsTask
<1> QED BY <1>1, CAgentInvariance, PTL

(* On the same condition every ping waited for reports every module that    *)
(* runs as RUNNING (agent_library.c 258-277, agent_port.c 191-221).         *)
THEOREM RunningAreReported == CAgentSpec => []RunningIsReported
<1>1. CAgentInv => RunningIsReported
  <2> SUFFICES ASSUME CAgentInv, ~doubled, mode = "waiting", NEW i \in Slot, Live(i)
               PROVE  threads[i].task \in DOMAIN asked /\ asked[threads[i].task] = "RUNNING"
    BY DEF RunningIsReported
  <2>1. i \in Occupied /\ slots[i].id = threads[i].task /\ slots[i].state = "RUNNING"
    BY DEF CAgentInv, ThreadsFit, Occupied
  <2>2. slots[i].id \in Named
    BY <2>1 DEF Named
  <2> QED BY <2>1, <2>2 DEF CAgentInv, PingNamesSlots, PingShowsStates
<1> QED BY <1>1, CAgentInvariance, PTL

(* A task is taken in twice only after a late pong has been taken for an    *)
(* answer (agent_port.c 48-86).                                             *)
THEOREM OnlyStraysMakeTwo == CAgentSpec => []OnlyStraysDouble
<1>1. CAgentInv => OnlyStraysDouble
  BY DEF CAgentInv
<1> QED BY <1>1, CAgentInvariance, PTL

(* The handler ends a thread of the task to kill and no other               *)
(* (agent_library.c 462-478, agent_port.c 223-234).                         *)
THEOREM KillsAbortTheirTasks == CAgentSpec => KillAbortsItsTask
<1> DEFINE Right ==
      \A i \in Slot :
        mode # mode' /\ Live(i) /\ threads'[i].phase = "dead" /\ ~doubled
          => reply.kill = threads[i].task
<1>1. CAgentInv /\ [CAgentNext]_cVars => Right
  <2> SUFFICES ASSUME CAgentInv, [CAgentNext]_cVars, ~doubled, NEW i \in Slot,
                      mode # mode', Live(i), threads'[i].phase = "dead"
               PROVE  reply.kill = threads[i].task
    OBVIOUS
  <2>1. CASE Kill
    <3>0. threads' # threads
      BY DEF Live
    <3>1. PICK k \in Slot : slots[k].id = reply.kill /\ threads' = [threads EXCEPT ![k] = Cleaned(@)]
      BY <2>1, <3>0, KillHits DEF CAgentInv
    <3>2. k = i
      BY <3>1 DEF CAgentInv, CAgentTypeOK, Live
    <3> QED BY <3>1, <3>2 DEF CAgentInv, ThreadsFit, Live
  <2>2. CASE TakeIn
    <3>1. First(Spare) \in Slot
      BY <2>2, FirstIsIn, SpareIsSlots DEF TakeIn
    <3>2. threads' = threads \/ threads' = [threads EXCEPT ![First(Spare)] = NewThread(First(Spare))]
      BY <2>2 DEF TakeIn
    <3> QED BY <3>1, <3>2 DEF NewThread, CAgentInv, CAgentTypeOK, Live
  <2>3. ASSUME NEW k \in Slot, Load(k) \/ NoRuntime(k) \/ Return(k) \/ Die(k) PROVE FALSE
    BY <2>3 DEF Load, NoRuntime, Return, Die
  <2>4. CASE UNCHANGED threads
    BY <2>4 DEF Live
  <2> QED BY <2>1, <2>2, <2>3, <2>4
          DEF CAgentNext, Ping, Receive, ReceiveLate, Timeout, TurnAway, NothingToDo, Fault, cVars
<1>2. CAgentInv /\ [CAgentNext]_cVars => [Right]_cVars
  BY <1>1
<1> QED BY <1>2, CAgentInvariance, PTL DEF CAgentSpec, KillAbortsItsTask
=============================================================================
