--------------------------------- MODULE CAgent ---------------------------------
(***************************************************************************)
(* The C agent of one device: agent/c_lib/agent_library.c over the Zephyr  *)
(* port, zephyr/app/src/agent_port.c, agent_wasm_runtime.c, coap_help.c.   *)
(*                                                                         *)
(* A timer submits agent_ping to the work queue, which runs one call at a  *)
(* time; the answer is handled inside the call and may ping again.  Each   *)
(* module runs in a thread of its own, made over the slot of its task.     *)
(* task_threads[i].task_id points INTO slot i, so the task of a thread, as *)
(* the port sees it, is whatever slot i now names.                         *)
(*                                                                         *)
(* Undefined behaviour is a choice of outcomes: a comparison with a NULL   *)
(* id is unequal or faults, a state read before the table is any state or  *)
(* faults, freeing twice or using what is freed does nothing or faults.    *)
(* A fault halts the device.                                               *)
(***************************************************************************)
EXTENDS EdgeTypes

CONSTANTS
  Me,        \* AGENT_ID: the agent this device is
  NumSlots,  \* NUM_TASKS: slots of the table, threads and stacks of the port
  MaxLate    \* bound on the answers on their way with nobody waiting

ASSUME CAgentAssumption ==
  Me \in Agent /\ NumSlots \in Nat \ {0} /\ MaxLate \in Nat

VARIABLES
  slots,     \* tasks[]: the id, state and binary of each slot
  threads,   \* task_threads[] and wasm_threads[]: one thread per slot
  mode,      \* the work queue: idle, pinging, waiting, handling or halted
  asked,     \* the tasks in the ping waited for, with their states
  reply,     \* the pong being handled
  late,      \* pongs still on their way when the wait for them was over
  strayed,   \* history: a late pong has been taken for the answer
  doubled,   \* history: a task has been taken in that a slot already named
  started    \* history: tasks for which a thread has been made

historyVars == <<strayed, doubled, started>>
cVars == <<slots, threads, mode, asked, reply, late, historyVars>>

Slot == 0 .. NumSlots - 1
MyTask == TasksOn(Me)
MyPong == PongTo(Me)
NoPong == [run |-> NoTask, kill |-> NoTask]
NoPing == [t \in {} |-> "RUNNING"]

\* agent_port_get_wasm_task_state has no other answers.
PortState == {"RUNNING", "ERRORED", "COMPLETED", "STARTING"}

EmptySlot == [id |-> NoTask, state |-> "COMPLETED", binary |-> FALSE]
NoThread  == [task |-> NoTask, phase |-> "none", errored |-> FALSE, module |-> "null"]

\* agent_init.
CAgentInit ==
  /\ slots = [i \in Slot |-> EmptySlot]
  /\ threads = [i \in Slot |-> NoThread]
  /\ mode = "idle"
  /\ asked = NoPing
  /\ reply = NoPong
  /\ late = {}
  /\ strayed = FALSE /\ doubled = FALSE /\ started = {}
-----------------------------------------------------------------------------
First(S) == CHOOSE i \in S : \A j \in S : i <= j
Last(S)  == CHOOSE i \in S : \A j \in S : j <= i

Made(i) == threads[i].phase # "none"
Live(i) == threads[i].phase \in {"created", "running", "returned"}

Occupied == {i \in Slot : slots[i].id # NoTask}
Named == {slots[i].id : i \in Occupied}

\* The entries of task_threads whose id compares equal to t, in a table of slots.
Holders(table, t) == {i \in Slot : Made(i) /\ table[i].id = t}

\* A scan for t from the front compares with a NULL id on its way.
ScanMeetsNull(table, t) == \E i \in Slot : ~Made(i) /\ \A j \in Holders(table, t) : i < j

ThreadState_ErrorFirst(i) ==
  IF threads[i].errored THEN "ERRORED" ELSE IF Live(i) THEN "RUNNING" ELSE "COMPLETED"
ThreadState(i) ==
  IF Live(i) THEN "RUNNING" ELSE IF threads[i].errored THEN "ERRORED" ELSE "COMPLETED"

\* agent_port_get_wasm_task_state: the first entry that matches decides; with
\* none the index is -1 and the state is read before the table.  A thread is
\* past its prestart when it is made with K_NO_WAIT.
StatesOf(table, t) ==
  IF Holders(table, t) = {} THEN PortState ELSE {ThreadState(First(Holders(table, t)))}

\* agent_port_get_free_cpu takes 0.166 of the cpu for each running thread, and
\* can_run_task wants 0.1: there is room until all six run.
CanRun(table) ==
  Cardinality({i \in Slot : Made(i) /\ "RUNNING" \in StatesOf(table, table[i].id)}) < NumSlots

\* agent_ping's update of a slot whose task is in state s.
Updated(slot, s) ==
  [slot EXCEPT !.state = s, !.binary = @ /\ s \notin {"COMPLETED", "ERRORED"}]

Report_RunningOnly(table) ==
  LET shown == {i \in Slot : slots[i].id # NoTask /\ table[i].state = "RUNNING"} IN
  [t \in {slots[i].id : i \in shown} |-> "RUNNING"]
Report_EmptyToo(table) ==
  [t \in {slots[i].id : i \in Slot} |-> table[Last({i \in Slot : slots[i].id = t})].state]
\* TaskInfo_callback: every slot with an id is in the ping.  With one id in two
\* slots the master's table ends with the last.
Report(table) ==
  [t \in Named |-> table[Last({i \in Slot : slots[i].id = t})].state]

\* agent_ping up to the wait for the answer.  Pongs that arrive while the
\* socket is drained are dropped.
Ping ==
  /\ mode \in {"idle", "pinging"} /\ mode' = "waiting"
  /\ \E seen \in [Occupied -> PortState] :
       /\ \A i \in Occupied : seen[i] \in StatesOf(slots, slots[i].id)
       /\ slots' = [i \in Slot |-> IF i \in Occupied THEN Updated(slots[i], seen[i]) ELSE slots[i]]
  /\ asked' = Report(slots')
  /\ late' \in SUBSET late
  /\ UNCHANGED <<threads, reply, historyVars>>

\* What GetPing may answer to a ping with these tasks: no task to run that was
\* in it, and a kill of one that was not only beside a task to run, when that
\* one has been issued and not reported yet (MasterProofs, PongsFitPings).
PongsFor(tasksInPing) ==
  {p \in MyPong : /\ p.run \notin tasksInPing
                  /\ p.run = NoTask => p.kill \in tasksInPing \cup {NoTask}}

\* process_coap_reply takes a datagram within the ten seconds: the answer ...
Receive ==
  /\ mode = "waiting" /\ mode' = "handling"
  /\ reply' \in PongsFor(DOMAIN asked) /\ asked' = NoPing
  /\ UNCHANGED <<slots, threads, late, historyVars>>

\* ... or the answer to an earlier ping, whose token nobody compares.  The
\* answer to this one may still come.
ReceiveLate ==
  /\ mode = "waiting" /\ mode' = "handling"
  /\ reply' \in late
  /\ \/ late' = late \ {reply'}
     \/ \E p \in PongsFor(DOMAIN asked) : late' = (late \ {reply'}) \cup {p}
  /\ strayed' = TRUE /\ asked' = NoPing
  /\ UNCHANGED <<slots, threads, doubled, started>>

\* Ten seconds pass (or the answer is an error): it is lost or comes later.
Timeout ==
  /\ mode = "waiting" /\ mode' = "idle"
  /\ \/ UNCHANGED late
     \/ /\ Cardinality(late) < MaxLate
        /\ \E p \in PongsFor(DOMAIN asked) : late' = late \cup {p}
  /\ asked' = NoPing
  /\ UNCHANGED <<slots, threads, reply, historyVars>>
-----------------------------------------------------------------------------
\* agent_response_cb looks for an empty slot, then for one whose task was not
\* RUNNING when the states were last updated.
Free == {i \in Slot : slots[i].id = NoTask}
Reusable_Any == Slot
Reusable == {i \in Slot : slots[i].state # "RUNNING"}
Spare == IF Free # {} THEN Free ELSE Reusable

\* A run request with no slot for it goes to the throw-away task, which no
\* ping reports.
TurnAway ==
  /\ mode = "handling" /\ reply.run # NoTask /\ Spare = {}
  /\ mode' = "pinging" /\ reply' = NoPong
  /\ UNCHANGED <<slots, threads, asked, late, historyVars>>

\* The pong is decoded straight into the slot.  Only a WASM task has a binary,
\* and there may be no memory for it; otherwise the slot keeps the old one.
Decoded(i, gotBinary) ==
  [id |-> reply.run, state |-> slots[i].state,
   binary |-> IF ContainerType[reply.run] = "WASM" THEN gotBinary ELSE slots[i].binary]

\* run_wasm_module: the stack and thread object of the slot, used or not.
NewThread(i) ==
  [task |-> reply.run, phase |-> "created", errored |-> FALSE, module |-> threads[i].module]

Table(i, gotBinary) == [slots EXCEPT ![i] = Decoded(i, gotBinary)]

\* The task is started, or refused for its type, the cpu left or its binary.
TakeIn ==
  /\ mode = "handling" /\ reply.run # NoTask /\ Spare # {}
  /\ mode' = "pinging" /\ reply' = NoPong
  /\ LET i == First(Spare) IN
     \E gotBinary \in BOOLEAN :
       LET table == Table(i, gotBinary) IN
       IF ContainerType[reply.run] = "WASM" /\ CanRun(table) /\ table[i].binary
         THEN /\ slots' = [table EXCEPT ![i].state = "RUNNING"]
              /\ threads' = [threads EXCEPT ![i] = NewThread(i)]
              /\ started' = started \cup {reply.run}
         ELSE /\ slots' = [table EXCEPT ![i].state = "ERRORED"]
              /\ UNCHANGED <<threads, started>>
  /\ doubled' = (doubled \/ reply.run \in Named)
  /\ UNCHANGED <<asked, late, strayed>>

\* cleanup_wasm_module frees what the pointers point to and leaves them.
Cleaned(thread) ==
  [thread EXCEPT !.phase = "dead", !.module = IF @ = "null" THEN "null" ELSE "freed"]

Kill_NoMatchIsZero ==
  /\ mode = "handling" /\ reply.run = NoTask /\ reply.kill # NoTask
  /\ mode' = "idle" /\ reply' = NoPong
  /\ LET matching == Holders(slots, reply.kill) \cup {0} IN
     threads' = [threads EXCEPT ![Last(matching)] = Cleaned(@)]
  /\ UNCHANGED <<slots, asked, late, historyVars>>
\* A kill request is looked at only when there is no run request, and no ping
\* follows it.  agent_port_kill_wasm_task takes the last entry that matches,
\* whatever became of its thread.
Kill ==
  /\ mode = "handling" /\ reply.run = NoTask /\ reply.kill # NoTask
  /\ mode' = "idle" /\ reply' = NoPong
  /\ LET matching == Holders(slots, reply.kill) IN
     threads' = IF matching = {} THEN threads
                ELSE [threads EXCEPT ![Last(matching)] = Cleaned(@)]
  /\ UNCHANGED <<slots, asked, late, historyVars>>

NothingToDo ==
  /\ mode = "handling" /\ reply = NoPong
  /\ mode' = "idle"
  /\ UNCHANGED <<slots, threads, asked, reply, late, historyVars>>
-----------------------------------------------------------------------------
\* iwasm_main.  Loading replaces the pointers the slot's last thread left
\* behind; when it fails the thread goes on with NULL.
Load(i) ==
  /\ mode # "halted" /\ threads[i].phase = "created"
  /\ \E loaded \in BOOLEAN :
       threads' = [threads EXCEPT ![i].phase = "running", ![i].errored = ~loaded,
                                  ![i].module = IF loaded THEN "loaded" ELSE "null"]
  /\ UNCHANGED <<slots, mode, asked, reply, late, historyVars>>

\* Or the runtime does not start: the thread ends at once and cleans nothing up.
NoRuntime(i) ==
  /\ mode # "halted" /\ threads[i].phase = "created"
  /\ threads' = [threads EXCEPT ![i].phase = "dead", ![i].errored = TRUE]
  /\ UNCHANGED <<slots, mode, asked, reply, late, historyVars>>

\* main of the module returns, well or with an exception.
Return(i) ==
  /\ mode # "halted" /\ threads[i].phase = "running"
  /\ \E exception \in BOOLEAN :
       threads' = [threads EXCEPT ![i].phase = "returned", ![i].errored = @ \/ exception]
  /\ UNCHANGED <<slots, mode, asked, reply, late, historyVars>>

\* Half a second later the thread cleans up and ends.
Die(i) ==
  /\ mode # "halted" /\ threads[i].phase = "returned"
  /\ threads' = [threads EXCEPT ![i] = Cleaned(@)]
  /\ UNCHANGED <<slots, mode, asked, reply, late, historyVars>>

PingFaults ==
  /\ mode \in {"idle", "pinging"}
  /\ \E t \in Named : ScanMeetsNull(slots, t)

\* The count of running threads scans for the task of each.  A thread may be
\* made over one that runs.
TakeInFaults ==
  /\ mode = "handling" /\ reply.run # NoTask /\ ContainerType[reply.run] = "WASM"
  /\ \/ LET table == IF Spare = {} THEN slots ELSE Table(First(Spare), FALSE) IN
        \E i \in Slot : Made(i) /\ ScanMeetsNull(table, table[i].id)
     \/ Spare # {} /\ Live(First(Spare))

\* The scan goes on to the last entry and there may be no match.  What is freed
\* may have been freed before: by the thread itself, by an earlier kill, or
\* for another slot that names the same task.
KillFaults ==
  /\ mode = "handling" /\ reply.run = NoTask /\ reply.kill \in Named
  /\ \/ \E i \in Slot : ~Made(i)
     \/ /\ Holders(slots, reply.kill) # {}
        /\ LET module == threads[Last(Holders(slots, reply.kill))].module IN
           \/ module = "freed"
           \/ module = "loaded" /\ Cardinality({i \in Slot : slots[i].id = reply.kill}) > 1

\* A thread runs without a module, or from a binary that has been freed.
ThreadFaults(i) ==
  \/ threads[i].phase = "running" /\ threads[i].module = "null"
  \/ Live(i) /\ ~slots[i].binary

Fault ==
  /\ mode # "halted"
  /\ PingFaults \/ TakeInFaults \/ KillFaults \/ (\E i \in Slot : ThreadFaults(i))
  /\ mode' = "halted"
  /\ UNCHANGED <<slots, threads, asked, reply, late, historyVars>>

CAgentNext ==
  \/ Ping \/ Receive \/ ReceiveLate \/ Timeout
  \/ TurnAway \/ TakeIn \/ Kill \/ NothingToDo
  \/ \E i \in Slot : Load(i) \/ NoRuntime(i) \/ Return(i) \/ Die(i)
  \/ Fault

CAgentSpec == CAgentInit /\ [][CAgentNext]_cVars
-----------------------------------------------------------------------------
SlotRecord == [id : MyTask \cup {NoTask}, state : PortState, binary : BOOLEAN]

ThreadRecord ==
  [task : MyTask \cup {NoTask}, phase : {"none", "created", "running", "returned", "dead"},
   errored : BOOLEAN, module : {"null", "loaded", "freed"}]

CAgentTypeOK ==
  /\ slots \in [Slot -> SlotRecord]
  /\ threads \in [Slot -> ThreadRecord]
  /\ mode \in {"idle", "pinging", "waiting", "handling", "halted"}
  /\ DOMAIN asked \subseteq MyTask /\ asked \in [DOMAIN asked -> PortState]
  /\ reply \in MyPong /\ late \subseteq MyPong
  /\ strayed \in BOOLEAN /\ doubled \in BOOLEAN /\ started \subseteq MyTask

(* While a module runs its slot names its task and keeps its binary, though *)
(* slots are reused by what the last ping said of them, threads end at any  *)
(* time, and pongs are decoded into a slot before anything is checked; as   *)
(* long as no task has been taken in twice (agent_library.c 321-343,        *)
(* 530-577).                                                                *)
SlotKeepsItsTask ==
  ~doubled => \A i \in Slot : Live(i) => slots[i].id = threads[i].task /\ slots[i].binary

(* Every module that runs is in the ping that waits for its answer, and as  *)
(* RUNNING: the master then neither sends it again nor takes it for killed. *)
(* On the same condition (agent_library.c 258-277, agent_port.c 191-221).   *)
RunningIsReported ==
  ~doubled /\ mode = "waiting" =>
    \A i \in Slot : Live(i) =>
      threads[i].task \in DOMAIN asked /\ asked[threads[i].task] = "RUNNING"

(* The condition holds as long as every pong handled is the answer to the   *)
(* ping just sent: only one that comes after its ten seconds and is taken   *)
(* for another's answer makes the agent take a task in that it has          *)
(* (agent_port.c 48-86, agent_library.c 399-427).                           *)
OnlyStraysDouble == doubled => strayed

(* The handler ends a thread of the task to kill and no other, although the *)
(* port finds threads by what their slots name at that time, and goes on    *)
(* after a task that has no thread (agent_library.c 462-478, agent_port.c   *)
(* 223-234).                                                                *)
KillAbortsItsTask ==
  [][\A i \in Slot :
       mode # mode' /\ Live(i) /\ threads'[i].phase = "dead" /\ ~doubled
         => reply.kill = threads[i].task]_cVars

(* agent_library.c 452-455, "Set the task state and error message in the    *)
(* task struct": a task that has been refused is ERRORED in the next ping.  *)
(* agent_ping then asks the port for its state, which answers for the last  *)
(* thread of the slot, or from before the table.                            *)
RefusedIsErrored ==
  mode = "waiting" => \A t \in DOMAIN asked \ started : asked[t] = "ERRORED"
=============================================================================
