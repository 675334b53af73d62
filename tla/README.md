# EdgeRM in TLA+

EdgeRM is a resource manager for the network edge. A *master* keeps tables of
agents, offers, tasks and kill requests. *Agents*, one per device, ping the
master; the answer (the *pong*) may carry one task to run and one task to kill.
*Frameworks* ask the master for resource offers and answer with tasks to run
on them, or with kill requests. Nothing is pushed: everything the master wants
of an agent waits for the agent's next ping.

This directory holds a model of that system, the configurations that
model-check it, and machine-checked proofs about it. Paths below are relative
to the repository (`src/`).

## 1. Inventory

| Component | State it keeps | Operations | What it must get right |
|---|---|---|---|
| Master (`master/python/master.py`, `db.py`) | dictionaries `agents`, `agentsDict` (last ping), `offers`, `agentOffers`, `tasks`, `killtasks`, `frameworks`, all in memory; one lock | `GetResourceOffer`, `RunTask`, `KillTask`, `GetPing`; unlocked GET routes; the same handlers as CoAP resources | offers do not promise what is not there; tasks are issued once, in order, re-sent when a pong is lost, never after they have been reported; kills reach their task; the life cycle shown to frameworks is true |
| Python agent (`agent/python/agent.py`, `db.py`, `dockerhelper.py`) | table `__tasks`, file `tasks.json`, handles `containers` with the status each last loaded; the docker daemon keeps the containers | one loop: state the tasks, save, ping, kill, run; load and prune at start | a re-sent task is not launched twice; the three places a task is recorded in agree enough not to end the process; it survives crashes |
| WASM runtime of the Python agent (`wasmhelper.py`, `frameworks/wasm-linux/docker`) | a container, whether the agent believes in it, the server's list of modules | replaced at each start of the agent, load, list; kill is not implemented | no module runs unreported; none is loaded over itself |
| C agent library (`agent/c_lib`) with the Zephyr port (`agent/zephyr`) | six task slots; six threads; one CoAP socket | timer ping, response handler (which pings again itself), start and kill a module | a slot in use is not overwritten; a reply belongs to its request |
| Framework library (`edgerm/framework.py`) | none; it changes the offers it is given | `getOffers`, `findAgents`, `runTask`, `killTask`, loops over these | asks only for what it was offered; a loop of kills misses no task |
| Scheduler programs (`frameworks/*/`) | offers, what they found in them; one keeps a list of tasks in a file | straight-line calls of the library, map-reduce in a loop; `simple-camera/scheduler.py` without the library | what runs twice or is stopped leaves a true file |
| Reduce server (`frameworks/map-reduce/reduce/coap.js`) | scripts, results per key | create, post, drain | no result lost or served twice |
| Kill tool, demos, particle and nRF ports, archive | little or none | | not modelled: see section 7 |

How they interact: agents and frameworks call the master over HTTP (C agents
over CoAP, one UDP socket); the agent calls the docker daemon; the library's
port calls back into the library. The behaviours that are hard:

* a ping and its pong are not atomic: the table changes while the ping is
  under way, the pong may be lost after it has changed the table, and a
  request given up on may be served after its successors;
* the master concludes from silence: a task not in a ping is taken for killed,
  an agent that does not ping is dropped;
* the agent records a task in four places at different moments (its table,
  `tasks.json`, its handles, the daemon) and may stop between any two;
* containers end by themselves at any moment;
* GET routes read the master's dictionaries without its lock, while a handler
  changes them, and two requests end their thread with the lock taken;
* a scheduler works with copies of offers and listings that age between its
  calls;
* an offer expires, an agent goes stale and tasks are pending at the same
  time, and each must count once.

`PROJECT.json` lists each hazard at its line with the properties that cover it.

## 2. Modules

| Module | What it models |
|---|---|
| `EdgeTypes` | identities and task states of `proto/messages.proto` |
| `Master` | the master: every handler with its tables, the clock, a restart; its properties |
| `MasterLock` | EXTENDS `Master`: the threads of the master, handlers step by step under the lock, readers without it; implements `Master` |
| `PyAgent` | the Python agent's loop, tables, file, handles, containers and WASM runtime against *any* master; its properties |
| `Cluster` | EXTENDS `Master` and `PyAgent`: one master, Python agents, frameworks, and the network between them; implements both, and `TaskLife` |
| `TaskLife` | abstract: the life of each task as a framework is shown it, with no tables, files, containers or messages |
| `Schedulers` | EXTENDS `Master`: the framework library and the six scheduler programs as clients of one master |
| `CAgent` | the C agent of one device against the pongs of any master: slots, threads, one exchange at a time; its properties |
| `MCMaster`, `MCMasterLock`, `MCPyAgent`, `MCCluster`, `MCSchedulers`, `MCCAgent` | small instances: tasks, placements, demands, symmetry |
| `MasterProofs`, `LockProofs`, `AgentProofs`, `ClusterProofs`, `SchedulerProofs`, `CAgentProofs` | theorems about the module each is named after |
| `NatFacts` | least and greatest elements of sets of numbers, for the first and the last; induction up to a number, for what is built step by step (`AllUpTo`) |

### Master

Every handler takes the global lock first and releases it last, so a handler is
one action with everything it calls: `GetPing` contains `refresh_agent`,
`refresh_tasks` (the tasks in the ping: `Reported`; those missing: `Missing`),
the look-up of the task to run with its change to ISSUED (`NextTask`, `Issue`)
and of the kill to send (`NextKill`). A handler that only answers an error
changes no table and is not an action. Dictionaries are functions over the keys
they hold; where the code walks one and stops at the first hit, its insertion
order is a sequence (`taskOrder`, `killtasks`).

* One record of `offers` is one `GetResourceOffer` call with the offers it made
  for all agents; a task redeems "the offer of call *k* for its agent". Amounts
  are whole numbers, so the code's threshold 0.001 is "more than 0". As in the
  code nothing is taken from a value that is 0, a negative value is dropped
  from the offer, and devices are never taken out.
* A task's agent, container type, demands and framework never change after the
  framework minted its id, so they are functions of the id. `RunTask` is taken
  once per id (ids are `uuid1`).
* COMPLETED is 0 in the enumeration, so a COMPLETED report takes the branch for
  unknown tasks in `refresh_tasks` and replaces the record; the state it leaves
  is the reported one, which is all the model keeps.
* `submitted`, `issued` and `restarts` are history variables.

`MasterNext` lets agents report anything about tasks they have been sent. It is
both a specification to check the master against hostile orders of reports and
the abstract specification of the master that `MasterLock`, `Cluster` and
`Schedulers` are shown to implement.

### MasterLock

One thread per request. `Slot` are the POST requests (HTTP or CoAP) that may be
under way, `Reader` the GET requests. A handler ends a step where another thread
could tell the difference: between `clear_stale_agents` and the offers; between
`add_task` putting the framework's record in the table and setting its state
(`InsertTask`, `AcceptTask`: a task without a state is "UNSET"); between the two
dictionaries of agents (`StoreAgent`, `StampAgent`); between the two loops of
`refresh_tasks` (`TakeReports`, `AnswerPing`). A request is chosen when it gets
the lock, because before that nobody knows of it. Two requests end their thread
with the lock taken: a ping without an agent id (`NamelessPing`: `return self`
where there is no `self`) and a request for offers when `--offer-timeout` was given
on the command line, which makes it a string (`TimeoutRaises`, variable `text`).
Readers walk a dictionary key by key and raise when its size has changed
(`ReadRaises`).

`settled` is the history variable of the refinement mapping: the tables as they
were when the lock was last free. `Coarse == INSTANCE Master WITH agents <-
settled.agents, ...` is the master with those, and `HandlersAreAtomic` says that
every handler is one action of it or none.

### PyAgent

`pc` is the place in `main`'s loop: down, loaded (tables read), looping (about
to ping), waiting (ping sent), launching (kill done, run to do). `Load` is
`db.load` and `dockerhelper.load`, `Establish` what `establishWasmRuntime` does,
prune included, `SendPing` is `constructPing` and the post, `HandleKill` and
`HandleRun` the two halves of the pong. Any exception other than
`ConnectionError` and `ReadTimeout` ends the process (`Raise`). `Crash` stops
it anywhere; `CrashInSave` stops it after `open` has emptied `tasks.json`.
`docker` is the daemon: external, with the statuses the code tells apart. A
handle keeps the status it last loaded ("created" right after a launch), as the
docker SDK's objects do; `killContainer` reads that one. Any pong may come:
`AgentSpec` is the agent's specification against any master.

The WASM runtime is one more container (`runtime`), whose server holds `modules`
(`frameworks/wasm-linux/docker/server.py`); `enabled` is whether
`WasmRuntimeContainer` is set. `Establish` stops and forgets a runtime that runs,
but not one already stopped, prunes both and starts a new one if `loadWasm` says
so; so an agent may believe in a runtime that is gone. The server listens some
time after (`RuntimeServes`) and may end (`RuntimeEnds`). A load may fail and is
not noticed (`LoadModule`); a task the server does not list is taken for
completed (`ModuleStatus`); asking a server that does not answer ends the
process, because it happens outside of the loop's `try` (`StatusRaises`). Killing
a WASM task does nothing.

### Cluster

A ping is one HTTP exchange. `ServePing` is the master's `GetPing` and the
delivery of the pong to the waiting agent in one step; the agent may give up
before it (`AgentGivesUp`: connection error, timeout) or stop. A request left
behind is lost or joins `late` and is served after newer ones
(`ServeLatePing`), its pong lost. A pong lost after it changed the table is the
same as a late request served at once. `Life == INSTANCE TaskLife WITH shown <-
Shown, ...` is what a framework sees of it: `Shown` is the listing of tasks, with
"UNKNOWN" for a task not in it, and `LivesGoOnward` says that an exchange moves
tasks of one agent only, each one way on, handing out one at most, and that a
kill request moves only its own. Frameworks are the actions
`RequestOffers`, `Submit` and `AskKill`: they ask for anything at any time.

### Schedulers

A program is a script of calls (`CameraScheduler`, `SensorScheduler`, `Profiler`,
`DDFlow`, `MapReduce`, `FileScheduler`), `step` the next one. A call that makes an
HTTP request is a step, and everybody else goes on in between. `FindAgents` is
`findAgents` with what it does to the offers it is given: scalars become what
the search wants, devices it does not name are removed, so a later search sees
(and changes) what an earlier one has found, and `runTask` asks for what is left.
`Match`, `ListAgain` and `PostKill` are `killTasksThatMatch`, which lists once for
the loop and once more in each `killTask`. `Domain` ends a program whose
server's agent the master no longer lists. `simple-camera/scheduler.py` checks
offers itself (`Select`, `Check`), asks for fixed amounts (`Ask`), and keeps the
names of its tasks in a file that it empties before it writes it (`DumpTasks`,
`LoadTasks`), after every request but those left out or refused (`PassOver`). A
program may end at any step: it just takes no further one.
Agents report whatever they like of the tasks handed to them (`AgentPings`, in
the states of `Spoken`), as `Master` allows: pings may be late, lack a task that
runs, or name again one that was shown as over.

### CAgent

The library and the Zephyr port together, because the state is in both: slot
`i` of `tasks[]` (an id, the state last written, a binary or none) and thread
`i` of the port, which is made *over* slot `i`, with the stack, heap and thread
object of that index. `task_threads[i].task_id` is a pointer into the slot, so
the port finds a thread by whatever its slot names now (`Holders`); the field
`task` of a thread in the model is the task it was really made for.

* A timer submits `agent_ping` to Zephyr's system work queue, which runs one
  call at a time, and the handler is called inside it. `mode` is the place in
  that call: idle, pinging (the handler is about to ping), waiting, handling.
  Threads run between these steps.
* `Ping` updates every slot that names a task from the port, frees the binaries
  of those that are over, builds the ping and empties the socket. `Receive` is the
  answer, `ReceiveLate` the answer to an earlier ping that arrives now,
  `Timeout` ten seconds without one. `PongsFor` is what the master may answer: it
  is any master of which `PongsFitPings` holds: no task in the ping is sent to be
  run, and one missing from it is sent to be killed only beside a task to run
  (it is ISSUED then, and the C agent leaves that kill alone). `AnswersFit` proves
  it of `Master`.
* `TakeIn` is the handler with a task to run: the first empty slot, else the first
  whose task was not RUNNING, decoding over it, then the refusals in the order
  of the code, or the start. `TurnAway` is the same with no slot.
* Undefined behaviour is a choice of outcomes. `strcmp` with the NULL id of a
  thread never made is unequal or faults; the state at index -1 is any state;
  cleaning up twice, running without a module or from a freed binary does
  nothing or faults. A fault halts the device.
* `strayed`, `doubled` and `started` are history variables: a late answer has been
  taken for another's, a task has been taken in that a slot already named, the
  tasks a thread has been made for.

A thread made with `K_NO_WAIT` is past its prestart at once, so the port never
answers STARTING for a thread it finds.

## 3. Runs

Every passing run explores its whole state space.

| Run | Instance | Shows |
|---|---|---|
| `master` | 1 agent, 2 alike tasks, cpu and a camera, reported cpu varying 1..2, two rounds of offers, clock 0..2, timeout and staleness 1, kills, any reports, a restart | `OffersAreBacked`: a scalar in a new offer, with all that is promised to pending tasks and in offers that still count, stays within what an agent still alive last reported; `NoOvertaking`, `KillingIsOnRecord`, `NeverHandedOutAgain`, `PongsFitPings`, `MasterTypeOK` |
| `lock` | 2 POST requests at a time, 1 reader, 1 agent, 1 task, every offer expired or stale at the next tick, 1 restart, the timeout a number or a string | `HandlersAreAtomic` (refinement of `Master`), `ListedWasSettled`, `LockGoesOn` under fairness, `LockTypeOK` |
| `agent` | 2 docker tasks, one WASM, one WASM with an environment, one whose launch raises; `loadWasm` on or off at each of 3 starts | `HandlesCoverDocker`, the reason a re-sent task is recognised; `ModulesAreStored`; `AgentTypeOK` |
| `cluster_crash` | 2 tasks, 1 agent started twice, 1 master restart, 1 timeout, 1 late request | `TypeOK`, `OnlyRequestedKills`, `OutcomesHappened`; every step is one of `MasterSpec` |
| `cluster_order` | 2 agents with a task each, one of them started twice, no late requests, 2 timeouts | `OverIsOver`, `MissingIsGone`, `RunsWhereAccepted`; every step is one of `AgentSpec`, and the whole implements `TaskLife` (`LivesGoOnward`) |
| `cluster_live` | a docker and a WASM task, runtime on or off, 1 tick, 1 timeout, 1 late request, crashes, fairness | `AcceptedIsLaunched`, `KillTakesEffect`, `NeverReloaded` |
| `schedulers` | 2 runs of each of the six programs, 2 agents, cpu and a camera, clock 0..2, timeout and staleness 1, pings of any part of an agent's tasks as running or completed | `FoundIsRedeemable`, `MatchedAreKilled`, `FileIsTrue`, `SchedulersTypeOK` |
| `c_agent` | 2 slots, 3 alike WASM tasks, a docker task, 1 late answer | `SlotKeepsItsTask`, `RunningIsReported`, `OnlyStraysDouble`, `KillAbortsItsTask`, `CAgentTypeOK` |
| `overcommit` | 2 tasks, 1 unit of cpu | violated: `ResourcesPartitioned` |
| `kill_unissued` | 2 tasks | violated: `KilledBeforeIssueStays` |
| `kill_race` | 1 task | violated: `StaysUp` |
| `c_refused` | 1 slot, a WASM and a docker task | violated: `RefusedIsErrored` |

The violated properties state what the repository says of itself and the code
does otherwise: each is a finding in `PROJECT.json` with both lines. They are

1. an offer stays redeemable after a task has redeemed it, so resources are
   shared out more than once (`master.py:160`);
2. `db.py:106` compares where it means to assign, so a task killed before it is
   issued is launched all the same (and killed later: `KillTakesEffect` holds);
3. killing a container that has just ended raises and ends the agent
   (`dockerhelper.py:88`);
4. a task the C agent refuses is marked ERRORED, and the ping that follows at
   once overwrites that with what the port says of a task it has no thread for
   (`agent_library.c:536`): COMPLETED, if the slot's last task ended well.

Other things the models show, about which the repository promises nothing; the
properties name them as exceptions:

* an agent stopped between a launch and its next save comes back without the
  task, and the master shows KILLED for a container that runs on (`db.py:84`);
  hence `boots <= 1` in `MissingIsGone`;
* only the first ISSUED task of an agent is ever re-sent (`db.py:136`), so one that
  its agent refuses without a word takes the place of all others whose pong was
  lost, for ever: `ResendsBlocked`;
* the kill of a WASM task is never carried out and stays first in the list, so
  no later kill on that agent is sent: `KillsBlocked`;
* two requests leave the lock taken for good: `Deadly`;
* a GET of the tasks may show one without a state: "UNSET" in `ListedWasSettled`;
* a task shown as over when `killTasksThatMatch` comes to it is not killed
  (`db.py:103-104`); when that was the mistake of a late ping (`db.py:81-85`), the
  next one shows it running again with no kill on record: `revived` in
  `MatchedAreKilled`.

None of these hazards is caught by the property that names it as an exception:
the property says that nothing *else* has that effect.

Where a property holds only under a condition, the condition is in its run or
in its text: `OverIsOver`, `MissingIsGone` and `LivesGoOnward` need pings served in
the order sent (`MaxLate = 0`); with a late ping a task may be taken for killed, shown as
KILLED and later as RUNNING again. That it is never handed out a second time
(`NeverHandedOutAgain`), and that no outcome is made up (`OutcomesHappened`),
holds with late pings too. `MatchedAreKilled` is checked and proved with late,
incomplete and false pings, under the exception above. On the C agent everything about slots holds until a
task has been taken in twice (`doubled`): after that two slots name it, the
first thread answers for both, and a module that runs may be shown as over and
its slot reused. `OnlyStraysDouble` says when that can be: not by any re-send of
the master, only by an answer taken for another's.

### Bounds

`MaxTime`, `MaxRounds`, `MaxRestarts`, `MaxBoots`, `MaxGiveUps` and `MaxLate`
stand in the guards of the actions they bound. Two tasks on one agent are what
order, re-sends and shared amounts need; one on another agent shows that
agents do not mix. Two rounds of offers with a timeout of one and a clock to
two give an offer that counts, one that has expired and one redeemable at its
last instant. Two starts are a crash and a recovery; the third in `agent` is a
crash of the recovery. One late request may be served after any number of
newer ones, because pings themselves are not bounded. `MaxBoots` is a number
per agent.

In `lock` two requests are one at work and one that waits, and requests follow
one another without bound (a slot is used again). One task is enough for a
listing to meet every half-done step; what two tasks add is the atomic master's
business, which `master` checks. A clock to one with timeout and staleness 0 has a
live and a stale agent, a valid and an expired offer.

In `schedulers` two runs of one program share a framework, which is what makes
them see each other's tasks; runs of different programs meet only in the offers
the master computes, which `master` checks. `MaxRestarts` is 0 because the space with
a restart is too large; the theorems of section 4 have no bound and cover it.
`Spoken` is RUNNING and COMPLETED, which with tasks left out makes RUNNING, KILLING,
KILLED and COMPLETED ones; with ERRORED besides the space is too large, and the
theorems have agents report any state. A matched task that is shown as KILLED, passed
over and brought back is among the states explored.

With two slots and four tasks every slot of the C agent is reused, and one task
is left to be turned away; nothing in the code depends on the slots being six.
Its pings are not bounded, only the answers under way (`MaxLate`).

`cluster_order` has no restart of the master, with which it is too large, so
`TaskLife`'s `Forget` is not taken there; `OverStays` and `LivesMoveOnward` (section 4)
have no bound on restarts and cover it.

Deadlock is not checked: with its bounds used up and every agent down, every
program ended or the lock lost the system rightly stops, and so does a device
that has halted.

### Fairness

`Progress` is weak fairness of each agent's own steps and of the master's answer
to a waiting ping. The agent is one loop with a sleep and no condition to wait
on, and the master one lock per handler, so both go on as long as the processes
run. Nothing is assumed of frameworks, clocks, containers, timeouts or crashes;
an agent that has used up its starts stays down, and the liveness properties
exempt tasks of agents that stay down. Timeouts are bounded by `MaxGiveUps`:
with every exchange timing out nothing could be promised.

`LockProgress`, in `MasterLock`, is weak fairness of each handler's steps (a thread
that holds the lock runs on) and of *some* waiting thread getting a free lock.
Python's lock does not say which one, so that a given waiter gets it is neither
assumed nor shown. The clock counts seconds, a handler takes milliseconds: time
stands still while one is at work. Readers owe nothing.

## 4. Proofs

`MasterProofs` proves, for every value of the constants that satisfies
`TaskInfoAssumption` and `MasterAssumption`:

* `MasterTyping`: `MasterSpec => []MasterTypeOK`. The part that takes work is
  the offer, in which no amount is negative although subtraction goes below
  zero (`FreeIsNat`), and the table after a ping (`TableAfterPing`).
* `MasterInvariance`: `MasterSpec => []MasterInv`, the inductive invariant. Neither
  `NoOvertaking` nor the others are inductive by themselves: a new task could
  already be issued, a task could stand twice in the order, or a task could be
  ISSUED without a pong. `OnlyAccepted` and `IssuedInAPong` exclude that (a task is
  UNISSUED exactly until a pong has carried it); `WaitingIsOrdered`, that all which
  waits has a place in the order, is what the look-ups and the sums below need.
* From it `HandedOutInOrder` (`NoOvertaking`), `KillsAreOnRecord`
  (`KillingIsOnRecord`), `HandedOutForGood` (`NeverHandedOutAgain`) and `AnswersFit`
  (`PongsFitPings`: were a kill to name a task that is ISSUED and not in the ping,
  `WaitingIsOrdered` has the look-up before it find a task to run).
* `OffersBacked`: `MasterSpec => OffersAreBacked`. The code subtracts amount after
  amount, in the dictionary's order, and stops where a value comes down to 0;
  the property speaks of the sum of all promises, in no order. `LeftIsDefined`
  says that the values left are what the recursion says, `NothingIsLost` that one
  still above 0 is the value less every unit of every amount, in whatever order;
  both are inductions over a set of numbers (`AllUpTo`). `TasksAreSubtracted`
  maps each place in the order onto the task in it, which covers all units that
  waiting tasks were promised, and `OffersAreSubtracted` does it for offers.

The argument about a look-up that stops at the first hit rests on
`LeastExists` (in `NatFacts`): a set of natural numbers has a least element. It
is derived from the well-foundedness of strict inclusion on finite sets, because the induction
rules of the library take an operator and cannot be used here; `AllUpTo` is the
same fact as an induction, over a *set* of numbers. `FirstInFinds`
and `NextTaskWaits` turn it into what `get_next_unissued_task_by_agent` returns.
The step for a ping is split into what refreshing may not do
(`RefreshMakesNoneWait`, `RefreshMakesNoneKilling`), what the issue changes
(`AfterPing`) and who was waiting (`PongTaskWaited`).

`AgentProofs` proves, for all agents, tasks and numbers of starts:

* `AgentInvariance`: `AgentSpec => []AgentInv`. `HandlesCoverDocker` speaks of the
  loop, which is entered by the prune: the invariant adds what holds between
  the load and the prune (`RunningCovered`: the containers that run have handles,
  and only ended ones may lack them, which the prune removes) and that a pong
  is carried out after it came (`PongInHand`), without which not even the types
  are kept.
* From it `AgentTyping` (`AgentTypeOK`) and `HandlesAreEnough` (`HandlesCoverDocker`).

A crash, an exception and a stop inside save leave the same empty process behind:
one lemma (`GoneKeepsInv`) serves them all, as `EndKeepsInv` serves a container that
ends by itself and one that is killed.

`CAgentProofs` proves, for every number of slots, every set of tasks and every
bound on late answers (`CAgentAssumption`):

* `CAgentTyping`: `CAgentSpec => []CAgentTypeOK`.
* `CAgentInvariance`: `CAgentSpec => []CAgentInv`. `SlotKeepsItsTask` is not inductive:
  a slot may be reused when its *recorded* state is not RUNNING, so the record has
  to be right for every thread that runs (`ThreadsFit`); the record comes from a
  look-up by id, which finds the right thread only if no two slots name one
  task (`OneSlotEach`); that holds only if a task taken in is in no slot
  (`AnswersAreNew`), which follows from what the ping named (`PingNamesSlots`).
  `OnlyStraysDouble` closes the circle and `PingShowsStates` ties the record to the
  message.
* From it `SlotsKeepTheirTasks` (`SlotKeepsItsTask`), `RunningAreReported`
  (`RunningIsReported`), `OnlyStraysMakeTwo` (`OnlyStraysDouble`) and, as an action
  property, `KillsAbortTheirTasks` (`KillAbortsItsTask`).

`FirstIsIn` and `LastIsIn` are the two look-ups, `LiveIsSeenRunning` what the port
says of a thread that runs; each action that disturbs more than one part has a
lemma (`PingKeepsInv`, `TakeInKeepsInv`, `ThreadsEndKeepsInv`, `KillHits`).

`ClusterProofs` proves, for all agents, tasks and bounds (`MaxLate` included):

* `ImplementsMaster` and `ImplementsAgents`: `Spec => MasterSpec` and
  `Spec => AgentSpec`, so every theorem about the parts holds of a deployment, which
  `DeploymentsKeepPromises` puts together. For the
  first, what is in a ping must be something the master allows in one: only
  tasks it has issued, also after it has lost its tables. For the second, what
  the master answers must be a pong to that agent.
* `ClusterInvariance`: `Spec => []ClusterInv`. On top of the invariants of both parts
  stands `Knowledge`: containers, modules, table, file, reports and late pings of
  an agent are of tasks issued to it; a COMPLETED or ERRORED that anybody holds
  of a docker task has its ending in `ended`; a kill in a pong was asked; and
  while a task is on its way in a pong, its module is not loaded.
* From it `ClusterTyping` (`TypeOK`), `RunsWereAccepted` (`RunsWhereAccepted`),
  `KillsWereRequested` (`OnlyRequestedKills`), `OutcomesAreTrue` (`OutcomesHappened`)
  and `NothingIsReloaded` (`NeverReloaded`).
* `MissingAreGone` (`MissingIsGone`), under `MaxLate = 0`: with `InOrder` (no request is late)
  and `Settled`, what a ping of an agent started once lacks does not run there
  and never will.
* `OverStays` (`OverIsOver`), under `MaxLate = 0`: `OverFits` says of every task the
  master shows as over that its agent would say the same of it, if anything, and
  has it neither in its file nor among what it would save, so that no start-up
  brings it back; and of every ping under way that it still tells what the agent's
  table holds. `Settled` is needed once more: a pong being carried out names a task
  that is not over, so that no launch revives one. Nothing is asked of restarts.
* `LivesMoveOnward` (`LivesGoOnward`), under `MaxLate = 0`: every step is a step of
  `TaskLife` or changes nothing it shows. `ExchangeMovesOn` is the ping, which is where all
  moves but hand-outs and kills come from: `OverFits` rules out the moves back, for
  an ERRORED task too, `NoneStarting` a state no agent ever reports, and
  `IssuedInAPong` and the reports being of issued tasks only say that nothing is
  heard of a task that was never handed out.

`LockProofs` proves `LockInvariance`, `LockTyping` (`LockTypeOK`) and
`ListingsAreSettled` (`ListedWasSettled`). The invariant relates the table to the
settled one at each place in a handler (`TasksSettled`): while no handler that
changes tasks is at work they are equal, in `TakeReports` to `AnswerPing` they differ
in what `Told` has done. A reading that was not settled is explained by what the
handler at work will leave (`ReadStands`): every reported state stays, because
the second loop of `refresh_tasks` skips what the first has touched.

`AtomicHandlers` (`HandlersAreAtomic`) is the refinement: `LockSpec => Coarse!MasterSpec`.
`AtomicInv` says how far the handler at work has got from the settled tables:
the agents still the settled ones, less the stale ones, or with the pinging agent
in one dictionary or both (`AgentsSoFar`); the tasks with the one inserted, or
with the reports taken (`TasksSoFar`); and that its request was one the master's
specification allows (`JobStands`). Each stage has a lemma: it goes on and shows
nothing (`...GoesOn`), or releases the lock and is the whole handler
(`...IsAtomic`), or is turned down or dies and is nothing (`RejectIsNothing`,
`DeathIsNothing`). `ThreadsKeepPromises` then carries the theorems about `Master` over
to the tables that threads leave, through an instance of `MasterProofs`.

`SchedulerProofs` proves `ProgramsUseTheMaster` (every step is one of `MasterSpec`; so
`ProgramsAreServed`, all the master promises), `SchedulersInvariance`, and from it
`SchedulersTyping`, `FoundCanBeRedeemed` (`FoundIsRedeemable`), `ReissuesMissNone`
(`MatchedAreKilled`) and `FilesStayTrue` (`FileIsTrue`), with restarts and any number of
programs, agents and searches. `SchedInv` says besides that what is left in a
program's offers is never more than the master offered (`HandsHold`: trimming
only lowers amounts, for a search passes only where its wants are met), that the
list of every run, not just the file, names accepted tasks (`BooksAreTrue`), and
that a matched task is still listed, and still to come, over, on record or brought
back from over by a ping (`KillsAdvance`). Only a ping brings a task back
(`CallsSettle`: a kill leaves alone what is over, and a new task has a new id), and
nothing is asked of what pings say.

Only model-checked: liveness, which is `AcceptedIsLaunched`, `KillTakesEffect` and
`LockGoesOn` (fairness and ENABLED are out of the prover's reach). Every other
property of a passing run is the statement of a theorem: invariants, action
properties and the four refinements. What the runs add to them is that they are
not hollow: the states they speak of are reached.

## 5. Plan

Done: the modules of section 2. What is left, in this order:

1. `CCluster`: `Master` composed with `CAgent`, with `CAgent`'s pongs coming from
   `GetPing` (`AnswersFit` is half of it); it shows that every step is one
   of `MasterSpec` and of `CAgentSpec`, and whether a kill can wait for ever while
   a task is re-sent in every pong (`agent_library.c:462`).
2. `ReduceServer`: scripts and results of `map-reduce/reduce/coap.js`.

Runs stay few: a new question replaces or joins a run of a smaller one.

## 6. Reading a counterexample

`cd tla; tlc -config kill_race.cfg MCCluster` prints the shortest one. `exchange`
tells what is on the wire, `issued` what any pong has carried, `ended` how
containers have really ended.

## 7. Not modelled, and why

* Message encoding: `messages_pb2.py` (four copies) and `messages.pb.c` are
  generated, and are about two thirds of all lines; `EdgeTypes` keeps what they distinguish.
* The content of resources other than scalar amounts and devices, attributes,
  ports, environments and volumes: passed through without a decision.
* The CoAP message layer of the master (a library's). Its four resources call
  the handlers of `Master`; that `KillTaskResource` raises after its handler has
  released the lock is in `MasterLock`.
* `edgerm/tools/kill-task.py` and `frameworks/test/evil-scheduler.py`: both import
  `scheduler_library`, which is not in the repository, so neither starts;
  `killAllTasks` is called by nothing else.
* `POST /task/data` and `receiveWasmMsg` (`wasm-linux`): nothing calls them.
* The reduce server and the node scripts of map-reduce: a demonstration on the
  far side of every task; web pages, plots and the compiler wrapper: input and
  output only.
* The Zephyr host functions of a module, the Particle port (its task functions
  are stubs), the legacy nRF agent (no task state).
* `master/python/archive`: replaced by `master.py`, imported by nothing.

`PROJECT.json` gives the reason for each component.
