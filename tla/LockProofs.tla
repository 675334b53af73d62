------------------------------ MODULE LockProofs ------------------------------
(***************************************************************************)
(* Theorems about the master's threads, for any number of requests under   *)
(* way, of readers and of restarts: what readers see, and that the         *)
(* handlers under the lock implement Master.                               *)
(***************************************************************************)
EXTENDS MasterLock, MasterProofs

\* Who is past lock.acquire() has the lock.
HolderWorks == \A r \in Slot : at[r] \notin {"idle", "waiting"} <=> holder = r

\* The handler at work has come this far.
Half(stage) == holder # Nobody /\ at[holder] = stage

\* The request of the handler at work.
JobFits ==
  /\ Half("run") \/ Half("inserted") \/ Half("kill") => job.task \in Task
  /\ Half("ping") /\ job.agent # NoAgent =>
       job.agent \in Agent /\ job.reports \in ReportsOver(Task)
  /\ Half("stored") \/ Half("stamped") \/ Half("reported") =>
       job.agent \in Agent /\ job.reports \in ReportsOver(Task)

\* Other threads can tell a handler half done from the table of tasks at two
\* stages only; what does not belong to its request stands as it was.
TasksSettled ==
  /\ \A t \in DOMAIN settled.tasks : settled.tasks[t] \in TaskState
  /\ ~Half("inserted") /\ ~Half("reported") => settled.tasks = tasks
  /\ Half("inserted") =>
       /\ job.task \in DOMAIN tasks
       /\ \A t \in DOMAIN tasks : t = job.task \/ <<t, tasks[t]>> \in States(settled.tasks)
       /\ tasks[job.task] = "UNSET"
  /\ Half("reported") =>
       /\ DOMAIN job.reports \subseteq DOMAIN tasks
       /\ \A t \in DOMAIN job.reports : tasks[t] \notin {"UNISSUED", "ISSUED"}
       /\ \A t \in DOMAIN tasks \ DOMAIN job.reports : <<t, tasks[t]>> \in States(settled.tasks)

\* What a reader has read of a task in the middle of a ping stands until the
\* lock is free again.
ReadStands ==
  /\ DOMAIN listed = Reader /\ listed = [g \in Reader |-> listed[g]]
  /\ \A g \in Reader :
       /\ DOMAIN listed[g] = {"table", "keys", "left", "unsettled"}
       /\ listed[g].table = "tasks" => listed[g].left \subseteq DOMAIN tasks
       /\ \A pair \in listed[g].unsettled :
            \/ pair[2] = "UNSET"
            \/ Half("reported") /\ pair[1] \in DOMAIN job.reports /\ pair = <<pair[1], tasks[pair[1]]>>

Rest == taskOrder \in Seq(Task) /\ submitted \subseteq Task /\ issued \subseteq Task

LockInv == LockTypeOK /\ HolderWorks /\ JobFits /\ TasksSettled /\ ReadStands /\ Rest
-----------------------------------------------------------------------------
(* A release settles the tables: what was read of them in between is told   *)
(* from what they say now (the lock.release() of each handler).             *)
LEMMA ReleaseKeepsInv ==
  ASSUME LockInv, NEW r \in Slot, holder = r, Releases(r),
         DOMAIN agents' \subseteq Agent, DOMAIN tasks' \subseteq Task, DOMAIN tasks \subseteq DOMAIN tasks',
         \A t \in DOMAIN tasks' : tasks'[t] \in TaskState,
         Half("reported") => \A t \in DOMAIN job.reports : tasks'[t] = tasks[t],
         Rest'
  PROVE  LockInv'
<1>1. /\ at' = [at EXCEPT ![r] = "idle"] /\ holder' = Nobody /\ text' = text
      /\ settled'.tasks = tasks' /\ at \in [Slot -> Stage]
  BY DEF Releases, Tables, LockInv, LockTypeOK
<1>r. /\ DOMAIN listed' = Reader /\ listed' = [g \in Reader |-> listed'[g]]
      /\ \A g \in Reader : /\ DOMAIN listed'[g] = DOMAIN listed[g]
                           /\ listed'[g].table = listed[g].table /\ listed'[g].left = listed[g].left
                           /\ listed'[g].unsettled = listed[g].unsettled \ States(tasks')
  <2>1. listed' = [g \in Reader |-> [listed[g] EXCEPT !.unsettled = @ \ States(tasks')]]
    BY DEF Releases
  <2>2. \A g \in Reader : DOMAIN listed[g] = {"table", "keys", "left", "unsettled"}
    BY DEF LockInv, ReadStands
  <2> QED BY <2>1, <2>2
<1>2. ~Half("inserted")' /\ ~Half("reported")' /\ ~Half("run")' /\ ~Half("kill")' /\ ~Half("ping")'
      /\ ~Half("stored")' /\ ~Half("stamped")'
  BY <1>1 DEF Half
<1>3. LockTypeOK'
  BY <1>1, <1>r DEF LockInv, LockTypeOK, Stage
<1>4. HolderWorks'
  BY <1>1, LockAssumption DEF LockInv, HolderWorks
<1>5. JobFits' /\ TasksSettled'
  BY <1>1, <1>2 DEF JobFits, TasksSettled
<1>6. ReadStands'
  <2>1. ASSUME NEW g \in Reader, NEW pair \in listed'[g].unsettled PROVE pair[2] = "UNSET"
    <3>1. pair \in listed[g].unsettled /\ pair \notin States(tasks')
      BY <1>r
    <3>2. CASE Half("reported") /\ pair[1] \in DOMAIN job.reports /\ pair = <<pair[1], tasks[pair[1]]>>
      <4>1. pair[1] \in DOMAIN tasks' /\ pair = <<pair[1], tasks'[pair[1]]>>
        BY <3>2 DEF LockInv, TasksSettled
      <4> QED BY <3>1, <4>1 DEF States
    <3> QED BY <3>1, <3>2 DEF LockInv, ReadStands
  <2>2. \A g \in Reader : listed'[g].table = "tasks" => listed'[g].left \subseteq DOMAIN tasks'
    BY <1>r DEF LockInv, ReadStands
  <2> QED BY <1>r, <2>1, <2>2 DEF LockInv, ReadStands
<1> QED BY <1>3, <1>4, <1>5, <1>6 DEF LockInv

(* A handler that goes on to a stage at which nobody can tell it from one   *)
(* that has not begun.                                                      *)
LEMMA QuietKeepsInv ==
  ASSUME LockInv, NEW r \in Slot, NEW from \in {"offers", "cleared", "ping", "stored"},
         NEW to \in {"cleared", "stored", "stamped", "dead"}, Goes(r, from, to),
         DOMAIN agents' \subseteq Agent, UNCHANGED <<tasks, taskOrder, submitted, issued>>,
         to \in {"stored", "stamped"} => job.agent \in Agent /\ job.reports \in ReportsOver(Task)
  PROVE  LockInv'
<1>1. /\ holder = r /\ at' = [at EXCEPT ![r] = to] /\ UNCHANGED <<text, holder, settled, job, listed>>
      /\ at[r] = from /\ at \in [Slot -> Stage] /\ r # Nobody
  BY LockAssumption DEF Goes, LockInv, LockTypeOK, HolderWorks
<1>2. \A stage : (Half(stage) <=> stage = from) /\ (Half(stage)' <=> stage = to)
  BY <1>1 DEF Half
<1>3. LockTypeOK'
  BY <1>1 DEF LockInv, LockTypeOK, Stage
<1>4. HolderWorks'
  BY <1>1 DEF LockInv, HolderWorks
<1>5. JobFits' /\ TasksSettled' /\ ReadStands' /\ Rest'
  BY <1>1, <1>2 DEF LockInv, JobFits, TasksSettled, ReadStands, Rest
<1> QED BY <1>3, <1>4, <1>5 DEF LockInv
-----------------------------------------------------------------------------
(* RunTask: between the two statements of add_task (db.py 87-92).           *)
LEMMA InsertKeepsInv ==
  ASSUME LockInv, NEW r \in Slot, InsertTask(r)
  PROVE  LockInv'
<1>1. /\ holder = r /\ at' = [at EXCEPT ![r] = "inserted"] /\ at[r] = "run" /\ r # Nobody
      /\ UNCHANGED <<text, holder, settled, job, listed, agents, taskOrder, submitted, issued>>
      /\ at \in [Slot -> Stage]
  BY LockAssumption DEF InsertTask, Goes, LockInv, LockTypeOK, HolderWorks
<1>2. \A stage : (Half(stage) <=> stage = "run") /\ (Half(stage)' <=> stage = "inserted")
  BY <1>1 DEF Half
<1>3. /\ job.task \in Task /\ DOMAIN tasks' = DOMAIN tasks \cup {job.task} /\ tasks'[job.task] = "UNSET"
      /\ \A t \in DOMAIN tasks \ {job.task} : tasks'[t] = tasks[t]
  BY <1>2 DEF LockInv, JobFits, InsertTask
<1>4. settled.tasks = tasks /\ \A t \in DOMAIN tasks : tasks[t] \in TaskState
  BY <1>1, <1>2 DEF LockInv, LockTypeOK, TasksSettled
<1>5. LockTypeOK'
  BY <1>1, <1>3, <1>4 DEF LockInv, LockTypeOK, Stage
<1>6. HolderWorks' /\ JobFits' /\ Rest'
  BY <1>1, <1>2, <1>3 DEF LockInv, HolderWorks, JobFits, Rest
<1>7. TasksSettled'
  BY <1>1, <1>2, <1>3, <1>4 DEF TasksSettled, States
<1>8. ReadStands'
  BY <1>1, <1>2, <1>3 DEF LockInv, ReadStands
<1> QED BY <1>5, <1>6, <1>7, <1>8 DEF LockInv

LEMMA AcceptKeepsInv ==
  ASSUME LockInv, NEW r \in Slot, AcceptTask(r)
  PROVE  LockInv'
<1>1. /\ holder = r /\ Half("inserted") /\ ~Half("reported") /\ Releases(r) /\ agents' = agents
  BY LockAssumption DEF AcceptTask, Half, LockInv, HolderWorks
<1>2. job.task \in Task
  BY <1>1 DEF LockInv, JobFits
<1>3. /\ DOMAIN tasks' = DOMAIN tasks /\ \A t \in DOMAIN tasks' : tasks'[t] \in TaskState
  <2>1. tasks' = [tasks EXCEPT ![job.task] = "UNISSUED"]
    BY DEF AcceptTask, Stated
  <2>2. \A t \in DOMAIN tasks : t = job.task \/ tasks[t] \in TaskState
    BY <1>1 DEF LockInv, TasksSettled, States
  <2> QED BY <2>1, <2>2 DEF TaskState
<1>4. Rest'
  BY <1>2 DEF AcceptTask, LockInv, Rest
<1> QED BY <1>1, <1>3, <1>4, ReleaseKeepsInv DEF LockInv, LockTypeOK
-----------------------------------------------------------------------------
(* GetPing: between the two loops of refresh_tasks (db.py 62-85).           *)
LEMMA TakeReportsKeepsInv ==
  ASSUME LockInv, NEW r \in Slot, TakeReports(r)
  PROVE  LockInv'
<1>1. /\ holder = r /\ at' = [at EXCEPT ![r] = "reported"] /\ at[r] = "stamped" /\ r # Nobody
      /\ UNCHANGED <<text, holder, settled, job, listed, agents, taskOrder, submitted, issued>>
      /\ at \in [Slot -> Stage]
  BY LockAssumption DEF TakeReports, Goes, LockInv, LockTypeOK, HolderWorks
<1>2. \A stage : (Half(stage) <=> stage = "stamped") /\ (Half(stage)' <=> stage = "reported")
  BY <1>1 DEF Half
<1>3. /\ job.agent \in Agent /\ DOMAIN job.reports \subseteq Task
      /\ job.reports \in [DOMAIN job.reports -> ReportedState]
      /\ settled.tasks = tasks /\ \A t \in DOMAIN tasks : tasks[t] \in TaskState
  BY <1>1, <1>2 DEF LockInv, LockTypeOK, JobFits, TasksSettled, ReportsOver
<1>4. /\ DOMAIN tasks' = DOMAIN tasks \cup DOMAIN job.reports
      /\ \A t \in DOMAIN job.reports : tasks'[t] \in ReportedState \cup {"KILLING"}
      /\ \A t \in DOMAIN tasks \ DOMAIN job.reports : tasks'[t] = tasks[t]
  BY <1>3 DEF TakeReports, Told, Reported
<1>5. LockTypeOK'
  BY <1>1, <1>3, <1>4 DEF LockInv, LockTypeOK, Stage, TaskState, ReportedState
<1>6. HolderWorks' /\ JobFits' /\ Rest'
  BY <1>1, <1>2 DEF LockInv, HolderWorks, JobFits, Rest
<1>7. TasksSettled'
  BY <1>1, <1>2, <1>3, <1>4 DEF TasksSettled, States, ReportedState
<1>8. ReadStands'
  BY <1>1, <1>2, <1>4 DEF LockInv, ReadStands
<1> QED BY <1>5, <1>6, <1>7, <1>8 DEF LockInv

LEMMA AnswerPingKeepsInv ==
  ASSUME LockInv, NEW r \in Slot, AnswerPing(r)
  PROVE  LockInv'
<1> DEFINE table == Swept(job.agent, job.reports)
           run == NextTask(job.agent, table)
<1>1. /\ holder = r /\ Half("reported") /\ Releases(r) /\ tasks' = Issue(table, run)
      /\ issued' = issued \cup ({run} \ {NoTask}) /\ UNCHANGED <<agents, taskOrder, submitted>>
  BY LockAssumption DEF AnswerPing, Half, LockInv, HolderWorks
<1>2. /\ job.agent \in Agent /\ DOMAIN job.reports \subseteq DOMAIN tasks
      /\ \A t \in DOMAIN job.reports : tasks[t] \notin {"UNISSUED", "ISSUED"}
      /\ \A t \in DOMAIN tasks : tasks[t] \in TaskState
  BY <1>1 DEF LockInv, LockTypeOK, JobFits, TasksSettled, Half
<1>3. /\ DOMAIN table = DOMAIN tasks /\ \A t \in DOMAIN table : table[t] \in TaskState
      /\ \A t \in DOMAIN job.reports : table[t] = tasks[t]
  BY <1>2 DEF Swept, Missing, TaskState
<1>4. run # NoTask => run \in Task /\ table[run] \in {"UNISSUED", "ISSUED"}
  BY <1>2, NextTaskWaits DEF LockInv, Rest
<1>5. NoTask \notin Task
  BY TaskInfoAssumption
<1> HIDE DEF run, table
<1>6. /\ DOMAIN tasks' = DOMAIN tasks /\ \A t \in DOMAIN tasks' : tasks'[t] \in TaskState
  BY <1>1, <1>3 DEF Issue, TaskState
<1>7. \A t \in DOMAIN job.reports : tasks'[t] = tasks[t]
  BY <1>1, <1>2, <1>3, <1>4, <1>5 DEF Issue, LockInv, LockTypeOK
<1>8. Rest'
  BY <1>1, <1>4 DEF LockInv, Rest
<1> QED BY <1>1, <1>6, <1>7, <1>8, ReleaseKeepsInv DEF LockInv, LockTypeOK
-----------------------------------------------------------------------------
(* The other steps of the handlers.                                         *)
LEMMA HandlerKeepsInv ==
  ASSUME LockInv, NEW r \in Slot, Handler(r)
  PROVE  LockInv'
<1>1. CASE ClearStale(r)
  <2>1. DOMAIN agents' \subseteq Agent /\ UNCHANGED <<tasks, taskOrder, submitted, issued>>
    BY <1>1 DEF ClearStale, Fresh, LockInv, LockTypeOK
  <2> QED BY <1>1, <2>1, QuietKeepsInv DEF ClearStale
<1>2. ASSUME MakeOffers(r) \/ Reject(r) \/ RecordKill(r) PROVE LockInv'
  <2>1. CASE TimeoutRaises /\ Dies(r, "cleared") /\ UNCHANGED masterVars
    BY <2>1, QuietKeepsInv DEF Dies, masterVars, tables, LockInv, LockTypeOK
  <2>2. ASSUME at[r] \in {"cleared", "run", "kill"}, Releases(r), UNCHANGED <<agents, taskOrder>>,
               DOMAIN tasks' = DOMAIN tasks, \A t \in DOMAIN tasks : tasks'[t] \in {tasks[t], "KILLING"},
               UNCHANGED <<submitted, issued>>
        PROVE  LockInv'
    <3>1. holder = r /\ ~Half("inserted") /\ ~Half("reported")
      BY <2>2 DEF LockInv, HolderWorks, Half
    <3>2. \A t \in DOMAIN tasks' : tasks'[t] \in TaskState
      BY <2>2, <3>1 DEF LockInv, TasksSettled, TaskState
    <3> QED BY <2>2, <3>1, <3>2, ReleaseKeepsInv DEF LockInv, LockTypeOK, Rest
  <2>3. ASSUME RecordKill(r), KillTask(job.task)
        PROVE  /\ UNCHANGED <<agents, taskOrder, submitted, issued>> /\ DOMAIN tasks' = DOMAIN tasks
               /\ \A t \in DOMAIN tasks : tasks'[t] \in {tasks[t], "KILLING"}
    BY <2>3 DEF KillTask
  <2> QED BY <1>2, <2>1, <2>2, <2>3 DEF MakeOffers, Reject, RecordKill, masterVars, tables
<1>3. CASE NamelessPing(r)
  BY <1>3, QuietKeepsInv DEF NamelessPing, Dies, masterVars, tables, LockInv, LockTypeOK
<1>4. CASE StoreAgent(r)
  <2>1. job.agent \in Agent /\ job.reports \in ReportsOver(Task)
    BY <1>4, LockAssumption DEF StoreAgent, Goes, LockInv, HolderWorks, JobFits, Half
  <2> QED BY <1>4, <2>1, QuietKeepsInv DEF StoreAgent, LockInv, LockTypeOK
<1>5. CASE StampAgent(r)
  <2>1. job.agent \in Agent /\ job.reports \in ReportsOver(Task)
    BY <1>5, LockAssumption DEF StampAgent, Goes, LockInv, HolderWorks, JobFits, Half
  <2> QED BY <1>5, <2>1, QuietKeepsInv DEF StampAgent, LockInv, LockTypeOK
<1> QED BY <1>1, <1>2, <1>3, <1>4, <1>5, InsertKeepsInv, AcceptKeepsInv, TakeReportsKeepsInv,
           AnswerPingKeepsInv DEF Handler
-----------------------------------------------------------------------------
(* A request that gets the lock.                                            *)
LEMMA AcquireKeepsInv ==
  ASSUME LockInv, NEW r \in Slot, Acquire(r)
  PROVE  LockInv'
<1>1. PICK j \in OfferJobs \cup RunJobs \cup KillJobs \cup PingJobs :
        job' = j /\ at' = [at EXCEPT ![r] = j.kind]
  BY DEF Acquire
<1>2. /\ holder = Nobody /\ holder' = r /\ r # Nobody /\ at[r] = "waiting" /\ at \in [Slot -> Stage]
      /\ UNCHANGED <<masterVars, text, settled, listed>>
  BY LockAssumption DEF Acquire, LockInv, LockTypeOK
<1>3. /\ j.kind \in {"offers", "run", "kill", "ping"}
      /\ j.kind \in {"run", "kill"} => j.task \in Task
      /\ j.kind = "ping" /\ j.agent # NoAgent => j.agent \in Agent /\ j.reports \in ReportsOver(Task)
  <2>1. CASE j \in OfferJobs \cup RunJobs \cup KillJobs
    BY <2>1 DEF OfferJobs, RunJobs, KillJobs, LockInv, Rest
  <2>2. CASE j \in PingJobs
    <3>1. CASE j \in [kind : {"ping"}, agent : {NoAgent}]
      BY <3>1
    <3>2. ASSUME NEW a \in Agent, j \in [kind : {"ping"}, agent : {a}, resources : Reportable,
                                         reports : ReportsOver(issued \cap TasksOn(a))]
          PROVE  j.kind = "ping" /\ j.agent \in Agent /\ j.reports \in ReportsOver(Task)
      BY <3>2 DEF ReportsOver, TasksOn
    <3> QED BY <2>2, <3>1, <3>2 DEF PingJobs
  <2> QED BY <2>1, <2>2
<1>4. \A stage : ~Half(stage) /\ (Half(stage)' <=> stage = j.kind)
  BY <1>1, <1>2 DEF Half
<1>5. LockTypeOK'
  BY <1>1, <1>2, <1>3 DEF LockInv, LockTypeOK, Stage, masterVars, tables
<1>6. HolderWorks'
  <2>1. \A x \in Slot : at[x] \in {"idle", "waiting"}
    BY <1>2, LockAssumption DEF LockInv, HolderWorks
  <2> QED BY <1>1, <1>2, <1>3, <2>1 DEF HolderWorks
<1>7. JobFits' /\ TasksSettled' /\ ReadStands' /\ Rest'
  BY <1>1, <1>2, <1>3, <1>4 DEF LockInv, JobFits, TasksSettled, ReadStands, Rest, masterVars, tables
<1> QED BY <1>5, <1>6, <1>7 DEF LockInv

(* A read without the lock (db.py 151-156).                                 *)
LEMMA ReadKeepsInv ==
  ASSUME LockInv, NEW g \in Reader, Read(g)
  PROVE  LockInv'
<1>1. UNCHANGED <<masterVars, text, holder, settled, at, job>>
  BY DEF Read, ReadBegins, ReadTask, ReadEnds, ReadRaises, Ended
<1>2. \A stage : Half(stage)' <=> Half(stage)
  BY <1>1 DEF Half
<1>3. ASSUME NEW record, listed' = [listed EXCEPT ![g] = record],
             DOMAIN record = {"table", "keys", "left", "unsettled"},
             record.table = "tasks" => record.left \subseteq DOMAIN tasks,
             \A pair \in record.unsettled :
               /\ pair \in Task \X (TaskState \cup {"UNSET"})
               /\ \/ pair[2] = "UNSET"
                  \/ /\ Half("reported") /\ pair[1] \in DOMAIN job.reports
                     /\ pair = <<pair[1], tasks[pair[1]]>>
      PROVE  LockInv'
  <2>1. ReadStands'
    BY <1>1, <1>2, <1>3 DEF LockInv, ReadStands, masterVars, tables
  <2>2. LockTypeOK'
    BY <1>1, <1>3 DEF LockInv, LockTypeOK, ReadStands, masterVars, tables
  <2>3. HolderWorks' /\ JobFits' /\ TasksSettled' /\ Rest'
    BY <1>1, <1>2 DEF LockInv, HolderWorks, JobFits, TasksSettled, Rest, masterVars, tables
  <2> QED BY <2>1, <2>2, <2>3 DEF LockInv
<1>4. CASE ReadBegins(g)
  <2>1. PICK table \in {"agents", "tasks", "frameworks"} :
          listed' = [listed EXCEPT ![g] =
            [table |-> table, keys |-> Keys(table), left |-> Keys(table), unsettled |-> {}]]
    BY <1>4 DEF ReadBegins
  <2> DEFINE record == [table |-> table, keys |-> Keys(table), left |-> Keys(table), unsettled |-> {}]
  <2>2. /\ DOMAIN record = {"table", "keys", "left", "unsettled"} /\ record.unsettled = {}
        /\ record.table = "tasks" => record.left \subseteq DOMAIN tasks
    BY DEF Keys
  <2>3. listed' = [listed EXCEPT ![g] = record]
    BY <2>1
  <2> HIDE DEF record
  <2> QED BY <1>3, <2>2, <2>3
<1>5. CASE ReadTask(g)
  <2>1. PICK t \in listed[g].left :
          listed' = [listed EXCEPT ![g].left = @ \ {t},
                                   ![g].unsettled = @ \cup ({<<t, tasks[t]>>} \ States(settled.tasks))]
    BY <1>5 DEF ReadTask
  <2> DEFINE record == [listed[g] EXCEPT !.left = @ \ {t},
                          !.unsettled = @ \cup ({<<t, tasks[t]>>} \ States(settled.tasks))]
  <2>2. /\ DOMAIN listed = Reader /\ DOMAIN listed[g] = {"table", "keys", "left", "unsettled"}
        /\ listed[g].table = "tasks" /\ listed[g].left \subseteq DOMAIN tasks
    BY <1>5 DEF ReadTask, LockInv, ReadStands
  <2>3. listed' = [listed EXCEPT ![g] = record]
    BY <2>1, <2>2
  <2>4. /\ DOMAIN record = DOMAIN listed[g] /\ record.table = "tasks"
        /\ record.left = listed[g].left \ {t}
        /\ record.unsettled = listed[g].unsettled \cup ({<<t, tasks[t]>>} \ States(settled.tasks))
    BY <2>2
  <2>5. t \in DOMAIN tasks /\ <<t, tasks[t]>> \in Task \X (TaskState \cup {"UNSET"})
    BY <2>2 DEF LockInv, LockTypeOK
  <2>6. <<t, tasks[t]>> \notin States(settled.tasks) =>
          \/ tasks[t] = "UNSET"
          \/ Half("reported") /\ t \in DOMAIN job.reports
    BY <2>5 DEF LockInv, TasksSettled, States
  <2> HIDE DEF record
  <2>7. ASSUME NEW pair \in record.unsettled
        PROVE  /\ pair \in Task \X (TaskState \cup {"UNSET"})
               /\ \/ pair[2] = "UNSET"
                  \/ /\ Half("reported") /\ pair[1] \in DOMAIN job.reports
                     /\ pair = <<pair[1], tasks[pair[1]]>>
    BY <2>4, <2>5, <2>6 DEF LockInv, LockTypeOK, ReadStands
  <2> QED BY <1>3, <2>2, <2>3, <2>4, <2>7
<1>6. CASE Ended(g)
  <2>1. /\ DOMAIN Nothing = {"table", "keys", "left", "unsettled"} /\ Nothing.unsettled = {}
        /\ Nothing.table = "none"
    BY DEF Nothing
  <2> QED BY <1>3, <1>6, <2>1 DEF Ended
<1> QED BY <1>4, <1>5, <1>6 DEF Read, ReadEnds, ReadRaises
-----------------------------------------------------------------------------
(* LockInv holds in every state.                                            *)
THEOREM LockInvariance == LockSpec => []LockInv
<1> USE LockAssumption
<1>1. LockInit => LockInv
  BY DEF LockInit, MasterInit, Tables, Nothing, LockInv, LockTypeOK, Stage, HolderWorks, Half, JobFits,
         TasksSettled, ReadStands, Rest
<1>2. LockInv /\ [LockNext]_lockVars => LockInv'
  <2> SUFFICES ASSUME LockInv, [LockNext]_lockVars PROVE LockInv'
    OBVIOUS
  <2> USE DEF LockInv, LockTypeOK, HolderWorks, Half, JobFits, TasksSettled, ReadStands, Rest
  <2>1. CASE LockTick \/ UNCHANGED lockVars
    BY <2>1 DEF LockTick, Tick, tables, lockVars, masterVars, threadVars
  <2>2. CASE LockRestart
    BY <2>2 DEF LockRestart, Restart, Tables, Nothing, Stage
  <2>3. ASSUME NEW r \in Slot, Arrive(r) PROVE LockInv'
    BY <2>3 DEF Arrive, masterVars, tables, Stage
  <2> QED BY <2>1, <2>2, <2>3, AcquireKeepsInv, HandlerKeepsInv, ReadKeepsInv DEF LockNext
<1> QED BY <1>1, <1>2, PTL DEF LockSpec

(* The threads and the tables they share keep their types.                  *)
THEOREM LockTyping == LockSpec => []LockTypeOK
BY LockInvariance, PTL DEF LockInv

(* A listing taken without the lock tells of every task what was true       *)
(* before or after the handler at work, or nothing of one being accepted,   *)
(* with any number of requests and readers (db.py 62-92, 151-156).          *)
THEOREM ListingsAreSettled == LockSpec => []ListedWasSettled
<1>1. LockInv => ListedWasSettled
  BY DEF LockInv, ReadStands, Half, ListedWasSettled
<1> QED BY <1>1, LockInvariance, PTL
-----------------------------------------------------------------------------
(* That each handler is one action of Master on the tables as they were     *)
(* when the lock was last free.                                             *)

\* The handler at work is at one of these.
AtWork(stages) == holder # Nobody /\ at[holder] \in stages
Pinging == AtWork({"stored", "stamped", "reported"})

\* What the handler at work has made so far of the tables as they were when the
\* lock was last free.  Nothing is said of one that has died.
AgentsSoFar ==
  /\ holder = Nobody \/ AtWork({"offers", "run", "inserted", "kill", "ping"}) =>
       agents = settled.agents /\ lastPing = settled.lastPing
  /\ Half("cleared") =>
       /\ agents = [a \in Coarse!Fresh |-> settled.agents[a]]
       /\ lastPing = [a \in Coarse!Fresh |-> settled.lastPing[a]]
  /\ Pinging =>
       agents = [x \in DOMAIN settled.agents \cup {job.agent} |->
                   IF x = job.agent THEN job.resources ELSE settled.agents[x]]
  /\ Half("stored") => lastPing = settled.lastPing
  /\ AtWork({"stamped", "reported"}) =>
       lastPing = [x \in DOMAIN settled.lastPing \cup {job.agent} |->
                     IF x = job.agent THEN now ELSE settled.lastPing[x]]
TasksSoFar ==
  /\ Half("inserted") =>
       tasks = [t \in DOMAIN settled.tasks \cup {job.task} |->
                  IF t = job.task THEN "UNSET" ELSE settled.tasks[t]]
  /\ Half("reported") =>
       tasks = [t \in DOMAIN settled.tasks \cup DOMAIN job.reports |->
                  IF t \in DOMAIN job.reports THEN Coarse!Reported(t, job.reports[t])
                  ELSE settled.tasks[t]]

\* The request is still one that Master allows.
JobStands ==
  /\ AtWork({"offers", "cleared"}) => Len(offers) < MaxRounds
  /\ AtWork({"run", "inserted"}) => job.task \in Task \ submitted /\ job.offer \in 1..MaxRounds
  /\ Half("inserted") => Redeemable(job.task, job.offer, AgentOf[job.task])
  /\ Half("kill") => job.task \in submitted
  /\ Pinging \/ (Half("ping") /\ job.agent # NoAgent) =>
       /\ job.agent \in Agent /\ job.resources \in Reportable
       /\ job.reports \in ReportsOver(issued \cap TasksOn(job.agent))
AtomicInv == LockInv /\ AgentsSoFar /\ TasksSoFar /\ JobStands

(* What does not read the tables is the same for Master and for the         *)
(* tables as they were settled.                                             *)
LEMMA SameLookups ==
  /\ \A seq, S : Coarse!FirstIn(seq, S) = FirstIn(seq, S)
  /\ \A a, table : Coarse!NextTask(a, table) = NextTask(a, table)
  /\ \A table, t : Coarse!Issue(table, t) = Issue(table, t)
  /\ \A t, k, a : Coarse!Redeemable(t, k, a) <=> Redeemable(t, k, a)
<1>1. \A seq, S : Coarse!FirstIn(seq, S) = FirstIn(seq, S)
  BY Zenon DEF Coarse!FirstIn, FirstIn
<1>2. \A a, table, states : Coarse!InState(a, table, states) = InState(a, table, states)
  BY Zenon DEF Coarse!InState, InState
<1>3. \A a, table : Coarse!NextTask(a, table) = NextTask(a, table)
  BY <1>1, <1>2, Zenon DEF Coarse!NextTask, NextTask
<1>4. \A table, t : Coarse!Issue(table, t) = Issue(table, t)
  BY Zenon DEF Coarse!Issue, Issue
<1>5. \A t, k, a : Coarse!Redeemable(t, k, a) <=> Redeemable(t, k, a)
  BY Zenon DEF Coarse!Redeemable, Redeemable
<1> QED BY <1>1, <1>3, <1>4, <1>5

LEMMA SameSubtraction ==
  \A value, amounts : Coarse!AfterAll(value, amounts) = AfterAll(value, amounts)
<1>1. \A value, amounts : Coarse!Left(value, amounts) = Left(value, amounts)
  BY Zenon DEF Coarse!Left, Left, Coarse!Less, Less
<1> QED BY <1>1, Zenon DEF Coarse!AfterAll, AfterAll

(* The variables of Master are those of this module, but for the tables     *)
(* that are half done.                                                      *)
LEMMA NothingShows ==
  ASSUME UNCHANGED <<now, settled, offers, taskOrder, killtasks, frameworks, submitted, issued, restarts>>
  PROVE  UNCHANGED Coarse!masterVars
BY DEF Coarse!masterVars, Coarse!tables

(* Giving the lock back settles what the handler has made of the tables.    *)
LEMMA ReleaseSettles ==
  ASSUME NEW r \in Slot, Releases(r)
  PROVE  /\ AgentsSoFar' /\ TasksSoFar' /\ JobStands'
         /\ (settled.agents)' = agents' /\ (settled.lastPing)' = lastPing'
         /\ (settled.tasks)' = tasks'
<1>1. holder' = Nobody /\ settled' = Tables'
  BY DEF Releases
<1>2. \A stages : ~AtWork(stages)'
  BY <1>1 DEF AtWork
<1>3. \A stage : ~Half(stage)'
  BY <1>1 DEF Half
<1>4. /\ (settled.agents)' = agents' /\ (settled.lastPing)' = lastPing'
      /\ (settled.tasks)' = tasks'
  BY <1>1 DEF Tables
<1> QED BY <1>2, <1>3, <1>4 DEF AgentsSoFar, TasksSoFar, JobStands, Pinging

(* A step of the handler from one stage to the next.                        *)
LEMMA GoesOn ==
  ASSUME LockInv, NEW r \in Slot, NEW from \in Stage \ {"idle", "waiting"}, NEW to, Goes(r, from, to)
  PROVE  /\ holder = r /\ r # Nobody /\ at[r] = from
         /\ \A stages : AtWork(stages) <=> from \in stages
         /\ \A stages : AtWork(stages)' <=> to \in stages
         /\ \A stage : Half(stage) <=> stage = from
         /\ \A stage : Half(stage)' <=> stage = to
         /\ UNCHANGED <<text, holder, settled, job>>
<1>1. holder = r /\ r # Nobody /\ at[r] = from /\ at' = [at EXCEPT ![r] = to]
      /\ UNCHANGED <<text, holder, settled, job, listed>> /\ at \in [Slot -> Stage]
  BY LockAssumption DEF Goes, LockInv, LockTypeOK, HolderWorks
<1> QED BY <1>1 DEF AtWork, Half

(* GetResourceOffer: the agents are cleared and the offers made of them.    *)
LEMMA ClearStaleGoesOn ==
  ASSUME AtomicInv, NEW r \in Slot, ClearStale(r)
  PROVE  /\ AgentsSoFar' /\ TasksSoFar' /\ JobStands'
         /\ UNCHANGED Coarse!masterVars
<1>1. Goes(r, "offers", "cleared") /\ LockInv
  BY DEF ClearStale, AtomicInv
<1>2. /\ holder = r /\ AtWork({"offers", "run", "inserted", "kill", "ping"}) /\ AtWork({"offers", "cleared"})
      /\ UNCHANGED <<settled, job, holder>> /\ holder # Nobody
      /\ \A stages : AtWork(stages)' <=> "cleared" \in stages
      /\ \A stage : Half(stage)' <=> stage = "cleared"
  BY <1>1, GoesOn DEF Stage
<1>3. agents = settled.agents /\ lastPing = settled.lastPing /\ Len(offers) < MaxRounds
  BY <1>2 DEF AtomicInv, AgentsSoFar, JobStands
<1>4. Fresh = Coarse!Fresh
  BY <1>3 DEF Fresh, Coarse!Fresh
<1>5. Coarse!Fresh' = Coarse!Fresh
  BY <1>2 DEF Coarse!Fresh, ClearStale
<1>6. /\ agents' = [a \in Coarse!Fresh |-> settled.agents[a]]
      /\ lastPing' = [a \in Coarse!Fresh |-> settled.lastPing[a]]
  BY <1>3, <1>4 DEF ClearStale
<1>7. AgentsSoFar'
  BY <1>2, <1>5, <1>6 DEF AgentsSoFar, Pinging
<1>8. TasksSoFar' /\ JobStands'
  BY <1>2, <1>3 DEF TasksSoFar, JobStands, Pinging, ClearStale
<1>9. UNCHANGED Coarse!masterVars
  BY <1>2, NothingShows DEF ClearStale
<1> QED BY <1>7, <1>8, <1>9

LEMMA MakeOffersIsAtomic ==
  ASSUME AtomicInv, NEW r \in Slot, at[r] = "cleared", ~TimeoutRaises, Releases(r),
         offers' = Append(offers, [expiration |-> now + OfferTimeout,
                     free |-> [a \in Agent |-> [res \in Resource |->
                                 IF a \in DOMAIN agents THEN Free(a, res) ELSE 0]]]),
         UNCHANGED <<now, agents, lastPing, tasks, taskOrder, killtasks, frameworks,
                     submitted, issued, restarts>>
  PROVE  Coarse!GetResourceOffer
<1>1. Half("cleared") /\ AtWork({"offers", "cleared"}) /\ settled.tasks = tasks
  BY LockAssumption DEF AtomicInv, LockInv, HolderWorks, TasksSettled, Half, AtWork
<1>2. /\ agents = [a \in Coarse!Fresh |-> settled.agents[a]]
      /\ lastPing = [a \in Coarse!Fresh |-> settled.lastPing[a]]
      /\ Len(offers) < MaxRounds
  BY <1>1 DEF AtomicInv, AgentsSoFar, JobStands
<1>3. \A a, res : /\ Coarse!Demanded(a, res) = Demanded(a, res)
                  /\ Coarse!Promised(a, res) = Promised(a, res)
  BY <1>1, Zenon DEF Coarse!Demanded, Demanded, Coarse!Promised, Promised, Coarse!Pending, Pending,
                     Coarse!Outstanding, Outstanding
<1>4. ASSUME NEW a \in Coarse!Fresh, NEW res PROVE Coarse!Free(a, res) = Free(a, res)
  <2>1. agents[a] = settled.agents[a]
    BY <1>2
  <2>2. \A value : Coarse!Kept(value) = Kept(value)
    BY Zenon DEF Coarse!Kept, Kept
  <2> QED BY <1>3, <2>1, <2>2, SameSubtraction DEF Coarse!Free, Free
<1>5. DOMAIN agents = Coarse!Fresh
  BY <1>2
<1>6. offers' = Append(offers, [expiration |-> now + OfferTimeout,
                  free |-> [a \in Agent |-> [res \in Resource |->
                              IF a \in Coarse!Fresh THEN Coarse!Free(a, res) ELSE 0]]])
  BY <1>4, <1>5
<1>7. /\ (settled.agents)' = agents' /\ (settled.lastPing)' = lastPing' /\ (settled.tasks)' = tasks'
  BY ReleaseSettles
<1> QED BY <1>1, <1>2, <1>6, <1>7 DEF Coarse!GetResourceOffer
-----------------------------------------------------------------------------
(* RunTask.                                                                 *)
LEMMA InsertGoesOn ==
  ASSUME AtomicInv, NEW r \in Slot, InsertTask(r)
  PROVE  /\ AgentsSoFar' /\ TasksSoFar' /\ JobStands'
         /\ UNCHANGED Coarse!masterVars
<1>1. Goes(r, "run", "inserted") /\ LockInv
  BY DEF InsertTask, AtomicInv
<1>2. /\ AtWork({"offers", "run", "inserted", "kill", "ping"}) /\ AtWork({"run", "inserted"})
      /\ ~Half("inserted") /\ ~Half("reported") /\ UNCHANGED <<settled, job, holder>> /\ holder # Nobody
      /\ \A stages : AtWork(stages)' <=> "inserted" \in stages
      /\ \A stage : Half(stage)' <=> stage = "inserted"
  BY <1>1, GoesOn DEF Stage
<1>3. /\ agents = settled.agents /\ lastPing = settled.lastPing /\ tasks = settled.tasks
      /\ job.task \in Task \ submitted /\ job.offer \in 1..MaxRounds
  BY <1>2 DEF AtomicInv, AgentsSoFar, JobStands, LockInv, TasksSettled
<1>4. AgentsSoFar' /\ TasksSoFar'
  BY <1>2, <1>3 DEF AgentsSoFar, TasksSoFar, Pinging, InsertTask
<1>5. Redeemable(job.task, job.offer, AgentOf[job.task])'
  BY <1>2 DEF InsertTask, Redeemable
<1>6. JobStands'
  BY <1>2, <1>3, <1>5 DEF JobStands, Pinging, InsertTask
<1>7. UNCHANGED Coarse!masterVars
  BY <1>2, NothingShows DEF InsertTask
<1> QED BY <1>4, <1>6, <1>7

LEMMA AcceptTaskIsAtomic ==
  ASSUME AtomicInv, NEW r \in Slot, AcceptTask(r)
  PROVE  \E t \in Task, k \in 1..MaxRounds : Coarse!RunTask(t, k, AgentOf[t])
<1>1. /\ Half("inserted") /\ AtWork({"offers", "run", "inserted", "kill", "ping"})
      /\ AtWork({"run", "inserted"})
  BY LockAssumption DEF AcceptTask, AtomicInv, LockInv, HolderWorks, Half, AtWork
<1>2. /\ agents = settled.agents /\ lastPing = settled.lastPing
      /\ tasks = [t \in DOMAIN settled.tasks \cup {job.task} |->
                    IF t = job.task THEN "UNSET" ELSE settled.tasks[t]]
      /\ job.task \in Task \ submitted /\ job.offer \in 1..MaxRounds
      /\ Redeemable(job.task, job.offer, AgentOf[job.task])
  BY <1>1 DEF AtomicInv, AgentsSoFar, TasksSoFar, JobStands
<1>3. tasks' = [t \in DOMAIN settled.tasks \cup {job.task} |->
                  IF t = job.task THEN "UNISSUED" ELSE settled.tasks[t]]
  <2>1. tasks' = [tasks EXCEPT ![job.task] = "UNISSUED"]
    BY DEF AcceptTask, Stated
  <2> QED BY <1>2, <2>1
<1>4. (settled.agents)' = agents' /\ (settled.lastPing)' = lastPing' /\ (settled.tasks)' = tasks'
  BY ReleaseSettles DEF AcceptTask
<1>5. Coarse!RunTask(job.task, job.offer, AgentOf[job.task])
  BY <1>2, <1>3, <1>4, SameLookups DEF Coarse!RunTask, Coarse!WithTask, AcceptTask
<1> QED BY <1>2, <1>5
-----------------------------------------------------------------------------
(* KillTask, and a RunTask that is refused.                                 *)
LEMMA RecordKillIsAtomic ==
  ASSUME AtomicInv, NEW r \in Slot, RecordKill(r)
  PROVE  (\E t \in submitted : Coarse!KillTask(t)) \/ UNCHANGED Coarse!masterVars
<1>1. AtWork({"offers", "run", "inserted", "kill", "ping"}) /\ Half("kill") /\ Releases(r)
      /\ ~Half("inserted") /\ ~Half("reported")
  BY LockAssumption DEF RecordKill, AtomicInv, LockInv, HolderWorks, Half, AtWork
<1>2. /\ agents = settled.agents /\ lastPing = settled.lastPing /\ tasks = settled.tasks
      /\ job.task \in submitted
  BY <1>1 DEF AtomicInv, AgentsSoFar, JobStands, LockInv, TasksSettled
<1>3. (settled.agents)' = agents' /\ (settled.lastPing)' = lastPing' /\ (settled.tasks)' = tasks'
  BY <1>1, ReleaseSettles
<1>4. CASE KillTask(job.task)
  <2>1. Coarse!KillTask(job.task)
    BY <1>2, <1>3, <1>4 DEF KillTask, Coarse!KillTask, Known, Coarse!Known
  <2> QED BY <1>2, <2>1
<1>5. CASE UNCHANGED masterVars
  BY <1>2, <1>3, <1>5 DEF masterVars, tables, Coarse!masterVars, Coarse!tables
<1> QED BY <1>4, <1>5 DEF RecordKill

LEMMA RejectIsNothing ==
  ASSUME AtomicInv, NEW r \in Slot, Reject(r)
  PROVE  UNCHANGED Coarse!masterVars
<1>1. AtWork({"offers", "run", "inserted", "kill", "ping"}) /\ ~Half("inserted") /\ ~Half("reported")
      /\ Releases(r)
  BY LockAssumption DEF Reject, AtomicInv, LockInv, HolderWorks, Half, AtWork
<1>2. agents = settled.agents /\ lastPing = settled.lastPing /\ tasks = settled.tasks
  BY <1>1 DEF AtomicInv, AgentsSoFar, LockInv, TasksSettled
<1>3. (settled.agents)' = agents' /\ (settled.lastPing)' = lastPing' /\ (settled.tasks)' = tasks'
  BY <1>1, ReleaseSettles
<1> QED BY <1>2, <1>3 DEF Reject, masterVars, tables, Coarse!masterVars, Coarse!tables
-----------------------------------------------------------------------------
(* GetPing: what it has made of the tables at each of its stages.           *)
LEMMA StoreAgentGoesOn ==
  ASSUME AtomicInv, NEW r \in Slot, StoreAgent(r)
  PROVE  /\ AgentsSoFar' /\ TasksSoFar' /\ JobStands'
         /\ UNCHANGED Coarse!masterVars
<1>1. Goes(r, "ping", "stored") /\ LockInv
  BY DEF StoreAgent, AtomicInv
<1>2. /\ AtWork({"offers", "run", "inserted", "kill", "ping"}) /\ Half("ping")
      /\ UNCHANGED <<settled, job, holder>> /\ holder # Nobody
      /\ \A stages : AtWork(stages)' <=> "stored" \in stages
      /\ \A stage : Half(stage)' <=> stage = "stored"
  BY <1>1, GoesOn DEF Stage
<1>3. /\ agents = settled.agents /\ lastPing = settled.lastPing
      /\ job.agent \in Agent /\ job.resources \in Reportable
      /\ job.reports \in ReportsOver(issued \cap TasksOn(job.agent))
  BY <1>2 DEF AtomicInv, AgentsSoFar, JobStands, StoreAgent
<1>4. AgentsSoFar' /\ TasksSoFar'
  BY <1>2, <1>3 DEF AgentsSoFar, TasksSoFar, Pinging, StoreAgent
<1>5. JobStands'
  BY <1>2, <1>3 DEF JobStands, Pinging, StoreAgent
<1>6. UNCHANGED Coarse!masterVars
  BY <1>2, NothingShows DEF StoreAgent
<1> QED BY <1>4, <1>5, <1>6

LEMMA StampAgentGoesOn ==
  ASSUME AtomicInv, NEW r \in Slot, StampAgent(r)
  PROVE  /\ AgentsSoFar' /\ TasksSoFar' /\ JobStands'
         /\ UNCHANGED Coarse!masterVars
<1>1. Goes(r, "stored", "stamped") /\ LockInv
  BY DEF StampAgent, AtomicInv
<1>2. /\ Pinging /\ Half("stored")
      /\ UNCHANGED <<settled, job, holder>> /\ holder # Nobody
      /\ \A stages : AtWork(stages)' <=> "stamped" \in stages
      /\ \A stage : Half(stage)' <=> stage = "stamped"
  BY <1>1, GoesOn DEF Stage, Pinging
<1>3. /\ agents = [x \in DOMAIN settled.agents \cup {job.agent} |->
                     IF x = job.agent THEN job.resources ELSE settled.agents[x]]
      /\ lastPing = settled.lastPing
      /\ job.agent \in Agent /\ job.resources \in Reportable
      /\ job.reports \in ReportsOver(issued \cap TasksOn(job.agent))
  BY <1>2 DEF AtomicInv, AgentsSoFar, JobStands
<1>4. AgentsSoFar' /\ TasksSoFar'
  BY <1>2, <1>3 DEF AgentsSoFar, TasksSoFar, Pinging, StampAgent
<1>5. JobStands'
  BY <1>2, <1>3 DEF JobStands, Pinging, StampAgent
<1>6. UNCHANGED Coarse!masterVars
  BY <1>2, NothingShows DEF StampAgent
<1> QED BY <1>4, <1>5, <1>6

LEMMA TakeReportsGoesOn ==
  ASSUME AtomicInv, NEW r \in Slot, TakeReports(r)
  PROVE  /\ AgentsSoFar' /\ TasksSoFar' /\ JobStands'
         /\ UNCHANGED Coarse!masterVars
<1>1. Goes(r, "stamped", "reported") /\ LockInv
  BY DEF TakeReports, AtomicInv
<1>2. /\ Pinging /\ AtWork({"stamped", "reported"}) /\ ~Half("inserted") /\ ~Half("reported")
      /\ UNCHANGED <<settled, job, holder>> /\ holder # Nobody
      /\ \A stages : AtWork(stages)' <=> "reported" \in stages
      /\ \A stage : Half(stage)' <=> stage = "reported"
  BY <1>1, GoesOn DEF Stage, Pinging
<1>3. /\ agents = [x \in DOMAIN settled.agents \cup {job.agent} |->
                     IF x = job.agent THEN job.resources ELSE settled.agents[x]]
      /\ lastPing = [x \in DOMAIN settled.lastPing \cup {job.agent} |->
                       IF x = job.agent THEN now ELSE settled.lastPing[x]]
      /\ tasks = settled.tasks
      /\ job.agent \in Agent /\ job.resources \in Reportable
      /\ job.reports \in ReportsOver(issued \cap TasksOn(job.agent))
  BY <1>2 DEF AtomicInv, AgentsSoFar, JobStands, LockInv, TasksSettled
<1>4. AgentsSoFar'
  BY <1>2, <1>3 DEF AgentsSoFar, Pinging, TakeReports
<1>5. TasksSoFar'
  <2>1. \A t, state : Reported(t, state) = Coarse!Reported(t, state)
    BY <1>3 DEF Reported, Coarse!Reported, Known, Coarse!Known
  <2>2. tasks' = [t \in DOMAIN settled.tasks \cup DOMAIN job.reports |->
                    IF t \in DOMAIN job.reports THEN Coarse!Reported(t, job.reports[t])
                    ELSE settled.tasks[t]]
    BY <1>3, <2>1 DEF TakeReports, Told
  <2>3. \A t, state : Coarse!Reported(t, state)' = Coarse!Reported(t, state)
    BY <1>2 DEF Coarse!Reported, Coarse!Known
  <2> QED BY <1>2, <2>2, <2>3 DEF TasksSoFar
<1>6. JobStands'
  BY <1>2, <1>3 DEF JobStands, Pinging, TakeReports
<1>7. UNCHANGED Coarse!masterVars
  BY <1>2, NothingShows DEF TakeReports
<1> QED BY <1>4, <1>5, <1>6, <1>7

LEMMA AnswerPingIsAtomic ==
  ASSUME AtomicInv, NEW r \in Slot, AnswerPing(r)
  PROVE  \E a \in Agent, resources \in Reportable :
           \E reports \in ReportsOver(issued \cap TasksOn(a)) : Coarse!GetPing(a, resources, reports)
<1> DEFINE table == Swept(job.agent, job.reports)
<1>1. Half("reported") /\ Pinging /\ AtWork({"stamped", "reported"})
  BY LockAssumption DEF AnswerPing, AtomicInv, LockInv, HolderWorks, Half, AtWork, Pinging
<1>2. /\ agents = [x \in DOMAIN settled.agents \cup {job.agent} |->
                     IF x = job.agent THEN job.resources ELSE settled.agents[x]]
      /\ lastPing = [x \in DOMAIN settled.lastPing \cup {job.agent} |->
                       IF x = job.agent THEN now ELSE settled.lastPing[x]]
      /\ tasks = [t \in DOMAIN settled.tasks \cup DOMAIN job.reports |->
                    IF t \in DOMAIN job.reports THEN Coarse!Reported(t, job.reports[t])
                    ELSE settled.tasks[t]]
      /\ job.agent \in Agent /\ job.resources \in Reportable
      /\ job.reports \in ReportsOver(issued \cap TasksOn(job.agent))
  BY <1>1 DEF AtomicInv, AgentsSoFar, TasksSoFar, JobStands
<1>3. table = Coarse!Refreshed(job.agent, job.reports)
  <2>1. ASSUME NEW t \in DOMAIN settled.tasks, t \notin DOMAIN job.reports
        PROVE  Missing(job.agent, t) = Coarse!Missing(job.agent, t)
    BY <1>2, <2>1 DEF Missing, Coarse!Missing
  <2> QED BY <1>2, <2>1 DEF Swept, Coarse!Refreshed
<1> HIDE DEF table
<1>4. tasks' = Coarse!TasksAfter(job.agent, job.reports)
  <2>1. tasks' = Issue(table, NextTask(job.agent, table))
    BY DEF AnswerPing, table
  <2> QED BY <1>3, <2>1, SameLookups, Zenon DEF Coarse!TasksAfter
<1>5. issued' = issued \cup ({Coarse!Pong(job.agent, job.reports).run} \ {NoTask})
  <2>1. issued' = issued \cup ({NextTask(job.agent, table)} \ {NoTask})
    BY DEF AnswerPing, table
  <2>2. Coarse!Pong(job.agent, job.reports).run = Coarse!NextTask(job.agent, table)
    BY <1>3 DEF Coarse!Pong
  <2> QED BY <2>1, <2>2, SameLookups
<1>6. (settled.agents)' = agents' /\ (settled.lastPing)' = lastPing' /\ (settled.tasks)' = tasks'
  BY ReleaseSettles DEF AnswerPing
<1>7. Coarse!GetPing(job.agent, job.resources, job.reports)
  BY <1>2, <1>4, <1>5, <1>6 DEF AnswerPing, Coarse!GetPing, Coarse!RefreshAgent
<1> QED BY <1>2, <1>7
-----------------------------------------------------------------------------
(* A handler that dies changes nothing that is settled.                     *)
LEMMA DeathIsNothing ==
  ASSUME AtomicInv, NEW r \in Slot, NEW from \in {"cleared", "ping"}, Dies(r, from),
         UNCHANGED masterVars
  PROVE  /\ AgentsSoFar' /\ TasksSoFar' /\ JobStands'
         /\ UNCHANGED Coarse!masterVars
<1>1. Goes(r, from, "dead") /\ LockInv
  BY DEF Dies, AtomicInv
<1>2. /\ UNCHANGED <<settled, holder>> /\ holder # Nobody
      /\ \A stages : AtWork(stages)' <=> "dead" \in stages
      /\ \A stage : Half(stage)' <=> stage = "dead"
  BY <1>1, GoesOn DEF Stage
<1> QED BY <1>2, NothingShows DEF AgentsSoFar, TasksSoFar, JobStands, Pinging, masterVars, tables

(* Every step of a handler is a step of Master or nothing at all.           *)
LEMMA HandlerIsAtomic ==
  ASSUME AtomicInv, NEW r \in Slot, Handler(r)
  PROVE  /\ AgentsSoFar' /\ TasksSoFar' /\ JobStands'
         /\ [Coarse!MasterNext]_Coarse!masterVars
<1>1. CASE ClearStale(r)
  BY <1>1, ClearStaleGoesOn
<1>2. CASE MakeOffers(r)
  BY <1>2, DeathIsNothing, MakeOffersIsAtomic, ReleaseSettles DEF MakeOffers, Coarse!MasterNext
<1>3. CASE Reject(r)
  BY <1>3, RejectIsNothing, ReleaseSettles DEF Reject
<1>4. CASE InsertTask(r)
  BY <1>4, InsertGoesOn
<1>5. CASE AcceptTask(r)
  BY <1>5, AcceptTaskIsAtomic, ReleaseSettles DEF AcceptTask, Coarse!MasterNext
<1>6. CASE RecordKill(r)
  BY <1>6, RecordKillIsAtomic, ReleaseSettles DEF RecordKill, Coarse!MasterNext
<1>7. CASE NamelessPing(r)
  BY <1>7, DeathIsNothing DEF NamelessPing
<1>8. CASE StoreAgent(r)
  BY <1>8, StoreAgentGoesOn
<1>9. CASE StampAgent(r)
  BY <1>9, StampAgentGoesOn
<1>10. CASE TakeReports(r)
  BY <1>10, TakeReportsGoesOn
<1>11. CASE AnswerPing(r)
  <2>1. Releases(r)
    BY <1>11 DEF AnswerPing
  <2>2. \E a \in Agent, resources \in Reportable :
          \E reports \in ReportsOver(issued \cap TasksOn(a)) : Coarse!GetPing(a, resources, reports)
    BY <1>11, AnswerPingIsAtomic
  <2> QED BY <2>1, <2>2, ReleaseSettles DEF Coarse!MasterNext, Coarse!ReportsOver, Coarse!TasksOn,
             ReportsOver, TasksOn, Coarse!ReportedState, ReportedState
<1> QED BY <1>1, <1>2, <1>3, <1>4, <1>5, <1>6, <1>7, <1>8, <1>9, <1>10, <1>11 DEF Handler

(* A request that gets the lock finds the tables settled.                   *)
LEMMA AcquireStarts ==
  ASSUME AtomicInv, NEW r \in Slot, Acquire(r)
  PROVE  /\ AgentsSoFar' /\ TasksSoFar' /\ JobStands'
         /\ UNCHANGED Coarse!masterVars
<1>1. PICK j \in OfferJobs \cup RunJobs \cup KillJobs \cup PingJobs :
        job' = j /\ at' = [at EXCEPT ![r] = j.kind]
  BY DEF Acquire
<1>2. /\ holder = Nobody /\ holder' = r /\ r # Nobody /\ at \in [Slot -> Stage]
      /\ UNCHANGED <<masterVars, settled>>
  BY LockAssumption DEF Acquire, AtomicInv, LockInv, LockTypeOK
<1>3. /\ j.kind \in {"offers", "run", "kill", "ping"}
      /\ j.kind = "offers" => Len(offers) < MaxRounds
      /\ j.kind = "run" => j.task \in Task \ submitted /\ j.offer \in 1..MaxRounds
      /\ j.kind = "kill" => j.task \in submitted
      /\ j.kind = "ping" /\ j.agent # NoAgent =>
           /\ j.agent \in Agent /\ j.resources \in Reportable
           /\ j.reports \in ReportsOver(issued \cap TasksOn(j.agent))
  <2>1. CASE j \in OfferJobs
    BY <2>1 DEF OfferJobs
  <2>2. CASE j \in RunJobs \cup KillJobs
    BY <2>2 DEF RunJobs, KillJobs
  <2>3. CASE j \in PingJobs
    <3>1. CASE j \in [kind : {"ping"}, agent : {NoAgent}]
      BY <3>1
    <3>2. ASSUME NEW a \in Agent, j \in [kind : {"ping"}, agent : {a}, resources : Reportable,
                                         reports : ReportsOver(issued \cap TasksOn(a))]
          PROVE  /\ j.kind = "ping" /\ j.agent \in Agent /\ j.resources \in Reportable
                 /\ j.reports \in ReportsOver(issued \cap TasksOn(j.agent))
      BY <3>2
    <3> QED BY <2>3, <3>1, <3>2 DEF PingJobs
  <2> QED BY <2>1, <2>2, <2>3
<1>4. /\ \A stages : AtWork(stages)' <=> j.kind \in stages
      /\ \A stage : Half(stage)' <=> stage = j.kind
  BY <1>1, <1>2 DEF AtWork, Half
<1>5. agents = settled.agents /\ lastPing = settled.lastPing
  BY <1>2 DEF AtomicInv, AgentsSoFar
<1>6. AgentsSoFar' /\ TasksSoFar'
  BY <1>2, <1>3, <1>4, <1>5 DEF AgentsSoFar, TasksSoFar, Pinging, masterVars, tables
<1>7. JobStands'
  BY <1>1, <1>2, <1>3, <1>4 DEF JobStands, Pinging, masterVars, tables
<1>8. UNCHANGED Coarse!masterVars
  BY <1>2, NothingShows DEF masterVars, tables
<1> QED BY <1>6, <1>7, <1>8

(* A step that touches neither the tables nor the handler at work.          *)
LEMMA OthersAreNothing ==
  ASSUME AtomicInv, UNCHANGED <<masterVars, settled, holder, job>>,
         \A stages : AtWork(stages)' <=> AtWork(stages)
  PROVE  /\ AgentsSoFar' /\ TasksSoFar' /\ JobStands'
         /\ UNCHANGED Coarse!masterVars
<1>1. \A stage : Half(stage) <=> AtWork({stage})
  BY DEF Half, AtWork
<1>2. \A stage : Half(stage)' <=> AtWork({stage})'
  BY DEF Half, AtWork
<1>3. \A stage : Half(stage)' <=> Half(stage)
  BY <1>1, <1>2
<1>4. Coarse!Fresh' = Coarse!Fresh /\ \A t, state : Coarse!Reported(t, state)' = Coarse!Reported(t, state)
  BY DEF Coarse!Fresh, Coarse!Reported, Coarse!Known, masterVars, tables
<1>5. AgentsSoFar'
  BY <1>3, <1>4 DEF AtomicInv, AgentsSoFar, Pinging, masterVars, tables
<1>6. TasksSoFar'
  BY <1>3, <1>4 DEF AtomicInv, TasksSoFar, masterVars, tables
<1>7. JobStands'
  BY <1>3 DEF AtomicInv, JobStands, Pinging, Redeemable, masterVars, tables
<1>8. UNCHANGED Coarse!masterVars
  BY NothingShows DEF masterVars, tables
<1> QED BY <1>5, <1>6, <1>7, <1>8
-----------------------------------------------------------------------------
(* What the handlers have made of the tables so far is what AtomicInv says, *)
(* and each step shows as one of Master's or as none.                       *)
LEMMA StepsAreAtomic ==
  ASSUME AtomicInv, [LockNext]_lockVars
  PROVE  /\ AgentsSoFar' /\ TasksSoFar' /\ JobStands'
         /\ [Coarse!MasterNext]_Coarse!masterVars
<1>1. CASE LockTick
  <2>1. \A stages : "dead" \notin stages => ~AtWork(stages)' /\ ~AtWork(stages)
    BY <1>1 DEF LockTick, AtWork, threadVars, AtomicInv, LockInv, LockTypeOK
  <2>2. \A stage : stage # "dead" => ~Half(stage)'
    BY <1>1 DEF LockTick, Half, threadVars, AtomicInv, LockInv, LockTypeOK
  <2>3. holder = Nobody => agents = settled.agents /\ lastPing = settled.lastPing
    BY DEF AtomicInv, AgentsSoFar
  <2>4. AgentsSoFar' /\ TasksSoFar' /\ JobStands'
    BY <1>1, <2>1, <2>2, <2>3 DEF LockTick, Tick, tables, AgentsSoFar, TasksSoFar, JobStands, Pinging
  <2>5. Coarse!Tick
    BY <1>1 DEF LockTick, Tick, tables, Coarse!Tick, Coarse!tables
  <2> QED BY <2>4, <2>5 DEF Coarse!MasterNext
<1>2. CASE LockRestart
  <2>1. /\ holder' = Nobody /\ (settled.agents)' = agents' /\ (settled.lastPing)' = lastPing'
        /\ (settled.tasks)' = tasks'
    BY <1>2 DEF LockRestart, Tables
  <2>2. AgentsSoFar' /\ TasksSoFar' /\ JobStands'
    BY <2>1 DEF AgentsSoFar, TasksSoFar, JobStands, Pinging, AtWork, Half
  <2>3. Coarse!Restart
    BY <1>2, <2>1 DEF LockRestart, Restart, Coarse!Restart
  <2> QED BY <2>2, <2>3 DEF Coarse!MasterNext
<1>3. ASSUME NEW r \in Slot, Arrive(r)
      PROVE  AgentsSoFar' /\ TasksSoFar' /\ JobStands' /\ UNCHANGED Coarse!masterVars
  <2>1. holder # r
    BY <1>3 DEF Arrive, AtomicInv, LockInv, HolderWorks
  <2>2. \A stages : AtWork(stages)' <=> AtWork(stages)
    BY <1>3, <2>1 DEF Arrive, AtWork, AtomicInv, LockInv, LockTypeOK
  <2> QED BY <1>3, <2>2, OthersAreNothing DEF Arrive
<1>4. ASSUME NEW g \in Reader, Read(g)
      PROVE  AgentsSoFar' /\ TasksSoFar' /\ JobStands' /\ UNCHANGED Coarse!masterVars
  <2>1. UNCHANGED <<masterVars, settled, holder, at, job>>
    BY <1>4 DEF Read, ReadBegins, ReadTask, ReadEnds, ReadRaises, Ended
  <2> QED BY <2>1, OthersAreNothing DEF AtWork
<1>5. CASE UNCHANGED lockVars
  <2>1. UNCHANGED <<masterVars, settled, holder, at, job>>
    BY <1>5 DEF lockVars, threadVars
  <2> QED BY <2>1, OthersAreNothing DEF AtWork
<1> QED BY <1>1, <1>2, <1>3, <1>4, <1>5, AcquireStarts, HandlerIsAtomic DEF LockNext

(* The lock makes each handler atomic: with any number of requests under    *)
(* way, dying ones among them, the tables that other requests find are      *)
(* those of a master that serves one request at a time (master.py 29-215).  *)
THEOREM AtomicHandlers == LockSpec => HandlersAreAtomic
<1>1. LockInit => Coarse!MasterInit /\ AgentsSoFar /\ TasksSoFar /\ JobStands
  BY DEF LockInit, MasterInit, Tables, Coarse!MasterInit, AgentsSoFar, TasksSoFar, JobStands,
         Pinging, AtWork, Half
<1>2. AtomicInv /\ [LockNext]_lockVars =>
        AgentsSoFar' /\ TasksSoFar' /\ JobStands' /\ [Coarse!MasterNext]_Coarse!masterVars
  BY StepsAreAtomic
<1> QED BY <1>1, <1>2, LockInvariance, PTL DEF AtomicInv, LockSpec, HandlersAreAtomic, Coarse!MasterSpec
-----------------------------------------------------------------------------
(* So what is proved of Master holds of the tables the threads leave.       *)
Served == INSTANCE MasterProofs WITH
  agents <- settled.agents, lastPing <- settled.lastPing, tasks <- settled.tasks

LEMMA ServedPong ==
  \A a, reports : /\ Served!TasksAfter(a, reports) = Coarse!TasksAfter(a, reports)
                  /\ Served!Pong(a, reports).run = Coarse!Pong(a, reports).run
                  /\ Served!Pong(a, reports).kill = Coarse!Pong(a, reports).kill
<1>1. \A a, reports : Served!Refreshed(a, reports) = Coarse!Refreshed(a, reports)
  BY Zenon DEF Served!Refreshed, Coarse!Refreshed, Served!Reported, Coarse!Reported,
     Served!Missing, Coarse!Missing, Served!Known, Coarse!Known
<1>2. \A a, table : Served!NextTask(a, table) = Coarse!NextTask(a, table)
  BY Zenon DEF Served!NextTask, Coarse!NextTask, Served!FirstIn, Coarse!FirstIn,
     Served!InState, Coarse!InState
<1>3. \A a, table : Served!NextKill(a, table) = Coarse!NextKill(a, table)
  BY Zenon DEF Served!NextKill, Coarse!NextKill, Served!FirstIn, Coarse!FirstIn,
     Served!InState, Coarse!InState
<1>4. \A a, reports : Served!TasksAfter(a, reports) = Coarse!TasksAfter(a, reports)
  BY <1>1, <1>2, Zenon DEF Served!TasksAfter, Coarse!TasksAfter, Served!Issue, Coarse!Issue
<1>5. \A a, reports : /\ Served!Pong(a, reports).run = Coarse!Pong(a, reports).run
                      /\ Served!Pong(a, reports).kill = Coarse!Pong(a, reports).kill
  BY <1>1, <1>2, <1>3, <1>4 DEF Served!Pong, Coarse!Pong
<1> QED BY <1>4, <1>5

LEMMA ServedPing ==
  \A a, resources, reports :
    Served!GetPing(a, resources, reports) <=> Coarse!GetPing(a, resources, reports)
BY ServedPong, Zenon DEF Served!GetPing, Coarse!GetPing, Served!RefreshAgent, Coarse!RefreshAgent

LEMMA ServedSteps ==
  /\ Served!MasterInit <=> Coarse!MasterInit
  /\ Served!MasterNext <=> Coarse!MasterNext
  /\ (UNCHANGED Served!masterVars) <=> UNCHANGED Coarse!masterVars
<1>1. Served!MasterInit <=> Coarse!MasterInit
  BY Zenon DEF Served!MasterInit, Coarse!MasterInit
<1>2. (UNCHANGED Served!masterVars) <=> UNCHANGED Coarse!masterVars
  BY Zenon DEF Served!masterVars, Coarse!masterVars, Served!tables, Coarse!tables
<1>3. (Served!Tick <=> Coarse!Tick) /\ (Served!Restart <=> Coarse!Restart)
  BY Zenon DEF Served!Tick, Coarse!Tick, Served!tables, Coarse!tables, Served!Restart, Coarse!Restart
<1>4. Served!GetResourceOffer <=> Coarse!GetResourceOffer
  <2>1. Served!Fresh = Coarse!Fresh
    BY Zenon DEF Served!Fresh, Coarse!Fresh
  <2>2. \A a, r : Served!Free(a, r) = Coarse!Free(a, r)
    BY Zenon DEF Served!Free, Coarse!Free, Served!Kept, Coarse!Kept, Served!AfterAll, Coarse!AfterAll,
       Served!Left, Coarse!Left, Served!Less, Coarse!Less, Served!Demanded, Coarse!Demanded,
       Served!Promised, Coarse!Promised, Served!Pending, Coarse!Pending,
       Served!Outstanding, Coarse!Outstanding
  <2> QED BY <2>1, <2>2, Zenon DEF Served!GetResourceOffer, Coarse!GetResourceOffer
<1>5. \A t, k, a : Served!RunTask(t, k, a) <=> Coarse!RunTask(t, k, a)
  BY Zenon DEF Served!RunTask, Coarse!RunTask, Served!Redeemable, Coarse!Redeemable,
     Served!WithTask, Coarse!WithTask
<1>6. \A t : Served!KillTask(t) <=> Coarse!KillTask(t)
  BY Zenon DEF Served!KillTask, Coarse!KillTask, Served!Known, Coarse!Known
<1>7. Served!MasterNext <=> Coarse!MasterNext
  BY <1>3, <1>4, <1>5, <1>6, ServedPing, Zenon DEF Served!MasterNext, Coarse!MasterNext,
     Served!ReportsOver, Coarse!ReportsOver, Served!TasksOn, Coarse!TasksOn,
     Served!ReportedState, Coarse!ReportedState
<1> QED BY <1>1, <1>2, <1>7

(* Of the tables as any thread that takes the lock finds them: tasks are    *)
(* handed out in order, kills are on record, pongs fit pings, offers are    *)
(* backed and no task becomes eligible again, whatever requests come in,    *)
(* wait or die                                                              *)
(* (master.py 29-215).                                                      *)
THEOREM ThreadsKeepPromises ==
  LockSpec => /\ []Coarse!NoOvertaking /\ []Coarse!KillingIsOnRecord /\ []Coarse!PongsFitPings
              /\ Coarse!OffersAreBacked /\ Coarse!NeverHandedOutAgain
<1> DEFINE NotAgain(S, T) == \A t \in DOMAIN settled.tasks \cap DOMAIN (settled.tasks)' : t \in T => t \in S
<1>1. LockSpec => Served!MasterSpec
  <2>1. [Coarse!MasterNext]_Coarse!masterVars <=> [Served!MasterNext]_Served!masterVars
    BY ServedSteps
  <2>2. Served!MasterInit <=> Coarse!MasterInit
    BY ServedSteps
  <2> QED BY AtomicHandlers, <2>1, <2>2, PTL DEF HandlersAreAtomic, Coarse!MasterSpec, Served!MasterSpec
<1>2. Served!MasterSpec => []Served!NoOvertaking
  BY Served!HandedOutInOrder, MasterAssumption, TaskInfoAssumption, PTL
<1>3. Served!MasterSpec => []Served!KillingIsOnRecord
  BY Served!KillsAreOnRecord, MasterAssumption, TaskInfoAssumption, PTL
<1>4. Served!MasterSpec => Served!OffersAreBacked
  BY Served!OffersBacked, MasterAssumption, TaskInfoAssumption, PTL
<1>5. Served!MasterSpec => Served!NeverHandedOutAgain
  BY Served!HandedOutForGood, MasterAssumption, TaskInfoAssumption, PTL
<1>6. Served!NoOvertaking <=> Coarse!NoOvertaking
  BY Zenon DEF Served!NoOvertaking, Coarse!NoOvertaking
<1>7. Served!KillingIsOnRecord <=> Coarse!KillingIsOnRecord
  BY Zenon DEF Served!KillingIsOnRecord, Coarse!KillingIsOnRecord
<1>8. Served!OffersAreBacked <=> Coarse!OffersAreBacked
  <2>1. \A a, r : /\ Served!ToTasks(a, r) = Coarse!ToTasks(a, r)
                  /\ Served!ToOffers(a, r) = Coarse!ToOffers(a, r)
    BY Zenon DEF Served!ToTasks, Coarse!ToTasks, Served!ToOffers, Coarse!ToOffers, Served!Units, Coarse!Units,
       Served!Handable, Coarse!Handable, Served!TasksOn, Coarse!TasksOn
  <2>2. \A S : Served!Cardinality(S) = Coarse!Cardinality(S)
    BY Zenon DEF Served!Cardinality, Coarse!Cardinality
  <2>3. [\A k \in DOMAIN offers' \ DOMAIN offers :
           \A a \in Agent, r \in Resource \ Device :
             offers'[k].free[a][r] > 0 =>
               /\ a \in DOMAIN settled.agents /\ now - (settled.lastPing)[a] <= StaleAfter
               /\ offers'[k].free[a][r] + Served!Cardinality(Served!ToTasks(a, r))
                    + Served!Cardinality(Served!ToOffers(a, r)) <= (settled.agents)[a][r]]_Served!masterVars
        <=>
        [\A k \in DOMAIN offers' \ DOMAIN offers :
           \A a \in Agent, r \in Resource \ Device :
             offers'[k].free[a][r] > 0 =>
               /\ a \in DOMAIN settled.agents /\ now - (settled.lastPing)[a] <= StaleAfter
               /\ offers'[k].free[a][r] + Coarse!Cardinality(Coarse!ToTasks(a, r))
                    + Coarse!Cardinality(Coarse!ToOffers(a, r)) <= (settled.agents)[a][r]]_Coarse!masterVars
    BY <2>1, <2>2, ServedSteps
  <2> QED BY <2>3, PTL DEF Served!OffersAreBacked, Coarse!OffersAreBacked
<1>9. Served!NeverHandedOutAgain <=> Coarse!NeverHandedOutAgain
  <2>1. [NotAgain(Served!Handable(settled.tasks), Served!Handable((settled.tasks)'))]_Served!masterVars
        <=> [NotAgain(Coarse!Handable(settled.tasks), Coarse!Handable((settled.tasks)'))]_Coarse!masterVars
    BY ServedSteps DEF Served!Handable, Coarse!Handable
  <2> QED BY <2>1, PTL DEF Served!NeverHandedOutAgain, Coarse!NeverHandedOutAgain
<1>10. Served!MasterSpec => []Served!PongsFitPings
  BY Served!AnswersFit, MasterAssumption, TaskInfoAssumption, PTL
<1>11. Served!PongsFitPings <=> Coarse!PongsFitPings
  <2>1. \A S, a : Served!ReportsOver(S \cap Served!TasksOn(a)) = Coarse!ReportsOver(S \cap Coarse!TasksOn(a))
    BY Zenon DEF Served!ReportsOver, Coarse!ReportsOver, Served!TasksOn, Coarse!TasksOn,
       Served!ReportedState, Coarse!ReportedState
  <2> DEFINE Fits(p, reports) ==
        /\ p.run \notin DOMAIN reports
        /\ p.run = NoTask => p.kill \in DOMAIN reports \cup {NoTask}
  <2>2. \A a, reports : Fits(Served!Pong(a, reports), reports) <=> Fits(Coarse!Pong(a, reports), reports)
    BY ServedPong
  <2> QED BY <2>1, <2>2, Zenon DEF Served!PongsFitPings, Coarse!PongsFitPings
<1> QED BY <1>1, <1>2, <1>3, <1>4, <1>5, <1>6, <1>7, <1>8, <1>9, <1>10, <1>11, PTL
=============================================================================
