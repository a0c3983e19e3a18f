--------------------------- MODULE Process_proofs ---------------------------
(***************************************************************************)
(* Proofs about the life of the process, for any set of jobs, any of them  *)
(* with an exhausted schedule, and any number of requests.                 *)
(***************************************************************************)
EXTENDS Process, FiniteSetTheorems, TLAPS

-----------------------------------------------------------------------------
(* The inductive invariant. *)

Stopped == {"waiting", "returned"}

\* The barrier counts the jobs that stopped, and the controller once the channel
\* is closed.
Barrier ==
  /\ arrived = {j \in Job : task[j] \in Stopped}
  /\ controller # "listening" => closed
  /\ controller = "graceful" => arrived = Job
  /\ \A j \in Job : task[j] = "returned" => arrived = Job

\* A job with a next occurrence that started after the closing is not asleep
\* again: it goes to the barrier, as its next schedule is ahead.
LastRuns ==
  \A j \in Job \ Exhausted :
    \/ runs[j] = 0
    \/ runs[j] = 1 /\ closed /\ task[j] # "sleeping"

\* The file holds the migrations recorded in it, and all of them from the
\* moment a job is spawned, when the schedules have been parsed too.
Started == {"scheduled", "bound", "up"}

Migrated ==
  /\ schema = SchemaAfter(applied)
  /\ boot \in Started => applied = Len(Migrations) /\ parsable
  /\ Alive <=> boot \in Started

ProcessInv == ProcessTypeOK /\ Barrier /\ LastRuns /\ Migrated

-----------------------------------------------------------------------------
(* The migrations. *)

LEMMA SixMigrations ==
  /\ Len(Migrations) = 6
  /\ DOMAIN Migrations = 1 .. 6
BY DEF Migrations

\* A new file has no table.
LEMMA NoMigration == SchemaAfter(0) = {}
BY DEF SchemaAfter

\* One more migration changes the schema as its script does.
LEMMA OneMigration ==
  ASSUME NEW k \in Nat
  PROVE  SchemaAfter(k + 1) = Changed(SchemaAfter(k), Migrations[k + 1])
<1> DEFINE Add(i) == Migrations[i].add
           Drop(i) == Migrations[i].drop
<1>def. \A n \in Nat : \A c : c \in SchemaAfter(n) <=>
          \E i \in 1 .. n : c \in Add(i) /\ \A m \in i + 1 .. n : c \notin Drop(m)
  BY DEF SchemaAfter
<1> HIDE DEF Add, Drop
<1>1. ASSUME NEW c
      PROVE  c \in SchemaAfter(k + 1) <=>
               (c \in SchemaAfter(k) /\ c \notin Drop(k + 1)) \/ c \in Add(k + 1)
  <2>1. k + 1 \in Nat /\ 1 .. k + 1 = (1 .. k) \cup {k + 1}
    OBVIOUS
  <2>2. \A i \in 1 .. k : i + 1 .. k + 1 = (i + 1 .. k) \cup {k + 1}
    OBVIOUS
  <2>3. (k + 1) + 1 .. k + 1 = {}
    OBVIOUS
  <2>4. ASSUME c \in SchemaAfter(k + 1)
        PROVE  (c \in SchemaAfter(k) /\ c \notin Drop(k + 1)) \/ c \in Add(k + 1)
    <3>1. PICK i \in 1 .. k + 1 : c \in Add(i) /\ \A m \in i + 1 .. k + 1 : c \notin Drop(m)
      BY <1>def, <2>1, <2>4
    <3>2. CASE i = k + 1
      BY <3>1, <3>2
    <3>3. CASE i \in 1 .. k
      BY <1>def, <2>2, <3>1, <3>3
    <3> QED
      BY <2>1, <3>2, <3>3
  <2>5. ASSUME c \in Add(k + 1) PROVE c \in SchemaAfter(k + 1)
    BY <1>def, <2>1, <2>3, <2>5
  <2>6. ASSUME c \in SchemaAfter(k), c \notin Drop(k + 1) PROVE c \in SchemaAfter(k + 1)
    <3>1. PICK i \in 1 .. k : c \in Add(i) /\ \A m \in i + 1 .. k : c \notin Drop(m)
      BY <1>def, <2>6
    <3>2. \A m \in i + 1 .. k + 1 : c \notin Drop(m)
      BY <2>2, <2>6, <3>1
    <3> QED
      BY <1>def, <2>1, <3>1, <3>2
  <2> QED
    BY <2>4, <2>5, <2>6
<1> QED
  BY <1>1 DEF Changed, Add, Drop

\* All of them lead to the tables of the queries.
LEMMA AllMigrations == SchemaAfter(Len(Migrations)) = Tables
<1>m. /\ Migrations[1] = CreatePrices /\ Migrations[2] = BlockAndAccount
      /\ Migrations[3] = StatusTable /\ Migrations[4] = UserAndSession
      /\ Migrations[5] = AccountPendingUpdate /\ Migrations[6] = PriceMore
  BY DEF Migrations
<1>1. SchemaAfter(1) = Changed({}, CreatePrices)
  BY <1>m, NoMigration, OneMigration
<1>2. SchemaAfter(2) = Changed(SchemaAfter(1), BlockAndAccount)
  BY <1>m, OneMigration
<1>3. SchemaAfter(3) = Changed(SchemaAfter(2), StatusTable)
  BY <1>m, OneMigration
<1>4. SchemaAfter(4) = Changed(SchemaAfter(3), UserAndSession)
  BY <1>m, OneMigration
<1>5. SchemaAfter(5) = Changed(SchemaAfter(4), AccountPendingUpdate)
  BY <1>m, OneMigration
<1>6. SchemaAfter(6) = Changed(SchemaAfter(5), PriceMore)
  BY <1>m, OneMigration
<1>7. SchemaAfter(4) = UNION {CreatePrices.add, BlockAndAccount.add, StatusTable.add, UserAndSession.add}
  BY <1>1, <1>2, <1>3, <1>4 DEF Changed, CreatePrices, BlockAndAccount, StatusTable, UserAndSession
<1>8. SchemaAfter(6) = Tables
  BY <1>5, <1>6, <1>7, SMTT(60) DEF Changed, Columns, Tables, CreatePrices, BlockAndAccount,
     StatusTable, UserAndSession, AccountPendingUpdate, PriceMore
<1> QED
  BY <1>8, SixMigrations

-----------------------------------------------------------------------------
(* The barrier. *)

\* The controller is one party, so the barrier opens for no one before the last
\* job is there.
LEMMA OpenForAll ==
  ASSUME arrived \subseteq Job, BarrierOpen
  PROVE  arrived = Job
<1>1. /\ IsFiniteSet(Job) /\ IsFiniteSet(arrived)
      /\ Cardinality(arrived) <= Cardinality(Job)
      /\ Cardinality(arrived) = Cardinality(Job) => arrived = Job
  BY JobAssumption, FS_Subset
<1>2. Cardinality(arrived) \in Nat /\ Cardinality(Job) \in Nat
  BY <1>1, FS_CardinalityType
<1> QED
  BY <1>1, <1>2 DEF BarrierOpen, Parties, BarrierSize

-----------------------------------------------------------------------------
(* The tasks, started or gone. *)

TaskInv == SchedulerTypeOK /\ Barrier /\ LastRuns

LEMMA FreshTasks == ASSUME Gone \/ Spawn PROVE TaskInv'
<1>1. SchedulerTypeOK'
  <2>1. closed' \in BOOLEAN
    BY DEF Gone, Spawn
  <2>2. CASE Gone
    BY <2>1, <2>2, MaxRequestsAssumption DEF Gone, SchedulerTypeOK, ManyRuns
  <2>3. CASE Spawn
    BY <2>1, <2>3, JobAssumption, MaxRequestsAssumption DEF Spawn, SchedulerTypeOK, ManyRuns
  <2> QED
    BY <2>2, <2>3
<1>2. Barrier'
  BY DEF Gone, Spawn, Barrier, Stopped
<1>3. LastRuns'
  BY DEF Gone, Spawn, LastRuns
<1> QED
  BY <1>1, <1>2, <1>3 DEF TaskInv

\* The steps that leave the jobs, the channel and the barrier alone.
LEMMA JobsUntouched ==
  ASSUME TaskInv, SchedulerTypeOK',
         UNCHANGED <<task, arrived, controller, runs>>, closed' = closed \/ closed' = TRUE
  PROVE  TaskInv'
BY DEF TaskInv, Barrier, LastRuns, Stopped

LEMMA ServerStep ==
  ASSUME TaskInv, AcceptRequest \/ EndRequest \/ CtrlC \/ Shutdown \/ Exit
  PROVE  TaskInv'
<1>1. closed' = closed \/ closed' = TRUE
  BY DEF AcceptRequest, EndRequest, CtrlC, Shutdown, Exit
<1>2. UNCHANGED <<task, arrived, controller, runs>>
  BY DEF AcceptRequest, EndRequest, CtrlC, Shutdown, Exit
<1>3. closed' \in BOOLEAN
  BY <1>1 DEF TaskInv, SchedulerTypeOK
<1>4. requests' \in 0 .. MaxRequests /\ due' = due
  <2>1. requests \in 0 .. MaxRequests
    BY DEF TaskInv, SchedulerTypeOK
  <2>2. /\ due' = due
        /\ \/ requests < MaxRequests /\ requests' = requests + 1
           \/ requests > 0 /\ requests' = requests - 1
           \/ requests' = requests
    BY DEF AcceptRequest, EndRequest, CtrlC, Shutdown, Exit
  <2> QED
    BY <2>1, <2>2, MaxRequestsAssumption
<1>5. main' \in {main, "draining", "joining", "exited"}
  BY DEF AcceptRequest, EndRequest, CtrlC, Shutdown, Exit
<1>6. SchedulerTypeOK'
  BY <1>2, <1>3, <1>4, <1>5 DEF TaskInv, SchedulerTypeOK
<1> QED
  BY <1>1, <1>2, <1>6, JobsUntouched

LEMMA JobKeeps == ASSUME TaskInv, NEW j \in Job, JobStep(j) PROVE TaskInv'
<1> USE JobAssumption DEF TaskInv
<1>1. CASE Fire(j)
  <2>1. SchedulerTypeOK'
    BY <1>1 DEF SchedulerTypeOK, Fire
  <2> QED
    BY <1>1, <2>1, JobsUntouched DEF Fire
<1>2. CASE Start(j)
  <2>1. /\ runs \in [Job -> 0 .. ManyRuns]
        /\ j \notin Exhausted => runs[j] = 0
    BY <1>2 DEF SchedulerTypeOK, Start, LastRuns
  <2>2. SchedulerTypeOK'
    <3>1. \/ runs' = [runs EXCEPT ![j] = @ + 1] /\ runs[j] < ManyRuns
          \/ runs' = runs
      BY <1>2 DEF Start
    <3>2. runs' \in [Job -> 0 .. ManyRuns]
      BY <2>1, <3>1 DEF ManyRuns
    <3> QED
      BY <1>2, <3>2 DEF SchedulerTypeOK, Start
  <2>3. Barrier'
    BY <1>2 DEF Barrier, Stopped, SchedulerTypeOK, Start
  <2>4. LastRuns'
    <3>1. CASE closed /\ j \notin Exhausted
      <4>1. runs' = [runs EXCEPT ![j] = @ + 1]
        BY <1>2, <2>1, <3>1 DEF Start, ManyRuns
      <4>2. runs' = [runs EXCEPT ![j] = 1]
        BY <2>1, <3>1, <4>1
      <4> QED
        BY <1>2, <3>1, <4>2 DEF LastRuns, SchedulerTypeOK, Start
    <3>2. CASE ~closed
      BY <1>2, <2>1, <3>2 DEF LastRuns, SchedulerTypeOK, Start
    <3>3. CASE j \in Exhausted
      <4>1. \A i \in Job \ Exhausted : i # j /\ runs'[i] = runs[i] /\ task'[i] = task[i]
        BY <1>2, <2>1, <3>3 DEF SchedulerTypeOK, Start
      <4> QED
        BY <1>2, <4>1 DEF LastRuns, Start
    <3> QED
      BY <3>1, <3>2, <3>3
  <2> QED
    BY <2>2, <2>3, <2>4
<1>3. CASE Finish(j)
  <2>1. SchedulerTypeOK'
    BY <1>3 DEF SchedulerTypeOK, Finish
  <2>2. Barrier'
    BY <1>3 DEF Barrier, Stopped, SchedulerTypeOK, Finish
  <2>3. LastRuns'
    BY <1>3 DEF LastRuns, SchedulerTypeOK, Finish
  <2> QED
    BY <2>1, <2>2, <2>3
<1>4. CASE Stop(j)
  <2>1. SchedulerTypeOK'
    BY <1>4 DEF SchedulerTypeOK, Stop
  <2>2. Barrier'
    BY <1>4 DEF Barrier, Stopped, SchedulerTypeOK, Stop
  <2>3. LastRuns'
    BY <1>4 DEF LastRuns, SchedulerTypeOK, Stop
  <2> QED
    BY <2>1, <2>2, <2>3
<1>5. CASE Return(j)
  <2>1. arrived = Job
    BY <1>5, OpenForAll DEF SchedulerTypeOK, Return
  <2>2. SchedulerTypeOK'
    BY <1>5 DEF SchedulerTypeOK, Return
  <2>3. Barrier'
    BY <1>5, <2>1 DEF Barrier, Stopped, SchedulerTypeOK, Return
  <2>4. LastRuns'
    BY <1>5 DEF LastRuns, SchedulerTypeOK, Return
  <2> QED
    BY <2>2, <2>3, <2>4
<1> QED
  BY <1>1, <1>2, <1>3, <1>4, <1>5 DEF JobStep

LEMMA ControllerKeeps == ASSUME TaskInv, ControllerStep PROVE TaskInv'
<1> USE DEF TaskInv
<1>1. SchedulerTypeOK'
  BY DEF SchedulerTypeOK, ControllerStep, Race, Graceful, Timeout
<1>2. LastRuns'
  <2>1. UNCHANGED <<closed, task, runs>>
    BY DEF ControllerStep, Race, Graceful, Timeout
  <2> QED
    BY <2>1 DEF LastRuns
<1>3. CASE Race \/ Timeout
  BY <1>1, <1>2, <1>3 DEF Barrier, Stopped, Race, Timeout
<1>4. CASE Graceful
  <2>1. arrived = Job
    BY <1>4, OpenForAll DEF SchedulerTypeOK, Graceful
  <2> QED
    BY <1>1, <1>2, <1>4, <2>1 DEF Barrier, Stopped, Graceful
<1> QED
  BY <1>3, <1>4 DEF ControllerStep

-----------------------------------------------------------------------------
(* The process. *)

\* The database holds only columns of the migrations.
LEMMA MigratedType ==
  ASSUME NEW k \in 0 .. Len(Migrations)
  PROVE  SchemaAfter(k) \subseteq UNION {Migrations[i].add : i \in DOMAIN Migrations}
BY SixMigrations DEF SchemaAfter

LEMMA ProcessInit == ASSUME Init PROVE ProcessInv
<1>1. ProcessTypeOK
  <2>1. closed \in BOOLEAN
    BY DEF Init
  <2>2. SchedulerTypeOK
    BY <2>1, JobAssumption, MaxRequestsAssumption DEF Init, SchedulerTypeOK, ManyRuns
  <2>3. schema \subseteq UNION {Migrations[i].add : i \in DOMAIN Migrations}
    BY MigratedType DEF Init
  <2> QED
    BY <2>2, <2>3 DEF Init, ProcessTypeOK, Alive
<1>2. Barrier /\ LastRuns
  BY DEF Init, Barrier, LastRuns, Stopped
<1>3. Migrated
  BY DEF Init, Migrated, Alive, Started
<1> QED
  BY <1>1, <1>2, <1>3 DEF ProcessInv

LEMMA StartUpKeeps == ASSUME ProcessInv, StartUp PROVE ProcessInv'
<1> USE SixMigrations DEF ProcessInv
<1>1. CASE Load
  <2>1. TaskInv'
    BY <1>1, FreshTasks DEF Load
  <2>2. Migrated'
    BY <1>1 DEF Load, Gone, Migrated, Alive, Started
  <2>3. ProcessTypeOK'
    BY <1>1, <2>1, <2>2 DEF Load, ProcessTypeOK, TaskInv, Migrated, Started
  <2> QED
    BY <2>1, <2>2, <2>3 DEF TaskInv
<1>2. CASE Migrate
  <2>1. TaskInv'
    BY <1>2 DEF Migrate, TaskInv, ProcessTypeOK, SchedulerTypeOK, Barrier, LastRuns, Stopped, tasks
  <2>2. applied' \in 0 .. Len(Migrations) /\ schema' = SchemaAfter(applied')
    BY <1>2, OneMigration DEF Migrate, Migrated, ProcessTypeOK
  <2>3. schema' \subseteq UNION {Migrations[i].add : i \in DOMAIN Migrations}
    BY <2>2, MigratedType
  <2>4. Migrated'
    BY <1>2, <2>2 DEF Migrate, Migrated, Alive, Started, tasks
  <2>5. ProcessTypeOK'
    BY <1>2, <2>1, <2>2, <2>3, <2>4 DEF Migrate, ProcessTypeOK, TaskInv, Migrated, Started
  <2> QED
    BY <2>1, <2>4, <2>5 DEF TaskInv
<1>3. CASE PrepareJobs
  <2>1. TaskInv'
    BY <1>3, FreshTasks DEF PrepareJobs
  <2>2. Migrated'
    BY <1>3 DEF PrepareJobs, Spawn, Migrated, Alive, Started
  <2>3. ProcessTypeOK'
    BY <1>3, <2>1, <2>2 DEF PrepareJobs, ProcessTypeOK, TaskInv, Migrated, Started
  <2> QED
    BY <2>1, <2>2, <2>3 DEF TaskInv
<1>4. CASE Bind
  <2>1. TaskInv'
    BY <1>4 DEF Bind, TaskInv, ProcessTypeOK, SchedulerTypeOK, Barrier, LastRuns, Stopped, tasks
  <2>2. Migrated'
    BY <1>4 DEF Bind, Migrated, Alive, Started, tasks
  <2>3. ProcessTypeOK'
    BY <1>4, <2>1, <2>2 DEF Bind, ProcessTypeOK, TaskInv, Migrated, Started
  <2> QED
    BY <2>1, <2>2, <2>3 DEF TaskInv
<1>5. CASE Serve
  <2>1. SchedulerTypeOK'
    BY <1>5 DEF Serve, ProcessTypeOK, SchedulerTypeOK
  <2>2. TaskInv'
    BY <1>5, <2>1, JobsUntouched DEF Serve, ProcessTypeOK, TaskInv
  <2>3. Migrated'
    BY <1>5 DEF Serve, Migrated, Alive, Started
  <2>4. ProcessTypeOK'
    BY <1>5, <2>1, <2>3 DEF Serve, ProcessTypeOK, Migrated, Started
  <2> QED
    BY <2>2, <2>3, <2>4 DEF TaskInv
<1>6. CASE Abort
  <2>1. TaskInv'
    BY <1>6, FreshTasks DEF Abort
  <2>2. Migrated'
    BY <1>6 DEF Abort, Gone, Migrated, Alive, Started
  <2>3. ProcessTypeOK'
    BY <1>6, <2>1, <2>2 DEF Abort, ProcessTypeOK, TaskInv, Migrated, Started
  <2> QED
    BY <2>1, <2>2, <2>3 DEF TaskInv
<1> QED
  BY <1>1, <1>2, <1>3, <1>4, <1>5, <1>6 DEF StartUp

\* The tasks run only while the process lives, and no step of theirs starts it.
LEMMA RunKeeps == ASSUME ProcessInv, Run PROVE ProcessInv'
<1>1. TaskInv'
  <2>1. TaskInv
    BY DEF ProcessInv, ProcessTypeOK, TaskInv
  <2> QED
    BY <2>1, ServerStep, JobKeeps, ControllerKeeps DEF Run, SchedulerStep
<1>2. Alive' <=> Alive
  BY DEF Run, SchedulerStep, Alive, AcceptRequest, EndRequest, CtrlC, Shutdown,
         JobStep, Fire, Start, Finish, Stop, Return, ControllerStep, Race, Graceful, Timeout
<1>3. Migrated'
  BY <1>2 DEF ProcessInv, Run, Migrated
<1>4. ProcessTypeOK'
  BY <1>1, <1>3 DEF ProcessInv, Run, ProcessTypeOK, TaskInv, Migrated, Started
<1> QED
  BY <1>1, <1>3, <1>4 DEF ProcessInv, TaskInv

LEMMA EndKeeps == ASSUME ProcessInv, ExitMain \/ Kill PROVE ProcessInv'
<1>1. TaskInv'
  <2>1. TaskInv
    BY DEF ProcessInv, ProcessTypeOK, TaskInv
  <2> QED
    BY <2>1, ServerStep, FreshTasks DEF ExitMain, Kill
<1>2. Migrated'
  BY DEF ProcessInv, ExitMain, Exit, Kill, Gone, Migrated, Alive, Started
<1>3. ProcessTypeOK'
  BY <1>1, <1>2 DEF ProcessInv, ExitMain, Kill, ProcessTypeOK, TaskInv, Migrated, Started
<1> QED
  BY <1>1, <1>2, <1>3 DEF ProcessInv, TaskInv

LEMMA OtherKeeps == ASSUME ProcessInv, Edit \/ UNCHANGED vars PROVE ProcessInv'
<1>1. UNCHANGED <<tasks, boot, applied, schema, parsable>> /\ flaw' \in Flaws
  BY DEF ProcessInv, ProcessTypeOK, Edit, Flaws, vars
<1>2. ProcessTypeOK'
  BY <1>1 DEF ProcessInv, ProcessTypeOK, SchedulerTypeOK, Alive, tasks
<1>3. Barrier' /\ LastRuns' /\ Migrated'
  BY <1>1 DEF ProcessInv, Barrier, LastRuns, Stopped, Migrated, Alive, tasks
<1> QED
  BY <1>2, <1>3 DEF ProcessInv

-----------------------------------------------------------------------------
(* The theorems. *)

\* The invariant holds in every run of the process: start-ups that fail, kills
\* at any moment and the restarts by systemd included.
THEOREM ProcessInvariant == Spec => []ProcessInv
<1>1. Init => ProcessInv
  BY ProcessInit
<1>2. ProcessInv /\ [Next]_vars => ProcessInv'
  BY StartUpKeeps, RunKeeps, EndKeeps, OtherKeeps DEF Next
<1> QED
  BY <1>1, <1>2, PTL DEF Spec

\* The variables keep their types.
THEOREM ProcessTypeCorrect == Spec => []ProcessTypeOK
<1>1. ProcessInv => ProcessTypeOK
  BY DEF ProcessInv
<1> QED
  BY <1>1, ProcessInvariant, PTL

\* A shutdown reported as graceful leaves no job behind: Scheduler::start.
THEOREM GracefulStops == Spec => []GracefulMeansStopped
<1>1. ProcessInv => GracefulMeansStopped
  BY DEF ProcessInv, Barrier, Stopped, GracefulMeansStopped
<1> QED
  BY <1>1, ProcessInvariant, PTL

\* No task of a job returns before all have stopped: the barrier of
\* Scheduler::schedule_job.
THEOREM NoneReturnsAlone == Spec => []ReturnTogether
<1>1. ProcessInv => ReturnTogether
  BY DEF ProcessInv, Barrier, Stopped, ReturnTogether
<1> QED
  BY <1>1, ProcessInvariant, PTL

\* After the channel is closed a job whose schedule has a next occurrence starts
\* one more execution at most: select! of Scheduler::schedule_job.  Of a job
\* without one nothing is said, and it may start any number of them.
THEOREM OneMoreRun == Spec => []AtMostOneMoreRun
<1>1. ProcessInv => AtMostOneMoreRun
  BY DEF ProcessInv, LastRuns, AtMostOneMoreRun
<1> QED
  BY <1>1, ProcessInvariant, PTL

\* No job and no request meets a schedule that does not parse or a schema other
\* than the one of the queries, wherever the migrations were interrupted:
\* run_migrations and prepare_jobs before the jobs.
THEOREM JobsMeetTheirSchema == Spec => []ReadyBeforeUse
<1>1. ProcessInv => ReadyBeforeUse
  BY AllMigrations DEF ProcessInv, Migrated, ReadyBeforeUse
<1> QED
  BY <1>1, ProcessInvariant, PTL

=============================================================================
