----------------------------- MODULE Scheduler -----------------------------
(***************************************************************************)
(* The life of the daemon's tasks: the HTTP server, the task of each job   *)
(* and the task that controls the shutdown.  On Ctrl-C the server drains   *)
(* its requests, then the watch channel tells every task to close.  A job  *)
(* that is not executing goes to a barrier of which the controller is one  *)
(* more party; the controller waits for the barrier or for a timeout, and  *)
(* then the process ends with whatever still runs.                         *)
(*                                                                         *)
(* Time is left out: the schedule of a sleeping job may fire at any time,  *)
(* an execution takes any time, and the timeout may come at any time once  *)
(* its clock runs.  When the schedule and the closing of the channel are   *)
(* both ready, select! takes either.                                       *)
(*                                                                         *)
(* Process adds the start-up, the end by a signal and the restarts.        *)
(***************************************************************************)
EXTENDS Naturals, FiniteSets

CONSTANTS
  Job,         \* the registered jobs
  Exhausted,   \* those whose cron schedule has no next occurrence
  MaxRequests  \* bound: HTTP requests handled at the same time

ASSUME JobAssumption == IsFiniteSet(Job) /\ Exhausted \subseteq Job
ASSUME MaxRequestsAssumption == MaxRequests \in Nat

VARIABLES
  main,        \* run_server: starting, serving, draining, joining or exited
  requests,    \* the HTTP requests in flight
  closed,      \* the value of the watch channel
  task,        \* the task of each job
  due,         \* the jobs whose sleep is over
  arrived,     \* the jobs at the barrier
  controller,  \* the task that handles the shutdown
  runs         \* history: executions started since the channel was closed;
               \* ManyRuns stands for that many or more

\* Bound: a job without a next occurrence may go on for as long as it likes.
ManyRuns == 2

tasks == <<main, requests, closed, task, due, arrived, controller, runs>>

SchedulerTypeOK ==
  /\ main \in {"starting", "serving", "draining", "joining", "exited"}
  /\ requests \in 0 .. MaxRequests
  /\ closed \in BOOLEAN
  /\ task \in [Job -> {"sleeping", "leaving", "running", "waiting", "returned"}]
  /\ due \in SUBSET Job
  /\ arrived \in SUBSET Job
  /\ controller \in {"listening", "racing", "graceful", "timed out"}
  /\ runs \in [Job -> 0 .. ManyRuns]

\* Scheduler::start has spawned the tasks and the server is not bound yet.  A
\* job without a next occurrence does not sleep.
Spawn ==
  /\ main' = "starting"
  /\ requests' = 0
  /\ closed' = FALSE
  /\ task' = [j \in Job |-> "sleeping"]
  /\ due' = Exhausted
  /\ arrived' = {}
  /\ controller' = "listening"
  /\ runs' = [j \in Job |-> 0]

\* Mutant: the controller is forgotten.
BarrierOfJobs == Cardinality(Job)

\* Mutant: one party too many.
BarrierTooLarge == Cardinality(Job) + 2

\* Barrier::new(self.jobs.len() + 1).
BarrierSize == Cardinality(Job) + 1

\* The controller arrives as soon as it starts to race.
Parties == Cardinality(arrived) + (IF controller = "listening" THEN 0 ELSE 1)
BarrierOpen == Parties >= BarrierSize

Alive == main # "exited"

-----------------------------------------------------------------------------
(* run_server and Jobber::shutdown. *)

AcceptRequest ==
  /\ main = "serving"
  /\ requests < MaxRequests
  /\ requests' = requests + 1
  /\ UNCHANGED <<main, closed, task, due, arrived, controller, runs>>

EndRequest ==
  /\ Alive
  /\ requests > 0
  /\ requests' = requests - 1
  /\ UNCHANGED <<main, closed, task, due, arrived, controller, runs>>

\* The server stops to accept requests.
CtrlC ==
  /\ main = "serving"
  /\ main' = "draining"
  /\ UNCHANGED <<requests, closed, task, due, arrived, controller, runs>>

\* The last request is answered: the channel is closed.
Shutdown ==
  /\ main = "draining"
  /\ requests = 0
  /\ main' = "joining"
  /\ closed' = TRUE
  /\ UNCHANGED <<requests, task, due, arrived, controller, runs>>

\* The controller is done: main returns, and the runtime drops its tasks.
Exit ==
  /\ main = "joining"
  /\ controller \in {"graceful", "timed out"}
  /\ main' = "exited"
  /\ UNCHANGED <<requests, closed, task, due, arrived, controller, runs>>

-----------------------------------------------------------------------------
(* Scheduler::schedule_job. *)

\* The schedule of a sleeping job fires.
Fire(j) ==
  /\ Alive
  /\ task[j] = "sleeping"
  /\ j \notin due
  /\ due' = due \cup {j}
  /\ UNCHANGED <<main, requests, closed, task, arrived, controller, runs>>

Start(j) ==
  /\ Alive
  /\ task[j] = "sleeping"
  /\ j \in due
  /\ task' = [task EXCEPT ![j] = "running"]
  /\ runs' = IF closed /\ runs[j] < ManyRuns THEN [runs EXCEPT ![j] = @ + 1] ELSE runs
  /\ UNCHANGED <<main, requests, closed, due, arrived, controller>>

\* Mutant: a closed channel does not count before the next sleep is over.
FinishAndSleep(j) ==
  /\ Alive
  /\ task[j] = "running"
  /\ due' = due \ ({j} \ Exhausted)
  /\ task' = [task EXCEPT ![j] = "sleeping"]
  /\ UNCHANGED <<main, requests, closed, arrived, controller, runs>>

\* The execution returns, with an error or not.  The next occurrence is in the
\* future, so a channel found closed is the only branch ready in the next
\* select!; without a next occurrence, both are.
Finish(j) ==
  /\ Alive
  /\ task[j] = "running"
  /\ due' = due \ ({j} \ Exhausted)
  /\ task' = [task EXCEPT ![j] =
                IF closed /\ j \notin Exhausted THEN "leaving" ELSE "sleeping"]
  /\ UNCHANGED <<main, requests, closed, arrived, controller, runs>>

\* The channel is found closed: the job goes to the barrier.
Stop(j) ==
  /\ Alive
  /\ closed
  /\ task[j] \in {"sleeping", "leaving"}
  /\ task' = [task EXCEPT ![j] = "waiting"]
  /\ arrived' = arrived \cup {j}
  /\ UNCHANGED <<main, requests, closed, due, controller, runs>>

\* Mutant: the task does not wait for the barrier.
ReturnAtOnce(j) ==
  /\ Alive
  /\ task[j] = "waiting"
  /\ task' = [task EXCEPT ![j] = "returned"]
  /\ UNCHANGED <<main, requests, closed, due, arrived, controller, runs>>

\* The barrier lets the job go, and its task returns.
Return(j) ==
  /\ Alive
  /\ task[j] = "waiting"
  /\ BarrierOpen
  /\ task' = [task EXCEPT ![j] = "returned"]
  /\ UNCHANGED <<main, requests, closed, due, arrived, controller, runs>>

-----------------------------------------------------------------------------
(* The task of the controller, in Scheduler::start. *)

Race ==
  /\ closed
  /\ controller = "listening"
  /\ controller' = "racing"
  /\ UNCHANGED <<main, requests, closed, task, due, arrived, runs>>

Graceful ==
  /\ controller = "racing"
  /\ BarrierOpen
  /\ controller' = "graceful"
  /\ UNCHANGED <<main, requests, closed, task, due, arrived, runs>>

\* Mutant: no limit on the wait for the barrier.
NoTimeout == BarrierOpen /\ Graceful

Timeout ==
  /\ controller = "racing"
  /\ controller' = "timed out"
  /\ UNCHANGED <<main, requests, closed, task, due, arrived, runs>>

-----------------------------------------------------------------------------
JobStep(j) == Fire(j) \/ Start(j) \/ Finish(j) \/ Stop(j) \/ Return(j)
ControllerStep == Race \/ Graceful \/ Timeout

SchedulerStep ==
  \/ AcceptRequest \/ EndRequest \/ CtrlC \/ Shutdown
  \/ \E j \in Job : JobStep(j)
  \/ ControllerStep

\* The requests end, and main and the controller are polled once the channel or
\* the barrier wakes them.  Nothing is assumed of the jobs or of the timer.
SchedulerFairness ==
  /\ WF_tasks(EndRequest) /\ WF_tasks(Shutdown) /\ WF_tasks(Exit)
  /\ WF_tasks(Race) /\ WF_tasks(Graceful)

TimerFires == WF_tasks(Timeout)

\* An execution returns, a ready task is polled, and select! does not prefer
\* the schedule to the channel for ever: it picks a ready branch at random.
JobsReturn ==
  \A j \in Job : WF_tasks(Finish(j)) /\ SF_tasks(Stop(j)) /\ WF_tasks(Return(j))

-----------------------------------------------------------------------------
(* Properties. *)

\* A shutdown reported as graceful leaves no job behind: each one is at the
\* barrier or past it, so nothing is cut off when the process ends.
GracefulMeansStopped ==
  controller = "graceful" => \A j \in Job : task[j] \in {"waiting", "returned"}

\* The barrier keeps every task until the last one has stopped, also after the
\* controller has given up on it.
ReturnTogether ==
  (\E j \in Job : task[j] = "returned") =>
    \A j \in Job : task[j] \in {"waiting", "returned"}

\* Once the channel is closed a job whose schedule has a next occurrence starts
\* one more execution at most, when the schedule and the channel were ready
\* together.  One without a next occurrence may start any number of them: there,
\* select! has both branches ready at each turn.
AtMostOneMoreRun == \A j \in Job \ Exhausted : runs[j] <= 1

\* Ctrl-C ends the process, even if an execution never returns.
ShutdownEnds == TimerFires => (main = "draining" ~> main = "exited")

\* Without the timer too, if the executions return: the jobs, those with an
\* exhausted schedule included, and the controller all reach the barrier, or
\* the process is killed.
GracefulInTheEnd ==
  JobsReturn => (closed ~> (controller \in {"graceful", "timed out"} \/ ~Alive))

=============================================================================
