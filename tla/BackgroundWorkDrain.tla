------------------------ MODULE BackgroundWorkDrain ------------------------
(***************************************************************************)
(* The dedicated backend worker of graph_based_slam                        *)
(* (include/graph_based_slam/background_work_drain.hpp): one thread that   *)
(* runs a coalescing drain and blocking serialized tasks, the threads that *)
(* call request() and runSerialized(), and the owner that calls stop().    *)
(*                                                                         *)
(* One action is one critical section of mutex_, or one step outside it    *)
(* (a notification after the lock is gone, a task or drain body).  A       *)
(* thread parked on a condition variable moves only when it is notified    *)
(* or wakes spuriously, so a lost wakeup shows.                            *)
(***************************************************************************)
EXTENDS Naturals, Sequences

CONSTANT Callers    \* threads that call request() and runSerialized()

VARIABLES
  stopping,         \* stopping_, and stop_requested_ set in the same section
  drainPending,     \* drain_pending_
  jobs,             \* jobs_: callers whose task is queued, oldest first
  job,              \* the Job record of each caller's latest task
  drainError,       \* drain_error_ holds an exception
  worker,           \* where the worker thread is
  current,          \* the caller whose task the worker took last
  caller,           \* where each calling thread is
  reply,            \* how each thread's latest call ended, or will end
  executed,         \* history: times the latest task of a caller was started
  owner             \* where the thread that calls stop() is

vars == <<stopping, drainPending, jobs, job, drainError, worker, current,
          caller, reply, executed, owner>>

Job == [finished : BOOLEAN, ran : BOOLEAN, error : BOOLEAN]
NewJob == [finished |-> FALSE, ran |-> FALSE, error |-> FALSE]

Replies == {"none", "requested", "ran", "refused", "task_error", "drain_error"}

InQueue(c) == \E i \in 1..Len(jobs) : jobs[i] = c

TypeOK ==
  /\ stopping \in BOOLEAN
  /\ drainPending \in BOOLEAN
  /\ jobs \in Seq(Callers)
  /\ job \in [Callers -> Job]
  /\ drainError \in BOOLEAN
  /\ worker \in {"awake", "asleep", "task", "drain", "exited"}
  /\ current \in Callers
  /\ caller \in [Callers -> {"idle", "notifying", "blocked", "woken"}]
  /\ reply \in [Callers -> Replies]
  /\ executed \in [Callers -> Nat]
  /\ owner \in {"running", "notifying", "joining", "joined"}

Init ==
  /\ stopping = FALSE
  /\ drainPending = FALSE
  /\ jobs = <<>>
  /\ job = [c \in Callers |-> NewJob]
  /\ drainError = FALSE
  /\ worker = "awake"
  /\ current \in Callers
  /\ caller = [c \in Callers |-> "idle"]
  /\ reply = [c \in Callers |-> "none"]
  /\ executed = [c \in Callers |-> 0]
  /\ owner = "running"

-----------------------------------------------------------------------------
(* Condition variables: only the worker waits on work_cv_, only callers    *)
(* wait on done_cv_.                                                       *)

\* Mutation: a notification that nobody sends.
SilentNotifyWork == UNCHANGED worker

NotifyWork == worker' = IF worker = "asleep" THEN "awake" ELSE worker

\* Mutation: notify_one instead of notify_all.
NotifyOneCaller ==
  LET blocked == {c \in Callers : caller[c] = "blocked"}
  IN  IF blocked = {} THEN UNCHANGED caller
      ELSE \E c \in blocked : caller' = [caller EXCEPT ![c] = "woken"]

NotifyDone ==
  caller' = [c \in Callers |-> IF caller[c] = "blocked" THEN "woken" ELSE caller[c]]

-----------------------------------------------------------------------------
(* request(): mark and collect a recorded failure under the lock, then     *)
(* notify, then rethrow or return.                                         *)

RequestMark(c) ==
  /\ caller[c] = "idle"
  /\ drainPending' = (drainPending \/ ~stopping)
  /\ drainError' = FALSE
  /\ reply' = [reply EXCEPT ![c] = IF drainError THEN "drain_error" ELSE "requested"]
  /\ caller' = [caller EXCEPT ![c] = "notifying"]
  /\ UNCHANGED <<stopping, jobs, job, worker, current, executed, owner>>

RequestNotify(c) ==
  /\ caller[c] = "notifying"
  /\ NotifyWork
  /\ caller' = [caller EXCEPT ![c] = "idle"]
  /\ UNCHANGED <<stopping, drainPending, jobs, job, drainError, current,
                 reply, executed, owner>>

(* runSerialized(): rethrow a recorded drain failure, refuse once stopping,*)
(* or queue the task, notify and wait in one critical section.             *)

RunRethrow(c) ==
  /\ caller[c] = "idle"
  /\ drainError
  /\ drainError' = FALSE
  /\ reply' = [reply EXCEPT ![c] = "drain_error"]
  /\ executed' = [executed EXCEPT ![c] = 0]
  /\ UNCHANGED <<stopping, drainPending, jobs, job, worker, current, caller, owner>>

RunRefused(c) ==
  /\ caller[c] = "idle"
  /\ ~drainError
  /\ stopping
  /\ reply' = [reply EXCEPT ![c] = "refused"]
  /\ executed' = [executed EXCEPT ![c] = 0]
  /\ UNCHANGED <<stopping, drainPending, jobs, job, drainError, worker, current,
                 caller, owner>>

\* Mutation: the task is queued and the worker not told.
RunQueuedSilently(c) ==
  /\ caller[c] = "idle"
  /\ ~drainError
  /\ ~stopping
  /\ jobs' = Append(jobs, c)
  /\ job' = [job EXCEPT ![c] = NewJob]
  /\ executed' = [executed EXCEPT ![c] = 0]
  /\ caller' = [caller EXCEPT ![c] = "blocked"]
  /\ UNCHANGED <<stopping, drainPending, drainError, worker, current, reply, owner>>

RunQueued(c) ==
  /\ caller[c] = "idle"
  /\ ~drainError
  /\ ~stopping
  /\ jobs' = Append(jobs, c)
  /\ job' = [job EXCEPT ![c] = NewJob]
  /\ executed' = [executed EXCEPT ![c] = 0]
  /\ NotifyWork
  /\ caller' = [caller EXCEPT ![c] = "blocked"]
  /\ UNCHANGED <<stopping, drainPending, drainError, current, reply, owner>>

\* Mutation: any finished task without an exception counts as run.
CallerReturnRan(c) ==
  /\ caller[c] = "woken"
  /\ job[c].finished
  /\ reply' = [reply EXCEPT ![c] = IF job[c].error THEN "task_error" ELSE "ran"]
  /\ job' = [job EXCEPT ![c] = NewJob]
  /\ caller' = [caller EXCEPT ![c] = "idle"]
  /\ UNCHANGED <<stopping, drainPending, jobs, drainError, worker, current,
                 executed, owner>>

\* The wait of runSerialized() re-tests job->finished under the lock; the
\* Job record dies with the call.
CallerReturn(c) ==
  /\ caller[c] = "woken"
  /\ job[c].finished
  /\ reply' = [reply EXCEPT ![c] = IF job[c].error THEN "task_error"
                                   ELSE IF job[c].ran THEN "ran" ELSE "refused"]
  /\ job' = [job EXCEPT ![c] = NewJob]
  /\ caller' = [caller EXCEPT ![c] = "idle"]
  /\ UNCHANGED <<stopping, drainPending, jobs, drainError, worker, current,
                 executed, owner>>

CallerWaitAgain(c) ==
  /\ caller[c] = "woken"
  /\ ~job[c].finished
  /\ caller' = [caller EXCEPT ![c] = "blocked"]
  /\ UNCHANGED <<stopping, drainPending, jobs, job, drainError, worker, current,
                 reply, executed, owner>>

-----------------------------------------------------------------------------
(* run(): the loop top is evaluated in the critical section in which the   *)
(* previous task or drain was booked, or on waking up.                     *)

\* Job records once `done` (at most one job) is booked and, when the loop
\* ends, the queue is discarded.
Booked(done, failed) ==
  [c \in Callers |->
     IF c \in done THEN [finished |-> TRUE, ran |-> TRUE, error |-> failed]
     ELSE IF stopping /\ InQueue(c) THEN [job[c] EXCEPT !.finished = TRUE]
     ELSE job[c]]

\* Mutations: queued tasks are taken before stop() is looked at; the wait
\* does not look at stop() at all.
TakeTask ==
  /\ jobs # <<>>
  /\ current' = Head(jobs)
  /\ jobs' = Tail(jobs)
  /\ executed' = [executed EXCEPT ![Head(jobs)] = @ + 1]
  /\ worker' = "task"
  /\ UNCHANGED drainPending

LoopTopTasksFirst ==
  \/ TakeTask
  \/ /\ jobs = <<>>
     /\ worker' = IF stopping THEN "exited" ELSE IF drainPending THEN "drain" ELSE "asleep"
     /\ drainPending' = (drainPending /\ stopping)
     /\ UNCHANGED <<jobs, current, executed>>

LoopTopDeafToStop ==
  \/ TakeTask
  \/ /\ jobs = <<>>
     /\ worker' = IF drainPending THEN (IF stopping THEN "exited" ELSE "drain") ELSE "asleep"
     /\ drainPending' = FALSE
     /\ UNCHANGED <<jobs, current, executed>>

LoopTop ==
  \/ /\ stopping
     /\ jobs' = <<>>
     /\ worker' = "exited"
     /\ UNCHANGED <<drainPending, current, executed>>
  \/ /\ ~stopping
     /\ jobs # <<>>
     /\ current' = Head(jobs)
     /\ jobs' = Tail(jobs)
     /\ executed' = [executed EXCEPT ![Head(jobs)] = @ + 1]
     /\ worker' = "task"
     /\ UNCHANGED drainPending
  \/ /\ ~stopping
     /\ jobs = <<>>
     /\ drainPending
     /\ drainPending' = FALSE
     /\ worker' = "drain"
     /\ UNCHANGED <<jobs, current, executed>>
  \/ /\ ~stopping
     /\ jobs = <<>>
     /\ ~drainPending
     /\ worker' = "asleep"
     /\ UNCHANGED <<drainPending, jobs, current, executed>>

WorkerWakes ==
  /\ worker = "awake"
  /\ job' = Booked({}, FALSE)
  /\ IF stopping THEN NotifyDone ELSE UNCHANGED caller
  /\ LoopTop
  /\ UNCHANGED <<stopping, drainError, reply, owner>>

\* The task returned, or threw an exception that its caller will see.
TaskEnds(failed) ==
  /\ worker = "task"
  /\ job' = Booked({current}, failed)
  /\ NotifyDone
  /\ LoopTop
  /\ UNCHANGED <<stopping, drainError, reply, owner>>

\* Mutation: the latest drain decides, a success forgets a failure.
DrainEndsLatest(failed) ==
  /\ worker = "drain"
  /\ drainError' = failed
  /\ job' = Booked({}, FALSE)
  /\ IF stopping THEN NotifyDone ELSE UNCHANGED caller
  /\ LoopTop
  /\ UNCHANGED <<stopping, reply, owner>>

\* The drain returned, or threw: the first unreported exception is kept.
DrainEnds(failed) ==
  /\ worker = "drain"
  /\ drainError' = (drainError \/ failed)
  /\ job' = Booked({}, FALSE)
  /\ IF stopping THEN NotifyDone ELSE UNCHANGED caller
  /\ LoopTop
  /\ UNCHANGED <<stopping, reply, owner>>

-----------------------------------------------------------------------------
(* stop() and the destructor.                                              *)

StopMark ==
  /\ owner = "running"
  /\ stopping' = TRUE
  /\ owner' = "notifying"
  /\ UNCHANGED <<drainPending, jobs, job, drainError, worker, current, caller,
                 reply, executed>>

\* Mutation: stop() joins a worker it has not notified.
StopSilently ==
  /\ owner = "notifying"
  /\ owner' = "joining"
  /\ UNCHANGED <<stopping, drainPending, jobs, job, drainError, worker, current, caller,
                 reply, executed>>

StopNotify ==
  /\ owner = "notifying"
  /\ NotifyWork
  /\ owner' = "joining"
  /\ UNCHANGED <<stopping, drainPending, jobs, job, drainError, current, caller,
                 reply, executed>>

StopJoin ==
  /\ owner = "joining"
  /\ worker = "exited"
  /\ owner' = "joined"
  /\ UNCHANGED <<stopping, drainPending, jobs, job, drainError, worker, current,
                 caller, reply, executed>>

-----------------------------------------------------------------------------
(* Wakeups that no notification caused.                                    *)

SpuriousWorkerWakeup ==
  /\ worker = "asleep"
  /\ worker' = "awake"
  /\ UNCHANGED <<stopping, drainPending, jobs, job, drainError, current, caller,
                 reply, executed, owner>>

SpuriousCallerWakeup(c) ==
  /\ caller[c] = "blocked"
  /\ caller' = [caller EXCEPT ![c] = "woken"]
  /\ UNCHANGED <<stopping, drainPending, jobs, job, drainError, worker, current,
                 reply, executed, owner>>

-----------------------------------------------------------------------------
CallerStep(c) ==
  \/ RequestMark(c)
  \/ RequestNotify(c)
  \/ RunRethrow(c)
  \/ RunRefused(c)
  \/ RunQueued(c)
  \/ CallerReturn(c)
  \/ CallerWaitAgain(c)
  \/ SpuriousCallerWakeup(c)

WorkerStep ==
  \/ WorkerWakes
  \/ \E failed \in BOOLEAN : TaskEnds(failed) \/ DrainEnds(failed)

Next ==
  \/ \E c \in Callers : CallerStep(c)
  \/ WorkerStep
  \/ SpuriousWorkerWakeup
  \/ StopMark
  \/ StopNotify
  \/ StopJoin

Spec == Init /\ [][Next]_vars

\* Threads the operating system keeps scheduling: the worker (its task and
\* drain bodies return), a caller inside a call, the owner inside stop().
\* Nobody has to make a call, to stop, or to wake up spuriously.
Fairness ==
  /\ WF_vars(WorkerStep)
  /\ \A c \in Callers :
       WF_vars(RequestNotify(c) \/ CallerReturn(c) \/ CallerWaitAgain(c))
  /\ WF_vars(StopNotify \/ StopJoin)

FairSpec == Spec /\ Fairness

-----------------------------------------------------------------------------
(* A parked worker never sleeps over work: whatever it should react to is  *)
(* still to be announced by a thread that has not notified yet             *)
(* (request() and stop() notify after they release the lock).              *)
NoLostWakeup ==
  worker = "asleep" =>
    /\ jobs = <<>>
    /\ drainPending => \E c \in Callers : caller[c] = "notifying"
    /\ stopping => owner = "notifying"

(* A task belongs to a call that is still waiting for it: a caller waits   *)
(* for an unfinished task exactly while the task is queued once or running,*)
(* so no task runs after runSerialized() has returned (the task captures   *)
(* its caller's frame) and no caller waits for a task nobody holds.        *)
Running(c) == worker = "task" /\ current = c

Waits(c) == caller[c] \in {"blocked", "woken"} /\ ~job[c].finished

TaskBelongsToWaitingCall ==
  /\ \A c \in Callers : Waits(c) <=> (InQueue(c) \/ Running(c))
  /\ \A c \in Callers : Running(c) => ~InQueue(c)
  /\ \A i, j \in 1..Len(jobs) : jobs[i] = jobs[j] => i = j

(* No caller is parked on a task that is already finished: notify_all      *)
(* reached it.                                                             *)
NoForgottenCaller ==
  \A c \in Callers : caller[c] = "blocked" => ~job[c].finished

(* What runSerialized() reports is what happened: true or the task's own   *)
(* exception means it was started exactly once, false means it never was.  *)
ReplyTellsTheTruth ==
  \A c \in Callers : caller[c] = "idle" =>
    /\ reply[c] \in {"ran", "task_error"} => executed[c] = 1
    /\ reply[c] = "refused" => executed[c] = 0

(* The books of a task: queued or running it is unfinished and was started *)
(* never, or once; finished it was started once if it ran and never if it  *)
(* was discarded, and only a task that ran has an exception.               *)
TaskAccounting ==
  \A c \in Callers :
    /\ caller[c] \in {"blocked", "woken"} =>
         /\ InQueue(c) => executed[c] = 0 /\ job[c] = NewJob
         /\ Running(c) => executed[c] = 1 /\ job[c] = NewJob
         /\ job[c].finished /\ job[c].ran => executed[c] = 1
         /\ job[c].finished /\ ~job[c].ran => executed[c] = 0 /\ ~job[c].error
    /\ caller[c] = "notifying" => reply[c] \in {"requested", "drain_error"}

(* The inductive invariant behind the theorems of                          *)
(* BackgroundWorkDrainProofs.                                              *)
IInv ==
  /\ TypeOK
  /\ NoLostWakeup
  /\ TaskBelongsToWaitingCall
  /\ NoForgottenCaller
  /\ TaskAccounting
  /\ ReplyTellsTheTruth

(* stop() is final: from then on no task and no drain starts, whatever was *)
(* queued or pending, and the worker only finishes what it runs.           *)
StopIsFinal ==
  [][stopping =>
       /\ \A c \in Callers : executed'[c] <= executed[c]
       /\ drainPending => drainPending'
       /\ worker' = "drain" => worker = "drain"]_vars

(* A recorded drain failure is never silently dropped: only a call that    *)
(* rethrows it clears it.                                                  *)
FailureIsReported ==
  [][drainError /\ ~drainError' =>
       \E c \in Callers : caller[c] = "idle" /\ reply'[c] = "drain_error"]_vars

(* Every call returns: a task that was queued runs or is discarded.        *)
EveryCallReturns ==
  \A c \in Callers : caller[c] # "idle" ~> caller[c] = "idle"

(* A requested drain starts, unless stop() is called.  Queued tasks run    *)
(* first, so callers that never leave the queue empty can hold it back.    *)
RequestedDrainStarts ==
  []<>(jobs = <<>> /\ worker # "task") =>
    (drainPending ~> (worker = "drain" \/ stopping))

(* stop() returns: the worker finishes what it runs, drops the rest, exits.*)
StopReturns == (owner = "notifying") ~> (owner = "joined" /\ worker = "exited")
=============================================================================
