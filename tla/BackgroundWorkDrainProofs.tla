---------------------- MODULE BackgroundWorkDrainProofs ----------------------
(***************************************************************************)
(* Theorems about the work drain for any set of calling threads: its type  *)
(* invariant, and the inductive invariant IInv from which the safety       *)
(* properties of BackgroundWorkDrain follow.                               *)
(***************************************************************************)
EXTENDS BackgroundWorkDrain, SequenceTheorems, TLAPS

-----------------------------------------------------------------------------
(* The queue under the two operations of the code: pop_front, push_back.   *)

Distinct(s) == \A i, j \in 1..Len(s) : s[i] = s[j] => i = j

Holds(s, c) == \E i \in 1..Len(s) : s[i] = c

(* Popping the oldest task removes exactly it from a queue without         *)
(* repetitions.                                                            *)
LEMMA PopFront ==
  ASSUME NEW S, NEW s \in Seq(S), s # <<>>, Distinct(s)
  PROVE  /\ Head(s) \in S
         /\ Tail(s) \in Seq(S)
         /\ Holds(s, Head(s))
         /\ Distinct(Tail(s))
         /\ \A c : Holds(Tail(s), c) <=> Holds(s, c) /\ c # Head(s)
<1>1. /\ Head(s) \in S
      /\ Tail(s) \in Seq(S)
      /\ Len(s) \in Nat \ {0}
      /\ Len(Tail(s)) = Len(s) - 1
      /\ \A i \in 1..Len(Tail(s)) : Tail(s)[i] = s[i + 1]
      /\ Head(s) = s[1]
  BY HeadTailProperties
<1>2. Holds(s, Head(s))
  BY <1>1 DEF Holds
<1>3. Distinct(Tail(s))
  BY <1>1 DEF Distinct
<1>4. ASSUME NEW c, Holds(Tail(s), c) PROVE Holds(s, c) /\ c # Head(s)
  <2>1. PICK i \in 1..Len(Tail(s)) : Tail(s)[i] = c
    BY <1>4 DEF Holds
  <2>2. i + 1 \in 1..Len(s) /\ s[i + 1] = c /\ i + 1 # 1
    BY <2>1, <1>1
  <2>3. QED BY <2>2, <1>1 DEF Holds, Distinct
<1>5. ASSUME NEW c, Holds(s, c), c # Head(s) PROVE Holds(Tail(s), c)
  <2>1. PICK i \in 1..Len(s) : s[i] = c
    BY <1>5 DEF Holds
  <2>2. i - 1 \in 1..Len(Tail(s)) /\ Tail(s)[i - 1] = c
    BY <2>1, <1>1, <1>5
  <2>3. QED BY <2>2 DEF Holds
<1>6. QED BY <1>1, <1>2, <1>3, <1>4, <1>5

(* Pushing a task that is not queued adds exactly it.                      *)
LEMMA PushBack ==
  ASSUME NEW S, NEW s \in Seq(S), NEW d \in S, ~Holds(s, d), Distinct(s)
  PROVE  /\ Append(s, d) \in Seq(S)
         /\ Append(s, d) # <<>>
         /\ Distinct(Append(s, d))
         /\ \A c : Holds(Append(s, d), c) <=> Holds(s, c) \/ c = d
<1>1. /\ Append(s, d) \in Seq(S)
      /\ Append(s, d) # <<>>
      /\ Len(s) \in Nat
      /\ Len(Append(s, d)) = Len(s) + 1
      /\ \A i \in 1..Len(s) : Append(s, d)[i] = s[i]
      /\ Append(s, d)[Len(s) + 1] = d
  BY AppendProperties, LenProperties
<1>2. Distinct(Append(s, d))
  <2> SUFFICES ASSUME NEW i \in 1..Len(Append(s, d)), NEW j \in 1..Len(Append(s, d)),
                      Append(s, d)[i] = Append(s, d)[j]
               PROVE  i = j
    BY DEF Distinct
  <2>1. CASE i \in 1..Len(s) /\ j \in 1..Len(s)
    BY <2>1, <1>1 DEF Distinct
  <2>2. CASE i = Len(s) + 1 \/ j = Len(s) + 1
    BY <2>2, <1>1 DEF Holds
  <2>3. QED BY <2>1, <2>2, <1>1
<1>3. ASSUME NEW c, Holds(Append(s, d), c) PROVE Holds(s, c) \/ c = d
  BY <1>1, <1>3 DEF Holds
<1>4. ASSUME NEW c, Holds(s, c) \/ c = d PROVE Holds(Append(s, d), c)
  BY <1>1, <1>4 DEF Holds
<1>5. QED BY <1>1, <1>2, <1>3, <1>4

-----------------------------------------------------------------------------
(* Every step keeps the types.                                             *)
LEMMA LoopTopTypes ==
  ASSUME TypeOK, LoopTop
  PROVE  /\ jobs' \in Seq(Callers)
         /\ worker' \in {"awake", "asleep", "task", "drain", "exited"}
         /\ drainPending' \in BOOLEAN
         /\ current' \in Callers
         /\ executed' \in [Callers -> Nat]
<1>1. jobs # <<>> => Head(jobs) \in Callers /\ Tail(jobs) \in Seq(Callers)
  BY HeadTailProperties DEF TypeOK
<1>2. CASE stopping
  BY <1>2, EmptySeq DEF TypeOK, LoopTop
<1>3. CASE ~stopping /\ jobs # <<>>
  <2>1. /\ current' = Head(jobs)
        /\ jobs' = Tail(jobs)
        /\ executed' = [executed EXCEPT ![Head(jobs)] = @ + 1]
        /\ worker' = "task"
        /\ drainPending' = drainPending
    BY <1>3 DEF LoopTop
  <2>2. QED BY <1>1, <1>3, <2>1 DEF TypeOK
<1>4. CASE ~stopping /\ jobs = <<>>
  BY <1>4 DEF TypeOK, LoopTop
<1>5. QED BY <1>2, <1>3, <1>4 DEF TypeOK

LEMMA BookedType ==
  ASSUME TypeOK, NEW done, NEW failed \in BOOLEAN
  PROVE  Booked(done, failed) \in [Callers -> Job]
BY DEF TypeOK, Booked, Job

LEMMA NotifyDoneType ==
  ASSUME TypeOK, NotifyDone \/ UNCHANGED caller
  PROVE  caller' \in [Callers -> {"idle", "notifying", "blocked", "woken"}]
BY DEF TypeOK, NotifyDone

(* TypeOK is inductive by itself.                                          *)
LEMMA TypeStep == TypeOK /\ [Next]_vars => TypeOK'
<1> SUFFICES ASSUME TypeOK, [Next]_vars PROVE TypeOK'
  OBVIOUS
<1>1. ASSUME NEW c \in Callers, CallerStep(c) PROVE TypeOK'
  <2>1. CASE RequestMark(c)
    BY <2>1 DEF TypeOK, RequestMark, Replies
  <2>2. CASE RequestNotify(c)
    BY <2>2 DEF TypeOK, RequestNotify, NotifyWork
  <2>3. CASE RunRethrow(c)
    BY <2>3 DEF TypeOK, RunRethrow, Replies
  <2>4. CASE RunRefused(c)
    BY <2>4 DEF TypeOK, RunRefused, Replies
  <2>5. CASE RunQueued(c)
    <3>1. jobs' \in Seq(Callers)
      BY <2>5, AppendProperties DEF TypeOK, RunQueued
    <3>2. job' \in [Callers -> Job]
      BY <2>5 DEF TypeOK, RunQueued, Job, NewJob
    <3>3. QED BY <2>5, <3>1, <3>2 DEF TypeOK, RunQueued, NotifyWork
  <2>6. CASE CallerReturn(c)
    BY <2>6 DEF TypeOK, CallerReturn, Replies, Job, NewJob
  <2>7. CASE CallerWaitAgain(c)
    BY <2>7 DEF TypeOK, CallerWaitAgain
  <2>8. CASE SpuriousCallerWakeup(c)
    BY <2>8 DEF TypeOK, SpuriousCallerWakeup
  <2>9. QED BY <1>1, <2>1, <2>2, <2>3, <2>4, <2>5, <2>6, <2>7, <2>8 DEF CallerStep
<1>2. CASE WorkerWakes
  BY <1>2, LoopTopTypes, BookedType, NotifyDoneType DEF TypeOK, WorkerWakes
<1>3. ASSUME NEW failed \in BOOLEAN, TaskEnds(failed) PROVE TypeOK'
  BY <1>3, LoopTopTypes, BookedType, NotifyDoneType DEF TypeOK, TaskEnds
<1>4. ASSUME NEW failed \in BOOLEAN, DrainEnds(failed) PROVE TypeOK'
  BY <1>4, LoopTopTypes, BookedType, NotifyDoneType DEF TypeOK, DrainEnds
<1>5. CASE SpuriousWorkerWakeup
  BY <1>5 DEF TypeOK, SpuriousWorkerWakeup
<1>6. CASE StopMark
  BY <1>6 DEF TypeOK, StopMark
<1>7. CASE StopNotify
  BY <1>7 DEF TypeOK, StopNotify, NotifyWork
<1>8. CASE StopJoin
  BY <1>8 DEF TypeOK, StopJoin
<1>9. CASE UNCHANGED vars
  BY <1>9 DEF TypeOK, vars
<1>10. QED
  BY <1>1, <1>2, <1>3, <1>4, <1>5, <1>6, <1>7, <1>8, <1>9 DEF Next, WorkerStep

LEMMA TypeInit == Init => TypeOK
<1> SUFFICES ASSUME Init PROVE TypeOK
  OBVIOUS
<1>1. jobs \in Seq(Callers)
  BY EmptySeq DEF Init
<1>2. job \in [Callers -> Job]
  BY DEF Init, Job, NewJob
<1>3. QED BY <1>1, <1>2 DEF Init, TypeOK, Replies

(* Every variable keeps its type, for any set of callers.                  *)
THEOREM TypeCorrect == Spec => []TypeOK
<1>1. QED BY TypeInit, TypeStep, PTL DEF Spec

-----------------------------------------------------------------------------
(* The inductive invariant.  A queue is read through Holds and Distinct,   *)
(* so that the lemmas on sequences apply to it.                            *)
Held ==
  /\ \A c \in Callers : Waits(c) <=> Holds(jobs, c) \/ Running(c)
  /\ \A c \in Callers : Running(c) => ~Holds(jobs, c)
  /\ Distinct(jobs)

LEMMA QueueForm ==
  /\ \A c : InQueue(c) <=> Holds(jobs, c)
  /\ TaskBelongsToWaitingCall <=> Held
BY DEF InQueue, Holds, Distinct, TaskBelongsToWaitingCall, Held

LEMMA QueueFormPrimed ==
  /\ \A c : InQueue(c)' <=> Holds(jobs', c)
  /\ TaskBelongsToWaitingCall' <=> Held'
BY DEF InQueue, Holds, Distinct, TaskBelongsToWaitingCall, Held

(* Nothing is queued or runs for a caller outside its wait, so its own     *)
(* calls disturb the books of no task.                                     *)
LEMMA OutsideNothingHeld ==
  ASSUME IInv, NEW c \in Callers, ~Waits(c)
  PROVE  ~Holds(jobs, c) /\ ~Running(c)
BY QueueForm DEF IInv, Held

LEMMA EmptyHoldsNothing ==
  Distinct(<<>>) /\ \A c : ~Holds(<<>>, c)
BY DEF Distinct, Holds

-----------------------------------------------------------------------------
(* One turn of the worker: what it was running is booked, and the loop top *)
(* picks the next task or drain, parks, or discards the queue and exits.   *)
Turn(done, failed) ==
  /\ IInv
  /\ TypeOK'
  /\ failed \in BOOLEAN
  /\ worker \in {"awake", "task", "drain"}
  /\ \A c \in Callers : c \in done <=> Running(c)
  /\ job' = Booked(done, failed)
  /\ NotifyDone \/ (~stopping /\ worker # "task" /\ UNCHANGED caller)
  /\ LoopTop
  /\ UNCHANGED <<stopping, reply, owner>>

(* The worker moves no caller into or out of a call.                       *)
LEMMA TurnCallers ==
  ASSUME NEW done, NEW failed, Turn(done, failed), NEW c \in Callers
  PROVE  /\ caller'[c] \in {"blocked", "woken"} <=> caller[c] \in {"blocked", "woken"}
         /\ caller'[c] = "idle" <=> caller[c] = "idle"
         /\ caller'[c] = "notifying" <=> caller[c] = "notifying"
         /\ caller'[c] = "blocked" => caller[c] = "blocked" /\ ~stopping /\ ~Running(c)
BY DEF Turn, NotifyDone, Running, IInv, TypeOK

(* What booking does to the record of each caller.                         *)
LEMMA TurnJobs ==
  ASSUME NEW done, NEW failed, Turn(done, failed), NEW c \in Callers
  PROVE  /\ Running(c) => job'[c].finished /\ job'[c].ran
         /\ stopping /\ Holds(jobs, c) =>
               job'[c].finished /\ ~job'[c].ran /\ ~job'[c].error
         /\ ~Running(c) /\ ~(stopping /\ Holds(jobs, c)) => job'[c] = job[c]
<1>1. /\ Running(c) <=> c \in done
      /\ InQueue(c) <=> Holds(jobs, c)
      /\ Running(c) => ~InQueue(c)
      /\ InQueue(c) => caller[c] \in {"blocked", "woken"}
  BY QueueForm DEF Turn, IInv, TaskBelongsToWaitingCall, Waits
<1>2. InQueue(c) => job[c] = NewJob
  BY <1>1 DEF Turn, IInv, TaskAccounting
<1>3. /\ job' = [d \in Callers |->
                  IF d \in done THEN [finished |-> TRUE, ran |-> TRUE, error |-> failed]
                  ELSE IF stopping /\ InQueue(d) THEN [job[d] EXCEPT !.finished = TRUE]
                  ELSE job[d]]
  BY DEF Turn, Booked
<1>4. /\ [NewJob EXCEPT !.finished = TRUE].finished
      /\ ~[NewJob EXCEPT !.finished = TRUE].ran
      /\ ~[NewJob EXCEPT !.finished = TRUE].error
  BY DEF NewJob
<1>5. QED BY <1>1, <1>2, <1>3, <1>4

(* The queue, the task that starts and the executions after a turn.        *)
LEMMA TurnQueue ==
  ASSUME NEW done, NEW failed, Turn(done, failed)
  PROVE  /\ Distinct(jobs')
         /\ \A c \in Callers :
              /\ Running(c)' => ~stopping /\ Holds(jobs, c) /\ executed'[c] = executed[c] + 1
              /\ ~Running(c)' => executed'[c] = executed[c]
              /\ Holds(jobs', c) <=> ~stopping /\ Holds(jobs, c) /\ ~Running(c)'
<1>1. /\ jobs \in Seq(Callers) /\ Distinct(jobs)
      /\ executed \in [Callers -> Nat]
  BY QueueForm DEF Turn, IInv, TypeOK, Held
<1>2. CASE stopping
  BY <1>2, EmptyHoldsNothing DEF Turn, LoopTop, Running
<1>3. CASE ~stopping /\ jobs # <<>>
  <2>1. /\ current' = Head(jobs)
        /\ jobs' = Tail(jobs)
        /\ executed' = [executed EXCEPT ![Head(jobs)] = @ + 1]
        /\ worker' = "task"
    BY <1>3 DEF Turn, LoopTop
  <2>2. /\ Head(jobs) \in Callers
        /\ Holds(jobs, Head(jobs))
        /\ Distinct(Tail(jobs))
        /\ \A c : Holds(Tail(jobs), c) <=> Holds(jobs, c) /\ c # Head(jobs)
    BY <1>1, <1>3, PopFront
  <2>3. QED BY <1>1, <1>3, <2>1, <2>2 DEF Running
<1>4. CASE ~stopping /\ jobs = <<>>
  BY <1>4, EmptyHoldsNothing DEF Turn, LoopTop, Running
<1>5. QED BY <1>2, <1>3, <1>4

(* A turn of the worker keeps the invariant.                               *)
LEMMA TurnKeepsInvariant ==
  ASSUME NEW done, NEW failed, Turn(done, failed)
  PROVE  IInv'
<1>1. TypeOK'
  BY DEF Turn
<1>2. NoLostWakeup'
  BY DEF Turn, LoopTop, NoLostWakeup, IInv, TypeOK
<1>3. ASSUME NEW c \in Callers
      PROVE  Waits(c)' <=> Holds(jobs', c) \/ Running(c)'
  <2>1. Waits(c) <=> Holds(jobs, c) \/ Running(c)
    BY QueueForm DEF Turn, IInv, Held
  <2>2. Waits(c)' <=> caller'[c] \in {"blocked", "woken"} /\ ~job'[c].finished
    BY DEF Waits
  <2>3. Running(c) => ~Holds(jobs, c)
    BY QueueForm DEF Turn, IInv, Held
  <2>4. CASE Running(c)
    <3>1. job'[c].finished
      BY <2>4, TurnJobs
    <3>2. ~Holds(jobs', c) /\ ~Running(c)'
      BY <2>3, <2>4, TurnQueue
    <3>3. QED BY <2>2, <3>1, <3>2
  <2>5. CASE ~Running(c) /\ Holds(jobs, c) /\ stopping
    <3>1. job'[c].finished
      BY <2>5, TurnJobs
    <3>2. ~Holds(jobs', c) /\ ~Running(c)'
      BY <2>5, TurnQueue
    <3>3. QED BY <2>2, <3>1, <3>2
  <2>6. CASE ~Running(c) /\ ~(Holds(jobs, c) /\ stopping)
    <3>1. job'[c] = job[c] /\ (Waits(c)' <=> Waits(c))
      BY <2>2, <2>6, TurnCallers, TurnJobs DEF Waits
    <3>2. QED BY <2>1, <2>6, <3>1, TurnQueue
  <2>7. QED BY <2>4, <2>5, <2>6
<1>4. TaskBelongsToWaitingCall'
  <2>1. \A c \in Callers : Running(c)' => ~Holds(jobs', c)
    BY TurnQueue
  <2>2. QED BY <1>3, <2>1, TurnQueue, QueueFormPrimed DEF Held
<1>5. NoForgottenCaller'
  BY TurnCallers, TurnJobs DEF Turn, IInv, NoForgottenCaller
<1>6. TaskAccounting'
  <2> SUFFICES ASSUME NEW c \in Callers
               PROVE  /\ caller'[c] \in {"blocked", "woken"} =>
                           /\ Holds(jobs', c) => executed'[c] = 0 /\ job'[c] = NewJob
                           /\ Running(c)' => executed'[c] = 1 /\ job'[c] = NewJob
                           /\ job'[c].finished /\ job'[c].ran => executed'[c] = 1
                           /\ job'[c].finished /\ ~job'[c].ran =>
                                executed'[c] = 0 /\ ~job'[c].error
                      /\ caller'[c] = "notifying" => reply'[c] \in {"requested", "drain_error"}
    BY QueueFormPrimed DEF TaskAccounting
  <2>1. caller[c] \in {"blocked", "woken"} =>
          /\ Holds(jobs, c) => executed[c] = 0 /\ job[c] = NewJob
          /\ Running(c) => executed[c] = 1 /\ job[c] = NewJob
          /\ job[c].finished /\ job[c].ran => executed[c] = 1
          /\ job[c].finished /\ ~job[c].ran => executed[c] = 0 /\ ~job[c].error
    BY QueueForm DEF Turn, IInv, TaskAccounting
  <2>2. caller'[c] = "notifying" => reply'[c] \in {"requested", "drain_error"}
    BY TurnCallers DEF Turn, IInv, TaskAccounting
  <2>3. Running(c) => ~Holds(jobs, c)
    BY QueueForm DEF Turn, IInv, Held
  <2>4. CASE Running(c)
    <3>1. /\ job'[c].finished /\ job'[c].ran
          /\ ~Holds(jobs', c) /\ ~Running(c)'
          /\ executed'[c] = executed[c]
      BY <2>3, <2>4, TurnJobs, TurnQueue
    <3>2. QED BY <2>1, <2>2, <2>4, <3>1, TurnCallers
  <2>5. CASE ~Running(c) /\ Holds(jobs, c)
    <3>1. executed \in [Callers -> Nat]
      BY DEF Turn, IInv, TypeOK
    <3>2. CASE stopping
      <4>1. /\ job'[c].finished /\ ~job'[c].ran /\ ~job'[c].error
            /\ ~Holds(jobs', c) /\ ~Running(c)'
            /\ executed'[c] = executed[c]
        BY <2>5, <3>2, TurnJobs, TurnQueue
      <4>2. QED BY <2>1, <2>2, <2>5, <4>1, TurnCallers
    <3>3. CASE ~stopping
      <4>1. job'[c] = job[c]
        BY <2>5, <3>3, TurnJobs
      <4>2. /\ Running(c)' => executed'[c] = executed[c] + 1 /\ ~Holds(jobs', c)
            /\ ~Running(c)' => executed'[c] = executed[c]
        BY TurnQueue
      <4>3. QED BY <2>1, <2>2, <2>5, <4>1, <4>2, TurnCallers DEF NewJob
    <3>4. QED BY <3>2, <3>3
  <2>6. CASE ~Running(c) /\ ~Holds(jobs, c)
    BY <2>1, <2>2, <2>6, TurnCallers, TurnJobs, TurnQueue
  <2>7. QED BY <2>4, <2>5, <2>6
<1>7. ReplyTellsTheTruth'
  <2> SUFFICES ASSUME NEW c \in Callers, caller'[c] = "idle"
               PROVE  /\ reply'[c] \in {"ran", "task_error"} => executed'[c] = 1
                      /\ reply'[c] = "refused" => executed'[c] = 0
    BY DEF ReplyTellsTheTruth
  <2>1. caller[c] = "idle" /\ reply'[c] = reply[c]
    BY TurnCallers DEF Turn
  <2>2. ~Holds(jobs, c)
    BY <2>1, OutsideNothingHeld DEF Turn, Waits
  <2>3. executed'[c] = executed[c]
    BY <2>2, TurnQueue
  <2>4. QED BY <2>1, <2>3 DEF Turn, IInv, ReplyTellsTheTruth
<1>8. QED BY <1>1, <1>2, <1>4, <1>5, <1>6, <1>7 DEF IInv

-----------------------------------------------------------------------------
(* Steps of a caller.  Queueing a task is the one that changes the queue.  *)
LEMMA RunQueuedKeepsInvariant ==
  ASSUME IInv, TypeOK', NEW c \in Callers, RunQueued(c)
  PROVE  IInv'
<1>1. jobs \in Seq(Callers) /\ ~Holds(jobs, c) /\ ~Running(c) /\ Distinct(jobs)
  BY OutsideNothingHeld, QueueForm DEF IInv, TypeOK, Held, RunQueued, Waits
<1>2. /\ jobs' # <<>> /\ Distinct(jobs')
      /\ \A d \in Callers : Holds(jobs', d) <=> Holds(jobs, d) \/ d = c
  BY <1>1, PushBack DEF RunQueued
<1>3. /\ worker' # "asleep"
      /\ \A d \in Callers : Running(d)' <=> Running(d)
  BY DEF RunQueued, NotifyWork, Running, IInv, TypeOK
<1>4. /\ job'[c] = NewJob /\ executed'[c] = 0 /\ caller'[c] = "blocked"
      /\ ~job'[c].finished
      /\ \A d \in Callers \ {c} :
           job'[d] = job[d] /\ executed'[d] = executed[d] /\ caller'[d] = caller[d]
  BY DEF RunQueued, NewJob, IInv, TypeOK
<1>5. NoLostWakeup'
  BY <1>3 DEF NoLostWakeup
<1>6. TaskBelongsToWaitingCall'
  <2>1. \A d \in Callers : Waits(d)' <=> Waits(d) \/ d = c
    BY <1>4 DEF Waits, RunQueued, IInv, TypeOK
  <2>2. QED BY <1>1, <1>2, <1>3, <2>1, QueueForm, QueueFormPrimed DEF IInv, Held
<1>7. NoForgottenCaller'
  BY <1>4 DEF IInv, NoForgottenCaller
<1>8. TaskAccounting'
  <2> SUFFICES ASSUME NEW d \in Callers
               PROVE  /\ caller'[d] \in {"blocked", "woken"} =>
                           /\ Holds(jobs', d) => executed'[d] = 0 /\ job'[d] = NewJob
                           /\ Running(d)' => executed'[d] = 1 /\ job'[d] = NewJob
                           /\ job'[d].finished /\ job'[d].ran => executed'[d] = 1
                           /\ job'[d].finished /\ ~job'[d].ran =>
                                executed'[d] = 0 /\ ~job'[d].error
                      /\ caller'[d] = "notifying" => reply'[d] \in {"requested", "drain_error"}
    BY QueueFormPrimed DEF TaskAccounting
  <2>1. CASE d = c
    BY <2>1, <1>1, <1>3, <1>4
  <2>2. CASE d # c
    BY <2>2, <1>2, <1>3, <1>4, QueueForm DEF IInv, TaskAccounting, RunQueued
  <2>3. QED BY <2>1, <2>2
<1>9. ReplyTellsTheTruth'
  BY <1>4 DEF IInv, ReplyTellsTheTruth, RunQueued
<1>10. QED BY <1>5, <1>6, <1>7, <1>8, <1>9 DEF IInv

(* The other steps of a caller leave the queue and the worker's task, and  *)
(* disturb one entry of each function.                                     *)
LEMMA CallerStepKeepsInvariant ==
  ASSUME IInv, TypeOK', NEW c \in Callers, CallerStep(c)
  PROVE  IInv'
<1>1. CASE RequestMark(c)
  <2>1. NoLostWakeup'
    BY <1>1 DEF RequestMark, NoLostWakeup, IInv, TypeOK
  <2>2. TaskBelongsToWaitingCall'
    BY <1>1 DEF RequestMark, TaskBelongsToWaitingCall, Waits, InQueue, Running, IInv, TypeOK
  <2>3. NoForgottenCaller'
    BY <1>1 DEF RequestMark, NoForgottenCaller, IInv, TypeOK
  <2>4. TaskAccounting'
    BY <1>1 DEF RequestMark, TaskAccounting, InQueue, Running, IInv, TypeOK
  <2>5. ReplyTellsTheTruth'
    BY <1>1 DEF RequestMark, ReplyTellsTheTruth, IInv, TypeOK
  <2>6. QED BY <2>1, <2>2, <2>3, <2>4, <2>5 DEF IInv
<1>2. CASE RequestNotify(c)
  <2>1. worker' # "asleep" /\ \A d \in Callers : Running(d)' <=> Running(d)
    BY <1>2 DEF RequestNotify, NotifyWork, Running, IInv, TypeOK
  <2>2. NoLostWakeup'
    BY <2>1 DEF NoLostWakeup
  <2>3. TaskBelongsToWaitingCall'
    BY <1>2, <2>1 DEF RequestNotify, TaskBelongsToWaitingCall, Waits, InQueue, IInv, TypeOK
  <2>4. NoForgottenCaller'
    BY <1>2 DEF RequestNotify, NoForgottenCaller, IInv, TypeOK
  <2>5. TaskAccounting'
    BY <1>2, <2>1 DEF RequestNotify, TaskAccounting, InQueue, IInv, TypeOK
  <2>6. ReplyTellsTheTruth'
    BY <1>2 DEF RequestNotify, ReplyTellsTheTruth, TaskAccounting, IInv, TypeOK
  <2>7. QED BY <2>2, <2>3, <2>4, <2>5, <2>6 DEF IInv
<1>3. CASE RunRethrow(c) \/ RunRefused(c)
  <2>1. NoLostWakeup'
    BY <1>3 DEF RunRethrow, RunRefused, NoLostWakeup, IInv
  <2>2. TaskBelongsToWaitingCall'
    BY <1>3 DEF RunRethrow, RunRefused, TaskBelongsToWaitingCall, Waits, InQueue, Running, IInv
  <2>3. NoForgottenCaller'
    BY <1>3 DEF RunRethrow, RunRefused, NoForgottenCaller, IInv
  <2>4. TaskAccounting'
    BY <1>3 DEF RunRethrow, RunRefused, TaskAccounting, InQueue, Running, IInv, TypeOK
  <2>5. ReplyTellsTheTruth'
    BY <1>3 DEF RunRethrow, RunRefused, ReplyTellsTheTruth, IInv, TypeOK
  <2>6. QED BY <2>1, <2>2, <2>3, <2>4, <2>5 DEF IInv
<1>4. CASE RunQueued(c)
  BY <1>4, RunQueuedKeepsInvariant
<1>5. CASE CallerReturn(c)
  <2>1. NoLostWakeup'
    BY <1>5 DEF CallerReturn, NoLostWakeup, IInv, TypeOK
  <2>2. TaskBelongsToWaitingCall'
    BY <1>5 DEF CallerReturn, TaskBelongsToWaitingCall, Waits, InQueue, Running, IInv, TypeOK
  <2>3. NoForgottenCaller'
    BY <1>5 DEF CallerReturn, NoForgottenCaller, IInv, TypeOK
  <2>4. TaskAccounting'
    BY <1>5 DEF CallerReturn, TaskAccounting, InQueue, Running, IInv, TypeOK
  <2>5. ReplyTellsTheTruth'
    BY <1>5 DEF CallerReturn, ReplyTellsTheTruth, TaskAccounting, IInv, TypeOK
  <2>6. QED BY <2>1, <2>2, <2>3, <2>4, <2>5 DEF IInv
<1>6. CASE CallerWaitAgain(c) \/ SpuriousCallerWakeup(c)
  <2>1. NoLostWakeup'
    BY <1>6 DEF CallerWaitAgain, SpuriousCallerWakeup, NoLostWakeup, IInv, TypeOK
  <2>2. TaskBelongsToWaitingCall'
    <3>1. \A d \in Callers : Waits(d)' <=> Waits(d)
      BY <1>6 DEF CallerWaitAgain, SpuriousCallerWakeup, Waits, IInv, TypeOK
    <3>2. UNCHANGED <<jobs, worker, current>>
      BY <1>6 DEF CallerWaitAgain, SpuriousCallerWakeup
    <3>3. QED BY <3>1, <3>2 DEF TaskBelongsToWaitingCall, InQueue, Running, IInv
  <2>3. NoForgottenCaller'
    BY <1>6 DEF CallerWaitAgain, SpuriousCallerWakeup, NoForgottenCaller, IInv, TypeOK
  <2>4. TaskAccounting'
    <3>1. \A d \in Callers :
            /\ caller'[d] \in {"blocked", "woken"} <=> caller[d] \in {"blocked", "woken"}
            /\ caller'[d] = "notifying" <=> caller[d] = "notifying"
      BY <1>6 DEF CallerWaitAgain, SpuriousCallerWakeup, IInv, TypeOK
    <3>2. UNCHANGED <<jobs, job, worker, current, reply, executed>>
      BY <1>6 DEF CallerWaitAgain, SpuriousCallerWakeup
    <3>3. QED BY <3>1, <3>2 DEF TaskAccounting, InQueue, Running, IInv
  <2>5. ReplyTellsTheTruth'
    BY <1>6 DEF CallerWaitAgain, SpuriousCallerWakeup, ReplyTellsTheTruth, IInv, TypeOK
  <2>6. QED BY <2>1, <2>2, <2>3, <2>4, <2>5 DEF IInv
<1>7. QED BY <1>1, <1>2, <1>3, <1>4, <1>5, <1>6 DEF CallerStep

-----------------------------------------------------------------------------
(* Steps of the worker are turns; steps of the owner, and a spurious       *)
(* wakeup, touch the worker's place and the stop flag only.                *)
LEMMA WorkerStepKeepsInvariant ==
  ASSUME IInv, TypeOK', WorkerStep
  PROVE  IInv'
<1>1. CASE WorkerWakes
  <2>1. Turn({}, FALSE)
    BY <1>1 DEF WorkerWakes, Turn, Running
  <2>2. QED BY <2>1, TurnKeepsInvariant
<1>2. ASSUME NEW failed \in BOOLEAN, TaskEnds(failed)
      PROVE  IInv'
  <2>1. Turn({current}, failed)
    BY <1>2 DEF TaskEnds, Turn, Running
  <2>2. QED BY <2>1, TurnKeepsInvariant
<1>3. ASSUME NEW failed \in BOOLEAN, DrainEnds(failed)
      PROVE  IInv'
  <2>1. Turn({}, FALSE)
    BY <1>3 DEF DrainEnds, Turn, Running
  <2>2. QED BY <2>1, TurnKeepsInvariant
<1>4. QED BY <1>1, <1>2, <1>3 DEF WorkerStep

LEMMA OwnerStepKeepsInvariant ==
  ASSUME IInv, TypeOK', StopMark \/ StopNotify \/ StopJoin \/ SpuriousWorkerWakeup
  PROVE  IInv'
<1>1. \A c \in Callers : Running(c)' <=> Running(c)
  BY DEF StopMark, StopNotify, StopJoin, SpuriousWorkerWakeup, NotifyWork, Running, IInv, TypeOK
<1>2. UNCHANGED <<drainPending, jobs, job, drainError, caller, reply, executed>>
  BY DEF StopMark, StopNotify, StopJoin, SpuriousWorkerWakeup
<1>3. NoLostWakeup'
  BY DEF StopMark, StopNotify, StopJoin, SpuriousWorkerWakeup, NotifyWork, NoLostWakeup,
         IInv, TypeOK
<1>4. TaskBelongsToWaitingCall'
  BY <1>1, <1>2 DEF TaskBelongsToWaitingCall, Waits, InQueue, IInv
<1>5. NoForgottenCaller'
  BY <1>2 DEF NoForgottenCaller, IInv
<1>6. TaskAccounting'
  BY <1>1, <1>2 DEF TaskAccounting, InQueue, IInv
<1>7. ReplyTellsTheTruth'
  BY <1>2 DEF ReplyTellsTheTruth, IInv
<1>8. QED BY <1>3, <1>4, <1>5, <1>6, <1>7 DEF IInv

-----------------------------------------------------------------------------
LEMMA InvariantInit == Init => IInv
<1> SUFFICES ASSUME Init PROVE IInv
  OBVIOUS
<1>1. TypeOK
  BY TypeInit
<1>2. TaskBelongsToWaitingCall
  BY EmptyHoldsNothing, QueueForm DEF Init, Held, Waits, Running
<1>3. NoLostWakeup /\ NoForgottenCaller /\ TaskAccounting /\ ReplyTellsTheTruth
  BY DEF Init, NoLostWakeup, NoForgottenCaller, TaskAccounting, ReplyTellsTheTruth
<1>4. QED BY <1>1, <1>2, <1>3 DEF IInv

LEMMA InvariantStep == IInv /\ [Next]_vars => IInv'
<1> SUFFICES ASSUME IInv, [Next]_vars PROVE IInv'
  OBVIOUS
<1>1. TypeOK'
  BY TypeStep DEF IInv
<1>2. ASSUME NEW c \in Callers, CallerStep(c) PROVE IInv'
  BY <1>1, <1>2, CallerStepKeepsInvariant
<1>3. CASE WorkerStep
  BY <1>1, <1>3, WorkerStepKeepsInvariant
<1>4. CASE StopMark \/ StopNotify \/ StopJoin \/ SpuriousWorkerWakeup
  BY <1>1, <1>4, OwnerStepKeepsInvariant
<1>5. CASE UNCHANGED vars
  BY <1>1, <1>5 DEF vars, IInv, NoLostWakeup, TaskBelongsToWaitingCall, Waits, InQueue,
                    Running, NoForgottenCaller, TaskAccounting, ReplyTellsTheTruth
<1>6. QED BY <1>2, <1>3, <1>4, <1>5 DEF Next

(* The invariant holds of every behaviour, for any set of callers.         *)
THEOREM InvariantCorrect == Spec => []IInv
<1>1. QED BY InvariantInit, InvariantStep, PTL DEF Spec

(* No wakeup of the worker is ever lost (background_work_drain.hpp: work   *)
(* and stop are published under the lock, the notification follows).       *)
THEOREM WakeupsCorrect == Spec => []NoLostWakeup
<1>1. IInv => NoLostWakeup
  BY DEF IInv
<1>2. QED BY InvariantCorrect, <1>1, PTL

(* runSerialized() never leaves a task behind: a task is queued once or    *)
(* runs exactly while its call waits for it.                               *)
THEOREM TasksCorrect == Spec => []TaskBelongsToWaitingCall
<1>1. IInv => TaskBelongsToWaitingCall
  BY DEF IInv
<1>2. QED BY InvariantCorrect, <1>1, PTL

(* The answer of runSerialized() is true: "ran" means executed once, and   *)
(* "refused" means never executed, also when stop() overtakes the task.    *)
THEOREM RepliesCorrect == Spec => []ReplyTellsTheTruth
<1>1. IInv => ReplyTellsTheTruth
  BY DEF IInv
<1>2. QED BY InvariantCorrect, <1>1, PTL

(* After stop() has taken the lock nothing new is started.                 *)
THEOREM StopCorrect == Spec => StopIsFinal
<1> DEFINE NothingStarts ==
      stopping =>
        /\ \A c \in Callers : executed'[c] <= executed[c]
        /\ drainPending => drainPending'
        /\ worker' = "drain" => worker = "drain"
<1>1. TypeOK /\ [Next]_vars => [NothingStarts]_vars
  <2> SUFFICES ASSUME TypeOK, stopping, [Next]_vars
               PROVE  /\ \A c \in Callers : executed'[c] <= executed[c]
                      /\ drainPending => drainPending'
                      /\ worker' = "drain" => worker = "drain"
    OBVIOUS
  <2>1. \A c \in Callers : executed[c] \in Nat
    BY DEF TypeOK
  <2>2. ASSUME NEW c \in Callers, CallerStep(c)
        PROVE  /\ \A d \in Callers : executed'[d] \in {0, executed[d]}
               /\ drainPending => drainPending'
               /\ worker' = "drain" => worker = "drain"
    BY <2>2 DEF CallerStep, RequestMark, RequestNotify, RunRethrow, RunRefused, RunQueued,
                CallerReturn, CallerWaitAgain, SpuriousCallerWakeup, NotifyWork, TypeOK
  <2>3. ASSUME LoopTop
        PROVE  UNCHANGED executed /\ UNCHANGED drainPending /\ worker' = "exited"
    BY <2>3 DEF LoopTop
  <2>4. CASE WorkerStep
    <3>1. LoopTop
      BY <2>4 DEF WorkerStep, WorkerWakes, TaskEnds, DrainEnds
    <3>2. QED BY <2>1, <2>3, <3>1
  <2>5. CASE StopMark \/ StopNotify \/ StopJoin \/ SpuriousWorkerWakeup \/ UNCHANGED vars
    <3>1. UNCHANGED executed /\ UNCHANGED drainPending /\ (worker' = worker \/ worker' = "awake")
      BY <2>5 DEF StopMark, StopNotify, StopJoin, SpuriousWorkerWakeup, NotifyWork, vars
    <3>2. QED BY <2>1, <3>1
  <2>6. QED BY <2>1, <2>2, <2>4, <2>5 DEF Next
<1>2. QED BY TypeCorrect, <1>1, PTL DEF Spec, StopIsFinal

(* A recorded drain failure disappears only into the call that rethrows it.*)
THEOREM FailuresCorrect == Spec => FailureIsReported
<1> DEFINE Reported ==
      drainError /\ ~drainError' =>
        \E c \in Callers : caller[c] = "idle" /\ reply'[c] = "drain_error"
<1>1. TypeOK /\ [Next]_vars => [Reported]_vars
  <2> SUFFICES ASSUME TypeOK, [Next]_vars, drainError, ~drainError'
               PROVE  \E c \in Callers : caller[c] = "idle" /\ reply'[c] = "drain_error"
    OBVIOUS
  <2>1. ASSUME NEW c \in Callers, CallerStep(c)
        PROVE  caller[c] = "idle" /\ reply'[c] = "drain_error"
    BY <2>1 DEF CallerStep, RequestMark, RequestNotify, RunRethrow, RunRefused, RunQueued,
                CallerReturn, CallerWaitAgain, SpuriousCallerWakeup, TypeOK
  <2>2. ~WorkerStep
    BY DEF WorkerStep, WorkerWakes, TaskEnds, DrainEnds
  <2>3. ~(StopMark \/ StopNotify \/ StopJoin \/ SpuriousWorkerWakeup \/ UNCHANGED vars)
    BY DEF StopMark, StopNotify, StopJoin, SpuriousWorkerWakeup, vars
  <2>4. QED BY <2>1, <2>2, <2>3 DEF Next
<1>2. QED BY TypeCorrect, <1>1, PTL DEF Spec, FailureIsReported
=============================================================================
