----------------------- MODULE GraphSlamBackendProofs -----------------------
(***************************************************************************)
(* The node uses the work drain as its specification allows, for any       *)
(* number of submaps, any loop search and every configuration: what is     *)
(* proved of the drain for arbitrary callers holds of the drain in the     *)
(* node.  From that: no submap is left behind, clouds stay with their      *)
(* poses, a map that was saved covers what was staged, and the node        *)
(* implements the sequential replay of its submaps.                        *)
(***************************************************************************)
EXTENDS GraphSlamBackend, WellFoundedInduction, TLAPS

LEMMA ExecutorIsACaller ==
  ASSUME Drain!CallerStep(Executor)
  PROVE  Drain!Next
BY DEF Drain!Next

(* Every step of the node is a step of the drain or leaves it alone.       *)
LEMMA StepsOfTheDrain == [Next]_vars => [Drain!Next]_(Drain!vars)
<1> SUFFICES ASSUME [Next]_vars PROVE Drain!Next \/ UNCHANGED drainVars
  BY DEF drainVars, Drain!vars
<1>1. CASE StageOdomSubmap \/ StageMapArray \/ CommitGraph
  BY <1>1 DEF StageOdomSubmap, StageMapArray, Stage, CommitGraph
<1>2. CASE RequestDrain \/ RequestReturns
  BY <1>2, ExecutorIsACaller DEF RequestDrain, RequestReturns, Drain!CallerStep
<1>3. CASE MapSave \/ MapSaveReturns \/ MapSaveWaits
  BY <1>3, ExecutorIsACaller DEF MapSave, MapSaveReturns, MapSaveWaits, Drain!CallerStep
<1>4. CASE WorkerWakes \/ DrainEnds \/ TaskEnds
  <2>1. WorkerWakes => Drain!WorkerStep
    BY DEF WorkerWakes, Drain!WorkerStep
  <2>2. DrainEnds => Drain!WorkerStep
    BY DEF DrainEnds, Drain!WorkerStep
  <2>3. TaskEnds => Drain!WorkerStep
    BY DEF TaskEnds, Drain!WorkerStep
  <2>4. QED BY <1>4, <2>1, <2>2, <2>3 DEF Drain!Next
<1>5. CASE SearchStep
  BY <1>5 DEF SearchStep, SearchAt, TakeSnapshot, QueriesExhausted, StopBetweenQueries,
              ProcessQuery, ProcessQueryFails, SkipEvent, AdjustPrefix, NextQuery, SaveMap,
              AdjustFails
<1>6. CASE SpinReturns \/ Destroy \/ WorkerSpuriouslyWakes
  BY <1>6 DEF SpinReturns, Destroy, WorkerSpuriouslyWakes, Drain!Next
<1>7. CASE Interrupt \/ Terminated \/ UNCHANGED vars
  BY <1>7 DEF Interrupt, Terminated, vars
<1>8. QED
  BY <1>1, <1>2, <1>3, <1>4, <1>5, <1>6, <1>7 DEF Next, ExecutorStep, WorkerStep

(* The node implements the specification of its drain.                     *)
THEOREM DrainIsUsedAsSpecified == Spec => UsesDrain
<1>1. Init => Drain!Init
  BY DEF Init
<1>2. QED BY <1>1, StepsOfTheDrain, PTL DEF Spec, UsesDrain, Drain!Spec

-----------------------------------------------------------------------------
(* The theorems of BackgroundWorkDrainProofs, for the drain of the node:   *)
(* its executor is the only caller.                                        *)
Proved == INSTANCE BackgroundWorkDrainProofs WITH Callers <- {Executor}

(* The two instances of the drain define the same operators.               *)
LEMMA SameOperators ==
  /\ Drain!vars = Proved!vars
  /\ Drain!NewJob = Proved!NewJob
  /\ Drain!NotifyWork <=> Proved!NotifyWork
  /\ Drain!NotifyDone <=> Proved!NotifyDone
  /\ Drain!LoopTop <=> Proved!LoopTop
  /\ \A done, failed : Drain!Booked(done, failed) = Proved!Booked(done, failed)
BY DEF Drain!vars, Proved!vars, Drain!NewJob, Proved!NewJob, Drain!NotifyWork,
       Proved!NotifyWork, Drain!NotifyDone, Proved!NotifyDone, Drain!LoopTop, Proved!LoopTop,
       Drain!Booked, Proved!Booked, Drain!InQueue, Proved!InQueue

LEMMA SameInit == Drain!Init => Proved!Init
BY SameOperators DEF Drain!Init, Proved!Init

LEMMA SameNext == [Drain!Next]_(Drain!vars) => [Proved!Next]_(Proved!vars)
<1> SUFFICES ASSUME Drain!Next PROVE Proved!Next
  BY DEF Drain!vars, Proved!vars
<1>1. ASSUME NEW c \in {Executor}, Drain!CallerStep(c) PROVE Proved!CallerStep(c)
  BY <1>1, SameOperators
     DEF Drain!CallerStep, Proved!CallerStep, Drain!RequestMark, Proved!RequestMark,
         Drain!RequestNotify, Proved!RequestNotify, Drain!RunRethrow, Proved!RunRethrow,
         Drain!RunRefused, Proved!RunRefused, Drain!RunQueued, Proved!RunQueued,
         Drain!CallerReturn, Proved!CallerReturn, Drain!CallerWaitAgain,
         Proved!CallerWaitAgain, Drain!SpuriousCallerWakeup, Proved!SpuriousCallerWakeup
<1>2. Drain!WorkerStep => Proved!WorkerStep
  BY SameOperators
     DEF Drain!WorkerStep, Proved!WorkerStep, Drain!WorkerWakes, Proved!WorkerWakes,
         Drain!TaskEnds, Proved!TaskEnds, Drain!DrainEnds, Proved!DrainEnds
<1>3. /\ Drain!SpuriousWorkerWakeup => Proved!SpuriousWorkerWakeup
      /\ Drain!StopMark => Proved!StopMark
      /\ Drain!StopNotify => Proved!StopNotify
      /\ Drain!StopJoin => Proved!StopJoin
  BY SameOperators
     DEF Drain!SpuriousWorkerWakeup, Proved!SpuriousWorkerWakeup, Drain!StopMark,
         Proved!StopMark, Drain!StopNotify, Proved!StopNotify, Drain!StopJoin, Proved!StopJoin
<1>4. QED BY <1>1, <1>2, <1>3 DEF Drain!Next, Proved!Next

(* So the invariant of the drain holds in the node.                        *)
THEOREM DrainInvariantInNode == Spec => []Proved!IInv
<1>1. Init => Proved!IInv
  BY SameInit, Proved!InvariantInit DEF Init
<1>2. [Next]_vars => [Proved!Next]_(Proved!vars)
  BY StepsOfTheDrain, SameNext
<1>3. Proved!IInv /\ [Proved!Next]_(Proved!vars) => Proved!IInv'
  BY Proved!InvariantStep
<1>4. QED BY <1>1, <1>2, <1>3, PTL DEF Spec

-----------------------------------------------------------------------------
(* No submap is left behind.                                               *)

(* What the argument uses of the drain's invariant: a task that runs has   *)
(* its caller waiting for it and is not booked yet, and no pending drain   *)
(* is slept over.                                                          *)
LEMMA DrainFacts ==
  ASSUME Proved!IInv
  PROVE  /\ DOMAIN caller = {Executor} /\ DOMAIN reply = {Executor} /\ DOMAIN job = {Executor}
         /\ worker = "task" => current = Executor /\ caller[Executor] \in {"blocked", "woken"}
         /\ worker = "task" => ~job[Executor].error /\ ~job[Executor].finished
         /\ worker = "asleep" /\ drainPending => caller[Executor] = "notifying"
         /\ caller[Executor] \in {"idle", "notifying", "blocked", "woken"}
         /\ stopping \in BOOLEAN /\ drainPending \in BOOLEAN /\ drainError \in BOOLEAN
BY DEF Proved!IInv, Proved!TypeOK, Proved!NoLostWakeup, Proved!TaskBelongsToWaitingCall,
       Proved!Running, Proved!Waits, Proved!TaskAccounting, Proved!NewJob

Inv == Proved!IInv /\ SearchIsOwed

(* A submap callback: the graph grows only into "committed", and the       *)
(* request that follows leaves the drain pending.                          *)
LEMMA CallbackOwes ==
  ASSUME Inv, StageOdomSubmap \/ StageMapArray \/ CommitGraph \/ RequestDrain
  PROVE  SearchIsOwed'
<1>1. CASE StageOdomSubmap \/ StageMapArray
  <2>1. exec = "idle" /\ UNCHANGED <<drainVars, graph, rosOk, process, search, cursor>>
    BY <1>1 DEF StageOdomSubmap, StageMapArray, Stage, CallbackStarts, searchVars, engineVars
  <2>2. QED BY <2>1 DEF drainVars, SearchIsOwed, AllSearched, Inv
<1>2. CASE CommitGraph
  BY <1>2 DEF CommitGraph, drainVars, searchVars, SearchIsOwed, Inv
<1>3. CASE RequestDrain
  BY <1>3, DrainFacts DEF RequestDrain, Drain!RequestMark, searchVars, SearchIsOwed, Inv
<1>4. QED BY <1>1, <1>2, <1>3

(* The executor's other steps: what it consumes of a failure kills the     *)
(* process or is a request.                                                *)
LEMMA ExecutorOwes ==
  ASSUME Inv, RequestReturns \/ MapSave \/ MapSaveReturns \/ MapSaveWaits
  PROVE  SearchIsOwed'
<1>1. UNCHANGED <<graph, cursor, exec, rosOk, search, stopping, drainPending>>
  BY DEF RequestReturns, MapSave, MapSaveReturns, MapSaveWaits, storeVars, searchVars,
         engineVars, Drain!RequestNotify, Drain!RunQueued, Drain!RunRethrow,
         Drain!CallerReturn, Drain!CallerWaitAgain, Drain!SpuriousCallerWakeup
<1>2. worker' \in {"task", "drain"} <=> worker \in {"task", "drain"}
  BY DEF RequestReturns, MapSave, MapSaveReturns, MapSaveWaits, Drain!RequestNotify,
         Drain!RunQueued, Drain!RunRethrow, Drain!NotifyWork, Drain!CallerReturn,
         Drain!CallerWaitAgain, Drain!SpuriousCallerWakeup
<1>3. process = "running"
  BY DEF RequestReturns, MapSave, MapSaveReturns, MapSaveWaits, CallbackStarts
<1>4. process' = "running" /\ drainError => drainError'
  BY DrainFacts
     DEF RequestReturns, MapSave, MapSaveReturns, MapSaveWaits, Survives, CallbackStarts,
         Drain!RequestNotify, Drain!RunQueued, Drain!RunRethrow, Drain!CallerReturn,
         Drain!CallerWaitAgain, Drain!SpuriousCallerWakeup, Inv
<1>5. process' = "running" /\ job[Executor].error /\ caller[Executor] \in {"blocked", "woken"} =>
        job'[Executor].error /\ caller'[Executor] \in {"blocked", "woken"}
  BY DrainFacts
     DEF RequestReturns, MapSave, MapSaveReturns, MapSaveWaits, Survives, CallbackStarts,
         Drain!RequestNotify, Drain!RunQueued, Drain!RunRethrow, Drain!CallerReturn,
         Drain!CallerWaitAgain, Drain!SpuriousCallerWakeup, Inv
<1>6. QED BY <1>1, <1>2, <1>3, <1>4, <1>5 DEF SearchIsOwed, AllSearched, Inv

-----------------------------------------------------------------------------
(* Inside its body the worker leaves "loop" only when it saw everything    *)
(* searched, and comes back to it after every query that did not fail.     *)
LEMMA SearchOwes ==
  ASSUME Inv, SearchStep
  PROVE  SearchIsOwed'
<1>1. /\ UNCHANGED <<stopping, drainPending, job, drainError, worker, caller, graph, exec,
                     rosOk, process>>
      /\ search # "none" /\ search' # "none"
  BY DEF SearchStep, SearchAt, TakeSnapshot, QueriesExhausted, StopBetweenQueries,
         ProcessQuery, ProcessQueryFails, SkipEvent, AdjustPrefix, NextQuery, SaveMap,
         AdjustFails, drainVars, storeVars
<1>2. CASE TakeSnapshot
  <2>1. graph = <<>> => Len(graph) < 2
    OBVIOUS
  <2>2. cursor' = cursor
    BY <1>2 DEF TakeSnapshot, engineVars
  <2>3. QED
    BY <1>1, <1>2, <2>1, <2>2
       DEF TakeSnapshot, SearchAt, Halted, SearchIsOwed, AllSearched, Inv
<1>3. CASE SaveMap
  BY <1>1, <1>3 DEF SaveMap, SearchAt, engineVars, SearchIsOwed, AllSearched, Inv
<1>4. CASE StopBetweenQueries
  BY <1>1, <1>4 DEF StopBetweenQueries, SearchAt, Halted, SearchIsOwed, Inv
<1>5. CASE QueriesExhausted \/ ProcessQuery \/ ProcessQueryFails \/ SkipEvent \/ AdjustPrefix
           \/ NextQuery \/ AdjustFails
  <2>1. search' \in {"loop", "query", "events", "failed"}
    BY <1>5 DEF QueriesExhausted, ProcessQuery, ProcessQueryFails, SkipEvent, AdjustPrefix,
                NextQuery, AdjustFails, SearchAt
  <2>2. QED BY <1>1, <2>1 DEF SearchIsOwed, Inv
<1>6. QED BY <1>2, <1>3, <1>4, <1>5 DEF SearchStep

(* At the end of a body and on waking up: what was owed is kept in         *)
(* drainPending, in drainError or in the Job record of the save.           *)
LEMMA TurnOwes ==
  ASSUME Inv, WorkerWakes \/ DrainEnds \/ TaskEnds
  PROVE  SearchIsOwed'
<1>1. /\ UNCHANGED <<graph, cursor, exec, rosOk, process, stopping>>
      /\ process = "running"
      /\ search' = IF worker' \in {"task", "drain"} THEN "loop" ELSE "none"
  BY DEF WorkerWakes, DrainEnds, TaskEnds, EnterBody, storeVars, engineVars,
         Drain!WorkerWakes, Drain!DrainEnds, Drain!TaskEnds
<1>2. SUFFICES ASSUME rosOk, worker' \notin {"task", "drain"}
               PROVE  \/ AllSearched \/ exec = "committed" \/ drainPending' \/ drainError'
                      \/ job'[Executor].error /\ caller'[Executor] \in {"blocked", "woken"}
  BY <1>1 DEF SearchIsOwed, AllSearched, Inv
<1>3. ~stopping /\ drainPending' = drainPending
  BY <1>1, <1>2 DEF WorkerWakes, DrainEnds, TaskEnds, Drain!WorkerWakes, Drain!DrainEnds,
                    Drain!TaskEnds, Drain!LoopTop, SearchIsOwed, Inv
<1>4. CASE WorkerWakes
  <2>1. /\ worker = "awake"
        /\ job' = [c \in {Executor} |-> job[c]]
        /\ UNCHANGED <<caller, drainError>>
    BY <1>3, <1>4 DEF WorkerWakes, Drain!WorkerWakes, Drain!Booked
  <2>2. QED BY <1>1, <1>2, <1>3, <2>1 DEF SearchIsOwed, Inv
<1>5. CASE DrainEnds
  <2>1. /\ worker = "drain"
        /\ search = "failed" => drainError'
        /\ drainError => drainError'
        /\ job' = [c \in {Executor} |-> job[c]]
        /\ UNCHANGED caller
    BY <1>3, <1>5, DrainFacts DEF DrainEnds, Drain!DrainEnds, Drain!Booked, Inv
  <2>2. search \notin {"loop", "query", "events"}
    BY <1>5 DEF DrainEnds
  <2>3. QED BY <1>1, <1>2, <1>3, <2>1, <2>2 DEF SearchIsOwed, Inv
<1>6. CASE TaskEnds
  <2>1. /\ current = Executor /\ caller[Executor] \in {"blocked", "woken"}
        /\ drainError' = drainError
        /\ search \notin {"loop", "query", "events"}
    BY <1>6, DrainFacts DEF TaskEnds, Drain!TaskEnds, Inv
  <2>2. /\ job'[Executor].error = (search = "failed")
        /\ caller'[Executor] \in {"blocked", "woken"}
    BY <1>6, <2>1 DEF TaskEnds, Drain!TaskEnds, Drain!Booked, Drain!NotifyDone
  <2>3. ~job[Executor].error
    BY <1>6, DrainFacts DEF TaskEnds, Drain!TaskEnds, Inv
  <2>4. QED BY <1>1, <1>2, <1>3, <2>1, <2>2, <2>3 DEF SearchIsOwed, Inv
<1>7. QED BY <1>4, <1>5, <1>6

LEMMA ShutdownOwes ==
  ASSUME Inv, WorkerSpuriouslyWakes \/ SpinReturns \/ Destroy \/ Interrupt \/ Terminated
                \/ UNCHANGED vars
  PROVE  SearchIsOwed'
<1>1. CASE WorkerSpuriouslyWakes
  BY <1>1 DEF WorkerSpuriouslyWakes, Drain!SpuriousWorkerWakeup, storeVars, searchVars,
              engineVars, SearchIsOwed, AllSearched, Inv
<1>2. CASE SpinReturns \/ Interrupt
  BY <1>2 DEF SpinReturns, Interrupt, SearchIsOwed
<1>3. CASE Destroy
  <2>1. UNCHANGED <<stopping, drainPending, job, drainError, caller, graph, exec, rosOk,
                    search, cursor>>
    BY <1>3 DEF Destroy, Drain!StopNotify, Drain!StopJoin, storeVars, searchVars, engineVars
  <2>2. worker' \in {"task", "drain"} <=> worker \in {"task", "drain"}
    BY <1>3 DEF Destroy, Drain!StopNotify, Drain!StopJoin, Drain!NotifyWork
  <2>3. process = "running"
    BY <1>3 DEF Destroy
  <2>4. QED BY <2>1, <2>2, <2>3 DEF SearchIsOwed, AllSearched, Inv
<1>4. CASE Terminated \/ UNCHANGED vars
  BY <1>4 DEF Terminated, vars, drainVars, storeVars, searchVars, engineVars, SearchIsOwed,
              AllSearched, Inv
<1>5. QED BY <1>1, <1>2, <1>3, <1>4

(* Every unsearched submap is owed a search, in every configuration.       *)
THEOREM SearchStaysOwed == Spec => []SearchIsOwed
<1>1. Init => SearchIsOwed
  BY DEF Init, Drain!Init, SearchIsOwed, AllSearched
<1>2. Inv /\ [Next]_vars => SearchIsOwed'
  <2> SUFFICES ASSUME Inv, [Next]_vars PROVE SearchIsOwed'
    OBVIOUS
  <2>1. CASE StageOdomSubmap \/ StageMapArray \/ CommitGraph \/ RequestDrain
    BY <2>1, CallbackOwes
  <2>2. CASE RequestReturns \/ MapSave \/ MapSaveReturns \/ MapSaveWaits
    BY <2>2, ExecutorOwes
  <2>3. CASE SearchStep
    BY <2>3, SearchOwes
  <2>4. CASE WorkerWakes \/ DrainEnds \/ TaskEnds
    BY <2>4, TurnOwes
  <2>5. CASE WorkerSpuriouslyWakes \/ SpinReturns \/ Destroy \/ Interrupt \/ Terminated
               \/ UNCHANGED vars
    BY <2>5, ShutdownOwes
  <2>6. QED BY <2>1, <2>2, <2>3, <2>4, <2>5 DEF Next, ExecutorStep, WorkerStep
<1>3. QED BY <1>1, <1>2, DrainInvariantInNode, PTL DEF Spec, Inv

(* When both threads rest, every committed submap has been searched:       *)
(* coalescing requests and going to sleep lose none.                       *)
THEOREM NothingLeftBehind == Spec => []NoSubmapLeftBehind
<1>1. Inv => NoSubmapLeftBehind
  BY DrainFacts DEF Inv, SearchIsOwed, NoSubmapLeftBehind
<1>2. QED BY <1>1, DrainInvariantInNode, SearchStaysOwed, PTL DEF Inv

-----------------------------------------------------------------------------
(* The application: what its two loops compute, by least counterexamples.  *)

(* A set of numbers has a least one: what is left of an induction when it  *)
(* is turned into the search for a least counterexample.                   *)
LEMMA LeastNat ==
  ASSUME NEW S \in SUBSET Nat, S # {}
  PROVE  \E n \in S : \A m \in S : n <= m
<1> DEFINE R == OpToRel(<, Nat)
<1>1. \A x, y \in Nat : <<x, y>> \in R <=> x < y
  BY DEF OpToRel
<1>2. IsWellFoundedOn(R, Nat)
  BY NatLessThanWellFounded
<1> HIDE DEF R
<1>3. PICK x \in S : \A y \in S : ~(<<y, x>> \in R)
  BY <1>2, WFMin
<1>4. ASSUME NEW y \in S PROVE x <= y
  <2>1. x \in Nat /\ y \in Nat
    OBVIOUS
  <2>2. ~(y < x)
    BY <1>1, <1>3, <2>1, Zenon
  <2>3. QED BY <2>1, <2>2
<1>5. QED BY <1>4

\* Loop edges between the first n submaps.
EdgeWithin(n) == [from : 0..(n - 1), to : 0..(n - 1), fitness : Int]

(* loopConstraintsForPrefix() goes through the edges one by one.           *)
LEMMA InducedSteps ==
  ASSUME NEW E, NEW e \in Seq(E), NEW count
  PROVE  \E kept :
           /\ InducedBy(e, count) = kept[Len(e)]
           /\ kept[0] = <<>>
           /\ \A n \in 1..Len(e) :
                kept[n] = IF e[n].from < count /\ e[n].to < count
                          THEN Append(kept[n - 1], e[n]) ELSE kept[n - 1]
<1> DEFINE Inside(x) == x.from < count /\ x.to < count
           Step(f, n) == IF n = 0 THEN <<>>
                         ELSE IF Inside(e[n]) THEN Append(f[n - 1], e[n]) ELSE f[n - 1]
           Is(f, n) == f = [m \in 0..n |-> Step(f, m)]
           kept == CHOOSE f : Is(f, Len(e))
           none == {n \in Nat : \A f : ~Is(f, n)}
<1>1. none = {}
  <2> SUFFICES ASSUME none # {} PROVE FALSE
    OBVIOUS
  <2>1. none \in SUBSET Nat
    OBVIOUS
  <2>2. PICK n \in none : \A m \in none : n <= m
    BY <2>1, LeastNat
  <2>3. n \in Nat /\ \A f : ~Is(f, n)
    OBVIOUS
  <2>4. n # 0
    <3>1. 0..0 = {0}
      OBVIOUS
    <3>2. Is([m \in 0..0 |-> <<>>], 0)
      BY <3>1
    <3>3. QED BY <2>3, <3>2
  <2>5. n - 1 \in Nat /\ n - 1 \notin none
    <3>1. n - 1 \in Nat /\ ~(n <= n - 1)
      BY <2>3, <2>4
    <3> HIDE DEF none
    <3>2. QED BY <2>2, <3>1
  <2>6. PICK f : Is(f, n - 1)
    BY <2>5
  <2> DEFINE g == [m \in 0..n |-> Step(f, m)]
  <2>7. ASSUME NEW m \in 0..n PROVE g[m] = Step(g, m)
    <3>1. CASE m = 0
      BY <3>1
    <3>2. CASE m # 0
      <4>1. m - 1 \in 0..(n - 1) /\ m - 1 \in 0..n
        BY <2>3, <3>2
      <4>2. f[m - 1] = Step(f, m - 1)
        BY <2>6, <4>1
      <4>3. g[m - 1] = f[m - 1]
        BY <4>1, <4>2
      <4>4. QED BY <3>2, <4>3
    <3>3. QED BY <3>1, <3>2
  <2>8. Is(g, n)
    BY <2>7
  <2> HIDE DEF g, Is
  <2>9. QED BY <2>3, <2>8
<1>2. Len(e) \in Nat
  OBVIOUS
<1>3. \E f : Is(f, Len(e))
  BY <1>1, <1>2
<1>4. Is(kept, Len(e))
  BY <1>3
<1>5. InducedBy(e, count) = kept[Len(e)]
  BY DEF InducedBy
<1> HIDE DEF kept
<1>6. \A n \in 0..Len(e) : kept[n] = Step(kept, n)
  BY <1>4
<1>7. kept[0] = <<>>
  <2>1. 0 \in 0..Len(e)
    BY <1>2
  <2>2. QED BY <1>6, <2>1
<1>8. ASSUME NEW n \in 1..Len(e)
      PROVE  kept[n] = IF Inside(e[n]) THEN Append(kept[n - 1], e[n]) ELSE kept[n - 1]
  <2>1. n \in 0..Len(e) /\ n # 0
    BY <1>2
  <2>2. QED BY <1>6, <2>1
<1>9. QED BY <1>5, <1>7, <1>8

(* It keeps edges and makes none.                                          *)
LEMMA InducedType ==
  ASSUME NEW E, NEW e \in Seq(E), NEW count
  PROVE  InducedBy(e, count) \in Seq(E)
<1>1. PICK kept :
        /\ InducedBy(e, count) = kept[Len(e)]
        /\ kept[0] = <<>>
        /\ \A n \in 1..Len(e) :
             kept[n] = IF e[n].from < count /\ e[n].to < count
                       THEN Append(kept[n - 1], e[n]) ELSE kept[n - 1]
  BY InducedSteps
<1> DEFINE bad == {n \in 0..Len(e) : kept[n] \notin Seq(E)}
<1>2. bad = {}
  <2> SUFFICES ASSUME bad # {} PROVE FALSE
    OBVIOUS
  <2>1. bad \in SUBSET Nat
    OBVIOUS
  <2>2. PICK n \in bad : \A m \in bad : n <= m
    BY <2>1, LeastNat
  <2>3. n \in 0..Len(e) /\ kept[n] \notin Seq(E)
    OBVIOUS
  <2>4. n # 0
    <3>1. <<>> \in Seq(E)
      OBVIOUS
    <3>2. QED BY <1>1, <2>3, <3>1
  <2>5. n \in 1..Len(e) /\ n - 1 \in 0..Len(e) /\ n - 1 \notin bad
    BY <2>2, <2>3, <2>4
  <2>6. kept[n - 1] \in Seq(E) /\ e[n] \in E
    BY <2>5
  <2>7. kept[n] = Append(kept[n - 1], e[n]) \/ kept[n] = kept[n - 1]
    BY <1>1, <2>5
  <2>8. Append(kept[n - 1], e[n]) \in Seq(E)
    BY <2>6
  <2>9. QED BY <2>3, <2>6, <2>7, <2>8
<1>3. Len(e) \in 0..Len(e)
  OBVIOUS
<1>4. QED BY <1>1, <1>2, <1>3

(* Of a prefix that holds all edges it drops none: after n edges it has    *)
(* kept the first n.                                                       *)
LEMMA AllInduced ==
  ASSUME NEW count \in Nat, NEW e \in Seq(EdgeWithin(count))
  PROVE  InducedBy(e, count) = e
<1>1. PICK kept :
        /\ InducedBy(e, count) = kept[Len(e)]
        /\ kept[0] = <<>>
        /\ \A n \in 1..Len(e) :
             kept[n] = IF e[n].from < count /\ e[n].to < count
                       THEN Append(kept[n - 1], e[n]) ELSE kept[n - 1]
  BY InducedSteps
<1>2. ASSUME NEW n \in 1..Len(e) PROVE kept[n] = Append(kept[n - 1], e[n])
  <2>1. e[n] \in EdgeWithin(count)
    OBVIOUS
  <2>2. e[n].from < count /\ e[n].to < count
    BY <2>1 DEF EdgeWithin
  <2>3. QED BY <1>1, <2>2
<1>3. \A n \in 1..Len(e) : Append(SubSeq(e, 1, n - 1), e[n]) = SubSeq(e, 1, n)
  OBVIOUS
<1>4. SubSeq(e, 1, 0) = <<>> /\ SubSeq(e, 1, Len(e)) = e /\ Len(e) \in 0..Len(e)
  OBVIOUS
<1> DEFINE bad == {n \in 0..Len(e) : kept[n] # SubSeq(e, 1, n)}
<1>5. bad = {}
  <2> SUFFICES ASSUME bad # {} PROVE FALSE
    OBVIOUS
  <2>1. bad \in SUBSET Nat
    OBVIOUS
  <2>2. PICK n \in bad : \A m \in bad : n <= m
    BY <2>1, LeastNat
  <2>3. n \in 0..Len(e) /\ kept[n] # SubSeq(e, 1, n)
    OBVIOUS
  <2>4. n # 0
    BY <1>1, <1>4, <2>3
  <2>5. n \in 1..Len(e) /\ n - 1 \in 0..Len(e) /\ n - 1 \notin bad
    BY <2>2, <2>3, <2>4
  <2>6. kept[n - 1] = SubSeq(e, 1, n - 1)
    BY <2>5
  <2>7. QED BY <1>2, <1>3, <2>3, <2>5, <2>6
<1>6. kept[Len(e)] = SubSeq(e, 1, Len(e))
  BY <1>4, <1>5
<1>7. QED BY <1>1, <1>4, <1>6

(* A new edge is appended or replaces another one.                         *)
LEMMA UpsertKeeps ==
  ASSUME NEW E, NEW s \in Seq(E), NEW new, Normalized(new) \in E
  PROVE  Upsert(s, new) \in Seq(E)
<1>1. ASSUME NEW k, NEW x \in E PROVE [s EXCEPT ![k] = x] \in Seq(E)
  <2>1. s \in [1..Len(s) -> E] /\ Len(s) \in Nat
    OBVIOUS
  <2>2. [s EXCEPT ![k] = x] \in [1..Len(s) -> E]
    BY <2>1
  <2>3. QED BY <2>1, <2>2
<1>2. Append(s, Normalized(new)) \in Seq(E)
  OBVIOUS
<1>3. QED BY <1>1, <1>2 DEF Upsert

(* What a better map asks of its loops: none is lost, and each gives way   *)
(* only to a better one near it, or when its own fitness is no score.      *)
Improves(s, t) ==
  /\ Len(s) <= Len(t)
  /\ \A k \in 1..Len(s) :
       \/ t[k] = s[k]
       \/ NearbyPair(s[k], t[k]) /\ (s[k].fitness <= 0 \/ t[k].fitness < s[k].fitness)

(* upsert() keeps "the better fitness for nearby duplicate pairs"          *)
(* (loop_edge_set.hpp): afterwards a valid edge has one near it that is at *)
(* least as good, and of the others at most one, near it, is gone.         *)
THEOREM NearbyKeepsBetter ==
  ASSUME NEW s \in Seq(Edge), NEW e \in Edge
  PROVE  LET t == Upsert(s, e)
         IN  /\ Improves(s, t)
             /\ \E j \in Nat : \A k \in 1..Len(s) \ {j} : t[k] = s[k]
             /\ Valid(e) => \E k \in 1..Len(t) :
                              NearbyPair(t[k], Normalized(e)) /\ t[k].fitness <= e.fitness
<1> DEFINE new == Normalized(e)
           near == NearbyIndices(s, e)
           first == Min(near)
<1>1. new \in Edge /\ new.fitness = e.fitness
  BY DEF Normalized, Edge
<1>2. NearbyPair(new, new)
  <2>1. new.from \in Nat /\ new.to \in Nat
    BY <1>1 DEF Edge
  <2> HIDE DEF new
  <2>2. Distance(new.from, new.from) = 0 /\ Distance(new.to, new.to) = 0
    BY <2>1 DEF Distance
  <2> QED BY <2>2, DedupWindowAssumption DEF NearbyPair
<1>3. near \in SUBSET Nat /\ \A k \in near : k \in 1..Len(s) /\ NearbyPair(s[k], new)
  BY DEF NearbyIndices
<1>4. near # {} => first \in near
  <2> SUFFICES ASSUME near # {} PROVE first \in near
    OBVIOUS
  <2> HIDE DEF near
  <2>1. \E n \in near : \A m \in near : n <= m
    BY <1>3, LeastNat
  <2> QED BY <2>1 DEF Min
<1>5. \A k \in 1..Len(s) : s[k] \in Edge /\ s[k].fitness \in Int
  <2>1. \A k \in 1..Len(s) : s[k] \in Edge
    OBVIOUS
  <2>2. \A x \in Edge : x.fitness \in Int
    BY DEF Edge
  <2> QED BY <2>1, <2>2
<1>6. e.fitness \in Int
  BY DEF Edge
<1> HIDE DEF new, near, first
<1> DEFINE OthersStay(t) == \E j \in Nat : \A k \in 1..Len(s) \ {j} : t[k] = s[k]
<1>7. CASE ~Accepts(s, e)
  <2>1. Upsert(s, e) = s
    BY <1>7 DEF Upsert
  <2>2. Valid(e) => near # {} /\ s[first].fitness > 0 /\ e.fitness >= s[first].fitness
    BY <1>7 DEF Accepts, KeepsExisting, near, first
  <2>3. Valid(e) => first \in 1..Len(s) /\ NearbyPair(s[first], new) /\ s[first].fitness <= e.fitness
    BY <1>3, <1>4, <1>5, <1>6, <2>2
  <2>4. Improves(s, s) /\ OthersStay(s)
    BY DEF Improves
  <2> QED BY <2>1, <2>3, <2>4 DEF new
<1>8. CASE Accepts(s, e) /\ near = {}
  <2>1. Upsert(s, e) = Append(s, new)
    BY <1>8 DEF Upsert, near, new
  <2>2. Len(Append(s, new)) = Len(s) + 1 /\ Append(s, new)[Len(s) + 1] = new
        /\ \A k \in 1..Len(s) : Append(s, new)[k] = s[k]
    BY <1>1
  <2>3. Improves(s, Append(s, new)) /\ OthersStay(Append(s, new))
    BY <2>2 DEF Improves
  <2>4. Len(s) + 1 \in 1..(Len(s) + 1) /\ new.fitness <= e.fitness
    BY <1>1, <1>6
  <2> QED BY <1>2, <2>1, <2>2, <2>3, <2>4 DEF new
<1>9. CASE Accepts(s, e) /\ near # {}
  <2> DEFINE t == [s EXCEPT ![first] = new]
  <2>1. Upsert(s, e) = t
    BY <1>9 DEF Upsert, near, first, new
  <2>2. first \in 1..Len(s) /\ NearbyPair(s[first], new)
    BY <1>3, <1>4, <1>9
  <2>3. Len(t) = Len(s) /\ t[first] = new /\ \A k \in 1..Len(s) \ {first} : t[k] = s[k]
    BY <1>1, <2>2
  <2> HIDE DEF t
  <2>4. s[first].fitness <= 0 \/ new.fitness < s[first].fitness
    <3>1. ~(s[first].fitness > 0 /\ e.fitness >= s[first].fitness)
      BY <1>9 DEF Accepts, KeepsExisting, near, first
    <3> QED BY <1>1, <1>5, <1>6, <2>2, <3>1
  <2>5. Improves(s, t) /\ OthersStay(t)
    <3>1. first \in Nat
      BY <2>2
    <3>2. OthersStay(t)
      BY <2>3, <3>1
    <3>3. Improves(s, t)
      BY <2>2, <2>3, <2>4 DEF Improves
    <3> QED BY <3>2, <3>3
  <2>6. new.fitness <= e.fitness
    BY <1>1, <1>6
  <2>7. first \in 1..Len(t) /\ NearbyPair(t[first], new) /\ t[first].fitness <= e.fitness
    BY <1>2, <2>2, <2>3, <2>6
  <2> QED BY <2>1, <2>5, <2>7 DEF new
<1> QED BY <1>7, <1>8, <1>9

(* processSubmaps() answers the submaps from its cursor on one by one, each *)
(* with the edges that the one before it left.                             *)
Answers(event, visible, next, before) ==
  /\ Process(visible, next, before) = [k \in 1..(Len(visible) - next) |-> event[next + k - 1]]
  /\ \A q \in next..(Len(visible) - 1) :
       event[q] = SearchEvent(SubSeq(visible, 1, q + 1),
                              IF q = next THEN before ELSE event[q - 1].edges)

LEMMA ProcessSteps ==
  ASSUME NEW V, NEW visible \in Seq(V), NEW next \in Nat, next <= Len(visible), NEW before
  PROVE  \E event : Answers(event, visible, next, before)
<1> DEFINE Step(f, q) == SearchEvent(SubSeq(visible, 1, q + 1),
                                     IF q = next THEN before ELSE f[q - 1].edges)
           Is(f, n) == f = [q \in next..(n - 1) |-> Step(f, q)]
           event == CHOOSE f : Is(f, Len(visible))
           none == {n \in Nat : next <= n /\ \A f : ~Is(f, n)}
<1>1. none = {}
  <2> SUFFICES ASSUME none # {} PROVE FALSE
    OBVIOUS
  <2>1. none \in SUBSET Nat
    OBVIOUS
  <2>2. PICK n \in none : \A m \in none : n <= m
    BY <2>1, LeastNat
  <2>3. n \in Nat /\ next <= n /\ \A f : ~Is(f, n)
    OBVIOUS
  <2>4. n # next
    <3>1. next..(next - 1) = {}
      OBVIOUS
    <3> DEFINE f == [q \in {} |-> before]
    <3>2. f = [q \in {} |-> Step(f, q)]
      OBVIOUS
    <3>3. Is(f, next)
      BY <3>1, <3>2
    <3> HIDE DEF f, Is
    <3>4. QED BY <2>3, <3>3
  <2>5. n - 1 \in Nat /\ next <= n - 1 /\ n - 1 \notin none
    <3>1. n - 1 \in Nat /\ next <= n - 1 /\ ~(n <= n - 1)
      BY <2>3, <2>4
    <3> HIDE DEF none
    <3>2. QED BY <2>2, <3>1
  <2>6. PICK f : Is(f, n - 1)
    BY <2>5
  <2> DEFINE g == [q \in next..(n - 1) |-> Step(f, q)]
  <2>7. ASSUME NEW q \in next..(n - 1) PROVE g[q] = Step(g, q)
    <3>1. CASE q = next
      BY <3>1
    <3>2. CASE q # next
      <4>1. q - 1 \in next..(n - 1 - 1) /\ q - 1 \in next..(n - 1)
        BY <2>3, <3>2
      <4>2. f[q - 1] = Step(f, q - 1)
        BY <2>6, <4>1
      <4>3. g[q - 1] = f[q - 1]
        BY <4>1, <4>2
      <4>4. QED BY <3>2, <4>3
    <3>3. QED BY <3>1, <3>2
  <2>8. Is(g, n)
    BY <2>7
  <2> HIDE DEF g, Is
  <2>9. QED BY <2>3, <2>8
<1>2. Len(visible) \in Nat
  OBVIOUS
<1>3. \E f : Is(f, Len(visible))
  BY <1>1, <1>2
<1>4. Is(event, Len(visible))
  BY <1>3
<1>5. Process(visible, next, before) = [k \in 1..(Len(visible) - next) |-> event[next + k - 1]]
  BY DEF Process
<1> HIDE DEF event
<1>6. \A q \in next..(Len(visible) - 1) : event[q] = Step(event, q)
  BY <1>4
<1>7. QED BY <1>5, <1>6 DEF Answers

(* A call with one query to do makes one event.                            *)
LEMMA OneQuery ==
  ASSUME NEW V, NEW visible \in Seq(V), NEW next \in Nat, Len(visible) = next + 1, NEW before
  PROVE  Process(visible, next, before) = <<SearchEvent(visible, before)>>
<1>1. next \in next..(Len(visible) - 1) /\ SubSeq(visible, 1, next + 1) = visible
      /\ Len(visible) - next = 1 /\ next <= Len(visible)
  OBVIOUS
<1>2. PICK event : Answers(event, visible, next, before)
  BY <1>1, ProcessSteps
<1>3. event[next] = SearchEvent(visible, before)
  BY <1>1, <1>2 DEF Answers
<1>4. Process(visible, next, before) = [k \in 1..1 |-> event[next + k - 1]]
  BY <1>1, <1>2 DEF Answers
<1>5. \A k \in 1..1 : next + k - 1 = next
  OBVIOUS
<1>6. ASSUME NEW x PROVE [k \in 1..1 |-> x] = <<x>>
  OBVIOUS
<1>7. Process(visible, next, before) = [k \in 1..1 |-> SearchEvent(visible, before)]
  BY <1>3, <1>4, <1>5
<1>8. QED BY <1>6, <1>7

(* Submaps given to processSubmaps() at once, or in two calls: the same    *)
(* events in the same order.                                               *)
THEOREM BatchesCompose ==
  ASSUME NEW V, NEW visible \in Seq(V), NEW next \in Nat, NEW m \in next..Len(visible),
         NEW before
  PROVE  LET first == Process(SubSeq(visible, 1, m), next, before)
         IN  Process(visible, next, before)
               = first \o Process(visible, m, EdgesAfter(first, before))
<1> DEFINE n == Len(visible)
           part == SubSeq(visible, 1, m)
           all == Process(visible, next, before)
           first == Process(part, next, before)
           middle == EdgesAfter(first, before)
           second == Process(visible, m, middle)
<1>1. /\ n \in Nat /\ m \in Nat /\ next <= m /\ m <= n
      /\ part \in Seq(V) /\ Len(part) = m /\ next <= Len(visible) /\ m <= Len(visible)
  OBVIOUS
<1>5. \A q \in next..(m - 1) : SubSeq(part, 1, q + 1) = SubSeq(visible, 1, q + 1)
  BY <1>1
<1> HIDE DEF part, middle
<1>a. PICK a : Answers(a, visible, next, before)
  <2> HIDE DEF n, all
  <2>1. QED BY <1>1, ProcessSteps
<1>b. PICK b : Answers(b, part, next, before)
  BY <1>1, ProcessSteps
<1>c. PICK c : Answers(c, visible, m, middle)
  BY <1>1, ProcessSteps
<1>2. /\ all = [k \in 1..(n - next) |-> a[next + k - 1]]
      /\ \A q \in next..(n - 1) :
           a[q] = SearchEvent(SubSeq(visible, 1, q + 1), IF q = next THEN before ELSE a[q - 1].edges)
  BY <1>a DEF Answers
<1>3. /\ first = [k \in 1..(m - next) |-> b[next + k - 1]]
      /\ \A q \in next..(m - 1) :
           b[q] = SearchEvent(SubSeq(part, 1, q + 1), IF q = next THEN before ELSE b[q - 1].edges)
  BY <1>1, <1>b DEF Answers
<1>4. /\ second = [k \in 1..(n - m) |-> c[m + k - 1]]
      /\ \A q \in m..(n - 1) :
           c[q] = SearchEvent(SubSeq(visible, 1, q + 1), IF q = m THEN middle ELSE c[q - 1].edges)
  BY <1>c DEF Answers
<1> HIDE DEF n, all, first, second
<1> DEFINE bad == {q \in next..(m - 1) : a[q] # b[q]}
<1>6. bad = {}
  <2> SUFFICES ASSUME bad # {} PROVE FALSE
    OBVIOUS
  <2>1. bad \in SUBSET Nat
    BY <1>1
  <2>2. PICK q \in bad : \A r \in bad : q <= r
    BY <2>1, LeastNat
  <2>3. q \in next..(m - 1) /\ q \in next..(n - 1) /\ a[q] # b[q]
    BY <1>1
  <2>4. a[q] = SearchEvent(SubSeq(visible, 1, q + 1), IF q = next THEN before ELSE a[q - 1].edges)
    BY <1>2, <2>3
  <2>5. b[q] = SearchEvent(SubSeq(visible, 1, q + 1), IF q = next THEN before ELSE b[q - 1].edges)
    BY <1>3, <1>5, <2>3
  <2>6. q # next
    BY <2>3, <2>4, <2>5
  <2>7. q - 1 \in next..(m - 1) /\ ~(q <= q - 1)
    BY <1>1, <2>3, <2>6
  <2>8. q - 1 \notin bad
    <3> HIDE DEF bad
    <3>1. QED BY <2>2, <2>7
  <2>9. QED BY <2>3, <2>4, <2>5, <2>7, <2>8
<1>7. middle = IF m = next THEN before ELSE a[m - 1].edges
  <2>1. CASE m = next
    <3>1. 1..(m - next) = {}
      BY <1>1, <2>1
    <3>2. first = <<>>
      BY <1>3, <3>1
    <3>3. QED BY <2>1, <3>2 DEF EdgesAfter, middle
  <2>2. CASE m # next
    <3>1. m - next \in Nat /\ m - next > 0 /\ next + (m - next) - 1 = m - 1
          /\ m - 1 \in next..(m - 1)
      BY <1>1, <2>2
    <3>2. first = [k \in 1..(m - next) |-> b[next + k - 1]]
      BY <1>3
    <3>3. Len(first) = m - next /\ first[m - next] = b[m - 1] /\ first # <<>>
      BY <3>1, <3>2
    <3>4. b[m - 1] = a[m - 1]
      BY <1>6, <3>1
    <3>5. QED BY <2>2, <3>3, <3>4 DEF EdgesAfter, Last, middle
  <2>3. QED BY <2>1, <2>2
<1> HIDE DEF middle, bad
<1> DEFINE worse == {q \in m..(n - 1) : a[q] # c[q]}
<1>8. worse = {}
  <2> SUFFICES ASSUME worse # {} PROVE FALSE
    OBVIOUS
  <2>1. worse \in SUBSET Nat
    BY <1>1
  <2>2. PICK q \in worse : \A r \in worse : q <= r
    BY <2>1, LeastNat
  <2>3. q \in m..(n - 1) /\ q \in next..(n - 1) /\ a[q] # c[q]
    BY <1>1
  <2>4. a[q] = SearchEvent(SubSeq(visible, 1, q + 1), IF q = next THEN before ELSE a[q - 1].edges)
    BY <1>2, <2>3
  <2>5. c[q] = SearchEvent(SubSeq(visible, 1, q + 1), IF q = m THEN middle ELSE c[q - 1].edges)
    BY <1>4, <2>3
  <2>6. q # m
    BY <1>7, <2>3, <2>4, <2>5
  <2>7. q - 1 \in m..(n - 1) /\ ~(q <= q - 1) /\ q # next
    BY <1>1, <2>3, <2>6
  <2>8. q - 1 \notin worse
    <3> HIDE DEF worse
    <3>1. QED BY <2>2, <2>7
  <2>9. QED BY <2>3, <2>4, <2>5, <2>6, <2>7, <2>8
<1>9. all = first \o second
  <2>1. n - next \in Nat /\ m - next \in Nat /\ n - m \in Nat /\ (m - next) + (n - m) = n - next
    BY <1>1
  <2> DEFINE S == {a[q] : q \in next..(n - 1)} \cup {b[q] : q \in next..(m - 1)} \cup {c[q] : q \in m..(n - 1)}
  <2>2. \A k \in 1..(n - next) : next + k - 1 \in next..(n - 1)
    BY <1>1
  <2>3. \A k \in 1..(m - next) : next + k - 1 \in next..(m - 1)
    BY <1>1
  <2>4. \A k \in 1..(n - m) : m + k - 1 \in m..(n - 1)
    BY <1>1
  <2>5. /\ \A q \in next..(n - 1) : a[q] \in S
        /\ \A q \in next..(m - 1) : b[q] \in S
        /\ \A q \in m..(n - 1) : c[q] \in S
    OBVIOUS
  <2> HIDE DEF S
  <2>6. all \in Seq(S) /\ Len(all) = n - next
    <3>1. all = [k \in 1..(n - next) |-> a[next + k - 1]]
      BY <1>2
    <3>2. \A k \in 1..(n - next) : a[next + k - 1] \in S
      BY <2>2, <2>5
    <3>3. QED BY <2>1, <3>1, <3>2
  <2>7. first \in Seq(S) /\ Len(first) = m - next
    BY <1>3, <2>1, <2>3, <2>5
  <2>8. second \in Seq(S) /\ Len(second) = n - m
    <3>1. second = [k \in 1..(n - m) |-> c[m + k - 1]]
      BY <1>4
    <3>2. \A k \in 1..(n - m) : c[m + k - 1] \in S
      BY <2>4, <2>5
    <3>3. QED BY <2>1, <3>1, <3>2
  <2>9. first \o second \in Seq(S) /\ Len(first \o second) = n - next
    BY <2>1, <2>7, <2>8
  <2>10. ASSUME NEW k \in 1..(n - next) PROVE all[k] = (first \o second)[k]
    <3>1. all[k] = a[next + k - 1]
      BY <1>2
    <3>2. CASE k \in 1..(m - next)
      <4>1. (first \o second)[k] = first[k] /\ first[k] = b[next + k - 1]
        BY <1>3, <2>7, <2>8, <3>2
      <4>2. a[next + k - 1] = b[next + k - 1]
        BY <1>6, <2>3, <3>2 DEF bad
      <4>3. QED BY <3>1, <4>1, <4>2
    <3>3. CASE k \notin 1..(m - next)
      <4>1. k - (m - next) \in 1..(n - m) /\ k > m - next
            /\ m + (k - (m - next)) - 1 = next + k - 1 /\ next + k - 1 \in m..(n - 1)
        BY <1>1, <3>3
      <4>2. (first \o second)[k] = second[k - (m - next)]
        BY <2>1, <2>7, <2>8, <4>1
      <4>3. second[k - (m - next)] = c[next + k - 1]
        BY <1>4, <4>1
      <4>4. a[next + k - 1] = c[next + k - 1]
        BY <1>8, <4>1
      <4>5. QED BY <3>1, <4>2, <4>3, <4>4
    <3>4. QED BY <3>2, <3>3
  <2>11. QED BY <2>6, <2>9, <2>10
<1>10. QED BY <1>9 DEF all, first, second, middle, part

-----------------------------------------------------------------------------
(* Clouds belong to the submaps whose poses they go with.                  *)

(* Files are named by index only: with a second frontend run they may be   *)
(* clouds of a graph that is not committed yet.                            *)
OneRunPerCache == UsePcdCache => MaxSessions = 1 \/ UseOdomInput

(* An entry carries its cloud, or the file of its index does.              *)
Carried(files, e, i) ==
  /\ e.cloud = e.pose \/ (UsePcdCache /\ e.cloud = NoCloud /\ files[i] = e.pose)
  /\ UsePcdCache => e.pose = <<1, i>>

Sound(files, g) ==
  /\ g \in Seq(Entry) /\ Len(g) <= MaxSubmaps
  /\ \A i \in 1..Len(g) : Carried(files, g[i], i)

StoreInv ==
  /\ session \in 1..MaxSessions
  /\ UsePcdCache => session = 1
  /\ DOMAIN cache = 1..MaxSubmaps
  /\ \A i \in 1..MaxSubmaps : /\ cache[i] \in Submap \cup {NoCloud}
                              /\ UsePcdCache => cache[i] \in {NoCloud, <<1, i>>}
  /\ Sound(cache, graph) /\ Sound(cache, incoming) /\ Sound(cache, snap)

WholeSeq(g) == \A i \in DOMAIN g : g[i].cloud = g[i].pose

(* One call of processSubmaps() is one query, so the body's query index    *)
(* and the cursor of the application move together.                        *)
QueryInv ==
  /\ cursor \in Nat \ {0} /\ query \in Nat
  /\ search = "query" => query = cursor
  /\ search = "events" =>
       /\ cursor = query + 1 /\ query < Len(snap)
       /\ events = <<>> \/ (\E e : events = <<e>> /\ e.query = query)

LogInv ==
  /\ \E S : log \in Seq(S)
  /\ \A k \in 1..Len(log) : WholeSeq(log[k].visible)
  /\ WholeSeq(published.submaps) /\ WholeSeq(saved.submaps)

CloudInv == StoreInv /\ QueryInv /\ LogInv

LEMMA LoadedIsWhole ==
  ASSUME StoreInv, NEW g, Sound(cache, g), NEW count \in 0..Len(g)
  PROVE  /\ Loaded(g, count) \in Seq(WholeEntry)
         /\ Len(Loaded(g, count)) = count
         /\ WholeSeq(Loaded(g, count))
<1>1. \A i \in 1..count : LoadCloud(g, i) = g[i].pose /\ g[i].pose \in Submap
  <2> SUFFICES ASSUME NEW i \in 1..count
               PROVE  LoadCloud(g, i) = g[i].pose /\ g[i].pose \in Submap
    OBVIOUS
  <2>1. g \in Seq(Entry) /\ i \in 1..Len(g) /\ i \in 1..MaxSubmaps /\ Carried(cache, g[i], i)
    BY BackendAssumption DEF Sound
  <2>2. g[i] \in Entry
    BY <2>1
  <2>3. g[i].pose \in Submap
    BY <2>2 DEF Entry
  <2>4. LoadCloud(g, i) = g[i].pose
    BY <2>1 DEF StoreInv, Carried, LoadCloud
  <2>5. QED BY <2>3, <2>4
<1>2. Loaded(g, count) = [i \in 1..count |-> [pose |-> g[i].pose, cloud |-> LoadCloud(g, i)]]
  BY DEF Loaded
<1>3. Loaded(g, count) \in Seq(WholeEntry) /\ Len(Loaded(g, count)) = count
  BY <1>1, <1>2 DEF WholeEntry
<1>4. WholeSeq(Loaded(g, count))
  BY <1>1, <1>2 DEF WholeSeq
<1>5. QED BY <1>3, <1>4

LEMMA CloudInit == Init => CloudInv
<1> SUFFICES ASSUME Init PROVE CloudInv
  OBVIOUS
<1>1. \A g : g = <<>> => Sound(cache, g) /\ WholeSeq(g)
  BY BackendAssumption DEF Sound, WholeSeq
<1>2. StoreInv
  BY <1>1, BackendAssumption DEF Init, StoreInv
<1>3. QueryInv
  BY DEF Init, QueryInv
<1>4. LogInv
  <2>1. log \in Seq({}) /\ Len(log) = 0
    BY DEF Init
  <2>2. published.submaps = <<>> /\ saved.submaps = <<>>
    BY DEF Init, EmptyMap
  <2>3. QED BY <1>1, <2>1, <2>2 DEF LogInv
<1>5. QED BY <1>2, <1>3, <1>4 DEF CloudInv

(* A callback stages a graph whose clouds are in the files or with it.     *)
LEMMA StageKeepsClouds ==
  ASSUME OneRunPerCache, CloudInv, StageOdomSubmap \/ StageMapArray
  PROVE  CloudInv'
<1>1. ASSUME NEW g \in Seq(Submap), NEW stored \in SUBSET (1..Len(g)),
             Len(g) <= MaxSubmaps, Stage(g, stored),
             stored # {} => UsePcdCache,
             session' \in 1..MaxSessions, UsePcdCache => session' = 1,
             UsePcdCache => \A i \in 1..Len(g) : g[i] = <<1, i>>,
             UseOdomInput => \A i \in 1..Len(graph) : i \in 1..Len(g) /\ g[i] = graph[i].pose
      PROVE  CloudInv'
  <2>1. UNCHANGED <<graph, search, snap, query, events, cursor, log, published, saved>>
    BY <1>1 DEF Stage, searchVars, engineVars, mapVars
  <2>2. cache' = [i \in DOMAIN cache |-> IF i \in stored THEN g[i] ELSE cache[i]]
    BY <1>1 DEF Stage
  <2>3. DOMAIN cache = 1..MaxSubmaps /\ DOMAIN cache' = 1..MaxSubmaps
    BY <2>2 DEF CloudInv, StoreInv
  <2>4. \A i \in 1..MaxSubmaps : cache'[i] = IF i \in stored THEN g[i] ELSE cache[i]
    BY <2>2, <2>3
  <2>5. \A i \in 1..Len(g) : g[i] \in Submap
    BY <1>1
  <2>6. \A i \in 1..MaxSubmaps : /\ cache'[i] \in Submap \cup {NoCloud}
                                 /\ UsePcdCache => cache'[i] \in {NoCloud, <<1, i>>}
    BY <1>1, <2>4, <2>5 DEF CloudInv, StoreInv
  <2>7. ASSUME NEW h, Sound(cache, h) PROVE Sound(cache', h)
    <3>1. h \in Seq(Entry) /\ Len(h) <= MaxSubmaps /\ \A i \in 1..Len(h) : Carried(cache, h[i], i)
      BY <2>7 DEF Sound
    <3>2. ASSUME NEW i \in 1..Len(h) PROVE Carried(cache', h[i], i)
      <4>1. i \in 1..MaxSubmaps /\ Carried(cache, h[i], i)
        BY <3>1, BackendAssumption
      <4>2. CASE i \in stored
        BY <1>1, <2>4, <4>1, <4>2 DEF Carried
      <4>3. CASE i \notin stored
        BY <2>4, <4>1, <4>3 DEF Carried
      <4>4. QED BY <4>2, <4>3
    <3>3. QED BY <3>1, <3>2 DEF Sound
  <2>8. Sound(cache', incoming')
    <3> DEFINE Cloud(i) == IF i \in DOMAIN graph /\ UseOdomInput THEN graph[i].cloud
                           ELSE IF i \in stored THEN NoCloud ELSE g[i]
    <3>1. incoming' = [i \in 1..Len(g) |-> [pose |-> g[i], cloud |-> Cloud(i)]]
      BY <1>1 DEF Stage
    <3>2. graph \in Seq(Entry) /\ Sound(cache, graph)
      BY DEF CloudInv, StoreInv, Sound
    <3>3. ASSUME NEW i \in 1..Len(g)
          PROVE  /\ Cloud(i) \in Submap \cup {NoCloud}
                 /\ Carried(cache', [pose |-> g[i], cloud |-> Cloud(i)], i)
      <4>1. i \in 1..MaxSubmaps /\ g[i] \in Submap
        BY <1>1, <2>5, BackendAssumption
      <4>2. CASE i \in DOMAIN graph /\ UseOdomInput
        <5>1. i \in 1..Len(graph) /\ graph[i] \in Entry /\ g[i] = graph[i].pose
              /\ Cloud(i) = graph[i].cloud
          BY <1>1, <3>2, <4>2
        <5>2. graph[i].cloud \in Submap \cup {NoCloud}
          BY <5>1 DEF Entry
        <5>3. Carried(cache', graph[i], i)
          <6>1. Sound(cache', graph')
            BY <2>1, <2>7, <3>2
          <6>2. QED BY <2>1, <5>1, <6>1 DEF Sound
        <5>4. QED BY <2>1, <5>1, <5>2, <5>3 DEF Carried
      <4>3. CASE ~(i \in DOMAIN graph /\ UseOdomInput)
        <5>1. Cloud(i) = IF i \in stored THEN NoCloud ELSE g[i]
          BY <4>3
        <5>2. QED BY <1>1, <2>4, <4>1, <5>1 DEF Carried
      <4>4. QED BY <4>2, <4>3
    <3> HIDE DEF Cloud
    <3>4. \A i \in 1..Len(g) : [pose |-> g[i], cloud |-> Cloud(i)] \in Entry
      BY <2>5, <3>3 DEF Entry
    <3>5. incoming' \in Seq(Entry) /\ Len(incoming') = Len(g)
      BY <1>1, <3>1, <3>4
    <3>6. \A i \in 1..Len(incoming') : Carried(cache', incoming'[i], i)
      BY <3>1, <3>3, <3>5
    <3>7. QED BY <1>1, <3>5, <3>6 DEF Sound
  <2>9. StoreInv'
    <3>1. Sound(cache', graph') /\ Sound(cache', snap')
      BY <2>1, <2>7 DEF CloudInv, StoreInv
    <3>2. QED BY <1>1, <2>3, <2>6, <2>8, <3>1 DEF StoreInv
  <2>10. QueryInv' /\ LogInv'
    BY <2>1 DEF CloudInv, QueryInv, LogInv, WholeSeq
  <2>11. QED BY <2>9, <2>10 DEF CloudInv
<1>2. CASE StageOdomSubmap
  <2> DEFINE g == Append(Poses(graph), <<session, Len(graph) + 1>>)
  <2>1. /\ UseOdomInput /\ Len(graph) < MaxSubmaps /\ session' = session
        /\ \E stored \in SUBSET {Len(graph) + 1} :
             (stored # {} => UsePcdCache) /\ Stage(g, stored)
    BY <1>2 DEF StageOdomSubmap
  <2>2. /\ graph \in Seq(Entry) /\ Len(graph) \in Nat /\ session \in 1..MaxSessions
        /\ UsePcdCache => session = 1
        /\ \A i \in 1..Len(graph) : Carried(cache, graph[i], i)
    BY DEF CloudInv, StoreInv, Sound
  <2>3. \A i \in 1..Len(graph) : graph[i].pose \in Submap
    <3>1. \A e \in Entry : e.pose \in Submap
      BY DEF Entry
    <3>2. QED BY <2>2, <3>1
  <2>4. Poses(graph) \in Seq(Submap) /\ Len(Poses(graph)) = Len(graph)
        /\ \A i \in 1..Len(graph) : Poses(graph)[i] = graph[i].pose
    <3>1. DOMAIN graph = 1..Len(graph)
      BY <2>2
    <3>2. QED BY <2>2, <2>3, <3>1 DEF Poses
  <2>5. <<session, Len(graph) + 1>> \in Submap
    BY <2>1, <2>2, BackendAssumption DEF Submap
  <2>6. /\ g \in Seq(Submap) /\ Len(g) = Len(graph) + 1
        /\ \A i \in 1..Len(graph) : g[i] = graph[i].pose
        /\ g[Len(graph) + 1] = <<session, Len(graph) + 1>>
    BY <2>2, <2>4, <2>5
  <2> HIDE DEF g
  <2>7. UsePcdCache => \A i \in 1..Len(g) : g[i] = <<1, i>>
    BY <2>2, <2>6 DEF Carried
  <2>8. PICK stored \in SUBSET {Len(graph) + 1} :
             (stored # {} => UsePcdCache) /\ Stage(g, stored)
    BY <2>1
  <2>9. stored \in SUBSET (1..Len(g)) /\ Len(g) <= MaxSubmaps
        /\ \A i \in 1..Len(graph) : i \in 1..Len(g)
    BY <2>1, <2>2, <2>6, BackendAssumption
  <2>10. QED BY <1>1, <2>1, <2>2, <2>6, <2>7, <2>8, <2>9
<1>3. CASE StageMapArray
  <2>1. PICK s \in session..MaxSessions, count \in 1..MaxSubmaps :
          /\ \E stored \in SUBSET (1..count) :
               (stored # {} => UsePcdCache) /\ Stage([i \in 1..count |-> <<s, i>>], stored)
          /\ session' = s
    BY <1>3 DEF StageMapArray
  <2> DEFINE g == [i \in 1..count |-> <<s, i>>]
  <2>2. s \in 1..MaxSessions /\ ~UseOdomInput
    BY <1>3, BackendAssumption DEF StageMapArray, CloudInv, StoreInv
  <2>3. UsePcdCache => s = 1
    BY <2>2, BackendAssumption DEF OneRunPerCache
  <2>4. \A i \in 1..count : <<s, i>> \in Submap
    BY <2>2, BackendAssumption DEF Submap
  <2>5. g \in Seq(Submap) /\ Len(g) = count /\ \A i \in 1..count : g[i] = <<s, i>>
    BY <2>4
  <2>6. PICK stored \in SUBSET (1..count) :
          (stored # {} => UsePcdCache) /\ Stage(g, stored)
    BY <2>1
  <2> HIDE DEF g
  <2>7. count <= MaxSubmaps
    BY BackendAssumption
  <2>8. QED BY <1>1, <2>1, <2>2, <2>3, <2>5, <2>6, <2>7
<1>4. QED BY <1>2, <1>3

(* Commits, snapshots and the head of a body.                              *)
LEMMA GraphKeepsClouds ==
  ASSUME CloudInv,
         \/ CommitGraph \/ RequestDrain \/ TakeSnapshot
         \/ WorkerWakes \/ DrainEnds \/ TaskEnds
  PROVE  CloudInv'
<1>1. UNCHANGED <<cache, session, cursor, log, published, saved>>
  BY DEF CommitGraph, RequestDrain, TakeSnapshot, SearchAt, WorkerWakes, DrainEnds, TaskEnds,
         storeVars, engineVars, mapVars
<1>2. /\ graph' \in {graph, incoming} /\ incoming' \in {incoming, <<>>}
      /\ snap' \in {snap, graph, <<>>}
  BY DEF CommitGraph, RequestDrain, TakeSnapshot, SearchAt, WorkerWakes, DrainEnds, TaskEnds,
         EnterBody, storeVars, searchVars
<1>3. /\ query' \in {query, cursor, 0}
      /\ \/ UNCHANGED <<search, query, events, snap>>
         \/ search' # "query" /\ search' # "events"
         \/ search' = "query" /\ query' = cursor
  BY DEF CommitGraph, RequestDrain, TakeSnapshot, SearchAt, WorkerWakes, DrainEnds, TaskEnds,
         EnterBody, searchVars
<1>4. Sound(cache, graph') /\ Sound(cache, incoming') /\ Sound(cache, snap')
  <2>1. Sound(cache, <<>>)
    BY BackendAssumption DEF Sound
  <2>2. QED BY <1>2, <2>1 DEF CloudInv, StoreInv
<1>5. StoreInv'
  <2>1. Sound(cache', graph') /\ Sound(cache', incoming') /\ Sound(cache', snap')
    BY <1>1, <1>4
  <2>2. QED BY <1>1, <2>1 DEF CloudInv, StoreInv
<1>6. QueryInv'
  <2>1. query' \in Nat /\ cursor' \in Nat \ {0}
    BY <1>1, <1>3 DEF CloudInv, QueryInv
  <2>2. QED BY <1>1, <1>3, <2>1 DEF CloudInv, QueryInv
<1>7. LogInv'
  BY <1>1 DEF CloudInv, LogInv, WholeSeq
<1>8. QED BY <1>5, <1>6, <1>7 DEF CloudInv

(* Steps inside a body that neither search nor adjust.                     *)
LEMMA BodyKeepsClouds ==
  ASSUME CloudInv,
         \/ QueriesExhausted \/ StopBetweenQueries \/ SkipEvent \/ NextQuery \/ AdjustFails
  PROVE  CloudInv'
<1>1. UNCHANGED <<storeVars, snap, cursor, log, published, saved>>
  BY DEF QueriesExhausted, StopBetweenQueries, SkipEvent, NextQuery, AdjustFails, SearchAt,
         engineVars, mapVars
<1>2. \/ search' \in {"loop", "interrupted", "failed"} /\ query' = query
      \/ /\ search = "events" /\ search' = "query" /\ query' = query + 1
      \/ /\ search = "events" /\ search' = "events" /\ query' = query
         /\ events # <<>> /\ events' = Tail(events)
  BY DEF QueriesExhausted, StopBetweenQueries, SkipEvent, NextQuery, AdjustFails, SearchAt
<1>3. StoreInv' /\ LogInv'
  BY <1>1 DEF storeVars, CloudInv, StoreInv, LogInv, WholeSeq
<1>4. QueryInv'
  <2>1. \A e : Tail(<<e>>) = <<>>
    OBVIOUS
  <2>2. QED BY <1>1, <1>2, <2>1 DEF CloudInv, QueryInv
<1>5. QED BY <1>3, <1>4 DEF CloudInv

(* A query sees its own clouds, and is the only one of its call.           *)
LEMMA QueryKeepsClouds ==
  ASSUME CloudInv, ProcessQuery \/ ProcessQueryFails
  PROVE  CloudInv'
<1> DEFINE visible == PrefixOf(snap, query)
           event == SearchEvent(visible, edges)
<1>1. /\ UNCHANGED <<storeVars, snap, query, published, saved>>
      /\ search = "query" /\ query < Len(snap)
  BY DEF ProcessQuery, ProcessQueryFails, SearchAt, mapVars
<1>2. /\ snap \in Seq(Entry) /\ Sound(cache, snap) /\ query = cursor
      /\ cursor \in Nat \ {0} /\ Len(snap) \in Nat
  BY <1>1 DEF CloudInv, StoreInv, QueryInv, Sound
<1>3. visible \in Seq(WholeEntry) /\ Len(visible) = query + 1 /\ WholeSeq(visible)
  <2>1. query + 1 \in 0..Len(snap)
    BY <1>1, <1>2
  <2>2. QED BY <1>2, <2>1, LoadedIsWhole DEF CloudInv, PrefixOf
<1> HIDE DEF visible
<1>4. Process(visible, cursor, edges) = <<event>>
  BY <1>2, <1>3, OneQuery
<1>5. event.query = query /\ event.visible = visible
  <2>1. Len(visible) - 1 = query
    BY <1>2, <1>3
  <2>2. QED BY <2>1 DEF SearchEvent
<1> HIDE DEF event
<1>6. StoreInv'
  BY <1>1 DEF storeVars, CloudInv, StoreInv
<1>7. PICK S : log \in Seq(S)
  BY DEF CloudInv, LogInv
<1>8. CASE ProcessQuery
  <2>1. /\ events' = <<event>> /\ cursor' = cursor + Len(<<event>>)
        /\ log' = log \o <<event>> /\ search' = "events"
    BY <1>4, <1>8 DEF ProcessQuery, visible
  <2>2. cursor' = cursor + 1
    BY <2>1
  <2>3. QueryInv'
    BY <1>1, <1>2, <1>5, <2>1, <2>2 DEF QueryInv
  <2>4. /\ log' \in Seq(S \cup {event}) /\ Len(log') = Len(log) + 1
        /\ \A k \in 1..Len(log) : log'[k] = log[k]
        /\ log'[Len(log) + 1] = event
    <3>1. <<event>> \in Seq(S \cup {event}) /\ log \in Seq(S \cup {event})
      BY <1>7
    <3>2. QED BY <2>1, <3>1
  <2>5. \A k \in 1..Len(log') : k \in 1..Len(log) \/ k = Len(log) + 1
    BY <1>7, <2>4
  <2>6. LogInv'
    <3>1. \A k \in 1..Len(log) : WholeSeq(log[k].visible)
      BY DEF CloudInv, LogInv
    <3>2. WholeSeq(event.visible)
      BY <1>3, <1>5
    <3>3. ASSUME NEW k \in 1..Len(log') PROVE WholeSeq(log'[k].visible)
      <4>1. CASE k \in 1..Len(log)
        BY <2>4, <3>1, <4>1
      <4>2. CASE k = Len(log) + 1
        BY <2>4, <3>2, <4>2
      <4>3. QED BY <2>5, <4>1, <4>2
    <3>4. (\A k \in 1..Len(log) : WholeSeq(log[k].visible))'
      BY <3>3 DEF WholeSeq
    <3>5. WholeSeq(published.submaps)' /\ WholeSeq(saved.submaps)'
      BY <1>1 DEF CloudInv, LogInv, WholeSeq
    <3>6. QED BY <2>4, <3>4, <3>5 DEF LogInv
  <2>7. QED BY <1>6, <2>3, <2>6 DEF CloudInv
<1>9. CASE ProcessQueryFails
  <2>1. PICK done \in 0..(Len(<<event>>) - 1) :
          /\ cursor' = cursor + done
          /\ log' = log \o SubSeq(<<event>>, 1, done)
    BY <1>4, <1>9 DEF ProcessQueryFails, visible
  <2>2. done = 0 /\ SubSeq(<<event>>, 1, done) = <<>>
    BY <2>1
  <2>3. log' = log /\ cursor' = cursor /\ search' = "failed" /\ query' = query
    BY <1>1, <1>2, <1>7, <1>9, <2>1, <2>2 DEF ProcessQueryFails
  <2>4. QueryInv' /\ LogInv'
    BY <1>1, <2>3 DEF CloudInv, QueryInv, LogInv, WholeSeq
  <2>5. QED BY <1>6, <2>4 DEF CloudInv
<1>10. QED BY <1>8, <1>9

(* A map is built from the clouds of the snapshot.                         *)
LEMMA MapKeepsClouds ==
  ASSUME CloudInv, AdjustPrefix \/ SaveMap
  PROVE  CloudInv'
<1>1. UNCHANGED <<storeVars, snap, query, cursor, log>>
  BY DEF AdjustPrefix, SaveMap, SearchAt, engineVars
<1>2. ASSUME NEW count \in 0..Len(snap),
             published' = AdjustedMap(count), saved' \in {saved, published'}
      PROVE  LogInv'
  <2>1. Sound(cache, snap) /\ StoreInv
    BY DEF CloudInv, StoreInv
  <2>2. WholeSeq(Loaded(snap, count))
    BY <2>1, LoadedIsWhole
  <2>3. published'.submaps = Loaded(snap, count)
    BY <1>2 DEF AdjustedMap
  <2>4. QED BY <1>1, <1>2, <2>2, <2>3 DEF CloudInv, LogInv, WholeSeq
<1>3. StoreInv'
  BY <1>1 DEF storeVars, CloudInv, StoreInv
<1>4. Len(snap) \in Nat
  BY DEF CloudInv, StoreInv, Sound
<1>5. CASE AdjustPrefix
  <2>1. PICK e : events = <<e>> /\ e.query = query
    BY <1>5 DEF AdjustPrefix, SearchAt, CloudInv, QueryInv
  <2>2. /\ search = "events" /\ search' = search /\ events' = Tail(events)
        /\ published' = AdjustedMap(Head(events).query + 1)
        /\ saved' \in {saved, published'}
    BY <1>5 DEF AdjustPrefix, SearchAt
  <2>3. Head(events).query + 1 = query + 1 /\ events' = <<>>
    BY <2>1, <2>2
  <2>4. query + 1 \in 0..Len(snap)
    BY <1>4, <2>2 DEF CloudInv, QueryInv
  <2>5. LogInv'
    BY <1>2, <2>2, <2>3, <2>4
  <2>6. QueryInv'
    BY <1>1, <2>2, <2>3 DEF CloudInv, QueryInv
  <2>7. QED BY <1>3, <2>5, <2>6 DEF CloudInv
<1>6. CASE SaveMap
  <2>1. /\ published' = AdjustedMap(Len(snap)) /\ saved' = published' /\ search' = "saved"
    BY <1>6 DEF SaveMap
  <2>2. LogInv'
    BY <1>2, <1>4, <2>1
  <2>3. QueryInv'
    BY <1>1, <2>1 DEF CloudInv, QueryInv
  <2>4. QED BY <1>3, <2>2, <2>3 DEF CloudInv
<1>7. QED BY <1>5, <1>6

LEMMA CloudStep ==
  ASSUME OneRunPerCache, CloudInv, [Next]_vars
  PROVE  CloudInv'
<1>1. CASE \/ RequestReturns \/ MapSave \/ MapSaveReturns \/ MapSaveWaits \/ SpinReturns
           \/ Destroy \/ WorkerSpuriouslyWakes \/ Interrupt \/ Terminated \/ UNCHANGED vars
  <2>1. UNCHANGED <<storeVars, searchVars, engineVars, mapVars>>
    BY <1>1 DEF RequestReturns, MapSave, MapSaveReturns, MapSaveWaits, SpinReturns, Destroy,
                WorkerSpuriouslyWakes, Interrupt, Terminated, vars
  <2>2. QED
    BY <2>1 DEF storeVars, searchVars, engineVars, mapVars, CloudInv, StoreInv, QueryInv,
                LogInv, WholeSeq
<1>2. QED
  BY <1>1, StageKeepsClouds, GraphKeepsClouds, BodyKeepsClouds, QueryKeepsClouds,
     MapKeepsClouds DEF Next, ExecutorStep, WorkerStep, SearchStep

(* loadSubmapCloud: whichever cache writes fail and whatever is searched,  *)
(* adjusted or saved meanwhile, a search or a map that uses a submap's     *)
(* pose uses its cloud, for one frontend run per cache directory.          *)
THEOREM CloudsStayWithPoses ==
  ASSUME OneRunPerCache
  PROVE  Spec => []CloudsBelongToPoses
<1>1. CloudInv => CloudsBelongToPoses
  <2> SUFFICES ASSUME CloudInv PROVE CloudsBelongToPoses
    OBVIOUS
  <2>1. DOMAIN log = 1..Len(log)
    BY DEF CloudInv, LogInv
  <2>2. QED BY <2>1 DEF CloudInv, LogInv, WholeSeq, CloudsBelongToPoses
<1>2. CloudInv /\ [Next]_vars => CloudInv'
  BY CloudStep
<1>3. QED BY CloudInit, <1>1, <1>2, PTL DEF Spec

(* The comment in the map_array callback: staging the next graph in the    *)
(* cache changes none of the clouds that readers of the committed graph    *)
(* load, for one frontend run per cache directory.                         *)
LoadsWhole ==
  Loaded(graph, Len(graph)) =
    [i \in 1..Len(graph) |-> [pose |-> graph[i].pose, cloud |-> graph[i].pose]]

THEOREM StagingStaysInvisible ==
  ASSUME OneRunPerCache
  PROVE  Spec => StagingIsInvisible
<1>1. CloudInv => LoadsWhole
  <2> SUFFICES ASSUME CloudInv PROVE LoadsWhole
    OBVIOUS
  <2>1. StoreInv /\ Sound(cache, graph) /\ Len(graph) \in 0..Len(graph)
    BY DEF CloudInv, StoreInv, Sound
  <2>2. WholeSeq(Loaded(graph, Len(graph)))
    BY <2>1, LoadedIsWhole
  <2>3. \A i \in 1..Len(graph) : LoadCloud(graph, i) = graph[i].pose
    BY <2>2 DEF Loaded, WholeSeq
  <2>4. QED BY <2>3 DEF Loaded, LoadsWhole
<1>2. LoadsWhole /\ LoadsWhole' =>
        [graph' = graph => Loaded(graph, Len(graph))' = Loaded(graph, Len(graph))]_vars
  <2> SUFFICES ASSUME LoadsWhole, LoadsWhole', graph' = graph
               PROVE  Loaded(graph, Len(graph))' = Loaded(graph, Len(graph))
    OBVIOUS
  <2> DEFINE Form(g) == [i \in 1..Len(g) |-> [pose |-> g[i].pose, cloud |-> g[i].pose]]
  <2>1. Loaded(graph, Len(graph)) = Form(graph)
    BY DEF LoadsWhole
  <2>2. Loaded(graph, Len(graph))' = Form(graph')
    BY DEF LoadsWhole
  <2>3. QED BY <2>1, <2>2
<1>3. CloudInv /\ [Next]_vars => CloudInv'
  BY CloudStep
<1>4. QED BY CloudInit, <1>1, <1>2, <1>3, PTL DEF Spec, StagingIsInvisible

-----------------------------------------------------------------------------
(* A saved map covers what was staged.                                     *)

(* With a second frontend run the cursor counts queries of another graph.  *)
OneFrontendRun == MaxSessions = 1 \/ UseOdomInput

(* One run numbers its submaps in order, so that a cursor on the graph is a *)
(* list of submaps: all those below it are in the log.                     *)
Numbered(g) == \A i \in 1..Len(g) : g[i].pose = <<1, i>>

OrderInv ==
  /\ session = 1
  /\ Numbered(graph) /\ Numbered(incoming) /\ Numbered(snap)
  /\ \A i \in 2..cursor : SearchedAsQuery(<<1, i>>)

LEMMA StageIsNumbered ==
  ASSUME OneFrontendRun, CloudInv, OrderInv, StageOdomSubmap \/ StageMapArray
  PROVE  session' = 1 /\ Numbered(incoming') /\ Len(incoming') > Len(graph)
<1>1. ASSUME NEW n \in Nat, NEW g, NEW stored, Stage(g, stored),
             DOMAIN g = 1..n, \A i \in 1..n : g[i] = <<1, i>>
      PROVE  Numbered(incoming') /\ Len(incoming') = n
  <2> DEFINE Cloud(i) == IF i \in DOMAIN graph /\ UseOdomInput THEN graph[i].cloud
                         ELSE IF i \in stored THEN NoCloud ELSE g[i]
  <2>1. incoming' = [i \in 1..n |-> [pose |-> g[i], cloud |-> Cloud(i)]]
    BY <1>1 DEF Stage
  <2> HIDE DEF Cloud
  <2>2. Len(incoming') = n /\ \A i \in 1..n : incoming'[i].pose = g[i]
    BY <2>1
  <2>3. QED BY <1>1, <2>2 DEF Numbered
<1>2. CASE StageOdomSubmap
  <2> DEFINE g == Append(Poses(graph), <<session, Len(graph) + 1>>)
  <2>1. session' = session /\ \E stored : Stage(g, stored)
    BY <1>2 DEF StageOdomSubmap
  <2>2. graph \in Seq(Entry) /\ Len(graph) \in Nat /\ session = 1
        /\ \A i \in 1..Len(graph) : graph[i].pose = <<1, i>>
    BY DEF CloudInv, StoreInv, Sound, OrderInv, Numbered
  <2>3. Poses(graph) = [i \in 1..Len(graph) |-> <<1, i>>]
    <3>1. DOMAIN graph = 1..Len(graph)
      BY <2>2
    <3>2. QED BY <2>2, <3>1 DEF Poses
  <2>4. Poses(graph) \in Seq({1} \X Nat) /\ Len(Poses(graph)) = Len(graph)
    BY <2>2, <2>3
  <2>5. <<session, Len(graph) + 1>> = <<1, Len(graph) + 1>>
        /\ <<1, Len(graph) + 1>> \in {1} \X Nat
    BY <2>2
  <2>6. DOMAIN g = 1..(Len(graph) + 1)
        /\ \A i \in 1..(Len(graph) + 1) : g[i] = <<1, i>>
    BY <2>2, <2>3, <2>4, <2>5
  <2> HIDE DEF g
  <2>7. QED BY <1>1, <2>1, <2>2, <2>6
<1>3. CASE StageMapArray
  <2>1. PICK s \in session..MaxSessions, count \in 1..MaxSubmaps :
          /\ s = session => count > Len(graph)
          /\ \E stored : Stage([i \in 1..count |-> <<s, i>>], stored)
          /\ session' = s
    BY <1>3 DEF StageMapArray
  <2>2. s = 1 /\ count \in Nat /\ count > Len(graph)
    BY <1>3, <2>1, BackendAssumption DEF StageMapArray, OneFrontendRun, OrderInv
  <2> DEFINE g == [i \in 1..count |-> <<s, i>>]
  <2>3. DOMAIN g = 1..count /\ \A i \in 1..count : g[i] = <<1, i>>
    BY <2>2
  <2>4. \E stored : Stage(g, stored)
    BY <2>1
  <2> HIDE DEF g
  <2>5. QED BY <1>1, <2>1, <2>2, <2>3, <2>4
<1>4. QED BY <1>2, <1>3

(* A query books the submap at the cursor and moves the cursor past it, or *)
(* throws and moves nothing.                                               *)
LEMMA QueryBooks ==
  ASSUME CloudInv, ProcessQuery \/ ProcessQueryFails
  PROVE  \/ log' = log /\ cursor' = cursor
         \/ \E e : /\ log' = log \o <<e>> /\ cursor' = cursor + 1
                   /\ cursor < Len(snap) /\ Len(e.visible) = cursor + 1
                   /\ e.visible[cursor + 1].pose = snap[cursor + 1].pose
<1> DEFINE visible == PrefixOf(snap, query)
           event == SearchEvent(visible, edges)
<1>1. search = "query" /\ query < Len(snap)
  BY DEF ProcessQuery, ProcessQueryFails, SearchAt
<1>2. /\ snap \in Seq(Entry) /\ Sound(cache, snap) /\ query = cursor
      /\ cursor \in Nat \ {0} /\ Len(snap) \in Nat
  BY <1>1 DEF CloudInv, StoreInv, QueryInv, Sound
<1>3. visible \in Seq(WholeEntry) /\ Len(visible) = cursor + 1
  <2>1. query + 1 \in 0..Len(snap)
    BY <1>1, <1>2
  <2>2. QED BY <1>2, <2>1, LoadedIsWhole DEF CloudInv, PrefixOf
<1>4. visible[cursor + 1].pose = snap[cursor + 1].pose
  BY <1>2 DEF PrefixOf, Loaded
<1> HIDE DEF visible
<1>5. Process(visible, cursor, edges) = <<event>>
  BY <1>2, <1>3, OneQuery
<1>6. event.visible = visible
  BY DEF SearchEvent
<1> HIDE DEF event
<1>7. CASE ProcessQuery
  <2>1. cursor' = cursor + Len(<<event>>) /\ log' = log \o <<event>>
    BY <1>5, <1>7 DEF ProcessQuery, visible
  <2>2. QED BY <1>1, <1>2, <1>3, <1>4, <1>6, <2>1
<1>8. CASE ProcessQueryFails
  <2>1. PICK done \in 0..(Len(<<event>>) - 1) :
          cursor' = cursor + done /\ log' = log \o SubSeq(<<event>>, 1, done)
    BY <1>5, <1>8 DEF ProcessQueryFails, visible
  <2>2. done = 0 /\ SubSeq(<<event>>, 1, done) = <<>>
    BY <2>1
  <2>3. log' = log /\ cursor' = cursor
    <3>1. PICK S : log \in Seq(S)
      BY DEF CloudInv, LogInv
    <3>2. QED BY <1>2, <2>1, <2>2, <3>1
  <2>4. QED BY <2>3
<1>9. QED BY <1>7, <1>8

LEMMA OrderStep ==
  ASSUME OneFrontendRun, CloudInv, OrderInv, [Next]_vars
  PROVE  OrderInv'
<1>1. CASE StageOdomSubmap \/ StageMapArray
  <2>1. UNCHANGED <<graph, snap, cursor, log>>
    BY <1>1 DEF StageOdomSubmap, StageMapArray, Stage, searchVars, engineVars
  <2>2. QED
    BY <1>1, <2>1, StageIsNumbered DEF OrderInv, Numbered, SearchedAsQuery
<1>2. CASE ProcessQuery \/ ProcessQueryFails
  <2>1. UNCHANGED <<session, graph, incoming, snap>>
    BY <1>2 DEF ProcessQuery, ProcessQueryFails, SearchAt, storeVars
  <2>2. PICK S : log \in Seq(S)
    BY DEF CloudInv, LogInv
  <2>3. cursor \in Nat
    BY DEF CloudInv, QueryInv
  <2>4. CASE log' = log /\ cursor' = cursor
    BY <2>1, <2>4 DEF OrderInv, Numbered, SearchedAsQuery
  <2>5. ASSUME NEW e, log' = log \o <<e>>, cursor' = cursor + 1, cursor < Len(snap),
               Len(e.visible) = cursor + 1,
               e.visible[cursor + 1].pose = snap[cursor + 1].pose
        PROVE  OrderInv'
    <3>1. /\ DOMAIN log' = 1..(Len(log) + 1) /\ DOMAIN log = 1..Len(log) /\ Len(log) \in Nat
          /\ \A k \in 1..Len(log) : log'[k] = log[k]
          /\ log'[Len(log) + 1] = e
      <4>1. log \in Seq(S \cup {e}) /\ <<e>> \in Seq(S \cup {e})
        BY <2>2
      <4>2. QED BY <2>5, <4>1
    <3>2. snap[cursor + 1].pose = <<1, cursor + 1>>
      <4>1. Len(snap) \in Nat
        BY DEF CloudInv, StoreInv, Sound
      <4>2. QED BY <2>3, <2>5, <4>1 DEF OrderInv, Numbered
    <3>3. Last(e.visible).pose = <<1, cursor + 1>>
      BY <2>5, <3>2 DEF Last
    <3>4. ASSUME NEW i \in 2..cursor'
          PROVE  \E k \in DOMAIN log' : Last(log'[k].visible).pose = <<1, i>>
      <4>1. CASE i = cursor + 1
        BY <3>1, <3>3, <4>1
      <4>2. CASE i \in 2..cursor
        <5>1. PICK k \in DOMAIN log : Last(log[k].visible).pose = <<1, i>>
          BY <4>2 DEF OrderInv, SearchedAsQuery
        <5>2. k \in DOMAIN log' /\ log'[k] = log[k]
          BY <3>1, <5>1
        <5>3. QED BY <5>1, <5>2
      <4>3. i = cursor + 1 \/ i \in 2..cursor
        BY <2>3, <2>5
      <4>4. QED BY <4>1, <4>2, <4>3
    <3>5. \A i \in 2..cursor' : SearchedAsQuery(<<1, i>>)'
      BY <3>4 DEF SearchedAsQuery
    <3>6. QED BY <2>1, <3>5 DEF OrderInv, Numbered
  <2>6. QED BY <1>2, <2>4, <2>5, QueryBooks
<1>3. CASE \/ CommitGraph \/ RequestDrain \/ TakeSnapshot
           \/ WorkerWakes \/ DrainEnds \/ TaskEnds
  <2>1. UNCHANGED <<session, cursor, log>>
    BY <1>3 DEF CommitGraph, RequestDrain, TakeSnapshot, SearchAt, WorkerWakes, DrainEnds,
                TaskEnds, storeVars, engineVars
  <2>2. /\ graph' \in {graph, incoming} /\ incoming' \in {incoming, <<>>}
        /\ snap' \in {snap, graph, <<>>}
    BY <1>3 DEF CommitGraph, RequestDrain, TakeSnapshot, SearchAt, WorkerWakes, DrainEnds,
                TaskEnds, EnterBody, storeVars, searchVars
  <2>3. Numbered(<<>>)
    BY DEF Numbered
  <2>4. Numbered(graph') /\ Numbered(incoming') /\ Numbered(snap')
    BY <2>2, <2>3 DEF OrderInv
  <2>5. QED BY <2>1, <2>4 DEF OrderInv, Numbered, SearchedAsQuery
<1>4. CASE \/ QueriesExhausted \/ StopBetweenQueries \/ SkipEvent \/ AdjustPrefix \/ NextQuery
           \/ SaveMap \/ AdjustFails
  <2>1. UNCHANGED <<session, graph, incoming, snap, cursor, log>>
    BY <1>4 DEF QueriesExhausted, StopBetweenQueries, SkipEvent, AdjustPrefix, NextQuery,
                SaveMap, AdjustFails, SearchAt, storeVars, engineVars
  <2>2. QED BY <2>1 DEF OrderInv, Numbered, SearchedAsQuery
<1>5. CASE \/ RequestReturns \/ MapSave \/ MapSaveReturns \/ MapSaveWaits \/ SpinReturns
           \/ Destroy \/ WorkerSpuriouslyWakes \/ Interrupt \/ Terminated \/ UNCHANGED vars
  <2>1. UNCHANGED <<storeVars, searchVars, engineVars>>
    BY <1>5 DEF RequestReturns, MapSave, MapSaveReturns, MapSaveWaits, SpinReturns, Destroy,
                WorkerSpuriouslyWakes, Interrupt, Terminated, vars
  <2>2. QED
    BY <2>1 DEF storeVars, searchVars, engineVars, OrderInv, Numbered, SearchedAsQuery
<1>6. QED
  BY <1>1, <1>2, <1>3, <1>4, <1>5 DEF Next, ExecutorStep, WorkerStep, SearchStep
-----------------------------------------------------------------------------
(* The graph cannot change while the executor waits for a save, so what    *)
(* the task saw, searched and wrote is the graph until the call returns,   *)
(* also during a drain that runs in between.                               *)
Complete == graph # <<>> /\ AllSearched

SavedWhole ==
  /\ Complete
  /\ Poses(saved.submaps) = Poses(graph)
  /\ saved.edges = InducedBy(edges, Len(graph))

SaveDone ==
  /\ caller[Executor] \in {"blocked", "woken"}
  /\ job[Executor].finished /\ job[Executor].ran /\ ~job[Executor].error

SaveInv ==
  /\ stopping => ~rosOk
  /\ exec # "idle" => caller[Executor] = "idle"
  /\ search = "interrupted" => ~rosOk
  /\ worker = "task" =>
       /\ search = "no_input" => graph = <<>>
       /\ search \in {"complete", "saved"} => snap = graph /\ Complete
       /\ search = "saved" => SavedWhole
  /\ SaveDone /\ rosOk /\ graph # <<>> => SavedWhole /\ search \notin {"query", "events"}

(* What depends on the graph and the last bundle only.                     *)
LEMMA SavedWholeNext ==
  ASSUME UNCHANGED <<graph, cursor, edges, saved>>
  PROVE  SavedWhole' = SavedWhole /\ Complete' = Complete
<1>1. Complete' = Complete
  BY DEF Complete, AllSearched
<1>2. SavedWhole' = (/\ Complete'
                     /\ Poses(saved'.submaps) = Poses(graph')
                     /\ saved'.edges = InducedBy(edges', Len(graph')))
  BY DEF SavedWhole
<1>3. QED BY <1>1, <1>2 DEF SavedWhole

(* A submap callback runs only while no save waits.                        *)
LEMMA CallbackSaves ==
  ASSUME Proved!IInv, SaveInv,
         StageOdomSubmap \/ StageMapArray \/ CommitGraph \/ RequestDrain
  PROVE  SaveInv'
<1>1. /\ caller[Executor] = "idle" /\ worker # "task" /\ worker' = worker
      /\ caller'[Executor] \in {"idle", "notifying"}
      /\ exec' # "idle" => caller'[Executor] = "idle"
      /\ UNCHANGED <<stopping, rosOk, search>>
  <2>1. CASE StageOdomSubmap \/ StageMapArray
    BY <2>1, DrainFacts DEF StageOdomSubmap, StageMapArray, Stage, CallbackStarts, drainVars,
                           searchVars
  <2>2. CASE CommitGraph
    BY <2>2, DrainFacts DEF CommitGraph, drainVars, searchVars, SaveInv
  <2>3. CASE RequestDrain
    BY <2>3, DrainFacts DEF RequestDrain, Drain!RequestMark, searchVars
  <2>4. QED BY <2>1, <2>2, <2>3
<1>2. QED BY <1>1 DEF SaveInv, SaveDone

LEMMA ExecutorSaves ==
  ASSUME Proved!IInv, SaveInv, RequestReturns \/ MapSave \/ MapSaveReturns \/ MapSaveWaits
  PROVE  SaveInv'
<1>1. UNCHANGED <<storeVars, searchVars, engineVars, mapVars, exec, rosOk, stopping>>
  BY DEF RequestReturns, MapSave, MapSaveReturns, MapSaveWaits, Drain!RequestNotify,
         Drain!RunQueued, Drain!RunRethrow, Drain!CallerReturn, Drain!CallerWaitAgain,
         Drain!SpuriousCallerWakeup
<1>2. worker' = "task" <=> worker = "task"
  BY DEF RequestReturns, MapSave, MapSaveReturns, MapSaveWaits, Drain!RequestNotify,
         Drain!RunQueued, Drain!RunRethrow, Drain!NotifyWork, Drain!CallerReturn,
         Drain!CallerWaitAgain, Drain!SpuriousCallerWakeup
<1>3. exec # "idle" => caller'[Executor] = "idle"
  BY DrainFacts
     DEF RequestReturns, MapSave, MapSaveReturns, MapSaveWaits, CallbackStarts,
         Drain!RequestNotify, Drain!RunQueued, Drain!RunRethrow, Drain!CallerReturn,
         Drain!CallerWaitAgain, Drain!SpuriousCallerWakeup, SaveInv
<1>4. SaveDone' => SaveDone
  BY DrainFacts
     DEF RequestReturns, MapSave, MapSaveReturns, MapSaveWaits, CallbackStarts, SaveDone,
         Drain!RequestNotify, Drain!RunQueued, Drain!RunRethrow, Drain!CallerReturn,
         Drain!CallerWaitAgain, Drain!SpuriousCallerWakeup, Drain!NewJob
<1>5. SavedWhole' = SavedWhole /\ Complete' = Complete
  BY <1>1, SavedWholeNext DEF storeVars, engineVars, mapVars
<1>6. QED BY <1>1, <1>2, <1>3, <1>4, <1>5 DEF storeVars, searchVars, SaveInv

(* With everything searched a body finds nothing to query or to adjust, so *)
(* only the save itself writes the bundle a waiting call reports.          *)
LEMMA SearchSaves ==
  ASSUME Proved!IInv, CloudInv, SaveInv, SearchStep
  PROVE  SaveInv'
<1>1. UNCHANGED <<stopping, job, worker, caller, graph, exec, rosOk>>
  BY DEF SearchStep, SearchAt, TakeSnapshot, QueriesExhausted, StopBetweenQueries,
         ProcessQuery, ProcessQueryFails, SkipEvent, AdjustPrefix, NextQuery, SaveMap,
         AdjustFails, drainVars, storeVars
<1>2. SaveDone' = SaveDone
  BY <1>1 DEF SaveDone
<1>3. CASE TakeSnapshot
  <2>1. UNCHANGED <<cursor, edges, saved>>
    BY <1>3 DEF TakeSnapshot, engineVars, mapVars
  <2>2. SavedWhole' = SavedWhole /\ Complete' = Complete
    BY <1>1, <2>1, SavedWholeNext
  <2>3. \/ search' = "interrupted" /\ ~rosOk
        \/ search' = "no_input" /\ graph = <<>>
        \/ search' = "complete" /\ snap' = graph /\ Complete
        \/ search' = "query" /\ ~AllSearched
    BY <1>3 DEF TakeSnapshot, Halted, SaveInv, Complete, AllSearched
  <2>4. QED BY <1>1, <1>2, <2>2, <2>3 DEF SaveInv, SavedWhole, Complete
<1>4. CASE QueriesExhausted \/ StopBetweenQueries \/ ProcessQuery \/ ProcessQueryFails
           \/ SkipEvent \/ AdjustPrefix \/ NextQuery
  <2>1. /\ search \in {"query", "events"}
        /\ search' \in {"loop", "interrupted", "events", "failed", "query"}
        /\ search' = "interrupted" => stopping \/ ~rosOk
    BY <1>4 DEF QueriesExhausted, StopBetweenQueries, ProcessQuery, ProcessQueryFails,
                SkipEvent, AdjustPrefix, NextQuery, SearchAt, Halted
  <2>2. ~(SaveDone /\ rosOk /\ graph # <<>>)
    BY <2>1 DEF SaveInv
  <2>3. QED BY <1>1, <1>2, <2>1, <2>2 DEF SaveInv
<1>5. CASE SaveMap
  <2>1. /\ worker = "task" /\ search = "complete" /\ search' = "saved"
        /\ saved' = AdjustedMap(Len(snap))
        /\ UNCHANGED <<snap, cursor, edges>>
    BY <1>5 DEF SaveMap, SearchAt, engineVars
  <2>2. snap = graph /\ Complete /\ Complete'
    BY <1>1, <2>1 DEF SaveInv, Complete, AllSearched
  <2>3. Poses(saved'.submaps) = Poses(graph) /\ saved'.edges = InducedBy(edges, Len(graph))
    <3>1. DOMAIN graph = 1..Len(graph)
      BY DEF CloudInv, StoreInv, Sound
    <3>2. saved'.submaps = Loaded(graph, Len(graph))
          /\ saved'.edges = InducedBy(edges, Len(graph))
      BY <2>1, <2>2 DEF AdjustedMap
    <3>3. Poses(Loaded(graph, Len(graph))) = Poses(graph)
      BY <3>1 DEF Poses, Loaded
    <3>4. QED BY <3>2, <3>3
  <2>4. SavedWhole'
    <3>1. SavedWhole' = (/\ Complete'
                         /\ Poses(saved'.submaps) = Poses(graph')
                         /\ saved'.edges = InducedBy(edges', Len(graph')))
      BY DEF SavedWhole
    <3>2. QED BY <1>1, <2>1, <2>2, <2>3, <3>1
  <2>5. ~SaveDone
    BY <2>1, DrainFacts DEF SaveDone
  <2>6. QED BY <1>1, <1>2, <2>1, <2>2, <2>4, <2>5 DEF SaveInv
<1>6. CASE AdjustFails
  <2>1. search' = "failed" /\ UNCHANGED <<cursor, edges, saved>>
    BY <1>6 DEF AdjustFails, engineVars, mapVars
  <2>2. SavedWhole' = SavedWhole
    BY <1>1, <2>1, SavedWholeNext
  <2>3. QED BY <1>1, <1>2, <2>1, <2>2 DEF SaveInv
<1>7. QED BY <1>3, <1>4, <1>5, <1>6 DEF SearchStep

(* A task is booked without an exception only if it saved the map, was     *)
(* interrupted or found no graph.                                          *)
LEMMA TurnSaves ==
  ASSUME Proved!IInv, SaveInv, WorkerWakes \/ DrainEnds \/ TaskEnds
  PROVE  SaveInv'
<1>1. /\ UNCHANGED <<storeVars, engineVars, mapVars, exec, rosOk, stopping>>
      /\ search' \in {"loop", "none"}
  BY DEF WorkerWakes, DrainEnds, TaskEnds, EnterBody, Drain!WorkerWakes, Drain!DrainEnds,
         Drain!TaskEnds
<1>2. \/ caller'[Executor] = caller[Executor]
      \/ /\ caller[Executor] \in {"blocked", "woken"}
         /\ caller'[Executor] \in {"blocked", "woken"}
  <2>1. UNCHANGED caller \/ Drain!NotifyDone
    BY DEF WorkerWakes, DrainEnds, TaskEnds, Drain!WorkerWakes, Drain!DrainEnds, Drain!TaskEnds
  <2>2. CASE UNCHANGED caller
    BY <2>2
  <2>3. CASE Drain!NotifyDone
    <3>1. caller'[Executor] = IF caller[Executor] = "blocked" THEN "woken" ELSE caller[Executor]
      BY <2>3 DEF Drain!NotifyDone
    <3>2. QED BY <3>1
  <2>4. QED BY <2>1, <2>2, <2>3
<1>3. SavedWhole' = SavedWhole
  BY <1>1, SavedWholeNext DEF storeVars, engineVars, mapVars
<1>4. ASSUME SaveDone', rosOk, graph # <<>>
      PROVE  SavedWhole
  <2>1. ~stopping
    BY <1>4 DEF SaveInv
  <2>2. CASE WorkerWakes \/ DrainEnds
    <3>1. job' = [c \in {Executor} |-> job[c]]
      BY <2>1, <2>2 DEF WorkerWakes, DrainEnds, Drain!WorkerWakes, Drain!DrainEnds,
                        Drain!Booked
    <3>2. SaveDone
      BY <1>2, <1>4, <3>1 DEF SaveDone
    <3>3. QED BY <1>4, <3>2 DEF SaveInv
  <2>3. CASE TaskEnds
    <3>1. /\ worker = "task" /\ current = Executor
          /\ search \in {"no_input", "saved", "interrupted", "failed"}
          /\ job' = [c \in {Executor} |-> [finished |-> TRUE, ran |-> TRUE,
                                           error |-> search = "failed"]]
      BY <2>3, DrainFacts DEF TaskEnds, Drain!TaskEnds, Drain!Booked
    <3>2. search # "failed"
      BY <1>4, <3>1 DEF SaveDone
    <3>3. QED BY <1>4, <3>1, <3>2 DEF SaveInv
  <2>4. QED BY <2>2, <2>3
<1>5. QED BY <1>1, <1>2, <1>3, <1>4 DEF storeVars, SaveInv

LEMMA ShutdownSaves ==
  ASSUME Proved!IInv, SaveInv,
         WorkerSpuriouslyWakes \/ SpinReturns \/ Destroy \/ Interrupt \/ Terminated
           \/ UNCHANGED vars
  PROVE  SaveInv'
<1>1. /\ UNCHANGED <<storeVars, searchVars, engineVars, mapVars, exec, job, caller>>
      /\ worker' = "task" <=> worker = "task"
      /\ stopping' => ~rosOk'
      /\ rosOk' => rosOk
  BY DEF WorkerSpuriouslyWakes, SpinReturns, Destroy, Interrupt, Terminated, vars, drainVars,
         Drain!SpuriousWorkerWakeup, Drain!StopMark, Drain!StopNotify, Drain!StopJoin,
         Drain!NotifyWork, SaveInv
<1>2. SavedWhole' = SavedWhole /\ Complete' = Complete /\ SaveDone' = SaveDone
  BY <1>1, SavedWholeNext DEF storeVars, engineVars, mapVars, SaveDone
<1>3. QED BY <1>1, <1>2 DEF storeVars, searchVars, SaveInv

(* handleMapSaveRequest: a save that reports success on a running node has *)
(* searched every submap staged before it and written that whole graph     *)
(* with its loop edges, for any number of submaps of one frontend run, any *)
(* search results and any failures.                                        *)
THEOREM SavesCoverStaged ==
  ASSUME OneFrontendRun
  PROVE  Spec => MapSaveCoversStaged
<1> DEFINE I == Proved!IInv /\ CloudInv /\ OrderInv /\ SaveInv
<1>1. OneRunPerCache
  BY DEF OneFrontendRun, OneRunPerCache
<1>2. Init => OrderInv /\ SaveInv
  <2>1. Init => \A g : g = <<>> => Numbered(g)
    BY DEF Numbered
  <2>2. Init => OrderInv
    BY <2>1 DEF Init, OrderInv
  <2>3. Init => SaveInv
    BY DEF Init, Drain!Init, SaveInv, SaveDone
  <2>4. QED BY <2>2, <2>3
<1>3. I /\ [Next]_vars => OrderInv' /\ SaveInv'
  <2> SUFFICES ASSUME I, [Next]_vars PROVE OrderInv' /\ SaveInv'
    OBVIOUS
  <2>1. OrderInv'
    BY OrderStep
  <2>2. SaveInv'
    BY CallbackSaves, ExecutorSaves, SearchSaves, TurnSaves, ShutdownSaves
       DEF Next, ExecutorStep, WorkerStep
  <2>3. QED BY <2>1, <2>2
<1>4. CloudInv /\ [Next]_vars => CloudInv'
  BY <1>1, CloudStep
<1>5. ASSUME I, [Next]_vars, caller[Executor] = "woken", caller'[Executor] = "idle",
             reply'[Executor] = "ran", rosOk, graph # <<>>
      PROVE  /\ Poses(saved.submaps) = Poses(graph)
             /\ saved.edges = InducedBy(edges, Len(graph))
             /\ \A i \in 2..Len(graph) : SearchedAsQuery(graph[i].pose)
  <2>1. MapSaveReturns
    <3>1. CASE WorkerWakes \/ DrainEnds \/ TaskEnds
      BY <1>5, <3>1, DrainFacts DEF WorkerWakes, DrainEnds, TaskEnds, Drain!WorkerWakes,
           Drain!DrainEnds, Drain!TaskEnds, Drain!NotifyDone
    <3>2. CASE SearchStep
      BY <1>5, <3>2 DEF SearchStep, SearchAt, TakeSnapshot, QueriesExhausted,
           StopBetweenQueries, ProcessQuery, ProcessQueryFails, SkipEvent, AdjustPrefix,
           NextQuery, SaveMap, AdjustFails, drainVars
    <3>3. CASE StageOdomSubmap \/ StageMapArray \/ CommitGraph \/ RequestDrain
               \/ RequestReturns \/ MapSave \/ MapSaveWaits
      BY <1>5, <3>3, DrainFacts
         DEF StageOdomSubmap, StageMapArray, Stage, CommitGraph, RequestDrain, RequestReturns,
             MapSave, MapSaveWaits, CallbackStarts, drainVars, Drain!RequestMark,
             Drain!RequestNotify, Drain!CallerWaitAgain, Drain!SpuriousCallerWakeup
    <3>4. CASE WorkerSpuriouslyWakes \/ SpinReturns \/ Destroy \/ Interrupt \/ Terminated
               \/ UNCHANGED vars
      BY <1>5, <3>4 DEF WorkerSpuriouslyWakes, SpinReturns, Destroy, Interrupt, Terminated,
           vars, drainVars, Drain!SpuriousWorkerWakeup, Drain!StopMark, Drain!StopNotify,
           Drain!StopJoin
    <3>5. QED BY <1>5, <3>1, <3>2, <3>3, <3>4 DEF Next, ExecutorStep, WorkerStep
  <2>2. SaveDone
    BY <1>5, <2>1, DrainFacts DEF MapSaveReturns, Drain!CallerReturn, SaveDone
  <2>3. SavedWhole
    BY <1>5, <2>2 DEF SaveInv
  <2>4. /\ Len(graph) \in Nat /\ cursor \in Nat
        /\ \A i \in 1..Len(graph) : graph[i].pose = <<1, i>>
    BY <1>5 DEF CloudInv, StoreInv, QueryInv, Sound, OrderInv, Numbered
  <2>5. ASSUME NEW i \in 2..Len(graph) PROVE SearchedAsQuery(graph[i].pose)
    <3>1. i \in 2..cursor /\ graph[i].pose = <<1, i>>
      BY <2>3, <2>4 DEF SavedWhole, Complete, AllSearched
    <3>2. QED BY <1>5, <3>1 DEF OrderInv
  <2>6. QED BY <2>3, <2>5 DEF SavedWhole
<1>6. I /\ [Next]_vars =>
        [(/\ caller[Executor] = "woken"
          /\ caller'[Executor] = "idle"
          /\ reply'[Executor] = "ran"
          /\ rosOk
          /\ graph # <<>>) =>
            /\ Poses(saved.submaps) = Poses(graph)
            /\ saved.edges = InducedBy(edges, Len(graph))
            /\ \A i \in 2..Len(graph) : SearchedAsQuery(graph[i].pose)]_vars
  BY <1>5
<1>7. QED
  BY <1>2, <1>3, <1>4, <1>6, CloudInit, DrainInvariantInNode, PTL DEF Spec, MapSaveCoversStaged

-----------------------------------------------------------------------------
(* The node implements the sequential replay.                              *)

(* A search joins two submaps that it was given: an earlier one and the    *)
(* query (backend_core.hpp, pair_id of the best candidate).                *)
SearchesPrefix ==
  \A n \in Nat, visible \in Seq(WholeEntry) :
    Len(visible) = n /\ Proposal(visible) # NoEdge => Proposal(visible) \in EdgeWithin(n)

(* The application has booked one query for each submap below its cursor,  *)
(* its edges are those of the last one and join submaps below the cursor,  *)
(* and the graph has all that the worker and the callbacks know of.        *)
ReplayInv ==
  /\ Len(log) + 1 = cursor
  /\ edges = EdgesAfter(log, <<>>)
  /\ edges \in Seq(EdgeWithin(cursor))
  /\ cursor = 1 \/ cursor <= Len(graph)
  /\ Len(snap) <= Len(graph)
  /\ exec = "staged" => Len(incoming) > Len(graph)
  /\ search = "complete" => Len(snap) = cursor

\* The edges after a query join submaps up to it.
LEMMA SearchStaysWithin ==
  ASSUME SearchesPrefix, NEW n \in Nat, NEW before \in Seq(EdgeWithin(n)),
         NEW visible \in Seq(WholeEntry), Len(visible) = n + 1
  PROVE  SearchEvent(visible, before).edges \in Seq(EdgeWithin(n + 1))
<1> DEFINE q == Len(visible) - 1
           edge == IF ShouldSearch(q) THEN Proposal(visible) ELSE NoEdge
           changed == edge # NoEdge /\ Accepts(before, edge)
<1>1. before \in Seq(EdgeWithin(n + 1))
  <2>1. \A x \in EdgeWithin(n) : x \in EdgeWithin(n + 1)
    <3>1. 0..(n - 1) \subseteq 0..(n + 1 - 1)
      OBVIOUS
    <3>2. QED BY <3>1 DEF EdgeWithin
  <2> HIDE DEF EdgeWithin
  <2>2. QED BY <2>1
<1>2. changed => edge \in EdgeWithin(n + 1)
  BY DEF SearchesPrefix
<1>3. changed => Upsert(before, edge) \in Seq(EdgeWithin(n + 1))
  <2>1. \A e \in EdgeWithin(n + 1) : Normalized(e) \in EdgeWithin(n + 1)
    BY DEF Normalized, EdgeWithin
  <2>2. QED BY <1>1, <1>2, <2>1, UpsertKeeps
<1>4. SearchEvent(visible, before).edges = IF changed THEN Upsert(before, edge) ELSE before
  BY DEF SearchEvent
<1>5. QED BY <1>1, <1>3, <1>4

(* A call of processSubmaps() replays the submap at the cursor, or throws  *)
(* and leaves no trace.                                                    *)
LEMMA QueryReplays ==
  ASSUME CloudInv, ProcessQuery \/ ProcessQueryFails
  PROVE  \/ UNCHANGED <<log, cursor, edges>>
         \/ /\ cursor < Len(snap) /\ cursor' = cursor + 1
            /\ Loaded(snap, cursor + 1) \in Seq(WholeEntry)
            /\ Len(Loaded(snap, cursor + 1)) = cursor + 1
            /\ log' = log \o <<SearchEvent(Loaded(snap, cursor + 1), edges)>>
            /\ edges' = SearchEvent(Loaded(snap, cursor + 1), edges).edges
<1> DEFINE visible == Loaded(snap, cursor + 1)
           event == SearchEvent(visible, edges)
<1>1. search = "query" /\ query < Len(snap)
  BY DEF ProcessQuery, ProcessQueryFails, SearchAt
<1>2. /\ snap \in Seq(Entry) /\ Sound(cache, snap) /\ query = cursor
      /\ cursor \in Nat \ {0} /\ Len(snap) \in Nat
  BY <1>1 DEF CloudInv, StoreInv, QueryInv, Sound
<1>3. visible \in Seq(WholeEntry) /\ Len(visible) = cursor + 1
  <2>1. cursor + 1 \in 0..Len(snap)
    BY <1>1, <1>2
  <2>2. QED BY <1>2, <2>1, LoadedIsWhole DEF CloudInv
<1>4. PrefixOf(snap, query) = visible
  BY <1>2 DEF PrefixOf
<1> HIDE DEF visible
<1>5. Process(visible, cursor, edges) = <<event>>
  BY <1>2, <1>3, OneQuery
<1> HIDE DEF event
<1>6. CASE ProcessQuery
  <2>1. /\ cursor' = cursor + Len(<<event>>) /\ log' = log \o <<event>>
        /\ edges' = EdgesAfter(<<event>>, edges)
    BY <1>4, <1>5, <1>6 DEF ProcessQuery
  <2>2. Last(<<event>>) = event /\ <<event>> # <<>> /\ Len(<<event>>) = 1
    BY DEF Last
  <2>3. edges' = event.edges
    BY <2>1, <2>2 DEF EdgesAfter
  <2>4. QED BY <1>1, <1>2, <1>3, <2>1, <2>2, <2>3 DEF event, visible
<1>7. CASE ProcessQueryFails
  <2>1. PICK done \in 0..(Len(<<event>>) - 1) :
          /\ cursor' = cursor + done /\ log' = log \o SubSeq(<<event>>, 1, done)
          /\ edges' = EdgesAfter(SubSeq(<<event>>, 1, done), edges)
    BY <1>4, <1>5, <1>7 DEF ProcessQueryFails
  <2>2. done = 0 /\ SubSeq(<<event>>, 1, done) = <<>>
    BY <2>1
  <2>3. PICK S : log \in Seq(S)
    BY DEF CloudInv, LogInv
  <2>4. log' = log /\ cursor' = cursor /\ edges' = edges
    BY <1>2, <2>1, <2>2, <2>3 DEF EdgesAfter
  <2>5. QED BY <2>4
<1>8. QED BY <1>6, <1>7

LEMMA ReplayInvStep ==
  ASSUME OneFrontendRun, SearchesPrefix, CloudInv, OrderInv, ReplayInv, [Next]_vars
  PROVE  ReplayInv'
<1>0. /\ cursor \in Nat \ {0} /\ graph \in Seq(Entry) /\ snap \in Seq(Entry) /\ incoming \in Seq(Entry)
      /\ Len(graph) \in Nat /\ Len(snap) \in Nat /\ Len(incoming) \in Nat
  BY DEF CloudInv, StoreInv, Sound, QueryInv
<1>1. CASE StageOdomSubmap \/ StageMapArray
  <2>1. UNCHANGED <<graph, snap, cursor, log, edges, search>>
    BY <1>1 DEF StageOdomSubmap, StageMapArray, Stage, searchVars, engineVars
  <2>2. Len(incoming') > Len(graph)
    BY <1>1, StageIsNumbered
  <2>3. QED BY <2>1, <2>2 DEF ReplayInv
<1>2. CASE ProcessQuery \/ ProcessQueryFails
  <2>1. UNCHANGED <<graph, incoming, snap, exec>> /\ search' # "complete"
    BY <1>2 DEF ProcessQuery, ProcessQueryFails, SearchAt, storeVars
  <2>2. CASE UNCHANGED <<log, cursor, edges>>
    BY <2>1, <2>2 DEF ReplayInv
  <2>3. ASSUME NEW visible, visible = Loaded(snap, cursor + 1), NEW event,
               event = SearchEvent(visible, edges),
               cursor < Len(snap), cursor' = cursor + 1,
               visible \in Seq(WholeEntry), Len(visible) = cursor + 1,
               log' = log \o <<event>>, edges' = event.edges
        PROVE  ReplayInv'
    <3>1. PICK S : log \in Seq(S)
      BY DEF CloudInv, LogInv
    <3>2. Len(log') = Len(log) + 1 /\ log'[Len(log) + 1] = event /\ log' # <<>>
      <4>1. log \in Seq(S \cup {event}) /\ <<event>> \in Seq(S \cup {event})
        BY <3>1
      <4>2. QED BY <2>3, <4>1
    <3>3. EdgesAfter(log', <<>>) = event.edges
      BY <3>2 DEF EdgesAfter, Last
    <3>4. event.edges \in Seq(EdgeWithin(cursor + 1))
      BY <1>0, <2>3, SearchStaysWithin DEF ReplayInv
    <3>5. cursor + 1 <= Len(graph)
      BY <1>0, <2>3 DEF ReplayInv
    <3>6. Len(log') + 1 = cursor + 1
      BY <1>0, <3>1, <3>2 DEF ReplayInv
    <3>7. QED BY <2>1, <2>3, <3>3, <3>4, <3>5, <3>6 DEF ReplayInv
  <2>4. QED BY <1>2, <2>2, <2>3, QueryReplays
<1>3. CASE CommitGraph \/ RequestDrain
  <2>1. UNCHANGED <<cursor, log, edges, snap, search>>
    BY <1>3 DEF CommitGraph, RequestDrain, searchVars, engineVars
  <2>2. exec' # "staged"
    BY <1>3 DEF CommitGraph, RequestDrain
  <2>3. graph' = graph \/ (graph' = incoming /\ exec = "staged")
    BY <1>3 DEF CommitGraph, RequestDrain
  <2>4. QED BY <1>0, <2>1, <2>2, <2>3 DEF ReplayInv
<1>4. CASE TakeSnapshot
  <2>1. UNCHANGED <<cursor, log, edges, graph, incoming, exec>>
    BY <1>4 DEF TakeSnapshot, SearchAt, storeVars, engineVars
  <2>2. snap' \in {snap, graph}
    BY <1>4 DEF TakeSnapshot
  <2>3. search' = "complete" => Len(snap') = cursor'
    <3> SUFFICES ASSUME search' = "complete" PROVE Len(snap') = cursor'
      OBVIOUS
    <3>1. graph # <<>> /\ snap' = graph /\ (Len(graph) < 2 \/ cursor >= Len(graph))
      BY <1>4 DEF TakeSnapshot
    <3>2. Len(graph) >= 1
      BY <1>0, <3>1
    <3>3. QED BY <1>0, <2>1, <3>1, <3>2 DEF ReplayInv
  <2>4. QED BY <1>0, <2>1, <2>2, <2>3 DEF ReplayInv
<1>5. CASE WorkerWakes \/ DrainEnds \/ TaskEnds
  <2>1. UNCHANGED <<cursor, log, edges, graph, incoming, exec>>
    BY <1>5 DEF WorkerWakes, DrainEnds, TaskEnds, storeVars, engineVars
  <2>2. snap' = <<>> /\ search' # "complete"
    BY <1>5 DEF WorkerWakes, DrainEnds, TaskEnds, EnterBody
  <2>3. QED BY <1>0, <2>1, <2>2 DEF ReplayInv
<1>6. CASE \/ QueriesExhausted \/ StopBetweenQueries \/ SkipEvent \/ AdjustPrefix \/ NextQuery
           \/ SaveMap \/ AdjustFails
  <2>1. UNCHANGED <<cursor, log, edges, graph, incoming, exec, snap>> /\ search' # "complete"
    BY <1>6 DEF QueriesExhausted, StopBetweenQueries, SkipEvent, AdjustPrefix, NextQuery,
                SaveMap, AdjustFails, SearchAt, storeVars, engineVars
  <2>2. QED BY <2>1 DEF ReplayInv
<1>7. CASE \/ RequestReturns \/ MapSave \/ MapSaveReturns \/ MapSaveWaits \/ SpinReturns
           \/ Destroy \/ WorkerSpuriouslyWakes \/ Interrupt \/ Terminated \/ UNCHANGED vars
  <2>1. UNCHANGED <<storeVars, searchVars, engineVars, exec>>
    BY <1>7 DEF RequestReturns, MapSave, MapSaveReturns, MapSaveWaits, SpinReturns, Destroy,
                WorkerSpuriouslyWakes, Interrupt, Terminated, vars
  <2>2. QED BY <2>1 DEF storeVars, searchVars, engineVars, ReplayInv
<1>8. QED
  BY <1>1, <1>2, <1>3, <1>4, <1>5, <1>6, <1>7 DEF Next, ExecutorStep, WorkerStep, SearchStep

(* The two instances of the application define the same operators.         *)
LEMMA SameReplay ==
  /\ \A visible, before : Replay!SearchEvent(visible, before) = SearchEvent(visible, before)
  /\ \A events_, before : Replay!EdgesAfter(events_, before) = EdgesAfter(events_, before)
  /\ \A s, t : Replay!IsStrictPrefix(s, t) <=> IsStrictPrefix(s, t)
  /\ Replay!EmptyMap = EmptyMap
<1>1. \A q : Replay!ShouldSearch(q) <=> ShouldSearch(q)
  BY DEF Replay!ShouldSearch, ShouldSearch
<1>2. \A e, d : Replay!NearbyPair(d, e) <=> NearbyPair(d, e)
  BY DEF Replay!NearbyPair, NearbyPair, Replay!Distance, Distance
<1>3. \A e : Replay!Normalized(e) = Normalized(e) /\ (Replay!Valid(e) <=> Valid(e))
  BY DEF Replay!Normalized, Normalized, Replay!Valid, Valid
<1>4. \A s, e : Replay!NearbyIndices(s, e) = NearbyIndices(s, e)
  BY <1>2, <1>3 DEF Replay!NearbyIndices, NearbyIndices
<1>5. \A S : Replay!Min(S) = Min(S)
  BY DEF Replay!Min, Min
<1>6. \A s, e : Replay!KeepsExisting(s, e) <=> KeepsExisting(s, e)
  BY <1>4, <1>5 DEF Replay!KeepsExisting, KeepsExisting
<1>7. \A s, e : Replay!Accepts(s, e) <=> Accepts(s, e)
  BY <1>3, <1>6 DEF Replay!Accepts, Accepts
<1>8. \A s, e : Replay!Upsert(s, e) = Upsert(s, e)
  BY <1>3, <1>4, <1>5, <1>7 DEF Replay!Upsert, Upsert
<1>9. \A visible, before : Replay!SearchEvent(visible, before) = SearchEvent(visible, before)
  BY <1>1, <1>7, <1>8 DEF Replay!SearchEvent, SearchEvent
<1>10. \A events_, before : Replay!EdgesAfter(events_, before) = EdgesAfter(events_, before)
  BY DEF Replay!EdgesAfter, EdgesAfter, Replay!Last, Last
<1>11. \A s, t : Replay!IsStrictPrefix(s, t) <=> IsStrictPrefix(s, t)
  BY DEF Replay!IsStrictPrefix, IsStrictPrefix, Replay!IsPrefix, IsPrefix
<1>12. Replay!EmptyMap = EmptyMap
  BY DEF Replay!EmptyMap, EmptyMap
<1>13. QED BY <1>9, <1>10, <1>11, <1>12

\* What the worker loads of its snapshot is the prefix of the graph.
LEMMA LoadedIsReplayed ==
  ASSUME CloudInv, OrderInv, NEW count \in 0..Len(snap), count <= Len(graph)
  PROVE  Loaded(snap, count) = Replay!Whole(SubSeq(Poses(graph), 1, count))
<1>1. /\ StoreInv /\ Sound(cache, snap) /\ snap \in Seq(Entry) /\ graph \in Seq(Entry)
      /\ Len(graph) \in Nat /\ Len(snap) \in Nat
  BY DEF CloudInv, StoreInv, Sound
<1>2. \A i \in 1..count : LoadCloud(snap, i) = snap[i].pose
  <2>1. WholeSeq(Loaded(snap, count))
    BY <1>1, LoadedIsWhole
  <2>2. QED BY <2>1 DEF Loaded, WholeSeq
<1>3. \A i \in 1..count : snap[i].pose = <<1, i>> /\ graph[i].pose = <<1, i>>
  BY <1>1 DEF OrderInv, Numbered
<1>4. Loaded(snap, count) = [i \in 1..count |-> [pose |-> <<1, i>>, cloud |-> <<1, i>>]]
  BY <1>2, <1>3 DEF Loaded
<1>5. Poses(graph) = [i \in 1..Len(graph) |-> graph[i].pose]
  BY <1>1 DEF Poses
<1>6. SubSeq(Poses(graph), 1, count) = [i \in 1..count |-> <<1, i>>]
  BY <1>1, <1>3, <1>5
<1>7. Replay!Whole(SubSeq(Poses(graph), 1, count))
        = [i \in 1..count |-> [pose |-> <<1, i>>, cloud |-> <<1, i>>]]
  BY <1>6 DEF Replay!Whole
<1>8. QED BY <1>4, <1>7

\* A map of all submaps below the cursor has all their edges.
LEMMA AdjustReplays ==
  ASSUME CloudInv, OrderInv, ReplayInv, cursor \in 0..Len(snap), Len(snap) > 0
  PROVE  /\ AdjustedMap(cursor) = Replay!ReplayedMap
         /\ Poses(graph) # <<>>
<1>1. Len(graph) \in Nat /\ Len(snap) \in Nat /\ graph \in Seq(Entry) /\ cursor \in Nat
  BY DEF CloudInv, StoreInv, Sound, QueryInv
<1>2. Replay!ReplayedCount = cursor
  BY DEF Replay!ReplayedCount, ReplayInv
<1>3. Loaded(snap, cursor) = Replay!Whole(SubSeq(Poses(graph), 1, cursor))
  BY <1>1, LoadedIsReplayed DEF ReplayInv
<1>4. InducedBy(edges, cursor) = Replay!EdgesAfter(log, <<>>)
  BY <1>1, AllInduced, SameReplay DEF ReplayInv
<1>5. AdjustedMap(cursor) = Replay!ReplayedMap
  BY <1>2, <1>3, <1>4 DEF AdjustedMap, Replay!ReplayedMap
<1>6. Poses(graph) # <<>>
  <2>1. DOMAIN Poses(graph) = 1..Len(graph) /\ Len(graph) > 0
    BY <1>1 DEF Poses, ReplayInv
  <2>2. QED BY <1>1, <2>1
<1>7. QED BY <1>5, <1>6

(* A commit is an arrival, a query a search, an adjustment a map; nothing  *)
(* else shows.                                                             *)
LEMMA ReplayStep ==
  ASSUME OneFrontendRun, SearchesPrefix, CloudInv, OrderInv, ReplayInv, [Next]_vars
  PROVE  [Replay!ReplayNext]_(Replay!replayVars)
<1> SUFFICES Replay!ReplayNext \/ UNCHANGED <<Poses(graph), log, published, saved>>
  BY DEF Replay!replayVars
<1>0. /\ cursor \in Nat \ {0} /\ graph \in Seq(Entry) /\ snap \in Seq(Entry) /\ incoming \in Seq(Entry)
      /\ Len(graph) \in Nat /\ Len(snap) \in Nat /\ Len(incoming) \in Nat
  BY DEF CloudInv, StoreInv, Sound, QueryInv
<1>1. CASE CommitGraph
  <2>1. graph' = incoming /\ UNCHANGED <<log, published, saved>> /\ Len(graph) < Len(incoming)
    BY <1>1 DEF CommitGraph, engineVars, mapVars, ReplayInv
  <2>2. Poses(graph) = [i \in 1..Len(graph) |-> <<1, i>>]
    BY <1>0 DEF Poses, OrderInv, Numbered
  <2>3. Poses(graph)' = [i \in 1..Len(incoming) |-> <<1, i>>]
    BY <1>0, <2>1 DEF Poses, OrderInv, Numbered
  <2>4. ASSUME NEW m \in Nat, NEW n \in Nat, m < n
        PROVE  IsStrictPrefix([i \in 1..m |-> <<1, i>>], [i \in 1..n |-> <<1, i>>])
    <3> DEFINE s == [i \in 1..m |-> <<1, i>>]
               t == [i \in 1..n |-> <<1, i>>]
    <3>1. s \in Seq({1} \X Nat) /\ t \in Seq({1} \X Nat) /\ Len(s) = m /\ Len(t) = n
      OBVIOUS
    <3>2. SubSeq(s, 1, m) = SubSeq(t, 1, m)
      <4>1. SubSeq(s, 1, m) = s
        OBVIOUS
      <4>2. SubSeq(t, 1, m) = s
        BY <2>4
      <4>3. QED BY <4>1, <4>2
    <3>3. s # t
      BY <2>4, <3>1
    <3>4. QED BY <2>4, <3>1, <3>2, <3>3 DEF IsStrictPrefix, IsPrefix
  <2>5. IsStrictPrefix(Poses(graph), Poses(graph)')
    BY <1>0, <2>1, <2>2, <2>3, <2>4
  <2>6. QED BY <2>1, <2>5, SameReplay DEF Replay!ReplayNext, Replay!Arrive
<1>2. CASE ProcessQuery \/ ProcessQueryFails
  <2>1. UNCHANGED <<graph, published, saved>> /\ Poses(graph)' = Poses(graph)
    BY <1>2 DEF ProcessQuery, ProcessQueryFails, SearchAt, storeVars, mapVars, Poses
  <2>2. CASE UNCHANGED <<log, cursor, edges>>
    BY <2>1, <2>2
  <2>3. ASSUME cursor < Len(snap),
               log' = log \o <<SearchEvent(Loaded(snap, cursor + 1), edges)>>
        PROVE  Replay!Search
    <3>1. Replay!ReplayedCount = cursor /\ Replay!EdgesAfter(log, <<>>) = edges
      BY SameReplay DEF Replay!ReplayedCount, ReplayInv
    <3>2. cursor + 1 \in 0..Len(snap) /\ cursor + 1 <= Len(graph)
      BY <1>0, <2>3 DEF ReplayInv
    <3>3. Loaded(snap, cursor + 1) = Replay!Whole(SubSeq(Poses(graph), 1, cursor + 1))
      BY <3>2, LoadedIsReplayed
    <3>4. Len(Poses(graph)) = Len(graph)
      BY <1>0 DEF Poses
    <3> DEFINE event == SearchEvent(Loaded(snap, cursor + 1), edges)
    <3>5. event = Replay!SearchEvent(Replay!Whole(SubSeq(Poses(graph), 1, cursor + 1)), edges)
      BY <3>3, SameReplay
    <3> HIDE DEF event
    <3>6. log' = Append(log, event)
      <4>1. PICK S : log \in Seq(S)
        BY DEF CloudInv, LogInv
      <4>2. log \in Seq(S \cup {event}) /\ event \in S \cup {event}
        BY <4>1
      <4>3. log \o <<event>> = Append(log, event)
        BY <4>2
      <4>4. QED BY <2>3, <4>3 DEF event
    <3>7. QED BY <1>0, <2>1, <3>1, <3>2, <3>4, <3>5, <3>6 DEF Replay!Search
  <2>4. QED BY <1>2, <2>2, <2>3, QueryReplays DEF Replay!ReplayNext
<1>3. CASE AdjustPrefix \/ SaveMap
  <2>1. UNCHANGED <<graph, log>> /\ Poses(graph)' = Poses(graph)
    BY <1>3 DEF AdjustPrefix, SaveMap, SearchAt, storeVars, engineVars, Poses
  <2>2. cursor \in 0..Len(snap) /\ Len(snap) > 0
        /\ published' = AdjustedMap(cursor) /\ saved' \in {saved, published'}
    <3>1. CASE AdjustPrefix
      <4>1. search = "events" /\ events # <<>>
        BY <3>1 DEF AdjustPrefix, SearchAt
      <4>2. PICK e : events = <<e>> /\ e.query = query
        BY <4>1 DEF CloudInv, QueryInv
      <4>3. Head(events).query + 1 = cursor /\ query < Len(snap) /\ cursor = query + 1
        BY <4>1, <4>2 DEF CloudInv, QueryInv
      <4>4. query \in Nat
        BY DEF CloudInv, QueryInv
      <4>5. QED BY <1>0, <3>1, <4>3, <4>4 DEF AdjustPrefix
    <3>2. CASE SaveMap
      <4>1. cursor = Len(snap)
        BY <3>2 DEF SaveMap, SearchAt, ReplayInv
      <4>2. QED BY <1>0, <3>2, <4>1 DEF SaveMap
    <3>3. QED BY <1>3, <3>1, <3>2
  <2>3. AdjustedMap(cursor) = Replay!ReplayedMap /\ Poses(graph) # <<>>
    BY <2>2, AdjustReplays
  <2>4. QED BY <2>1, <2>2, <2>3 DEF Replay!ReplayNext, Replay!Adjust
<1>4. CASE \/ StageOdomSubmap \/ StageMapArray \/ RequestDrain \/ RequestReturns
           \/ MapSave \/ MapSaveReturns \/ MapSaveWaits \/ SpinReturns \/ Destroy
           \/ WorkerSpuriouslyWakes \/ Interrupt \/ Terminated \/ UNCHANGED vars
  <2>1. UNCHANGED <<graph, log, published, saved>>
    BY <1>4 DEF StageOdomSubmap, StageMapArray, Stage, RequestDrain, RequestReturns, MapSave,
                MapSaveReturns, MapSaveWaits, SpinReturns, Destroy, WorkerSpuriouslyWakes,
                Interrupt, Terminated, vars, storeVars, engineVars, mapVars
  <2>2. QED BY <2>1 DEF Poses
<1>5. CASE \/ WorkerWakes \/ DrainEnds \/ TaskEnds \/ TakeSnapshot \/ QueriesExhausted
           \/ StopBetweenQueries \/ SkipEvent \/ NextQuery \/ AdjustFails
  <2>1. UNCHANGED <<graph, log, published, saved>>
    BY <1>5 DEF WorkerWakes, DrainEnds, TaskEnds, TakeSnapshot, QueriesExhausted,
                StopBetweenQueries, SkipEvent, NextQuery, AdjustFails, SearchAt, storeVars,
                engineVars, mapVars
  <2>2. QED BY <2>1 DEF Poses
<1>6. QED
  BY <1>1, <1>2, <1>3, <1>4, <1>5 DEF Next, ExecutorStep, WorkerStep, SearchStep

(* docs/graph-slam-architecture.md: batching is observationally equivalent *)
(* to submitting one submap at a time.  However requests coalesce, drains  *)
(* and saves interleave and searches fail, queries and maps are those of   *)
(* the sequential replay, for one frontend run.                            *)
THEOREM SchedulingIsInvisible ==
  ASSUME OneFrontendRun, SearchesPrefix
  PROVE  Spec => BatchingIsUnobservable
<1>1. OneRunPerCache
  BY DEF OneFrontendRun, OneRunPerCache
<1>2. Init => OrderInv /\ ReplayInv
  <2> SUFFICES ASSUME Init PROVE OrderInv /\ ReplayInv
    OBVIOUS
  <2>1. OrderInv
    BY DEF Init, OrderInv, Numbered
  <2>2. QED BY <2>1 DEF Init, ReplayInv, EdgesAfter
<1>3. Init => Replay!ReplayInit
  BY SameReplay DEF Init, Replay!ReplayInit, Poses
<1>4. CloudInv /\ OrderInv /\ ReplayInv /\ [Next]_vars => (CloudInv /\ OrderInv /\ ReplayInv)'
  BY <1>1, CloudStep, OrderStep, ReplayInvStep
<1>5. CloudInv /\ OrderInv /\ ReplayInv /\ [Next]_vars => [Replay!ReplayNext]_(Replay!replayVars)
  BY ReplayStep
<1>6. QED BY CloudInit, <1>2, <1>3, <1>4, <1>5, PTL DEF Spec, BatchingIsUnobservable, Replay!ReplaySpec

-----------------------------------------------------------------------------
(* What the replay computes: one call of processSubmaps().                 *)

FirstSubmaps(n) == [i \in 1..n |-> [pose |-> <<1, i>>, cloud |-> <<1, i>>]]
InOneBatch(n) == Process(FirstSubmaps(n), 1, <<>>)
MapAfter(n) == [submaps |-> FirstSubmaps(n), edges |-> EdgesAfter(InOneBatch(n), <<>>)]

(* The queries so far are those of one call with all submaps searched, and *)
(* there is one map for each number of submaps.                            *)
OnlySubmapsDecide ==
  /\ log = InOneBatch(Len(log) + 1)
  /\ \A map \in {published, saved} :
       map = EmptyMap \/ \E n \in 1..(Len(log) + 1) : map = MapAfter(n)

(* A map_save that reports success leaves the map of all submaps.          *)
SaveIsTheBatch ==
  [][(/\ caller[Executor] = "woken"
      /\ caller'[Executor] = "idle"
      /\ reply'[Executor] = "ran"
      /\ rosOk
      /\ graph # <<>>) => saved = MapAfter(Len(graph))]_vars

\* The first submap starts no search, each further one a query.
LEMMA BatchGrows ==
  /\ InOneBatch(1) = <<>>
  /\ \A n \in Nat \ {0} :
       InOneBatch(n + 1)
         = InOneBatch(n) \o <<SearchEvent(FirstSubmaps(n + 1), EdgesAfter(InOneBatch(n), <<>>))>>
<1> DEFINE V == [pose : {1} \X Nat, cloud : {1} \X Nat]
<1>1. ASSUME NEW n \in Nat PROVE FirstSubmaps(n) \in Seq(V) /\ Len(FirstSubmaps(n)) = n
  BY DEF FirstSubmaps
<1>2. ASSUME NEW n \in Nat PROVE SubSeq(FirstSubmaps(n + 1), 1, n) = FirstSubmaps(n)
  <2>1. n <= n + 1
    OBVIOUS
  <2> QED BY <2>1 DEF FirstSubmaps
<1> HIDE DEF V
<1>3. InOneBatch(1) = <<>>
  <2> DEFINE first == FirstSubmaps(1)
  <2>1. first \in Seq(V) /\ Len(first) = 1
    BY <1>1
  <2> HIDE DEF first
  <2>2. PICK event : Answers(event, first, 1, <<>>)
    <3>1. 1 \in Nat /\ 1 <= Len(first)
      BY <2>1
    <3> QED BY <2>1, <3>1, ProcessSteps
  <2>3. Process(first, 1, <<>>) = [k \in 1..0 |-> event[1 + k - 1]]
    BY <2>1, <2>2 DEF Answers
  <2>4. [k \in 1..0 |-> event[1 + k - 1]] = <<>>
    OBVIOUS
  <2> QED BY <2>3, <2>4 DEF InOneBatch, first
<1>4. ASSUME NEW n \in Nat \ {0}
      PROVE  InOneBatch(n + 1)
               = InOneBatch(n) \o <<SearchEvent(FirstSubmaps(n + 1), EdgesAfter(InOneBatch(n), <<>>))>>
  <2> DEFINE all == FirstSubmaps(n + 1)
  <2>1. all \in Seq(V) /\ Len(all) = n + 1 /\ n \in Nat /\ n \in 1..Len(all) /\ 1 \in Nat
    BY <1>1
  <2>2. SubSeq(all, 1, n) = FirstSubmaps(n)
    BY <1>2
  <2> HIDE DEF all
  <2>3. LET first == Process(SubSeq(all, 1, n), 1, <<>>)
        IN  Process(all, 1, <<>>) = first \o Process(all, n, EdgesAfter(first, <<>>))
    BY <2>1, BatchesCompose
  <2>4. Process(all, n, EdgesAfter(InOneBatch(n), <<>>))
          = <<SearchEvent(all, EdgesAfter(InOneBatch(n), <<>>))>>
    BY <2>1, OneQuery
  <2> QED BY <2>2, <2>3, <2>4 DEF InOneBatch, all
<1> QED BY <1>3, <1>4

\* The replayed prefixes are those of the one frontend run.
LEMMA PrefixesAreFixed ==
  ASSUME graph \in Seq(Entry), Numbered(graph), NEW n \in 0..Len(graph)
  PROVE  Replay!Whole(SubSeq(Poses(graph), 1, n)) = FirstSubmaps(n)
<1>1. Poses(graph) = [i \in 1..Len(graph) |-> <<1, i>>]
  BY DEF Poses, Numbered
<1>2. SubSeq(Poses(graph), 1, n) = [i \in 1..n |-> <<1, i>>]
  BY <1>1
<1> QED BY <1>2 DEF Replay!Whole, FirstSubmaps

LEMMA BatchStep ==
  ASSUME CloudInv, OrderInv, ReplayInv, OnlySubmapsDecide, [Replay!ReplayNext]_(Replay!replayVars)
  PROVE  OnlySubmapsDecide'
<1>0. /\ graph \in Seq(Entry) /\ Len(graph) \in Nat /\ Numbered(graph) /\ Len(Poses(graph)) = Len(graph)
      /\ cursor \in Nat \ {0} /\ Len(log) + 1 = cursor
      /\ Replay!ReplayedCount = cursor
  BY DEF CloudInv, StoreInv, Sound, QueryInv, OrderInv, ReplayInv, Poses, Replay!ReplayedCount
<1>1. CASE Replay!Search
  <2> DEFINE event == SearchEvent(FirstSubmaps(cursor + 1), EdgesAfter(log, <<>>))
  <2>1. cursor < Len(graph) /\ UNCHANGED <<published, saved>>
    BY <1>0, <1>1 DEF Replay!Search
  <2>2. Replay!Whole(SubSeq(Poses(graph), 1, cursor + 1)) = FirstSubmaps(cursor + 1)
    <3>1. cursor + 1 \in 0..Len(graph)
      BY <1>0, <2>1
    <3> QED BY <1>0, <3>1, PrefixesAreFixed
  <2>3. log' = Append(log, event)
    BY <1>0, <1>1, <2>2, SameReplay DEF Replay!Search
  <2> HIDE DEF event
  <2>4. PICK S : log \in Seq(S)
    BY DEF CloudInv, LogInv
  <2>5. log' = log \o <<event>> /\ Len(log') = Len(log) + 1
    <3>1. log \in Seq(S \cup {event}) /\ event \in S \cup {event}
      BY <2>4
    <3> QED BY <2>3, <3>1
  <2>6. log' = InOneBatch(cursor + 1)
    BY <1>0, <2>5, BatchGrows DEF OnlySubmapsDecide, event
  <2>7. 1..(Len(log) + 1) \subseteq 1..(Len(log') + 1) /\ Len(log') + 1 = cursor + 1
    BY <1>0, <2>5
  <2> QED BY <2>1, <2>6, <2>7 DEF OnlySubmapsDecide, MapAfter, EmptyMap
<1>2. CASE Replay!Adjust
  <2>1. UNCHANGED log /\ published' = Replay!ReplayedMap /\ saved' \in {saved, Replay!ReplayedMap}
        /\ Poses(graph) # <<>>
    BY <1>2 DEF Replay!Adjust
  <2>2. cursor \in 0..Len(graph)
    <3>1. Len(graph) # 0
      BY <1>0, <2>1 DEF Poses
    <3> QED BY <1>0, <3>1 DEF ReplayInv
  <2>3. Replay!ReplayedMap = MapAfter(cursor)
    BY <1>0, <2>2, PrefixesAreFixed, SameReplay
       DEF Replay!ReplayedMap, MapAfter, OnlySubmapsDecide
  <2>4. cursor \in 1..(Len(log) + 1)
    BY <1>0
  <2> QED BY <2>1, <2>3, <2>4 DEF OnlySubmapsDecide, MapAfter, EmptyMap
<1>3. CASE Replay!Arrive \/ UNCHANGED Replay!replayVars
  BY <1>3 DEF Replay!Arrive, Replay!replayVars, OnlySubmapsDecide, MapAfter, EmptyMap
<1> QED BY <1>1, <1>2, <1>3 DEF Replay!ReplayNext

(* However requests coalesce and drains and saves interleave, one frontend *)
(* run makes the queries and the maps that a single call of                *)
(* processSubmaps() with all its submaps makes: only the submaps decide    *)
(* (test_graph_slam_application.cpp:77 compares five).                     *)
THEOREM OneBatchSuffices ==
  ASSUME OneFrontendRun, SearchesPrefix
  PROVE  Spec => [](CloudInv /\ OrderInv /\ ReplayInv /\ OnlySubmapsDecide)
<1>1. OneRunPerCache
  BY DEF OneFrontendRun, OneRunPerCache
<1>2. Init => OrderInv /\ ReplayInv /\ OnlySubmapsDecide
  <2> SUFFICES ASSUME Init PROVE OrderInv /\ ReplayInv /\ OnlySubmapsDecide
    OBVIOUS
  <2>1. OrderInv
    BY DEF Init, OrderInv, Numbered
  <2>2. ReplayInv
    BY DEF Init, ReplayInv, EdgesAfter
  <2>3. OnlySubmapsDecide
    <3>1. Len(<<>>) + 1 = 1
      OBVIOUS
    <3> QED BY <3>1, BatchGrows DEF Init, OnlySubmapsDecide
  <2> QED BY <2>1, <2>2, <2>3
<1>3. CloudInv /\ OrderInv /\ ReplayInv /\ OnlySubmapsDecide /\ [Next]_vars =>
        (CloudInv /\ OrderInv /\ ReplayInv /\ OnlySubmapsDecide)'
  BY <1>1, CloudStep, OrderStep, ReplayInvStep, ReplayStep, BatchStep
<1> QED BY CloudInit, <1>2, <1>3, PTL DEF Spec

(* handleMapSaveRequest: the bundle behind a reported success is the map   *)
(* of one such call, whatever was searched, adjusted and saved before it.  *)
THEOREM SavesAreReproducible ==
  ASSUME OneFrontendRun, SearchesPrefix
  PROVE  Spec => SaveIsTheBatch
<1> DEFINE Answered == /\ caller[Executor] = "woken"
                       /\ caller'[Executor] = "idle"
                       /\ reply'[Executor] = "ran"
                       /\ rosOk
                       /\ graph # <<>>
           Covers == /\ Poses(saved.submaps) = Poses(graph)
                     /\ saved.edges = InducedBy(edges, Len(graph))
                     /\ \A i \in 2..Len(graph) : SearchedAsQuery(graph[i].pose)
<1>1. ASSUME CloudInv, OnlySubmapsDecide, graph # <<>>, Poses(saved.submaps) = Poses(graph)
      PROVE  saved = MapAfter(Len(graph))
  <2>1. graph \in Seq(Entry) /\ Len(graph) \in Nat /\ Len(graph) # 0
    BY <1>1 DEF CloudInv, StoreInv, Sound
  <2>2. DOMAIN saved.submaps = 1..Len(graph)
    BY <1>1, <2>1 DEF Poses
  <2>3. saved # EmptyMap
    <3>1. DOMAIN EmptyMap.submaps = {}
      BY DEF EmptyMap
    <3>2. 1 \in DOMAIN saved.submaps
      BY <2>1, <2>2
    <3> QED BY <3>1, <3>2
  <2>4. PICK n \in 1..(Len(log) + 1) : saved = MapAfter(n)
    BY <1>1, <2>3 DEF OnlySubmapsDecide
  <2>5. DOMAIN saved.submaps = 1..n
    BY <2>4 DEF MapAfter, FirstSubmaps
  <2>6. Len(log) \in Nat
    BY <1>1 DEF CloudInv, LogInv
  <2>7. n = Len(graph)
    <3>1. n \in Nat /\ 1..n = 1..Len(graph)
      BY <2>2, <2>5, <2>6
    <3> QED BY <2>1, <3>1
  <2> QED BY <2>4, <2>7
<1>2. CloudInv /\ OnlySubmapsDecide /\ [Answered => Covers]_vars =>
        [Answered => saved = MapAfter(Len(graph))]_vars
  BY <1>1
<1>3. Spec => [][Answered => Covers]_vars
  BY SavesCoverStaged DEF MapSaveCoversStaged
<1>4. Spec => [](CloudInv /\ OnlySubmapsDecide)
  BY OneBatchSuffices, PTL
<1>5. Spec => [][Answered => saved = MapAfter(Len(graph))]_vars
  BY <1>2, <1>3, <1>4, PTL
<1> QED BY <1>5 DEF SaveIsTheBatch

-----------------------------------------------------------------------------
(* Types.                                                                  *)

(* A submap without a cloud of its own has a file.                         *)
Filed(files, g) ==
  /\ g \in Seq(Entry) /\ Len(g) <= MaxSubmaps
  /\ \A i \in 1..Len(g) : g[i].cloud \in Submap \/ (UsePcdCache /\ files[i] \in Submap)

\* The parts of the type invariant, with what each step needs of the others.
StoreTypes ==
  /\ cache \in [1..MaxSubmaps -> Submap \cup {NoCloud}]
  /\ session \in 1..MaxSessions
  /\ Filed(cache, graph) /\ Filed(cache, incoming) /\ Filed(cache, snap)

PlaceTypes ==
  /\ exec \in {"idle", "staged", "committed"}
  /\ rosOk \in BOOLEAN
  /\ process \in {"running", "crashed", "exited"}
  /\ search \in {"none", "loop", "query", "events", "no_input", "complete",
                  "interrupted", "failed", "saved"}

MapTypes == edges \in Seq(Edge) /\ published \in Map /\ saved \in Map

TypeInv == StoreTypes /\ PlaceTypes /\ QueryInv /\ MapTypes

\* So whatever is loaded has a cloud.
LEMMA LoadedType ==
  ASSUME StoreTypes, NEW g, Filed(cache, g), NEW count \in 0..Len(g)
  PROVE  Loaded(g, count) \in Seq(WholeEntry) /\ Len(Loaded(g, count)) = count
<1>1. ASSUME NEW i \in 1..count PROVE LoadCloud(g, i) \in Submap /\ g[i].pose \in Submap
  <2>1. g \in Seq(Entry) /\ i \in 1..Len(g) /\ i \in 1..MaxSubmaps
    BY BackendAssumption DEF Filed
  <2>2. g[i] \in Entry
    BY <2>1
  <2>3. g[i].pose \in Submap /\ g[i].cloud \in Submap \cup {NoCloud}
    BY <2>2 DEF Entry
  <2>4. cache[i] \in Submap \cup {NoCloud}
    BY <2>1 DEF StoreTypes
  <2>5. g[i].cloud \in Submap \/ (UsePcdCache /\ cache[i] \in Submap)
    BY <2>1 DEF Filed
  <2>6. QED BY <2>3, <2>4, <2>5 DEF LoadCloud
<1>2. count \in Nat
  OBVIOUS
<1>3. QED BY <1>1, <1>2 DEF Loaded, WholeEntry

\* What a callback stages, and what it leaves to the readers of the cache.
LEMMA StageTypes ==
  ASSUME StoreTypes, PlaceTypes, QueryInv, MapTypes, StageOdomSubmap \/ StageMapArray
  PROVE  TypeInv'
<1>1. ASSUME NEW g \in Seq(Submap), NEW stored \in SUBSET (1..Len(g)),
             Len(g) <= MaxSubmaps, Stage(g, stored), stored # {} => UsePcdCache,
             session' \in 1..MaxSessions
      PROVE  TypeInv'
  <2>1. UNCHANGED <<graph, rosOk, process, search, snap, query, events, cursor, edges, log,
                    published, saved>>
    BY <1>1 DEF Stage, searchVars, engineVars, mapVars
  <2>2. cache' = [i \in DOMAIN cache |-> IF i \in stored THEN g[i] ELSE cache[i]]
    BY <1>1 DEF Stage
  <2>3. \A i \in 1..Len(g) : g[i] \in Submap
    BY <1>1
  <2>4. DOMAIN cache = 1..MaxSubmaps
        /\ \A i \in 1..MaxSubmaps : cache[i] \in Submap \cup {NoCloud}
    BY DEF StoreTypes
  <2>5. /\ cache' \in [1..MaxSubmaps -> Submap \cup {NoCloud}]
        /\ \A i \in 1..MaxSubmaps : cache[i] \in Submap \/ i \in stored => cache'[i] \in Submap
    BY <1>1, <2>2, <2>3, <2>4
  <2>6. ASSUME NEW h, Filed(cache, h) PROVE Filed(cache', h)
    <3>1. h \in Seq(Entry) /\ Len(h) <= MaxSubmaps
          /\ \A i \in 1..Len(h) : i \in 1..MaxSubmaps
      BY <2>6, BackendAssumption DEF Filed
    <3>2. QED BY <2>5, <2>6, <3>1 DEF Filed
  <2>7. Filed(cache', incoming')
    <3> DEFINE Cloud(i) == IF i \in DOMAIN graph /\ UseOdomInput THEN graph[i].cloud
                           ELSE IF i \in stored THEN NoCloud ELSE g[i]
    <3>1. incoming' = [i \in 1..Len(g) |-> [pose |-> g[i], cloud |-> Cloud(i)]]
      BY <1>1 DEF Stage
    <3>2. ASSUME NEW i \in 1..Len(g)
          PROVE  /\ Cloud(i) \in Submap \cup {NoCloud}
                 /\ Cloud(i) \in Submap \/ (UsePcdCache /\ cache'[i] \in Submap)
      <4>1. i \in 1..MaxSubmaps
        BY <1>1, BackendAssumption
      <4>2. CASE i \in DOMAIN graph /\ UseOdomInput
        <5>1. Filed(cache', graph) /\ i \in 1..Len(graph) /\ graph[i] \in Entry
          BY <2>6, <4>2 DEF StoreTypes, Filed
        <5>2. graph[i].cloud \in Submap \cup {NoCloud}
          BY <5>1 DEF Entry
        <5>3. QED BY <4>2, <5>1, <5>2 DEF Filed
      <4>3. CASE ~(i \in DOMAIN graph /\ UseOdomInput)
        BY <1>1, <2>3, <2>5, <4>1, <4>3
      <4>4. QED BY <4>2, <4>3
    <3> HIDE DEF Cloud
    <3>3. \A i \in 1..Len(g) : [pose |-> g[i], cloud |-> Cloud(i)] \in Entry
      BY <2>3, <3>2 DEF Entry
    <3>4. incoming' \in Seq(Entry) /\ Len(incoming') = Len(g)
          /\ \A i \in 1..Len(g) : incoming'[i].cloud = Cloud(i)
      BY <1>1, <3>1, <3>3
    <3>5. QED BY <1>1, <3>2, <3>4 DEF Filed
  <2>8. StoreTypes'
    <3>1. Filed(cache', graph') /\ Filed(cache', snap')
      BY <2>1, <2>6 DEF StoreTypes
    <3>2. QED BY <1>1, <2>5, <2>7, <3>1 DEF StoreTypes
  <2>9. PlaceTypes'
    BY <1>1, <2>1 DEF PlaceTypes, Stage
  <2>10. QueryInv' /\ MapTypes'
    BY <2>1 DEF QueryInv, MapTypes
  <2>11. QED BY <2>8, <2>9, <2>10 DEF TypeInv
<1>2. CASE StageOdomSubmap
  <2> DEFINE g == Append(Poses(graph), <<session, Len(graph) + 1>>)
  <2>1. Len(graph) < MaxSubmaps /\ session' = session
    BY <1>2 DEF StageOdomSubmap
  <2>2. PICK stored \in SUBSET {Len(graph) + 1} : (stored # {} => UsePcdCache) /\ Stage(g, stored)
    BY <1>2 DEF StageOdomSubmap
  <2>3. graph \in Seq(Entry) /\ Len(graph) \in Nat /\ session \in 1..MaxSessions
    BY DEF StoreTypes, Filed
  <2>4. \A e \in Entry : e.pose \in Submap
    BY DEF Entry
  <2>5. Poses(graph) \in Seq(Submap) /\ Len(Poses(graph)) = Len(graph)
    <3>1. DOMAIN graph = 1..Len(graph)
      BY <2>3
    <3>2. QED BY <2>3, <2>4, <3>1 DEF Poses
  <2>6. <<session, Len(graph) + 1>> \in Submap
    BY <2>1, <2>3, BackendAssumption DEF Submap
  <2>7. g \in Seq(Submap) /\ Len(g) = Len(graph) + 1
    BY <2>3, <2>5, <2>6
  <2> HIDE DEF g
  <2>8. stored \in SUBSET (1..Len(g)) /\ Len(g) <= MaxSubmaps
    BY <2>1, <2>3, <2>7, BackendAssumption
  <2>9. QED BY <1>1, <2>1, <2>2, <2>3, <2>7, <2>8
<1>3. CASE StageMapArray
  <2>1. PICK s \in session..MaxSessions, count \in 1..MaxSubmaps :
          /\ \E stored \in SUBSET (1..count) :
               (stored # {} => UsePcdCache) /\ Stage([i \in 1..count |-> <<s, i>>], stored)
          /\ session' = s
    BY <1>3 DEF StageMapArray
  <2> DEFINE g == [i \in 1..count |-> <<s, i>>]
  <2>2. s \in 1..MaxSessions
    BY BackendAssumption DEF StoreTypes
  <2>3. \A i \in 1..count : <<s, i>> \in Submap
    BY <2>2, BackendAssumption DEF Submap
  <2>4. g \in Seq(Submap) /\ Len(g) = count
    BY <2>3
  <2>5. PICK stored \in SUBSET (1..count) : (stored # {} => UsePcdCache) /\ Stage(g, stored)
    BY <2>1
  <2> HIDE DEF g
  <2>6. count <= MaxSubmaps
    BY BackendAssumption
  <2>7. QED BY <1>1, <2>1, <2>2, <2>4, <2>5, <2>6
<1>4. QED BY <1>2, <1>3

\* Commits, snapshots and the head of a body.
LEMMA GraphTypes ==
  ASSUME TypeInv,
         \/ CommitGraph \/ RequestDrain \/ TakeSnapshot
         \/ WorkerWakes \/ DrainEnds \/ TaskEnds
  PROVE  TypeInv'
<1>1. UNCHANGED <<cache, session, cursor, edges, published, saved, rosOk, process>>
  BY DEF CommitGraph, RequestDrain, TakeSnapshot, SearchAt, WorkerWakes, DrainEnds, TaskEnds,
         storeVars, engineVars, mapVars
<1>2. /\ graph' \in {graph, incoming} /\ incoming' \in {incoming, <<>>}
      /\ snap' \in {snap, graph, <<>>}
  BY DEF CommitGraph, RequestDrain, TakeSnapshot, SearchAt, WorkerWakes, DrainEnds, TaskEnds,
         EnterBody, storeVars, searchVars
<1>3. /\ query' \in {query, cursor, 0}
      /\ \/ UNCHANGED <<search, query, events, snap>>
         \/ search' \in {"none", "loop", "interrupted", "no_input", "complete"}
         \/ search' = "query" /\ query' = cursor
      /\ exec' \in {exec, "committed", "idle"}
  BY DEF CommitGraph, RequestDrain, TakeSnapshot, SearchAt, WorkerWakes, DrainEnds, TaskEnds,
         EnterBody, searchVars
<1>4. StoreTypes'
  <2>1. Filed(cache, <<>>)
    BY BackendAssumption DEF Filed
  <2>2. Filed(cache', graph') /\ Filed(cache', incoming') /\ Filed(cache', snap')
    BY <1>1, <1>2, <2>1 DEF TypeInv, StoreTypes
  <2>3. QED BY <1>1, <2>2 DEF TypeInv, StoreTypes
<1>5. QueryInv'
  <2>1. query' \in Nat /\ cursor' \in Nat \ {0}
    BY <1>1, <1>3 DEF TypeInv, QueryInv
  <2>2. QED BY <1>1, <1>3, <2>1 DEF TypeInv, QueryInv
<1>6. PlaceTypes' /\ MapTypes'
  BY <1>1, <1>3 DEF TypeInv, PlaceTypes, MapTypes
<1>7. QED BY <1>4, <1>5, <1>6 DEF TypeInv

\* Steps inside a body that neither search nor adjust.
LEMMA BodyTypes ==
  ASSUME TypeInv,
         \/ QueriesExhausted \/ StopBetweenQueries \/ SkipEvent \/ NextQuery \/ AdjustFails
  PROVE  TypeInv'
<1>1. UNCHANGED <<storeVars, snap, cursor, edges, published, saved, exec, rosOk, process>>
  BY DEF QueriesExhausted, StopBetweenQueries, SkipEvent, NextQuery, AdjustFails, SearchAt,
         engineVars, mapVars
<1>2. \/ search' \in {"loop", "interrupted", "failed"} /\ query' = query
      \/ /\ search = "events" /\ search' = "query" /\ query' = query + 1
      \/ /\ search = "events" /\ search' = "events" /\ query' = query
         /\ events # <<>> /\ events' = Tail(events)
  BY DEF QueriesExhausted, StopBetweenQueries, SkipEvent, NextQuery, AdjustFails, SearchAt
<1>3. StoreTypes' /\ PlaceTypes' /\ MapTypes'
  BY <1>1, <1>2 DEF storeVars, TypeInv, StoreTypes, PlaceTypes, MapTypes
<1>4. QueryInv'
  <2>1. \A e : Tail(<<e>>) = <<>>
    OBVIOUS
  <2>2. QED BY <1>1, <1>2, <2>1 DEF TypeInv, QueryInv
<1>5. QED BY <1>3, <1>4 DEF TypeInv

\* A query makes one event, and at most one edge.
LEMMA QueryTypes ==
  ASSUME SearchesPrefix, TypeInv, ProcessQuery \/ ProcessQueryFails
  PROVE  TypeInv'
<1> DEFINE visible == PrefixOf(snap, query)
           event == SearchEvent(visible, edges)
<1>1. /\ UNCHANGED <<storeVars, snap, query, published, saved, exec, rosOk, process>>
      /\ search = "query" /\ query < Len(snap)
  BY DEF ProcessQuery, ProcessQueryFails, SearchAt, mapVars
<1>2. /\ Filed(cache, snap) /\ query = cursor
      /\ cursor \in Nat \ {0} /\ Len(snap) \in Nat
  BY <1>1 DEF TypeInv, StoreTypes, QueryInv, Filed
<1>3. visible \in Seq(WholeEntry) /\ Len(visible) = query + 1
  <2>1. query + 1 \in 0..Len(snap)
    BY <1>1, <1>2
  <2>2. QED BY <1>2, <2>1, LoadedType DEF TypeInv, PrefixOf
<1> HIDE DEF visible
<1>4. Process(visible, cursor, edges) = <<event>>
  BY <1>2, <1>3, OneQuery
<1>5. event.query = query /\ event.edges \in Seq(Edge)
  <2>1. Len(visible) - 1 = query /\ edges \in Seq(Edge)
    BY <1>2, <1>3 DEF TypeInv, MapTypes
  <2> DEFINE edge == IF ShouldSearch(query) THEN Proposal(visible) ELSE NoEdge
  <2>2. edge # NoEdge => edge \in Edge
    <3>1. edge # NoEdge => edge \in EdgeWithin(query + 1)
      BY <1>2, <1>3 DEF SearchesPrefix
    <3>2. EdgeWithin(query + 1) \subseteq Edge
      <4>1. 0..(query + 1 - 1) \subseteq Nat
        OBVIOUS
      <4>2. QED BY <4>1 DEF EdgeWithin, Edge
    <3>3. QED BY <3>1, <3>2
  <2>3. edge # NoEdge => Upsert(edges, edge) \in Seq(Edge)
    <3>1. \A e \in Edge : Normalized(e) \in Edge
      BY DEF Normalized, Edge
    <3>2. QED BY <2>1, <2>2, <3>1, UpsertKeeps
  <2>4. QED BY <2>1, <2>3 DEF SearchEvent
<1> HIDE DEF event
<1>6. StoreTypes' /\ UNCHANGED <<published, saved>>
  BY <1>1 DEF storeVars, TypeInv, StoreTypes
<1>7. CASE ProcessQuery
  <2>1. /\ events' = <<event>> /\ cursor' = cursor + Len(<<event>>) /\ search' = "events"
        /\ edges' = EdgesAfter(<<event>>, edges)
    BY <1>4, <1>7 DEF ProcessQuery, visible
  <2>2. Last(<<event>>) = event /\ <<event>> # <<>> /\ Len(<<event>>) = 1
    BY DEF Last
  <2>3. cursor' = cursor + 1 /\ edges' = event.edges
    BY <2>1, <2>2 DEF EdgesAfter
  <2>4. QueryInv'
    BY <1>1, <1>2, <1>5, <2>1, <2>3 DEF QueryInv
  <2>5. PlaceTypes' /\ MapTypes'
    BY <1>1, <1>5, <2>1, <2>3 DEF TypeInv, PlaceTypes, MapTypes
  <2>6. QED BY <1>6, <2>4, <2>5 DEF TypeInv
<1>8. CASE ProcessQueryFails
  <2>1. PICK done \in 0..(Len(<<event>>) - 1) :
          cursor' = cursor + done /\ edges' = EdgesAfter(SubSeq(<<event>>, 1, done), edges)
    BY <1>4, <1>8 DEF ProcessQueryFails, visible
  <2>2. done = 0 /\ SubSeq(<<event>>, 1, done) = <<>>
    BY <2>1
  <2>3. cursor' = cursor /\ edges' = edges /\ search' = "failed"
    BY <1>2, <1>8, <2>1, <2>2 DEF EdgesAfter, ProcessQueryFails
  <2>4. QueryInv' /\ PlaceTypes' /\ MapTypes'
    BY <1>1, <2>3 DEF TypeInv, QueryInv, PlaceTypes, MapTypes
  <2>5. QED BY <1>6, <2>4 DEF TypeInv
<1>9. QED BY <1>7, <1>8

\* A map is made of what was loaded and of edges of the application.
LEMMA AdjustTypes ==
  ASSUME TypeInv, AdjustPrefix \/ SaveMap
  PROVE  TypeInv'
<1>1. UNCHANGED <<storeVars, snap, query, cursor, edges, exec, rosOk, process>>
  BY DEF AdjustPrefix, SaveMap, SearchAt, engineVars
<1>2. ASSUME NEW count \in 0..Len(snap),
             published' = AdjustedMap(count), saved' \in {saved, published'}
      PROVE  MapTypes'
  <2>1. Loaded(snap, count) \in Seq(WholeEntry)
    BY LoadedType DEF TypeInv, StoreTypes
  <2>2. InducedBy(edges, count) \in Seq(Edge)
    BY InducedType DEF TypeInv, MapTypes
  <2>3. published' \in Map
    BY <1>2, <2>1, <2>2 DEF AdjustedMap, Map
  <2>4. QED BY <1>1, <1>2, <2>3 DEF TypeInv, MapTypes
<1>3. StoreTypes'
  BY <1>1 DEF storeVars, TypeInv, StoreTypes
<1>4. Len(snap) \in Nat
  BY DEF TypeInv, StoreTypes, Filed
<1>5. CASE AdjustPrefix
  <2>1. PICK e : events = <<e>> /\ e.query = query
    BY <1>5 DEF AdjustPrefix, SearchAt, TypeInv, QueryInv
  <2>2. /\ search = "events" /\ search' = search /\ events' = Tail(events)
        /\ published' = AdjustedMap(Head(events).query + 1)
        /\ saved' \in {saved, published'}
    BY <1>5 DEF AdjustPrefix, SearchAt
  <2>3. Head(events).query + 1 = query + 1 /\ events' = <<>>
    BY <2>1, <2>2
  <2>4. query + 1 \in 0..Len(snap)
    BY <1>4, <2>2 DEF TypeInv, QueryInv
  <2>5. MapTypes'
    BY <1>2, <2>2, <2>3, <2>4
  <2>6. QueryInv' /\ PlaceTypes'
    BY <1>1, <2>2, <2>3 DEF TypeInv, QueryInv, PlaceTypes
  <2>7. QED BY <1>3, <2>5, <2>6 DEF TypeInv
<1>6. CASE SaveMap
  <2>1. published' = AdjustedMap(Len(snap)) /\ saved' = published' /\ search' = "saved"
    BY <1>6 DEF SaveMap
  <2>2. MapTypes'
    BY <1>2, <1>4, <2>1
  <2>3. QueryInv' /\ PlaceTypes'
    BY <1>1, <2>1 DEF TypeInv, QueryInv, PlaceTypes
  <2>4. QED BY <1>3, <2>2, <2>3 DEF TypeInv
<1>7. QED BY <1>5, <1>6

LEMMA NodeTypeStep ==
  ASSUME SearchesPrefix, TypeInv, [Next]_vars
  PROVE  TypeInv'
<1>1. CASE \/ RequestReturns \/ MapSave \/ MapSaveReturns \/ MapSaveWaits \/ SpinReturns
           \/ Destroy \/ WorkerSpuriouslyWakes \/ Interrupt \/ Terminated \/ UNCHANGED vars
  <2>1. UNCHANGED <<storeVars, searchVars, engineVars, mapVars, exec>>
    BY <1>1 DEF RequestReturns, MapSave, MapSaveReturns, MapSaveWaits, SpinReturns, Destroy,
                WorkerSpuriouslyWakes, Interrupt, Terminated, vars
  <2>2. rosOk' \in {rosOk, FALSE} /\ process' \in {process, "running", "crashed", "exited"}
    BY <1>1 DEF RequestReturns, MapSave, MapSaveReturns, MapSaveWaits, SpinReturns, Destroy,
                WorkerSpuriouslyWakes, Interrupt, Terminated, vars, Survives
  <2>3. QED
    BY <2>1, <2>2 DEF storeVars, searchVars, engineVars, mapVars, TypeInv, StoreTypes,
                      PlaceTypes, QueryInv, MapTypes
<1>2. QED
  BY <1>1, StageTypes, GraphTypes, BodyTypes, QueryTypes, AdjustTypes
     DEF TypeInv, Next, ExecutorStep, WorkerStep, SearchStep

\* The part of it that is inductive by itself.
LEMMA NodeTypeHolds ==
  ASSUME SearchesPrefix
  PROVE  Spec => []TypeInv
<1>1. Init => TypeInv
  <2> SUFFICES ASSUME Init PROVE TypeInv
    OBVIOUS
  <2>1. Filed(cache, <<>>)
    BY BackendAssumption DEF Filed
  <2>2. StoreTypes /\ PlaceTypes /\ QueryInv
    BY <2>1, BackendAssumption DEF Init, StoreTypes, PlaceTypes, QueryInv
  <2>3. MapTypes
    BY DEF Init, MapTypes, Map, EmptyMap
  <2>4. QED BY <2>2, <2>3 DEF TypeInv
<1>2. TypeInv /\ [Next]_vars => TypeInv'
  BY NodeTypeStep
<1> QED BY <1>1, <1>2, PTL DEF Spec

(* Type correctness of the node, for any number of frontend runs: in every *)
(* state a submap has its cloud in memory or in a file, although callbacks  *)
(* drop clouds they have stored and failed writes keep theirs.             *)
THEOREM NodeTypeCorrect ==
  ASSUME SearchesPrefix
  PROVE  Spec => []TypeOK
<1>1. Proved!IInv => Drain!TypeOK
  BY DEF Proved!IInv, Proved!TypeOK, Drain!TypeOK, Proved!Job, Drain!Job, Proved!Replies,
         Drain!Replies
<1>2. TypeInv /\ Drain!TypeOK => TypeOK
  BY DEF TypeInv, StoreTypes, PlaceTypes, QueryInv, MapTypes, Filed, TypeOK
<1> QED BY <1>1, <1>2, NodeTypeHolds, DrainInvariantInNode, PTL

(* The edges of the application change by the queries only, whatever is    *)
(* thrown, saved or restarted: in the life of a node no loop is lost.      *)
LoopsOnlyImprove == [][Improves(edges, edges')]_vars

\* A call of processSubmaps() upserts one edge at most.
LEMMA QueryUpserts ==
  ASSUME SearchesPrefix, TypeInv, ProcessQuery \/ ProcessQueryFails
  PROVE  edges' = edges \/ \E e \in Edge : edges' = Upsert(edges, e)
<1> DEFINE visible == PrefixOf(snap, query)
           event == SearchEvent(visible, edges)
           edge == IF ShouldSearch(query) THEN Proposal(visible) ELSE NoEdge
<1>1. search = "query" /\ query < Len(snap)
  BY DEF ProcessQuery, ProcessQueryFails, SearchAt
<1>2. /\ Filed(cache, snap) /\ query = cursor
      /\ cursor \in Nat \ {0} /\ Len(snap) \in Nat
  BY <1>1 DEF TypeInv, StoreTypes, QueryInv, Filed
<1>3. visible \in Seq(WholeEntry) /\ Len(visible) = query + 1
  <2>1. query + 1 \in 0..Len(snap)
    BY <1>1, <1>2
  <2> QED BY <1>2, <2>1, LoadedType DEF TypeInv, PrefixOf
<1> HIDE DEF visible
<1>4. Process(visible, cursor, edges) = <<event>>
  BY <1>2, <1>3, OneQuery
<1>5. edge # NoEdge => edge \in Edge
  <2>1. edge # NoEdge => edge \in EdgeWithin(query + 1)
    BY <1>2, <1>3 DEF SearchesPrefix
  <2>2. 0..(query + 1 - 1) \subseteq Nat
    OBVIOUS
  <2> QED BY <2>1, <2>2 DEF EdgeWithin, Edge
<1>6. event.edges = edges \/ \E e \in Edge : event.edges = Upsert(edges, e)
  <2>1. Len(visible) - 1 = query
    BY <1>2, <1>3
  <2>2. event.edges = edges \/ (edge # NoEdge /\ event.edges = Upsert(edges, edge))
    BY <2>1 DEF SearchEvent
  <2> HIDE DEF edge, event
  <2> QED BY <1>5, <2>2
<1> HIDE DEF event
<1>7. CASE ProcessQuery
  <2>1. edges' = EdgesAfter(<<event>>, edges)
    BY <1>4, <1>7 DEF ProcessQuery, visible
  <2>2. Last(<<event>>) = event /\ <<event>> # <<>>
    BY DEF Last
  <2> QED BY <1>6, <2>1, <2>2 DEF EdgesAfter
<1>8. CASE ProcessQueryFails
  <2>1. PICK done \in 0..(Len(<<event>>) - 1) :
          edges' = EdgesAfter(SubSeq(<<event>>, 1, done), edges)
    BY <1>4, <1>8 DEF ProcessQueryFails, visible
  <2>2. SubSeq(<<event>>, 1, done) = <<>>
    <3>1. done = 0
      BY <2>1
    <3> QED BY <3>1
  <2> QED BY <2>1, <2>2 DEF EdgesAfter
<1> QED BY <1>7, <1>8

(* Over a whole run, failures, saves and restarts of the frontend included, *)
(* a stored loop is replaced by a better one near it or stays.             *)
THEOREM LoopsImprove ==
  ASSUME SearchesPrefix
  PROVE  Spec => LoopsOnlyImprove
<1>1. ASSUME TypeInv, [Next]_vars PROVE edges' = edges \/ \E e \in Edge : edges' = Upsert(edges, e)
  <2>1. CASE ProcessQuery \/ ProcessQueryFails
    BY <1>1, <2>1, QueryUpserts
  <2>2. CASE ~(ProcessQuery \/ ProcessQueryFails)
    BY <1>1, <2>2 DEF Next, ExecutorStep, WorkerStep, SearchStep, vars, engineVars,
       StageOdomSubmap, StageMapArray, Stage, CommitGraph, RequestDrain, RequestReturns, MapSave,
       MapSaveReturns, MapSaveWaits, WorkerWakes, WorkerSpuriouslyWakes, TakeSnapshot,
       QueriesExhausted, StopBetweenQueries, SkipEvent, AdjustPrefix, NextQuery, SaveMap,
       AdjustFails, DrainEnds, TaskEnds, Interrupt, SpinReturns, Destroy, Terminated
  <2> QED BY <2>1, <2>2
<1>2. TypeInv /\ [Next]_vars => [Improves(edges, edges')]_vars
  <2> SUFFICES ASSUME TypeInv, [Next]_vars PROVE Improves(edges, edges')
    OBVIOUS
  <2>1. edges \in Seq(Edge)
    BY DEF TypeInv, MapTypes
  <2>2. Improves(edges, edges)
    BY <2>1 DEF Improves
  <2>3. \A e \in Edge : Improves(edges, Upsert(edges, e))
    BY <2>1, NearbyKeepsBetter
  <2> QED BY <1>1, <2>2, <2>3
<1>3. Spec => []TypeInv
  BY NodeTypeHolds
<1> QED BY <1>2, <1>3, PTL DEF Spec, LoopsOnlyImprove
=============================================================================
