------------------ MODULE RegistrationPluginSessionProofs ------------------
(***************************************************************************)
(* Theorems about the session for any finite set of threads and both       *)
(* threading and cancellation models: its type invariant, and the          *)
(* inductive invariant IInv from which its safety properties follow.       *)
(***************************************************************************)
EXTENDS RegistrationPluginSession, FiniteSetTheorems, TLAPS

-----------------------------------------------------------------------------
(* The threads at some places are finitely many.                           *)
LEMMA PlacesAreFinite ==
  ASSUME NEW places
  PROVE  /\ IsFiniteSet(InPlaces(places))
         /\ Cardinality(InPlaces(places)) \in 0..Cardinality(Callers)
         /\ Cardinality(InPlaces(places)) = 0 <=> InPlaces(places) = {}
<1>1. InPlaces(places) \subseteq Callers
  BY DEF InPlaces
<1>2. IsFiniteSet(Callers)
  BY SessionAssumption
<1>3. /\ IsFiniteSet(InPlaces(places))
      /\ Cardinality(InPlaces(places)) <= Cardinality(Callers)
  BY <1>1, <1>2, FS_Subset
<1>4. Cardinality(InPlaces(places)) \in Nat /\ Cardinality(Callers) \in Nat
  BY <1>2, <1>3, FS_CardinalityType
<1>5. QED BY <1>3, <1>4, FS_EmptySet

(* The barrier's test is exact: the counter is zero when nobody is counted.*)
LEMMA ZeroIsQuiescent ==
  ASSUME CounterCounts
  PROVE  inFlight = 0 <=> InPlaces(Counted) = {}
BY PlacesAreFinite DEF CounterCounts

-----------------------------------------------------------------------------
(* The parts of the invariant that speak of places and flags: who holds    *)
(* the mutex, who closes, who was late, and what reset and barrier need.   *)
Control ==
  /\ MutexHasOneOwner
  /\ OneThreadCloses
  /\ ClosingIsCancelled
  /\ LateIsKnown
  /\ LateStaysOut
  /\ ResetFollowsTheLastCall
  /\ BarrierWillOpen

(* Every step of a thread keeps them.  The reset is the delicate one: the  *)
(* mutex excludes a thread that was admitted and is not yet counted, the   *)
(* counter excludes those inside.                                          *)
LEMMA ControlStep ==
  ASSUME IInv,
         NEW c \in Callers,
         \/ CallBegins(c) \/ CancelMarks(c) \/ ShutdownMarks(c)
         \/ PluginReturns(c) \/ PluginThrows(c) \/ SpuriousWakeup(c)
         \/ Proceeds(c)
  PROVE  Control'
<1> USE SessionAssumption
    DEF IInv, TypeOK, Control, MutexHasOneOwner, OneThreadCloses, ClosingIsCancelled,
        LateIsKnown, LateStaysOut, ResetFollowsTheLastCall, BarrierWillOpen,
        Holding, Closing, Counted, InPlaces
<1>0. inFlight = 0 <=> InPlaces(Counted) = {}
  BY ZeroIsQuiescent DEF IInv
<1>1. CASE CallBegins(c)
  BY <1>1 DEF CallBegins, Goes, Ends
<1>2. CASE CancelMarks(c)
  BY <1>2 DEF CancelMarks, Goes
<1>3. CASE ShutdownMarks(c)
  BY <1>3 DEF ShutdownMarks, Goes
<1>4. CASE PluginReturns(c)
  BY <1>4 DEF PluginReturns, Goes
<1>5. CASE PluginThrows(c)
  BY <1>5 DEF PluginThrows, Goes
<1>6. CASE SpuriousWakeup(c)
  BY <1>6 DEF SpuriousWakeup, Goes
<1>7. CASE BeginLocks(c)
  BY <1>7 DEF BeginLocks, Goes
<1>8. CASE RejectsCancelled(c)
  BY <1>8 DEF RejectsCancelled, Rejects, Goes, Ends
<1>9. CASE RejectsFaulted(c)
  BY <1>9 DEF RejectsFaulted, Rejects, Goes, Ends
<1>10. CASE Admits(c)
  BY <1>10 DEF Admits, Goes
<1>11. CASE Enters(c)
  BY <1>11, <1>0 DEF Enters, Goes
<1>12. CASE Checkpoint(c)
  BY <1>12 DEF Checkpoint, Goes, Ends
<1>13. CASE LatchesFault(c)
  BY <1>13 DEF LatchesFault, Goes, Ends
<1>14. CASE Leaves(c)
  BY <1>14, <1>0 DEF Leaves
<1>15. CASE CancelRequests(c)
  BY <1>15 DEF CancelRequests, Goes
<1>16. CASE ShutdownCancels(c)
  BY <1>16 DEF ShutdownCancels, Goes
<1>17. CASE ShutdownRequests(c)
  BY <1>17 DEF ShutdownRequests, Goes
<1>18. CASE ShutdownLocks(c)
  BY <1>18, <1>0 DEF ShutdownLocks, Goes
<1>19. CASE PluginResets(c)
  BY <1>19 DEF PluginResets, Goes
<1>20. QED
  BY <1>1, <1>2, <1>3, <1>4, <1>5, <1>6, <1>7, <1>8, <1>9, <1>10, <1>11,
     <1>12, <1>13, <1>14, <1>15, <1>16, <1>17, <1>18, <1>19 DEF Proceeds

(* Only entering and leaving change who is counted, and the counter        *)
(* follows them.                                                           *)
LEMMA CounterStep ==
  ASSUME IInv,
         NEW c \in Callers,
         \/ CallBegins(c) \/ CancelMarks(c) \/ ShutdownMarks(c)
         \/ PluginReturns(c) \/ PluginThrows(c) \/ SpuriousWakeup(c)
         \/ Proceeds(c)
  PROVE  CounterCounts'
<1>1. /\ pc \in [Callers -> Counted \cup {"idle", "entering", "admitting", "admitted",
                     "cancelling", "closing", "requesting", "locking",
                     "waiting", "woken", "resetting"}]
      /\ inFlight = Cardinality(InPlaces(Counted))
      /\ inFlight \in Nat
  BY PlacesAreFinite DEF IInv, TypeOK, CounterCounts
<1>2. CASE Enters(c)
  <2>1. /\ c \notin InPlaces(Counted)
        /\ InPlaces(Counted)' = InPlaces(Counted) \cup {c}
    BY <1>1, <1>2 DEF Enters, Goes, InPlaces, Counted
  <2>2. Cardinality(InPlaces(Counted) \cup {c}) = Cardinality(InPlaces(Counted)) + 1
    BY <2>1, PlacesAreFinite, FS_AddElement
  <2>3. QED BY <1>1, <1>2, <2>1, <2>2 DEF Enters, CounterCounts
<1>3. CASE Leaves(c)
  <2>1. /\ c \in InPlaces(Counted)
        /\ InPlaces(Counted)' = InPlaces(Counted) \ {c}
    BY <1>1, <1>3 DEF Leaves, InPlaces, Counted
  <2>2. Cardinality(InPlaces(Counted) \ {c}) = Cardinality(InPlaces(Counted)) - 1
    BY <2>1, PlacesAreFinite, FS_RemoveElement
  <2>3. Cardinality(InPlaces(Counted)) # 0
    BY <2>1, PlacesAreFinite
  <2>4. inFlight' = inFlight - 1
    BY <1>1, <1>3, <2>3 DEF Leaves
  <2>5. QED BY <1>1, <2>1, <2>2, <2>4 DEF CounterCounts
<1>4. CASE UNCHANGED inFlight /\ InPlaces(Counted)' = InPlaces(Counted)
  BY <1>1, <1>4 DEF CounterCounts
<1>5. CASE CallBegins(c)
  BY <1>1, <1>4, <1>5 DEF CallBegins, Goes, Ends, InPlaces, Counted
<1>6. CASE CancelMarks(c)
  BY <1>1, <1>4, <1>6 DEF CancelMarks, Goes, InPlaces, Counted
<1>7. CASE ShutdownMarks(c)
  BY <1>1, <1>4, <1>7 DEF ShutdownMarks, Goes, InPlaces, Counted
<1>8. CASE PluginReturns(c)
  BY <1>1, <1>4, <1>8 DEF PluginReturns, Goes, InPlaces, Counted
<1>9. CASE PluginThrows(c)
  BY <1>1, <1>4, <1>9 DEF PluginThrows, Goes, InPlaces, Counted
<1>10. CASE SpuriousWakeup(c)
  BY <1>1, <1>4, <1>10 DEF SpuriousWakeup, Goes, InPlaces, Counted
<1>11. CASE BeginLocks(c)
  BY <1>1, <1>4, <1>11 DEF BeginLocks, Goes, InPlaces, Counted
<1>12. CASE RejectsCancelled(c)
  BY <1>1, <1>4, <1>12 DEF RejectsCancelled, Rejects, Goes, Ends, InPlaces, Counted
<1>13. CASE RejectsFaulted(c)
  BY <1>1, <1>4, <1>13 DEF RejectsFaulted, Rejects, Goes, Ends, InPlaces, Counted
<1>14. CASE Admits(c)
  BY <1>1, <1>4, <1>14 DEF Admits, Goes, InPlaces, Counted
<1>15. CASE Checkpoint(c)
  BY <1>1, <1>4, <1>15 DEF Checkpoint, Goes, Ends, InPlaces, Counted
<1>16. CASE LatchesFault(c)
  BY <1>1, <1>4, <1>16 DEF LatchesFault, Goes, Ends, InPlaces, Counted
<1>17. CASE CancelRequests(c)
  BY <1>1, <1>4, <1>17 DEF CancelRequests, Goes, InPlaces, Counted
<1>18. CASE ShutdownCancels(c)
  BY <1>1, <1>4, <1>18 DEF ShutdownCancels, Goes, InPlaces, Counted
<1>19. CASE ShutdownRequests(c)
  BY <1>1, <1>4, <1>19 DEF ShutdownRequests, Goes, InPlaces, Counted
<1>20. CASE ShutdownLocks(c)
  BY <1>1, <1>4, <1>20 DEF ShutdownLocks, Goes, InPlaces, Counted
<1>21. CASE PluginResets(c)
  BY <1>1, <1>4, <1>21 DEF PluginResets, Goes, InPlaces, Counted
<1>22. QED
  BY <1>2, <1>3, <1>5, <1>6, <1>7, <1>8, <1>9, <1>10, <1>11, <1>12, <1>13,
     <1>14, <1>15, <1>16, <1>17, <1>18, <1>19, <1>20, <1>21 DEF Proceeds

(* Types; the bound of the counter comes from what it counts.              *)
LEMMA TypeStep ==
  ASSUME IInv, CounterCounts',
         NEW c \in Callers,
         \/ CallBegins(c) \/ CancelMarks(c) \/ ShutdownMarks(c)
         \/ PluginReturns(c) \/ PluginThrows(c) \/ SpuriousWakeup(c)
         \/ Proceeds(c)
  PROVE  TypeOK'
<1>1. inFlight' \in 0..Cardinality(Callers)
  <2>1. InPlaces(Counted)' \subseteq Callers
    BY DEF InPlaces
  <2>2. /\ IsFiniteSet(InPlaces(Counted)')
        /\ Cardinality(InPlaces(Counted)') <= Cardinality(Callers)
    BY <2>1, SessionAssumption, FS_Subset
  <2>3. Cardinality(InPlaces(Counted)') \in Nat /\ Cardinality(Callers) \in Nat
    BY <2>2, SessionAssumption, FS_CardinalityType
  <2>4. QED BY <2>2, <2>3 DEF CounterCounts
<1>2. /\ mutex' \in Callers \cup {NoCaller}
      /\ cancelled' \in BOOLEAN
      /\ closed' \in BOOLEAN
      /\ faulted' \in BOOLEAN
      /\ pc' \in [Callers -> Counted \cup {"idle", "entering", "admitting", "admitted",
                      "cancelling", "closing", "requesting", "locking",
                      "waiting", "woken", "resetting"}]
      /\ result' \in [Callers -> {"none", "ok", "cancelled", "error"}]
      /\ late' \in [Callers -> BOOLEAN]
      /\ requested' \in BOOLEAN
      /\ resets' \in Nat
      /\ serialized' \in BOOLEAN
  <2> USE SessionAssumption DEF IInv, TypeOK, Counted
  <2>1. CASE CallBegins(c)
    BY <2>1 DEF CallBegins, Goes, Ends
  <2>2. CASE CancelMarks(c)
    BY <2>2 DEF CancelMarks, Goes
  <2>3. CASE ShutdownMarks(c)
    BY <2>3 DEF ShutdownMarks, Goes
  <2>4. CASE PluginReturns(c)
    BY <2>4 DEF PluginReturns, Goes
  <2>5. CASE PluginThrows(c)
    BY <2>5 DEF PluginThrows, Goes
  <2>6. CASE SpuriousWakeup(c)
    BY <2>6 DEF SpuriousWakeup, Goes
  <2>7. CASE BeginLocks(c)
    BY <2>7 DEF BeginLocks, Goes
  <2>8. CASE RejectsCancelled(c)
    BY <2>8 DEF RejectsCancelled, Rejects, Goes, Ends
  <2>9. CASE RejectsFaulted(c)
    BY <2>9 DEF RejectsFaulted, Rejects, Goes, Ends
  <2>10. CASE Admits(c)
    BY <2>10 DEF Admits, Goes
  <2>11. CASE Enters(c)
    BY <2>11 DEF Enters, Goes
  <2>12. CASE Checkpoint(c)
    BY <2>12 DEF Checkpoint, Goes, Ends
  <2>13. CASE LatchesFault(c)
    BY <2>13 DEF LatchesFault, Goes, Ends
  <2>14. CASE Leaves(c)
    BY <2>14 DEF Leaves
  <2>15. CASE CancelRequests(c)
    BY <2>15 DEF CancelRequests, Goes
  <2>16. CASE ShutdownCancels(c)
    BY <2>16 DEF ShutdownCancels, Goes
  <2>17. CASE ShutdownRequests(c)
    BY <2>17 DEF ShutdownRequests, Goes
  <2>18. CASE ShutdownLocks(c)
    BY <2>18 DEF ShutdownLocks, Goes
  <2>19. CASE PluginResets(c)
    BY <2>19 DEF PluginResets, Goes
  <2>20. QED
    BY <2>1, <2>2, <2>3, <2>4, <2>5, <2>6, <2>7, <2>8, <2>9, <2>10, <2>11,
       <2>12, <2>13, <2>14, <2>15, <2>16, <2>17, <2>18, <2>19 DEF Proceeds
<1>3. QED BY <1>1, <1>2 DEF TypeOK

-----------------------------------------------------------------------------
LEMMA InitInvariant == Init => IInv
<1> SUFFICES ASSUME Init PROVE IInv
  OBVIOUS
<1>1. InPlaces(Counted) = {}
  BY DEF Init, InPlaces, Counted
<1>2. CounterCounts
  BY <1>1, PlacesAreFinite DEF Init, CounterCounts
<1>3. inFlight \in 0..Cardinality(Callers)
  BY <1>2, PlacesAreFinite DEF CounterCounts
<1>4. TypeOK
  BY <1>3, SessionAssumption DEF Init, TypeOK
<1>5. Control
  BY SessionAssumption
  DEF Init, Control, MutexHasOneOwner, OneThreadCloses, ClosingIsCancelled, LateIsKnown,
      LateStaysOut, ResetFollowsTheLastCall, BarrierWillOpen, Holding, Closing,
      Counted, InPlaces
<1>6. QED BY <1>2, <1>4, <1>5 DEF IInv, Control

LEMMA NextInvariant == IInv /\ [Next]_vars => IInv'
<1> SUFFICES ASSUME IInv, [Next]_vars PROVE IInv'
  OBVIOUS
<1>1. CASE Next
  <2>1. PICK c \in Callers :
          \/ CallBegins(c) \/ CancelMarks(c) \/ ShutdownMarks(c)
          \/ PluginReturns(c) \/ PluginThrows(c) \/ SpuriousWakeup(c)
          \/ Proceeds(c)
    BY <1>1 DEF Next
  <2>2. Control'
    BY <2>1, ControlStep
  <2>3. CounterCounts'
    BY <2>1, CounterStep
  <2>4. TypeOK'
    BY <2>1, <2>3, TypeStep
  <2>5. QED BY <2>2, <2>3, <2>4 DEF IInv, Control
<1>2. CASE UNCHANGED vars
  BY <1>2
  DEF vars, IInv, TypeOK, MutexHasOneOwner, CounterCounts, OneThreadCloses,
      ClosingIsCancelled, LateIsKnown, LateStaysOut, ResetFollowsTheLastCall,
      BarrierWillOpen, InPlaces, Holding
<1>3. QED BY <1>1, <1>2

(* The session's inductive invariant holds in every reachable state.       *)
THEOREM SessionInvariant == Spec => []IInv
BY InitInvariant, NextInvariant, PTL DEF Spec

(* The session stays type correct, and in_flight never exceeds the number  *)
(* of threads.                                                             *)
THEOREM SessionTypes == Spec => []TypeOK
<1>1. IInv => TypeOK
  BY DEF IInv
<1>2. QED BY <1>1, SessionInvariant, PTL

(* No call overlaps or follows the reset of shutdown(), whatever threads   *)
(* cancel, throw, queue for the mutex or shut down meanwhile.              *)
THEOREM ResetIsLast == Spec => []ResetFollowsTheLastCall
<1>1. IInv => ResetFollowsTheLastCall
  BY DEF IInv
<1>2. QED BY <1>1, SessionInvariant, PTL

(* A serialized provider is entered by one thread at a time.               *)
THEOREM OwnerIsAlone == Spec => []SerializedProviderIsAlone
<1>1. IInv => SerializedProviderIsAlone
  BY DEF IInv, MutexHasOneOwner, Holding, SerializedProviderIsAlone, InPlaces
<1>2. QED BY <1>1, SessionInvariant, PTL

(* A call that begins after a cancel, a shutdown or an exception was       *)
(* recorded stays out of the plugin and reports no success.                *)
THEOREM ClosedSessionStaysClosed == Spec => []ClosedStaysClosed
<1>1. IInv => ClosedStaysClosed
  BY DEF IInv, LateStaysOut, ClosedStaysClosed
<1>2. QED BY <1>1, SessionInvariant, PTL

(* A parked shutdown() is always owed a notification.                      *)
THEOREM BarrierIsNotForgotten == Spec => []BarrierWillOpen
<1>1. IInv => BarrierWillOpen
  BY DEF IInv
<1>2. QED BY <1>1, SessionInvariant, PTL
=============================================================================
