---------------------- MODULE RegistrationPluginSession ----------------------
(***************************************************************************)
(* The processing boundary of a registration plugin session                *)
(* (lidarslam_registration_loader, registration_plugin_loader.hpp and      *)
(* .cpp): threads that call setInputTarget() or align(), cancel() and      *)
(* shutdown() on one session at will.  The two processing calls have the   *)
(* same control and are one kind of call here.                             *)
(*                                                                         *)
(* The flags are atomics that cancel(), shutdown() and a throwing call set *)
(* without the mutex, so a call reads them in one step and is counted in   *)
(* the next.                                                               *)
(***************************************************************************)
EXTENDS Naturals, FiniteSets

CONSTANTS
  Callers,          \* threads that hold the session
  NoCaller,         \* nobody holds the mutex
  Cooperative       \* CancellationModel::kCooperativeCancel

ASSUME SessionAssumption ==
  /\ IsFiniteSet(Callers)
  /\ NoCaller \notin Callers
  /\ Cooperative \in BOOLEAN

VARIABLES
  mutex,            \* ProcessingState::mutex
  inFlight,         \* in_flight
  cancelled,
  closed,           \* shutdown
  faulted,
  pc,               \* where each thread is
  result,           \* how the latest processing call of each thread ended
  late,             \* history: the session was closed when that call began
  requested,        \* the plugin was asked to cancel
  resets,           \* history: times the plugin was reset
  serialized        \* the provider is ThreadModel::kSerializedOwner, else kReentrant

vars == <<mutex, inFlight, cancelled, closed, faulted, pc, result, late, requested, resets,
          serialized>>

\* Places of a call that in_flight counts.
Counted == {"inside", "returned", "threw", "leaving"}

InPlaces(places) == {c \in Callers : pc[c] \in places}

TypeOK ==
  /\ mutex \in Callers \cup {NoCaller}
  /\ inFlight \in 0..Cardinality(Callers)
  /\ cancelled \in BOOLEAN
  /\ closed \in BOOLEAN
  /\ faulted \in BOOLEAN
  /\ pc \in [Callers -> Counted \cup {"idle", "entering", "admitting", "admitted",
                          "cancelling", "closing", "requesting", "locking",
                          "waiting", "woken", "resetting"}]
  /\ result \in [Callers -> {"none", "ok", "cancelled", "error"}]
  /\ late \in [Callers -> BOOLEAN]
  /\ requested \in BOOLEAN
  /\ resets \in Nat
  /\ serialized \in BOOLEAN

Init ==
  /\ mutex = NoCaller
  /\ inFlight = 0
  /\ cancelled = FALSE
  /\ closed = FALSE
  /\ faulted = FALSE
  /\ pc = [c \in Callers |-> "idle"]
  /\ result = [c \in Callers |-> "none"]
  /\ late = [c \in Callers |-> FALSE]
  /\ requested = FALSE
  /\ resets = 0
  /\ serialized \in BOOLEAN

Goes(c, place) == pc' = [pc EXCEPT ![c] = place]

Ends(c, outcome) == result' = [result EXCEPT ![c] = outcome]

-----------------------------------------------------------------------------
(* setInputTarget() and align(): begin(), the plugin, the checkpoint,      *)
(* end().                                                                  *)

CallBegins(c) ==
  /\ pc[c] = "idle"
  /\ Goes(c, "entering")
  /\ Ends(c, "none")
  /\ late' = [late EXCEPT ![c] = cancelled \/ closed \/ faulted]
  /\ UNCHANGED <<mutex, inFlight, cancelled, closed, faulted, requested, resets, serialized>>

BeginLocks(c) ==
  /\ pc[c] = "entering"
  /\ mutex = NoCaller
  /\ mutex' = c
  /\ Goes(c, "admitting")
  /\ UNCHANGED <<inFlight, cancelled, closed, faulted, result, late, requested, resets, serialized>>

Rejects(c, outcome) ==
  /\ pc[c] = "admitting"
  /\ mutex' = NoCaller
  /\ Goes(c, "idle")
  /\ Ends(c, outcome)
  /\ UNCHANGED <<inFlight, cancelled, closed, faulted, late, requested, resets, serialized>>

RejectsCancelled(c) ==
  /\ cancelled \/ closed
  /\ Rejects(c, "cancelled")

RejectsFaulted(c) ==
  /\ ~cancelled /\ ~closed
  /\ faulted
  /\ Rejects(c, "error")

Admits(c) ==
  /\ pc[c] = "admitting"
  /\ ~cancelled /\ ~closed
  /\ ~faulted
  /\ Goes(c, "admitted")
  /\ UNCHANGED <<mutex, inFlight, cancelled, closed, faulted, result, late, requested, resets, serialized>>

\* Mutation: every provider is called without the mutex.
EntersUnlocked(c) ==
  /\ pc[c] = "admitted"
  /\ inFlight' = inFlight + 1
  /\ mutex' = NoCaller
  /\ Goes(c, "inside")
  /\ UNCHANGED <<cancelled, closed, faulted, result, late, requested, resets, serialized>>

\* ++in_flight, and a reentrant provider is called without the mutex.
Enters(c) ==
  /\ pc[c] = "admitted"
  /\ inFlight' = inFlight + 1
  /\ mutex' = IF serialized THEN mutex ELSE NoCaller
  /\ Goes(c, "inside")
  /\ UNCHANGED <<cancelled, closed, faulted, result, late, requested, resets, serialized>>

PluginReturns(c) ==
  /\ pc[c] = "inside"
  /\ Goes(c, "returned")
  /\ UNCHANGED <<mutex, inFlight, cancelled, closed, faulted, result, late, requested, resets, serialized>>

PluginThrows(c) ==
  /\ pc[c] = "inside"
  /\ Goes(c, "threw")
  /\ UNCHANGED <<mutex, inFlight, cancelled, closed, faulted, result, late, requested, resets, serialized>>

\* The post-call checkpoint replaces the plugin's result.
Checkpoint(c) ==
  /\ pc[c] = "returned"
  /\ Ends(c, IF cancelled \/ closed THEN "cancelled" ELSE "ok")
  /\ Goes(c, "leaving")
  /\ UNCHANGED <<mutex, inFlight, cancelled, closed, faulted, late, requested, resets, serialized>>

LatchesFault(c) ==
  /\ pc[c] = "threw"
  /\ faulted' = TRUE
  /\ Ends(c, "error")
  /\ Goes(c, "leaving")
  /\ UNCHANGED <<mutex, inFlight, cancelled, closed, late, requested, resets, serialized>>

\* Mutation: the last call does not notify the barrier.
LeavesSilently(c) ==
  /\ pc[c] = "leaving"
  /\ mutex = IF serialized THEN c ELSE NoCaller
  /\ mutex' = NoCaller
  /\ inFlight' = IF inFlight > 0 THEN inFlight - 1 ELSE 0
  /\ Goes(c, "idle")
  /\ UNCHANGED <<cancelled, closed, faulted, result, late, requested, resets, serialized>>

\* end(), and the lock that its caller gives up on returning.
Leaves(c) ==
  /\ pc[c] = "leaving"
  /\ mutex = IF serialized THEN c ELSE NoCaller
  /\ mutex' = NoCaller
  /\ inFlight' = IF inFlight > 0 THEN inFlight - 1 ELSE 0
  /\ pc' = [d \in Callers |->
              IF d = c THEN "idle"
              ELSE IF inFlight' = 0 /\ pc[d] = "waiting" THEN "woken" ELSE pc[d]]
  /\ UNCHANGED <<cancelled, closed, faulted, result, late, requested, resets, serialized>>

-----------------------------------------------------------------------------
(* cancel() and shutdown().                                                *)

CancelMarks(c) ==
  /\ pc[c] = "idle"
  /\ cancelled' = TRUE
  /\ Goes(c, IF Cooperative THEN "cancelling" ELSE "idle")
  /\ UNCHANGED <<mutex, inFlight, closed, faulted, result, late, requested, resets, serialized>>

CancelRequests(c) ==
  /\ pc[c] = "cancelling"
  /\ requested' = TRUE
  /\ Goes(c, "idle")
  /\ UNCHANGED <<mutex, inFlight, cancelled, closed, faulted, result, late, resets, serialized>>

\* shutdown.exchange(true): only the first call goes on.
ShutdownMarks(c) ==
  /\ pc[c] = "idle"
  /\ closed' = TRUE
  /\ Goes(c, IF closed THEN "idle" ELSE "closing")
  /\ UNCHANGED <<mutex, inFlight, cancelled, faulted, result, late, requested, resets, serialized>>

\* Mutation: a cooperative provider is not asked.
ShutdownCancelsSilently(c) ==
  /\ pc[c] = "closing"
  /\ cancelled' = TRUE
  /\ Goes(c, "locking")
  /\ UNCHANGED <<mutex, inFlight, closed, faulted, result, late, requested, resets, serialized>>

ShutdownCancels(c) ==
  /\ pc[c] = "closing"
  /\ cancelled' = TRUE
  /\ Goes(c, IF Cooperative THEN "requesting" ELSE "locking")
  /\ UNCHANGED <<mutex, inFlight, closed, faulted, result, late, requested, resets, serialized>>

ShutdownRequests(c) ==
  /\ pc[c] = "requesting"
  /\ requested' = TRUE
  /\ Goes(c, "locking")
  /\ UNCHANGED <<mutex, inFlight, cancelled, closed, faulted, result, late, resets, serialized>>

\* Mutation: the lock alone is taken for quiescence.
ShutdownLocksOnly(c) ==
  /\ pc[c] \in {"locking", "woken"}
  /\ mutex = NoCaller
  /\ mutex' = c
  /\ Goes(c, "resetting")
  /\ UNCHANGED <<inFlight, cancelled, closed, faulted, result, late, requested, resets, serialized>>

\* The barrier: lock, test, then reset under the lock or park.
ShutdownLocks(c) ==
  /\ pc[c] \in {"locking", "woken"}
  /\ mutex = NoCaller
  /\ mutex' = IF inFlight = 0 THEN c ELSE NoCaller
  /\ Goes(c, IF inFlight = 0 THEN "resetting" ELSE "waiting")
  /\ UNCHANGED <<inFlight, cancelled, closed, faulted, result, late, requested, resets, serialized>>

PluginResets(c) ==
  /\ pc[c] = "resetting"
  /\ resets' = resets + 1
  /\ mutex' = NoCaller
  /\ Goes(c, "idle")
  /\ UNCHANGED <<inFlight, cancelled, closed, faulted, result, late, requested, serialized>>

SpuriousWakeup(c) ==
  /\ pc[c] = "waiting"
  /\ Goes(c, "woken")
  /\ UNCHANGED <<mutex, inFlight, cancelled, closed, faulted, result, late, requested, resets, serialized>>

-----------------------------------------------------------------------------
\* What a thread does inside the session once it has called it.
Proceeds(c) ==
  \/ BeginLocks(c)
  \/ RejectsCancelled(c)
  \/ RejectsFaulted(c)
  \/ Admits(c)
  \/ Enters(c)
  \/ Checkpoint(c)
  \/ LatchesFault(c)
  \/ Leaves(c)
  \/ CancelRequests(c)
  \/ ShutdownCancels(c)
  \/ ShutdownRequests(c)
  \/ ShutdownLocks(c)
  \/ PluginResets(c)

Next ==
  \E c \in Callers :
    \/ CallBegins(c)
    \/ CancelMarks(c)
    \/ ShutdownMarks(c)
    \/ PluginReturns(c)
    \/ PluginThrows(c)
    \/ SpuriousWakeup(c)
    \/ Proceeds(c)

Spec == Init /\ [][Next]_vars

\* A call of a non-interruptible provider returns; a cooperative provider
\* need not return before it is asked to.
PluginAnswers(c) ==
  /\ Cooperative => requested
  /\ PluginReturns(c) \/ PluginThrows(c)

\* Threads are scheduled.
Fairness ==
  \A c \in Callers : WF_vars(Proceeds(c)) /\ WF_vars(PluginAnswers(c))

FairSpec == Spec /\ Fairness

-----------------------------------------------------------------------------
(* The plugin is reset once, and neither during nor before a call into it: *)
(* from the moment shutdown() holds the mutex to reset, no call is inside  *)
(* or on its way out, and none comes in later (the stress tool's           *)
(* "provider callback overlapped or followed shutdown reset").             *)
ResetFollowsTheLastCall ==
  /\ (resets > 0 \/ InPlaces({"resetting"}) # {}) =>
       InPlaces(Counted \cup {"admitted"}) = {}
  /\ resets <= 1
  /\ resets = 1 => InPlaces({"resetting"}) = {}

(* A serialized provider is entered by one thread at a time, also by those *)
(* that queue for the mutex while others cancel, throw or shut down.       *)
SerializedProviderIsAlone ==
  serialized => \A c, d \in InPlaces(Counted) : c = d

(* A call that begins after a cancel, a shutdown or an exception was       *)
(* recorded never reaches the plugin and never reports success.            *)
ClosedStaysClosed ==
  \A c \in Callers : late[c] => pc[c] \notin Counted /\ result[c] # "ok"

(* A parked shutdown() is owed a notification by a call in flight, and has *)
(* asked a cooperative provider to cut that call short.                    *)
BarrierWillOpen ==
  InPlaces({"waiting"}) # {} => inFlight > 0 /\ (Cooperative => requested)

(* The inductive invariant behind the theorems of                          *)
(* RegistrationPluginSessionProofs: who holds the mutex, what the counter  *)
(* counts, and how far the one thread that closes the session has come.    *)
Holding == {"admitting", "admitted", "resetting"} \cup (IF serialized THEN Counted ELSE {})

Closing == {"closing", "requesting", "locking", "waiting", "woken", "resetting"}

MutexHasOneOwner == \A c \in Callers : pc[c] \in Holding <=> mutex = c

CounterCounts == inFlight = Cardinality(InPlaces(Counted))

OneThreadCloses ==
  /\ \A c, d \in InPlaces(Closing) : c = d
  /\ InPlaces(Closing) # {} => closed /\ resets = 0

ClosingIsCancelled ==
  /\ resets > 0 => closed
  /\ InPlaces(Closing \ {"closing"}) # {} => cancelled
  /\ InPlaces(Closing \ {"closing", "requesting"}) # {} => (Cooperative => requested)

LateIsKnown == \A c \in Callers : late[c] => cancelled \/ closed \/ faulted

LateStaysOut ==
  \A c \in Callers :
    /\ late[c] => pc[c] \notin Counted \cup {"admitted"}
    /\ late[c] => result[c] # "ok"

IInv ==
  /\ TypeOK
  /\ MutexHasOneOwner
  /\ CounterCounts
  /\ OneThreadCloses
  /\ ClosingIsCancelled
  /\ LateIsKnown
  /\ LateStaysOut
  /\ ResetFollowsTheLastCall
  /\ BarrierWillOpen

(* The shutdown() that was first returns, with the plugin reset, once the  *)
(* threads stop making new processing calls that contend for the mutex:    *)
(* its barrier opens although a cooperative provider need not return       *)
(* before it is asked to.                                                  *)
Contending == InPlaces({"entering", "admitting"}) # {}

ShutdownReturns ==
  <>[]~Contending =>
    \A c \in Callers : pc[c] = "closing" ~> (pc[c] = "idle" /\ resets = 1)
=============================================================================
