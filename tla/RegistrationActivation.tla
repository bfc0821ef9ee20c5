------------------------ MODULE RegistrationActivation ------------------------
(***************************************************************************)
(* RegistrationActivationTransaction (lidarslam_registration_loader,       *)
(* registration_plugin_loader.hpp): startup paths that install registration*)
(* sessions in the same host-owned slots, each through a transaction of    *)
(* its own, and undo that when a later startup step fails.  To one         *)
(* transaction the others are the "another owner" of its comments.         *)
(*                                                                         *)
(* Startup is single-threaded: a method is one step.  A call that the code *)
(* rejects, or whose validator rejects or throws, changes no state and is  *)
(* no action here.                                                         *)
(***************************************************************************)
EXTENDS Naturals, FiniteSets

CONSTANTS
  Transactions,     \* the transactions the process makes
  Sessions,         \* candidate sessions; also names their plugins
  NoSession,        \* a null pointer
  Contract,         \* capabilities, target policy and metric of a session
  WithContract      \* the three contract slots are supplied

Holders == Sessions \cup {NoSession}

ASSUME ActivationAssumption ==
  /\ IsFiniteSet(Transactions)
  /\ NoSession \notin Sessions
  /\ DOMAIN Contract = Holders
  /\ WithContract \in BOOLEAN

VARIABLES
  slots,            \* what the host uses
  stage,            \* per transaction: prepared_, validated_, committed_, rolled_back_
  previous,         \* previous_
  candidate,        \* candidate_
  installed,        \* committed_state_
  released,         \* members the destructor has let go of
  origin,           \* history: the session the slots held at first
  accepted          \* history: sessions a validator accepted

vars == <<slots, stage, previous, candidate, installed, released, origin, accepted>>

\* The slots as one session leaves them.
At(s) == [session |-> s, plugin |-> s, contract |-> Contract[s]]

Snapshots == [session : Holders, plugin : Holders, contract : {Contract[s] : s \in Holders}]

\* Mutation: the session goes first.
ReleasesSessionFirst ==
  << <<"installed", "session">>, <<"installed", "plugin">>,
     <<"candidate", "session">>, <<"candidate", "plugin">>,
     <<"previous", "plugin">>,  <<"previous", "session">> >>

\* The order in which the destructor lets the pointers of a transaction go.
Releases ==
  << <<"installed", "plugin">>, <<"installed", "session">>,
     <<"candidate", "plugin">>, <<"candidate", "session">>,
     <<"previous", "plugin">>,  <<"previous", "session">> >>

Stages == {"none", "open", "prepared", "validated", "committed", "rolledBack"}

TypeOK ==
  /\ slots \in Snapshots
  /\ stage \in [Transactions -> Stages]
  /\ previous \in [Transactions -> Snapshots]
  /\ candidate \in [Transactions -> Snapshots]
  /\ installed \in [Transactions -> Snapshots]
  /\ released \in [Transactions -> 0..6]
  /\ origin \in Holders
  /\ accepted \subseteq Holders

Init ==
  /\ origin \in Holders
  /\ slots = At(origin)
  /\ stage = [t \in Transactions |-> "none"]
  /\ previous = [t \in Transactions |-> At(NoSession)]
  /\ candidate = [t \in Transactions |-> At(NoSession)]
  /\ installed = [t \in Transactions |-> At(NoSession)]
  /\ released = [t \in Transactions |-> 0]
  /\ accepted = {}

Live(t) == stage[t] # "none" /\ released[t] = 0

Moves(t, to) == stage' = [stage EXCEPT ![t] = to]

Same(a, b) ==
  /\ a.session = b.session
  /\ a.plugin = b.plugin
  /\ WithContract => a.contract = b.contract

\* The three contract slots take a value only where the host supplied them.
Filled(pointers, terms) ==
  [pointers EXCEPT !.contract = IF WithContract THEN terms.contract ELSE slots.contract]

-----------------------------------------------------------------------------
Opens(t) ==
  /\ stage[t] = "none"
  /\ Moves(t, "open")
  /\ previous' = [previous EXCEPT ![t] =
                   IF WithContract THEN slots
                   ELSE [slots EXCEPT !.contract = Contract[NoSession]]]
  /\ UNCHANGED <<slots, candidate, installed, released, origin, accepted>>

Prepares(t, s) ==
  /\ Live(t)
  /\ stage[t] = "open"
  /\ Moves(t, "prepared")
  /\ candidate' = [candidate EXCEPT ![t] = At(s)]
  /\ UNCHANGED <<slots, previous, installed, released, origin, accepted>>

\* The validator accepts; later calls of validate() keep what came after.
Validates(t) ==
  /\ Live(t)
  /\ stage[t] # "open"
  /\ Moves(t, IF stage[t] = "prepared" THEN "validated" ELSE stage[t])
  /\ accepted' = accepted \cup {candidate[t].session}
  /\ UNCHANGED <<slots, previous, candidate, installed, released, origin>>

\* The pointers are swapped, the contract is copied.
Commits(t) ==
  /\ Live(t)
  /\ stage[t] = "validated"
  /\ Same(slots, previous[t])
  /\ Moves(t, "committed")
  /\ installed' = [installed EXCEPT ![t] = candidate[t]]
  /\ slots' = Filled(candidate[t], candidate[t])
  /\ candidate' = [candidate EXCEPT ![t].session = slots.session, ![t].plugin = slots.plugin]
  /\ UNCHANGED <<previous, released, origin, accepted>>

\* Mutation: the contract comes from candidate_, which holds the new one.
RollsBackPointers(t) ==
  /\ Live(t)
  /\ stage[t] = "committed"
  /\ Same(slots, installed[t])
  /\ Moves(t, "rolledBack")
  /\ slots' = Filled(candidate[t], candidate[t])
  /\ candidate' = [candidate EXCEPT ![t].session = slots.session, ![t].plugin = slots.plugin]
  /\ installed' = [installed EXCEPT ![t].session = NoSession, ![t].plugin = NoSession]
  /\ UNCHANGED <<previous, released, origin, accepted>>

\* Mutation: rollback() does not look at the slots.
RollsBackBlindly(t) ==
  /\ Live(t)
  /\ stage[t] = "committed"
  /\ Moves(t, "rolledBack")
  /\ slots' = Filled(candidate[t], previous[t])
  /\ candidate' = [candidate EXCEPT ![t].session = slots.session, ![t].plugin = slots.plugin]
  /\ installed' = [installed EXCEPT ![t].session = NoSession, ![t].plugin = NoSession]
  /\ UNCHANGED <<previous, released, origin, accepted>>

RollsBack(t) ==
  /\ Live(t)
  /\ stage[t] = "committed"
  /\ Same(slots, installed[t])
  /\ Moves(t, "rolledBack")
  /\ slots' = Filled(candidate[t], previous[t])
  /\ candidate' = [candidate EXCEPT ![t].session = slots.session, ![t].plugin = slots.plugin]
  /\ installed' = [installed EXCEPT ![t].session = NoSession, ![t].plugin = NoSession]
  /\ UNCHANGED <<previous, released, origin, accepted>>

\* The destructor, pointer by pointer.
Destructs(t) ==
  /\ stage[t] # "none"
  /\ released[t] < 6
  /\ released' = [released EXCEPT ![t] = @ + 1]
  /\ UNCHANGED <<slots, stage, previous, candidate, installed, origin, accepted>>

Next ==
  \E t \in Transactions :
    \/ Opens(t)
    \/ \E s \in Sessions : Prepares(t, s)
    \/ Validates(t)
    \/ Commits(t)
    \/ RollsBack(t)
    \/ Destructs(t)

Spec == Init /\ [][Next]_vars

-----------------------------------------------------------------------------
(* When no transaction stands committed, the slots hold what they held at  *)
(* first, in whatever order overlapping transactions took their snapshots, *)
(* committed, were refused and rolled back.                                *)
UndoneMeansRestored ==
  (\A t \in Transactions : stage[t] # "committed") => Same(slots, At(origin))

(* The session, the plugin and the contract in the slots belong together,  *)
(* although commit() and rollback() move them separately and from          *)
(* different places.                                                       *)
SlotsAreCoherent == Same(slots, At(slots.session))

(* The host never runs a session that no validator accepted, except the    *)
(* one it started with.                                                    *)
OnlyAcceptedIsActive == slots.session \in accepted \cup {origin}

(* Nothing that the transactions or the slots still hold points to a plugin*)
(* whose session, and with it the class loader, they have let go ("release *)
(* the typed plugin pointer before releasing its session/ClassLoader       *)
(* lease").                                                                *)
Keeps(t, member, pointer) ==
  \E k \in 1..6 : Releases[k] = <<member, pointer>> /\ released[t] < k

RefersTo(s, pointer) ==
  \/ slots[pointer] = s
  \/ \E t \in Transactions :
       \/ Keeps(t, "installed", pointer) /\ installed[t][pointer] = s
       \/ Keeps(t, "candidate", pointer) /\ candidate[t][pointer] = s
       \/ Keeps(t, "previous", pointer) /\ previous[t][pointer] = s

LeaseOutlivesPlugin ==
  \A s \in Sessions : RefersTo(s, "plugin") => RefersTo(s, "session")

(* The inductive invariant behind the theorems of                          *)
(* RegistrationActivationProofs.  Every commit that stands moved the slots *)
(* from one session to another; what the moves leave behind and what they  *)
(* reach balances, and leads from the first session to the present one.    *)
Standing == {t \in Transactions : stage[t] = "committed"}

From(s) == {t \in Standing : previous[t].session = s}

To(s) == {t \in Standing : installed[t].session = s}

One(condition) == IF condition THEN 1 ELSE 0

MovesBalance ==
  \A s \in Holders :
    Cardinality(From(s)) + One(slots.session = s) = Cardinality(To(s)) + One(origin = s)

PairsAreWhole ==
  /\ slots.plugin = slots.session
  /\ \A t \in Transactions :
       /\ previous[t].plugin = previous[t].session
       /\ candidate[t].plugin = candidate[t].session
       /\ installed[t].plugin = installed[t].session

SnapshotsAreCoherent ==
  \A t \in Transactions :
    /\ stage[t] # "none" => Same(previous[t], At(previous[t].session))
    /\ stage[t] \in {"prepared", "validated"} => Same(candidate[t], At(candidate[t].session))
    /\ stage[t] = "committed" =>
         /\ candidate[t].session = previous[t].session
         /\ Same(installed[t], At(installed[t].session))

AcceptedIsKnown ==
  \A t \in Transactions :
    /\ stage[t] = "validated" => candidate[t].session \in accepted
    /\ stage[t] # "none" => previous[t].session \in accepted \cup {origin}

IInv ==
  /\ TypeOK
  /\ PairsAreWhole
  /\ SnapshotsAreCoherent
  /\ SlotsAreCoherent
  /\ AcceptedIsKnown
  /\ OnlyAcceptedIsActive
  /\ MovesBalance
=============================================================================
