--------------------- MODULE RegistrationActivationProofs ---------------------
(***************************************************************************)
(* Theorems about the activation transactions, for any finite set of them, *)
(* any sessions and any contracts.                                         *)
(***************************************************************************)
EXTENDS RegistrationActivation, FiniteSetTheorems, TLAPS

(* A set grows by one exactly when it is given a new element.              *)
LEMMA GrowsByOne ==
  ASSUME NEW A, IsFiniteSet(A), NEW t, t \notin A,
         NEW condition \in BOOLEAN,
         NEW B, B = A \cup (IF condition THEN {t} ELSE {})
  PROVE  Cardinality(A) \in Nat /\ Cardinality(B) = Cardinality(A) + One(condition)
<1>1. Cardinality(A) \in Nat
  BY FS_CardinalityType
<1>2. CASE condition
  <2>1. Cardinality(A \cup {t}) = Cardinality(A) + 1
    BY FS_AddElement
  <2>2. QED BY <1>1, <1>2, <2>1 DEF One
<1>3. CASE ~condition
  <2>1. B = A
    BY <1>3
  <2>2. QED BY <1>1, <1>3, <2>1 DEF One
<1>4. QED BY <1>2, <1>3

LEMMA MovesAreFinite ==
  ASSUME NEW s
  PROVE  /\ IsFiniteSet(From(s)) /\ IsFiniteSet(To(s))
         /\ IsFiniteSet(From(s)') /\ IsFiniteSet(To(s)')
<1>1. From(s) \subseteq Transactions /\ To(s) \subseteq Transactions
  BY DEF From, To, Standing
<1>2. From(s)' \subseteq Transactions /\ To(s)' \subseteq Transactions
  BY DEF From, To, Standing
<1>3. QED BY <1>1, <1>2, ActivationAssumption, FS_Subset

-----------------------------------------------------------------------------
(* The parts of the invariant that speak of single transactions.           *)
Coherence ==
  /\ PairsAreWhole
  /\ SnapshotsAreCoherent
  /\ SlotsAreCoherent
  /\ AcceptedIsKnown
  /\ OnlyAcceptedIsActive

\* A destructor releases six pointers and no more.
LEMMA ReleasesAreCounted ==
  ASSUME released \in [Transactions -> 0..6], NEW t \in Transactions, Destructs(t)
  PROVE  released' \in [Transactions -> 0..6]
<1>1. released[t] + 1 \in 0..6
  BY DEF Destructs
<1>2. QED BY <1>1 DEF Destructs

LEMMA CoherenceStep ==
  ASSUME IInv,
         NEW t \in Transactions,
         \/ Opens(t) \/ (\E s \in Sessions : Prepares(t, s)) \/ Validates(t)
         \/ Commits(t) \/ RollsBack(t) \/ Destructs(t)
  PROVE  TypeOK' /\ Coherence'
<1> USE ActivationAssumption
    DEF IInv, TypeOK, Coherence, PairsAreWhole, SnapshotsAreCoherent, SlotsAreCoherent,
        AcceptedIsKnown, OnlyAcceptedIsActive, At, Same, Snapshots, Holders, Stages,
        Live, Moves, Filled
<1>1. CASE Opens(t)
  BY <1>1 DEF Opens
<1>2. ASSUME NEW s \in Sessions, Prepares(t, s) PROVE TypeOK' /\ Coherence'
  BY <1>2 DEF Prepares
<1>3. CASE Validates(t)
  BY <1>3 DEF Validates
<1>4. CASE Commits(t)
  <2>1. /\ stage[t] = "validated"
        /\ Same(slots, previous[t])
        /\ stage' = [stage EXCEPT ![t] = "committed"]
        /\ installed' = [installed EXCEPT ![t] = candidate[t]]
        /\ slots' = Filled(candidate[t], candidate[t])
        /\ candidate' = [candidate EXCEPT ![t].session = slots.session,
                                         ![t].plugin = slots.plugin]
        /\ UNCHANGED <<previous, released, origin, accepted>>
    BY <1>4 DEF Commits
  <2>2. candidate[t] \in Snapshots
    OBVIOUS
  <2>3. [candidate[t] EXCEPT !.session = slots.session, !.plugin = slots.plugin] \in Snapshots
    BY <2>2
  <2>4. candidate' \in [Transactions -> Snapshots]
    BY <2>1, <2>3
  <2>5. installed' \in [Transactions -> Snapshots]
    BY <2>1, <2>2
  <2>6. slots' \in Snapshots
    BY <2>1, <2>2
  <2>7. stage' \in [Transactions -> Stages]
    BY <2>1
  <2>8. TypeOK'
    BY <2>1, <2>4, <2>5, <2>6, <2>7
  <2>9. PairsAreWhole'
    BY <2>1
  <2>10. SnapshotsAreCoherent'
    BY <2>1
  <2>11. SlotsAreCoherent' /\ AcceptedIsKnown' /\ OnlyAcceptedIsActive'
    BY <2>1
  <2>12. QED BY <2>8, <2>9, <2>10, <2>11
<1>5. CASE RollsBack(t)
  <2>1. /\ stage[t] = "committed"
        /\ Same(slots, installed[t])
        /\ stage' = [stage EXCEPT ![t] = "rolledBack"]
        /\ slots' = Filled(candidate[t], previous[t])
        /\ candidate' = [candidate EXCEPT ![t].session = slots.session,
                                         ![t].plugin = slots.plugin]
        /\ installed' = [installed EXCEPT ![t].session = NoSession, ![t].plugin = NoSession]
        /\ UNCHANGED <<previous, released, origin, accepted>>
    BY <1>5 DEF RollsBack
  <2>2. candidate[t] \in Snapshots /\ installed[t] \in Snapshots
    OBVIOUS
  <2>3. /\ [candidate[t] EXCEPT !.session = slots.session, !.plugin = slots.plugin] \in Snapshots
        /\ [installed[t] EXCEPT !.session = NoSession, !.plugin = NoSession] \in Snapshots
    BY <2>2
  <2>4. candidate' \in [Transactions -> Snapshots]
    BY <2>1, <2>3
  <2>5. installed' \in [Transactions -> Snapshots]
    BY <2>1, <2>3
  <2>6. candidate' \in [Transactions -> Snapshots] /\ installed' \in [Transactions -> Snapshots]
    BY <2>4, <2>5
  <2>7. TypeOK'
    BY <2>1, <2>6
  <2>8. PairsAreWhole'
    BY <2>1
  <2>9. SnapshotsAreCoherent'
    BY <2>1
  <2>10. SlotsAreCoherent' /\ AcceptedIsKnown' /\ OnlyAcceptedIsActive'
    BY <2>1
  <2>11. QED BY <2>7, <2>8, <2>9, <2>10
<1>6. CASE Destructs(t)
  <2>1. /\ released' = [released EXCEPT ![t] = @ + 1] /\ released[t] < 6
        /\ UNCHANGED <<slots, stage, previous, candidate, installed, origin, accepted>>
    BY <1>6 DEF Destructs
  <2>2. released' \in [Transactions -> 0..6]
    BY <1>6, ReleasesAreCounted
  <2>3. TypeOK'
    BY <2>1, <2>2
  <2>4. Coherence'
    BY <2>1
  <2>5. QED BY <2>3, <2>4
<1>7. QED BY <1>1, <1>2, <1>3, <1>4, <1>5, <1>6

-----------------------------------------------------------------------------
(* A commit takes the slots from one session to another and adds that move;*)
(* a rollback goes the same way back and removes it.                       *)
LEMMA BalanceStep ==
  ASSUME IInv,
         NEW t \in Transactions,
         \/ Opens(t) \/ (\E s \in Sessions : Prepares(t, s)) \/ Validates(t)
         \/ Commits(t) \/ RollsBack(t) \/ Destructs(t)
  PROVE  MovesBalance'
<1> SUFFICES ASSUME NEW s \in Holders
             PROVE  Cardinality(From(s)') + One(slots'.session = s)
                      = Cardinality(To(s)') + One(origin' = s)
  BY DEF MovesBalance, One
<1>1. /\ Cardinality(From(s)) \in Nat /\ Cardinality(To(s)) \in Nat
      /\ Cardinality(From(s)') \in Nat /\ Cardinality(To(s)') \in Nat
  BY MovesAreFinite, FS_CardinalityType
<1>2. Cardinality(From(s)) + One(slots.session = s) = Cardinality(To(s)) + One(origin = s)
  BY DEF IInv, MovesBalance
<1>3. CASE Commits(t)
  <2>1. /\ stage[t] = "validated" /\ stage' = [stage EXCEPT ![t] = "committed"]
        /\ slots.session = previous[t].session /\ previous' = previous
        /\ installed' = [installed EXCEPT ![t] = candidate[t]]
        /\ origin' = origin
        /\ slots'.session = candidate[t].session
    BY <1>3 DEF Commits, Moves, Same, Filled, IInv, TypeOK, Snapshots
  <2>2. From(s)' = From(s) \cup (IF slots.session = s THEN {t} ELSE {}) /\ t \notin From(s)
    BY <2>1 DEF From, Standing, IInv, TypeOK
  <2>3. To(s)' = To(s) \cup (IF slots'.session = s THEN {t} ELSE {}) /\ t \notin To(s)
    BY <2>1 DEF To, Standing, IInv, TypeOK
  <2>4. Cardinality(From(s)') = Cardinality(From(s)) + One(slots.session = s)
    BY <2>2, MovesAreFinite, GrowsByOne
  <2>5. Cardinality(To(s)') = Cardinality(To(s)) + One(slots'.session = s)
    BY <2>3, MovesAreFinite, GrowsByOne
  <2>6. QED BY <1>1, <1>2, <2>1, <2>4, <2>5 DEF One
<1>4. CASE RollsBack(t)
  <2>1. /\ stage[t] = "committed" /\ stage' = [stage EXCEPT ![t] = "rolledBack"]
        /\ slots.session = installed[t].session /\ previous' = previous
        /\ \A u \in Transactions \ {t} : installed'[u] = installed[u]
        /\ origin' = origin
        /\ slots'.session = candidate[t].session
        /\ candidate[t].session = previous[t].session
    BY <1>4 DEF RollsBack, Moves, Same, Filled, IInv, TypeOK, Snapshots, SnapshotsAreCoherent
  <2>2. From(s) = From(s)' \cup (IF slots'.session = s THEN {t} ELSE {}) /\ t \notin From(s)'
    BY <2>1 DEF From, Standing, IInv, TypeOK
  <2>3. To(s) = To(s)' \cup (IF slots.session = s THEN {t} ELSE {}) /\ t \notin To(s)'
    BY <2>1 DEF To, Standing, IInv, TypeOK
  <2>4. Cardinality(From(s)) = Cardinality(From(s)') + One(slots'.session = s)
    BY <2>2, MovesAreFinite, GrowsByOne
  <2>5. Cardinality(To(s)) = Cardinality(To(s)') + One(slots.session = s)
    BY <2>3, MovesAreFinite, GrowsByOne
  <2>6. QED BY <1>1, <1>2, <2>1, <2>4, <2>5 DEF One
<1>5. CASE Opens(t) \/ (\E c \in Sessions : Prepares(t, c)) \/ Validates(t) \/ Destructs(t)
  <2>1. /\ UNCHANGED <<slots, installed, origin>>
        /\ \A u \in Transactions : (stage'[u] = "committed") <=> (stage[u] = "committed")
        /\ \A u \in Transactions : stage[u] = "committed" => previous'[u] = previous[u]
    BY <1>5 DEF Opens, Prepares, Validates, Destructs, Moves, IInv, TypeOK
  <2>2. From(s)' = From(s) /\ To(s)' = To(s)
    BY <2>1 DEF From, To, Standing
  <2>3. QED BY <1>2, <2>1, <2>2
<1>6. QED BY <1>3, <1>4, <1>5

-----------------------------------------------------------------------------
(* The first state: no transaction stands, and the slots are the host's.   *)
LEMMA InitIsInvariant == Init => IInv
<1> SUFFICES ASSUME Init PROVE IInv
  OBVIOUS
<1>1. TypeOK
  BY ActivationAssumption DEF Init, TypeOK, Stages, Snapshots, At, Holders
<1>2. Coherence
  BY DEF Init, Coherence, PairsAreWhole, SnapshotsAreCoherent, SlotsAreCoherent,
         AcceptedIsKnown, OnlyAcceptedIsActive, At, Same
<1>3. \A s \in Holders : From(s) = {} /\ To(s) = {}
  BY DEF Init, From, To, Standing
<1>4. MovesBalance
  BY <1>3, FS_EmptySet DEF MovesBalance, One, Init, At
<1>5. QED BY <1>1, <1>2, <1>4 DEF IInv, Coherence

(* IInv holds in every reachable state.                                    *)
THEOREM ActivationInvariant == Spec => []IInv
<1>1. Init => IInv
  BY InitIsInvariant
<1>2. IInv /\ [Next]_vars => IInv'
  <2> SUFFICES ASSUME IInv, [Next]_vars PROVE IInv'
    OBVIOUS
  <2>1. CASE Next
    BY <2>1, CoherenceStep, BalanceStep DEF Next, IInv, Coherence
  <2>2. CASE UNCHANGED vars
    BY <2>2 DEF vars, IInv, TypeOK, PairsAreWhole, SnapshotsAreCoherent, SlotsAreCoherent,
                AcceptedIsKnown, OnlyAcceptedIsActive, MovesBalance, From, To, Standing
  <2>3. QED BY <2>1, <2>2
<1>3. QED BY <1>1, <1>2, PTL DEF Spec

(* The transactions stay type correct.                                     *)
THEOREM ActivationTypes == Spec => []TypeOK
<1>1. IInv => TypeOK
  BY DEF IInv
<1>2. QED BY <1>1, ActivationInvariant, PTL

(* However many transactions overlap: once none stands committed, the slots*)
(* hold what they held before the first.                                   *)
THEOREM UndoingRestores == Spec => []UndoneMeansRestored
<1>1. IInv => UndoneMeansRestored
  <2> SUFFICES ASSUME IInv, \A t \in Transactions : stage[t] # "committed"
               PROVE  Same(slots, At(origin))
    BY DEF UndoneMeansRestored
  <2>1. From(slots.session) = {} /\ To(slots.session) = {} /\ slots.session \in Holders
    BY DEF From, To, Standing, IInv, TypeOK, Snapshots
  <2>2. slots.session = origin
    BY <2>1, FS_EmptySet DEF IInv, MovesBalance, One
  <2>3. QED BY <2>2 DEF IInv, SlotsAreCoherent
<1>2. QED BY <1>1, ActivationInvariant, PTL

(* Session, plugin and contract in the slots always belong together.       *)
THEOREM SlotsStayCoherent == Spec => []SlotsAreCoherent
<1>1. IInv => SlotsAreCoherent
  BY DEF IInv
<1>2. QED BY <1>1, ActivationInvariant, PTL

(* No session becomes active that no validator accepted.                   *)
THEOREM ActiveWasAccepted == Spec => []OnlyAcceptedIsActive
<1>1. IInv => OnlyAcceptedIsActive
  BY DEF IInv
<1>2. QED BY <1>1, ActivationInvariant, PTL

(* In the order in which the members are released, a held plugin pointer   *)
(* is always accompanied by a held pointer to its session.                 *)
THEOREM LeaseIsKept == Spec => []LeaseOutlivesPlugin
<1>1. IInv => LeaseOutlivesPlugin
  <2> SUFFICES ASSUME IInv, NEW s \in Sessions, RefersTo(s, "plugin")
               PROVE  RefersTo(s, "session")
    BY DEF LeaseOutlivesPlugin
  <2>1. \A t \in Transactions, member \in {"installed", "candidate", "previous"} :
          Keeps(t, member, "plugin") => Keeps(t, member, "session")
    <3> SUFFICES ASSUME NEW t \in Transactions,
                        NEW member \in {"installed", "candidate", "previous"},
                        Keeps(t, member, "plugin")
                 PROVE  Keeps(t, member, "session")
      OBVIOUS
    <3>1. released[t] \in 0..6
      BY DEF IInv, TypeOK
    <3>2. PICK k \in 1..6 : Releases[k] = <<member, "plugin">> /\ released[t] < k
      BY DEF Keeps
    <3>3. k + 1 \in 1..6 /\ Releases[k + 1] = <<member, "session">>
      BY <3>2 DEF Releases
    <3>4. QED BY <3>1, <3>2, <3>3 DEF Keeps
  <2>2. QED BY <2>1 DEF RefersTo, IInv, PairsAreWhole
<1>2. QED BY <1>1, ActivationInvariant, PTL
=============================================================================
