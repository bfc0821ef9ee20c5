-------------------------- MODULE SequentialReplay --------------------------
(***************************************************************************)
(* What the backend promises whatever the threads do                       *)
(* (docs/graph-slam-architecture.md: batching is observationally           *)
(* equivalent to submitting one submap at a time): the loop queries and    *)
(* the maps are a function of the ordered submaps alone.  Submaps arrive,  *)
(* each one after the first is searched once, in order, against the        *)
(* prefix that ends in it, and a map is always a replayed prefix together  *)
(* with exactly the loop edges of that prefix.                             *)
(***************************************************************************)
EXTENDS GraphSlamApplication

VARIABLES
  input,            \* the submaps, in order of arrival
  replayed,         \* the events of the queries so far
  published,        \* the last optimized map that was published
  saved             \* the last map bundle on disk

replayVars == <<input, replayed, published, saved>>

EmptyMap == [submaps |-> <<>>, edges |-> <<>>]

\* A submap as the search sees it: the cloud that belongs to its pose.
Whole(submaps) == [i \in DOMAIN submaps |-> [pose |-> submaps[i], cloud |-> submaps[i]]]

ReplayedCount == Len(replayed) + 1

ReplayedMap == [submaps |-> Whole(SubSeq(input, 1, ReplayedCount)),
                edges   |-> EdgesAfter(replayed, <<>>)]

ReplayInit ==
  /\ input = <<>>
  /\ replayed = <<>>
  /\ published = EmptyMap
  /\ saved = EmptyMap

Arrive ==
  /\ IsStrictPrefix(input, input')
  /\ UNCHANGED <<replayed, published, saved>>

Search ==
  /\ ReplayedCount < Len(input)
  /\ replayed' = Append(replayed,
                        SearchEvent(Whole(SubSeq(input, 1, ReplayedCount + 1)),
                                    EdgesAfter(replayed, <<>>)))
  /\ UNCHANGED <<input, published, saved>>

\* A pose adjustment publishes the replayed prefix and may save it.
Adjust ==
  /\ input # <<>>
  /\ published' = ReplayedMap
  /\ saved' \in {saved, ReplayedMap}
  /\ UNCHANGED <<input, replayed>>

ReplayNext == Arrive \/ Search \/ Adjust

ReplaySpec == ReplayInit /\ [][ReplayNext]_replayVars
=============================================================================
