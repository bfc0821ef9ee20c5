---------------------------- MODULE LoopEdgeSet ----------------------------
(***************************************************************************)
(* The accepted loop edges of the graph and their upsert policy            *)
(* (graph_based_slam/include/graph_based_slam/loop_edge_set.hpp).  An edge *)
(* is its index pair and its fitness (lower is better); the relative pose  *)
(* and its information travel with the edge and decide nothing.            *)
(***************************************************************************)
EXTENDS Integers, Sequences, FiniteSetsExt

CONSTANT DedupWindow      \* loop_edge_dedup_index_window

ASSUME DedupWindowAssumption == DedupWindow \in Nat

Normalized(e) ==
  IF e.from > e.to THEN [e EXCEPT !.from = e.to, !.to = e.from] ELSE e

Valid(e) == e.from >= 0 /\ e.to >= 0 /\ e.from # e.to

Distance(i, j) == IF i < j THEN j - i ELSE i - j

NearbyPair(d, e) ==
  /\ Distance(d.from, e.from) <= DedupWindow
  /\ Distance(d.to, e.to) <= DedupWindow

\* Positions of the stored edges that e may replace.
NearbyIndices(edges, e) == {i \in 1..Len(edges) : NearbyPair(edges[i], Normalized(e))}

\* Only the first nearby edge is compared with the new one.
KeepsExisting(edges, e) ==
  LET near == NearbyIndices(edges, e)
  IN  near # {} /\ edges[Min(near)].fitness > 0
                /\ e.fitness >= edges[Min(near)].fitness

\* The return value of upsert(): the set changed.
Accepts(edges, e) == Valid(e) /\ ~KeepsExisting(edges, e)

Upsert(edges, e) ==
  LET near == NearbyIndices(edges, e)
  IN  IF ~Accepts(edges, e) THEN edges
      ELSE IF near = {} THEN Append(edges, Normalized(e))
      ELSE [edges EXCEPT ![Min(near)] = Normalized(e)]
=============================================================================
