------------------------ MODULE GraphSlamApplication ------------------------
(***************************************************************************)
(* The ROS-free mapping workflow of graph_based_slam                       *)
(* (src/graph_slam_application.cpp): the ordered loop queries of           *)
(* processSubmaps() and the subgraph an optimization request induces.      *)
(* Submap i of the code (zero based) is element i + 1 of a sequence.       *)
(***************************************************************************)
EXTENDS LoopEdgeSet, SequencesExt

CONSTANTS
  Proposal(_),      \* what the search of the last visible submap proposes
  NoEdge,           \* ... when it finds no loop
  Stride            \* loop_search_query_stride

ASSUME StrideAssumption == Stride \in Int

ShouldSearch(q) ==
  /\ q >= 0
  /\ Stride <= 1 \/ (q + 1) % Stride = 0

\* One LoopSearchEvent: `visible` is the ordered prefix that ends in the
\* query submap, `before` the edge set when the query starts.
SearchEvent(visible, before) ==
  LET q == Len(visible) - 1
      edge == IF ShouldSearch(q) THEN Proposal(visible) ELSE NoEdge
      changed == edge # NoEdge /\ Accepts(before, edge)
  IN  [query |-> q, visible |-> visible, changed |-> changed,
       edges |-> IF changed THEN Upsert(before, edge) ELSE before]

\* The events of processSubmaps(submaps) from cursor `next` on.
Process(submaps, next, before) ==
  LET event[q \in next..(Len(submaps) - 1)] ==
        SearchEvent(SubSeq(submaps, 1, q + 1),
                    IF q = next THEN before ELSE event[q - 1].edges)
  IN  [k \in 1..(Len(submaps) - next) |-> event[next + k - 1]]

\* Edges after a sequence of events.
EdgesAfter(events, before) == IF events = <<>> THEN before ELSE Last(events).edges

\* loopConstraintsForPrefix(): what optimizeAndSerialize() uses of the edges.
InducedBy(edges, count) ==
  LET inside(e) == e.from < count /\ e.to < count
      kept[n \in 0..Len(edges)] ==
        IF n = 0 THEN <<>>
        ELSE IF inside(edges[n]) THEN Append(kept[n - 1], edges[n]) ELSE kept[n - 1]
  IN  kept[Len(edges)]
=============================================================================
