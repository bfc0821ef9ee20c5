------------------------ MODULE MCGraphSlamBackend ------------------------
EXTENDS GraphSlamBackend

\* What the search of the submap that ends the prefix proposes: nothing, a
\* loop, a better loop near it, a worse loop near it.
LoopOf(visible) ==
  CASE Len(visible) = 3 -> [from |-> 2, to |-> 0, fitness |-> 5]
    [] Len(visible) = 4 -> [from |-> 3, to |-> 1, fitness |-> 3]
    [] Len(visible) = 5 -> [from |-> 4, to |-> 2, fitness |-> 9]
    [] OTHER -> NoEdge
=============================================================================
