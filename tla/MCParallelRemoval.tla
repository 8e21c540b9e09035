------------------------- MODULE MCParallelRemoval -------------------------
(***************************************************************************)
(* Instances of ParallelRemoval for TLC: four packages and the shapes of   *)
(* dependency graphs on which the marking threads meet.                    *)
(***************************************************************************)
EXTENDS ParallelRemoval

CONSTANTS a, b, c, d

\* A graph given by its edges.
GraphOf(pairs) == [p \in Package |-> {q \in Package : <<p, q>> \in pairs}]

\* a needs b and c, which both need d: two visits meet in d.
Diamond == GraphOf({<<a, b>>, <<a, c>>, <<b, d>>, <<c, d>>})

\* a and b both need c, which needs d: two users share a subgraph.
Shared == GraphOf({<<a, c>>, <<b, c>>, <<c, d>>})

\* a and b both need c; d stands alone.
Fork == GraphOf({<<a, c>>, <<b, c>>})

MCGraphs == {Diamond, Shared}
LiveGraphs == {Fork}
=============================================================================
