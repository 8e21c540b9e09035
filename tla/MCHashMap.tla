----------------------------- MODULE MCHashMap -----------------------------
(* Instances of HashMap: all keys of a chain collide until the array has    *)
(* grown, and 1 and 3 still do then.                                        *)
EXTENDS HashMap

CONSTANTS p, q, x, y

\* No operation tells the maps, or the values, from one another.
Symmetry == Permutations(Slot) \cup Permutations(Value)

HashOf == [k \in Key |-> k]
=============================================================================
