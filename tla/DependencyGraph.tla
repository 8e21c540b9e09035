-------------------------- MODULE DependencyGraph --------------------------
(***************************************************************************)
(* The dependency graph the package manager walks.  A graph is a function  *)
(* E from each package to the set of packages it requires (the pointers    *)
(* returned by get_connected_packages).  The code visits the pointers in   *)
(* vector order; nothing it computes on the graph depends on that order,   *)
(* so the edges of a package are a set.                                    *)
(*                                                                         *)
(* Reachability is defined as the least closed set, without recursion, so  *)
(* that it can be used in proofs; TLC evaluates it by enumerating the      *)
(* subsets of Package, which is cheap for the handful of packages a run    *)
(* has.                                                                    *)
(***************************************************************************)
EXTENDS Naturals

CONSTANT Package        \* the file names of packages, the keys of the map

\* The graphs over Package.
Graph == [Package -> SUBSET Package]

\* Every dependency of a member of S is in S.
Closed(E, S) == \A p \in S : E[p] \subseteq S

\* The packages that can be reached from a member of S, S included.
Reach(E, S) ==
  {p \in Package :
     \A C \in SUBSET Package : S \subseteq C /\ Closed(E, C) => p \in C}

\* The graph E without the edges that leave the packages outside S or that
\* lead outside S.
Within(E, S) == [p \in Package |-> IF p \in S THEN E[p] \cap S ELSE {}]
=============================================================================
