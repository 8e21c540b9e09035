---------------------------- MODULE RemovalSpec ----------------------------
(***************************************************************************)
(* What the two removal operations of Package_manager promise, as if each  *)
(* looked at the whole graph at once: remove(name) erases a package unless *)
(* another package that the user asked for needs it, and takes along the   *)
(* packages only it needed; remove_unuse() keeps exactly what the          *)
(* packages the user asked for need, as far as it is installed.            *)
(*                                                                         *)
(* The map need not hold what its users need: add leaves a package alone   *)
(* that is in the map and does not look whether what that one requires is  *)
(* there too, so a package removed on its own stays away.  The objects     *)
(* still reach it.  Only while the map is complete for the users in this   *)
(* sense is an operation sure to end: the colours are looked up by name in *)
(* a table of the names of the map.                                        *)
(***************************************************************************)
EXTENDS DependencyGraph

CONSTANTS Graphs,       \* the dependency graphs considered
          NoPackage     \* stands for "no operation has a target"

ASSUME GraphsAssumption == Graphs \subseteq Graph
ASSUME NoPackageAssumption == NoPackage \notin Package

VARIABLES deps,         \* the dependency graph
          installed,    \* the keys of the map
          using,        \* the packages whose objects carry the using flag,
                      \* in the map or only pointed to
          op,           \* the operation under way
          target,       \* the argument of remove
          answer        \* how the last operation ended

specVars == <<deps, installed, using, op, target, answer>>

\* The packages whose needs an operation protects: those in the map that the
\* user asked for, but for the one that is to be removed.
Users == (installed \cap using) \ {target}

\* What remove(p) erases: p, and the packages it requires, directly or not,
\* through packages that are needed by no other user and used by nobody.
Unneeded(p) == (Package \ (Reach(deps, Users) \cup using)) \cup {p}
Erased(p) == Reach(Within(deps, Unneeded(p)), {p})

\* The map is complete: what these packages need is in it.
UsersComplete == Reach(deps, Users) \subseteq installed

SpecInit == /\ deps \in Graphs
            /\ installed \in SUBSET Package
            /\ using \in SUBSET Package
            /\ op = "none"
            /\ target = NoPackage
            /\ answer = "none"

\* remove of a name that is not in the map.
AskUnknown(p) == /\ op = "none"
                 /\ p \notin installed
                 /\ answer' = "This package did not exist"
                 /\ UNCHANGED <<deps, installed, using, op, target>>

AskRemove(p) == /\ op = "none"
                /\ p \in installed
                /\ op' = "remove"
                /\ target' = p
                /\ UNCHANGED <<deps, installed, using, answer>>

AskRemoveUnuse == /\ op = "none"
                  /\ op' = "remove_unuse"
                  /\ UNCHANGED <<deps, installed, using, target, answer>>

Return(result) == /\ op' = "none"
                  /\ target' = NoPackage
                  /\ answer' = result
                  /\ UNCHANGED <<deps, using>>

Removed == /\ op = "remove"
           /\ target \notin Reach(deps, Users)
           /\ installed' = installed \ Erased(target)
           /\ Return("removed")

Refused == /\ op = "remove"
           /\ target \in Reach(deps, Users)
           /\ UNCHANGED installed
           /\ Return("this package is using by other")

Swept == /\ op = "remove_unuse"
         /\ installed' = installed \cap Reach(deps, Users)
         /\ Return("swept")

\* The map lacks what a user needs, and nothing is promised of the operation.
Undefined == /\ op \in {"remove", "remove_unuse"}
             /\ ~UsersComplete
             /\ op' = "undefined"
             /\ UNCHANGED <<deps, installed, using, target, answer>>

SpecNext == \/ \E p \in Package : AskUnknown(p) \/ AskRemove(p)
            \/ AskRemoveUnuse
            \/ Removed
            \/ Refused
            \/ Swept
            \/ Undefined

SafeSpec == SpecInit /\ [][SpecNext]_specVars
=============================================================================
