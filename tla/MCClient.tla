------------------------------ MODULE MCClient ------------------------------
(* Instances of Client, over the repositories of MCRepositories. *)
EXTENDS Client, MCRepositories
=============================================================================
