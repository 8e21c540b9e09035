---------------------------- MODULE MCControler ----------------------------
(* Instances of Controler, over the repositories of MCRepositories. *)
EXTENDS Controler, MCRepositories
=============================================================================
