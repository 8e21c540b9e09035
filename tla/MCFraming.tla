----------------------------- MODULE MCFraming ------------------------------
(* An instance of Framing: a text that may go in one call, one that cannot. *)
EXTENDS Framing, TLC

TextLengths == "short" :> 3 @@ "long" :> 5
=============================================================================
