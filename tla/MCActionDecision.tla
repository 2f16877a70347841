------------------------- MODULE MCActionDecision -------------------------
(* Instances of ActionDecision for TLC. *)
EXTENDS ActionDecision

=============================================================================
