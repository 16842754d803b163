---------------------------- MODULE MCHypothesis ----------------------------
(* HypothesisStack on small instances; the constants are in the .cfg files. *)
EXTENDS HypothesisStack
=============================================================================
