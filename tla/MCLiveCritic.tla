----------------------------- MODULE MCLiveCritic -----------------------------
(* Instances of LiveCritic for TLC. *)
EXTENDS LiveCritic

\* The first interpretation of observation 1 and the second of observation 2
\* are contradicted by their evidence.
SomeContradicted == {[oid |-> 1, n |-> 1], [oid |-> 2, n |-> 2]}

===============================================================================
