------------------------------ MODULE MCFindings ------------------------------
(* Instances of FindingsStore and CaseReport for TLC. *)
EXTENDS CaseReport

\* A full ledger beside a full set of observations adds time and no case: two
\* seals meet in the claims of one observation, two observations in one seal.
SealsOrObservations == Len(ledger) < 2 \/ Cardinality(store.obs) < 2

===============================================================================
