----------------------------- MODULE MCEvidence -----------------------------
EXTENDS EvidencePipeline, TLC

CONSTANTS i1, i2, x1, x2

\* Two hosts' images of one file name: prepared/ has one directory for both.
SameStem == [i \in Image |-> "disk"]
\* Each image has a stem of its own.
OwnStem == [i \in Image |-> IF i = i1 THEN "disk1" ELSE "disk2"]

Symmetry == Permutations(Image) \cup Permutations(Indexer)
=============================================================================
