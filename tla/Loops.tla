--------------------------------- MODULE Loops ---------------------------------
(***************************************************************************)
(* What the modules of functions use where the code loops over a list,     *)
(* filters one, or sorts.  Each is a recursive function or a choice that a  *)
(* prover can unfold; SelectSeq, SortSeq and the folds of the libraries are *)
(* closed to it, or take operators that no lemma can name.                  *)
(***************************************************************************)
EXTENDS Naturals, Sequences, FiniteSets

\* A loop over s that changes what it has with each member: a fold from the
\* left, as a function of how many members it has come past.
Walked(s, first, Step(_, _)) ==
    LET upto[n \in 0 .. Len(s)] == IF n = 0 THEN first ELSE Step(upto[n - 1], s[n])
    IN upto[Len(s)]

\* The members of s that are in S, in their order.
Among(s, S) == Walked(s, <<>>, LAMBDA out, x : IF x \in S THEN Append(out, x) ELSE out)

\* The members of a sequence of sequences, one after the other.
Chained(ss) == Walked(ss, <<>>, LAMBDA out, s : out \o s)

\* The members of a finite set in an order, a set of pairs (a, b) where a comes
\* before b.
Ordered(S, order) ==
    CHOOSE s \in [1 .. Cardinality(S) -> S] :
        \A i, j \in 1 .. Cardinality(S) : i < j => <<s[i], s[j]>> \in order
================================================================================
