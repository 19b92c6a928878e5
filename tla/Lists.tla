-------------------------------- MODULE Lists --------------------------------
(***************************************************************************)
(* The lists growlight keeps: what is left of one when some are taken off, *)
(* without the order of the rest being touched.                            *)
(***************************************************************************)
EXTENDS Integers, SequencesExt

\* The k-th of a finite set of numbers.
Nth(S, k) == CHOOSE i \in S : Cardinality({j \in S : j <= i}) = k

\* What is at the positions I of a list.
Remains(s, I) == [k \in 1 .. Cardinality(I) |-> s[Nth(I, k)]]
=============================================================================
