----------------------------- MODULE Selection ------------------------------
(***************************************************************************)
(* Sub-sequences by position: what SelectSeq gives, without its recursion, *)
(* so that proofs can speak of what is kept, in which order.               *)
(***************************************************************************)
EXTENDS Naturals, Sequences, FiniteSets

\* How many of the positions `at` are up to `i`.
Rank(at, i) == Cardinality((1..i) \cap at)

\* The elements of `s` at the positions `at`, in their order.
Pick(s, at) ==
    [k \in 1..Cardinality(at) |-> s[CHOOSE i \in at : Rank(at, i) = k]]
=============================================================================
