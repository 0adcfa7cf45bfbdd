----------------------------- MODULE Selection -----------------------------
(***************************************************************************)
(* Selecting from a sequence by index and by key, as the loops over        *)
(* results do.  The library's SetToSortSeq and SelectSeq do the same by    *)
(* definitions that only TLC evaluates; SelectionProofs is about these.    *)
(***************************************************************************)
EXTENDS Naturals, FiniteSets, SequencesExt

\* The elements of a finite set, first those that R puts before others.
Ranked(S, R) ==
    [k \in 1 .. Cardinality(S) |->
        CHOOSE x \in S : Cardinality({y \in S : y = x \/ <<y, x>> \in R}) = k]

\* Numbers, from the smallest up.
InOrder(S) == Ranked(S, {p \in S \X S : p[1] < p[2]})

\* The elements of s at the indices in a set.
Picked(s, at) ==
    LET order == InOrder(at)
    IN  [k \in DOMAIN order |-> s[order[k]]]

\* The elements at the indices that satisfy Test.
Kept(s, Test(_)) == Picked(s, {i \in DOMAIN s : Test(i)})

\* Without the elements whose Key occurred before.
Firsts(s, Key(_)) == Kept(s, LAMBDA i : \A j \in 1 .. i - 1 : Key(s[j]) # Key(s[i]))
=============================================================================
