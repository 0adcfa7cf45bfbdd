------------------------------ MODULE MCSearch ------------------------------
(***************************************************************************)
(* Small instances of the search pipeline for TLC: one connector of each   *)
(* family.                                                                 *)
(***************************************************************************)
EXTENDS Search, TLC

CONSTANTS web, github, pypi

FamilyOf == (web :> "searxng") @@ (github :> "rest") @@ (pypi :> "pypi")

CONSTANTS t1, blank, open, closed

Call(tool, text, padded, params) ==
    [tool |-> tool, query |-> [text |-> text, padded |-> padded], params |-> params]

\* One text asked of every family, with two sets of parameters where the key
\* holds them.
MCRequests ==
    {Call(web, t1, FALSE, open), Call(web, t1, TRUE, closed),
     Call(github, t1, TRUE, open), Call(pypi, t1, FALSE, open)}

\* The requests that the documentation speaks of.
DocRequests ==
    {Call(github, t1, FALSE, open), Call(github, t1, TRUE, closed),
     Call(web, blank, TRUE, open), Call(pypi, t1, FALSE, open)}

Symmetry == Permutations(Callers)
=============================================================================
