------------------------------ MODULE MCLinks ------------------------------
(***************************************************************************)
(* One batch with more URLs than workers, one of them refused, or with too *)
(* many; and one that competes with it, or that is empty.                  *)
(***************************************************************************)
EXTENDS Links, TLC

CONSTANTS u1, u2, local, b1, b2

MCInputs ==
    b1 :> {<<u1, local, u2>>, <<u1, u1, u2, u2>>} @@ b2 :> {<<>>, <<u1, u2>>}
=============================================================================
