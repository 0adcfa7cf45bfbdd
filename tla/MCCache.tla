------------------------------ MODULE MCCache ------------------------------
(***************************************************************************)
(* A small instance of the cache for TLC.                                  *)
(***************************************************************************)
EXTENDS Cache, TLC
=============================================================================
