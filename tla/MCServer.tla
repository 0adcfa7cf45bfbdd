------------------------------ MODULE MCServer ------------------------------
(***************************************************************************)
(* A small instance of the HTTP server for TLC.                            *)
(***************************************************************************)
EXTENDS Server, TLC
=============================================================================
