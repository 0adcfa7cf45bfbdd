----------------------------- MODULE MCHistory -----------------------------
(***************************************************************************)
(* A small instance of the search history for TLC.                         *)
(***************************************************************************)
EXTENDS History, TLC

CONSTANTS qa, qb

\* The empty filter, and a filter that only one of the queries contains.
MCFilters == {{qa, qb}, {qa}}
=============================================================================
