----------------------------- MODULE FetchSpec -----------------------------
(***************************************************************************)
(* What internal/fetch promises a tool that fetches: one verdict for each  *)
(* fetch, given when it returns and kept until the next one; so many       *)
(* requests at most, all of them sent while the fetch holds a place of its *)
(* own among a fixed number of places; and a success only for a fetch that *)
(* sent something.  There are no attempts, redirects, lookups or backoffs  *)
(* here.  Fetch.tla is shown to implement this module.                     *)
(***************************************************************************)
EXTENDS Naturals, FiniteSets

CONSTANTS
    Fetchers,       \* the tools that fetch
    Places,         \* how many may work at once
    MaxRequests,    \* of one fetch
    Outcomes        \* the verdicts there are, "none" before there is one

VARIABLES
    open,           \* the fetches that have begun and not returned
    working,        \* those of them that have a place
    sent,           \* the requests sent by the last fetch of each
    verdict,        \* what it was reported to have come to
    failed          \* those whose last fetch returned an error

vars == <<open, working, sent, verdict, failed>>

Init ==
    /\ open = {}
    /\ working = {}
    /\ sent = [f \in Fetchers |-> 0]
    /\ verdict = [f \in Fetchers |-> "none"]
    /\ failed = {}

Refuse(f) ==
    /\ f \notin open
    /\ sent' = [sent EXCEPT ![f] = 0]
    /\ verdict' = [verdict EXCEPT ![f] = "blocked-target"]
    /\ failed' = failed \cup {f}
    /\ UNCHANGED <<open, working>>

Begin(f) ==
    /\ f \notin open
    /\ open' = open \cup {f}
    /\ sent' = [sent EXCEPT ![f] = 0]
    /\ verdict' = [verdict EXCEPT ![f] = "none"]
    /\ failed' = failed \ {f}
    /\ UNCHANGED working

Enter(f) ==
    /\ f \in open \ working
    /\ Cardinality(working) < Places
    /\ working' = working \cup {f}
    /\ UNCHANGED <<open, sent, verdict, failed>>

Send(f) ==
    /\ f \in working
    /\ sent[f] < MaxRequests
    /\ sent' = [sent EXCEPT ![f] = @ + 1]
    /\ UNCHANGED <<open, working, verdict, failed>>

\* An error is returned with every verdict but success.
Return(f) ==
    /\ f \in open
    /\ open' = open \ {f}
    /\ working' = working \ {f}
    /\ \E o \in Outcomes \ {"none"} :
          /\ o = "success" => sent[f] > 0
          /\ verdict' = [verdict EXCEPT ![f] = o]
          /\ failed' = IF o = "success" THEN failed ELSE failed \cup {f}
    /\ UNCHANGED sent

Next == \E f \in Fetchers : Refuse(f) \/ Begin(f) \/ Enter(f) \/ Send(f) \/ Return(f)

Spec == Init /\ [][Next]_vars
=============================================================================
