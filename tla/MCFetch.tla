------------------------------ MODULE MCFetch ------------------------------
(***************************************************************************)
(* A small instance of the fetch engine for TLC.                            *)
(***************************************************************************)
EXTENDS Fetch, TLC

CONSTANTS here, there, f1, f2

Respond(code, location, body) ==
    [status |-> code, location |-> location, body |-> body]

\* One answer of every class that is told apart: success, redirects good, bad and
\* without a Location, the statuses that are retried and that are not, and bodies
\* that do not arrive.
EveryAnswer ==
    {Respond(200, NoLocation, b) : b \in {"complete", "broken", "timeout", "large"}}
      \cup {Respond(302, l, "complete") : l \in {there, BadLocation, NoLocation}}
      \cup {Respond(s, NoLocation, "complete") : s \in {101, 404, 429, 500, 503}}

\* The fetch that competes for the slot meets a success and a transient failure.
FewAnswers == {Respond(s, NoLocation, "complete") : s \in {200, 503}}

MCAnswers == [f \in Fetchers |-> IF f = f1 THEN EveryAnswer ELSE FewAnswers]

MCLookups == [f \in Fetchers |-> IF f = f1 THEN Resolutions ELSE {"public"}]
=============================================================================
