------------------------------- MODULE Fetch -------------------------------
(***************************************************************************)
(* The URL fetch engine of internal/fetch/fetcher.go: doFetchWithRetries,  *)
(* the retry loop every fetch tool goes through, around                    *)
(* manualRedirectFetch, the walk along a chain of redirects.  Fetches run  *)
(* concurrently and share a fixed number of slots; the DNS, the upstream   *)
(* and the client's cancellation are the environment.                      *)
(*                                                                         *)
(* One FetchResponse is filled in by all the attempts of a fetch, and what *)
(* one attempt wrote is there for the next.                                *)
(***************************************************************************)
EXTENDS Naturals, Sequences, FiniteSets

CONSTANTS
    Fetchers,       \* concurrent fetches
    Urls,           \* addresses the upstreams can redirect to
    Target,         \* the URL that is asked for
    NoLocation,     \* a response without a Location header
    BadLocation,    \* a Location that is no URL
    Answers,        \* what the upstreams may respond to each fetch
    Lookups,        \* what the DNS may say to each fetch
    Slots,          \* maxConcurrentFetches
    MaxAttempts,    \* Config.MaxAttempts
    MaxRedirects    \* Config.MaxRedirects

Resolutions == {"public", "private", "error", "timeout"}

Answer == [status : 100 .. 599,
           location : Urls \cup {NoLocation, BadLocation},
           body : {"complete", "broken", "timeout", "large"}]

ASSUME FetchAssumption ==
    /\ Target \in Urls
    /\ {NoLocation, BadLocation} \cap Urls = {} /\ NoLocation # BadLocation
    /\ Answers \in [Fetchers -> SUBSET Answer]
    /\ Lookups \in [Fetchers -> SUBSET Resolutions]
    /\ Slots \in Nat \ {0}
    /\ MaxAttempts \in Nat \ {0}
    /\ MaxRedirects \in Nat

VARIABLES
    slots,          \* the fetches holding a slot of FetcherService.slots
    pc,             \* where each fetch is
    cancelled,      \* the fetches whose context is done
    hop,            \* the loop variable of manualRedirectFetch
    current,        \* the URL of this hop
    err,            \* the error of the last attempt
    status,         \* FetchResponse.Status
    outcome,        \* FetchResponse.Outcome
    chain,          \* FetchResponse.RedirectChain
    attempts,       \* FetchResponse.Attempts, the loop variable of doFetchWithRetries
    answered,       \* history: the fetches whose last request got a response
    requests,       \* history: requests sent by each fetch
    transients,     \* history: attempts of each fetch that ended transiently
    misjudged       \* history: the fetches that retried anything else

response == <<status, outcome, chain, attempts>>
ghosts == <<answered, requests, transients, misjudged>>
vars == <<slots, pc, cancelled, hop, current, err, response, ghosts>>

\* "none" is the empty Outcome of a new FetchResponse.
Outcomes == {"none", "success", "blocked-target", "too-many-redirects", "timeout",
             "transport-error", "http-error", "non-transient-failure",
             "transient-failure-retried-exhausted"}

Errors == {"nil", "canceled", "timeout", "blocked", "transport", "http", "other"}

\* The states in which a fetch holds a slot.
Working == {"attempt", "backoff", "hop", "request", "judge"}

Goto(f, from, to) == pc[f] = from /\ pc' = [pc EXCEPT ![f] = to]

IsTimeoutErr(e) == e = "timeout"

-----------------------------------------------------------------------------
Init ==
    /\ slots = {}
    /\ pc = [f \in Fetchers |-> "idle"]
    /\ cancelled = {}
    /\ hop = [f \in Fetchers |-> 0]
    /\ current = [f \in Fetchers |-> Target]
    /\ err = [f \in Fetchers |-> "nil"]
    /\ status = [f \in Fetchers |-> 0]
    /\ outcome = [f \in Fetchers |-> "none"]
    /\ chain = [f \in Fetchers |-> <<>>]
    /\ attempts = [f \in Fetchers |-> 0]
    /\ answered = {}
    /\ requests = [f \in Fetchers |-> 0]
    /\ transients = [f \in Fetchers |-> 0]
    /\ misjudged = {}

\* A new FetchResponse for the target.
Reset(f) ==
    /\ cancelled' = cancelled \ {f}
    /\ hop' = [hop EXCEPT ![f] = 0]
    /\ current' = [current EXCEPT ![f] = Target]
    /\ status' = [status EXCEPT ![f] = 0]
    /\ chain' = [chain EXCEPT ![f] = <<>>]
    /\ attempts' = [attempts EXCEPT ![f] = 0]
    /\ answered' = answered \ {f}
    /\ requests' = [requests EXCEPT ![f] = 0]
    /\ transients' = [transients EXCEPT ![f] = 0]
    /\ misjudged' = misjudged \ {f}
    /\ UNCHANGED slots

\* Fetch and its siblings: a URL that validateURLText refuses goes no further.
FetchRefused(f) ==
    /\ pc[f] = "idle"
    /\ Reset(f)
    /\ outcome' = [outcome EXCEPT ![f] = "blocked-target"]
    /\ err' = [err EXCEPT ![f] = "blocked"]
    /\ UNCHANGED pc

FetchAllowed(f) ==
    /\ Goto(f, "idle", "queue")
    /\ Reset(f)
    /\ outcome' = [outcome EXCEPT ![f] = "none"]
    /\ err' = [err EXCEPT ![f] = "nil"]

\* The client goes away, or the server shuts down.
Cancel(f) ==
    /\ pc[f] # "idle"
    /\ f \notin cancelled
    /\ cancelled' = cancelled \cup {f}
    /\ UNCHANGED <<slots, pc, hop, current, err, response, ghosts>>

\* Mutant of Return: the slot is given back only when the fetch succeeded.
ReturnKeepingSlot(f, e) ==
    /\ pc' = [pc EXCEPT ![f] = "idle"]
    /\ err' = [err EXCEPT ![f] = e]
    /\ slots' = IF e = "nil" THEN slots \ {f} ELSE slots

\* doFetchWithRetries returns an error (or nil), and the deferred receive
\* gives the slot back.
Return(f, e) ==
    /\ pc' = [pc EXCEPT ![f] = "idle"]
    /\ err' = [err EXCEPT ![f] = e]
    /\ slots' = slots \ {f}

\* Mutant of ReturnCancelled: the outcome is left as the last attempt set it.
ReturnCancelledQuietly(f) ==
    /\ f \in cancelled
    /\ UNCHANGED outcome
    /\ Return(f, "canceled")

\* The context is done: the fetch ends as a timeout.
ReturnCancelled(f) ==
    /\ f \in cancelled
    /\ outcome' = [outcome EXCEPT ![f] = "timeout"]
    /\ Return(f, "canceled")

-----------------------------------------------------------------------------
(* doFetchWithRetries up to the attempt.                                   *)

\* Mutant of AcquireSlot: the count is one too many.
AcquireSlotOver(f) ==
    /\ Cardinality(slots) <= Slots
    /\ Goto(f, "queue", "attempt")
    /\ slots' = slots \cup {f}
    /\ UNCHANGED <<cancelled, hop, current, err, response, ghosts>>

AcquireSlot(f) ==
    /\ Cardinality(slots) < Slots
    /\ Goto(f, "queue", "attempt")
    /\ slots' = slots \cup {f}
    /\ UNCHANGED <<cancelled, hop, current, err, response, ghosts>>

\* select picks the context although a slot may be free.
AbandonQueue(f) ==
    /\ pc[f] = "queue"
    /\ ReturnCancelled(f)
    /\ UNCHANGED <<cancelled, hop, current, status, chain, attempts, ghosts>>

\* The head of the loop: count the attempt, then look at the context.
NextAttempt(f) ==
    /\ pc[f] = "attempt"
    /\ attempts[f] < MaxAttempts
    /\ attempts' = [attempts EXCEPT ![f] = @ + 1]
    /\ \/ /\ ReturnCancelled(f)
          /\ UNCHANGED <<hop, current>>
       \/ /\ f \notin cancelled
          /\ pc' = [pc EXCEPT ![f] = IF attempts[f] = 0 THEN "hop" ELSE "backoff"]
          /\ hop' = [hop EXCEPT ![f] = 0]
          /\ current' = [current EXCEPT ![f] = Target]
          /\ UNCHANGED <<slots, err, outcome>>
    /\ UNCHANGED <<cancelled, status, chain, ghosts>>

Backoff(f) ==
    /\ \/ /\ Goto(f, "backoff", "hop")
          /\ UNCHANGED <<slots, err, outcome>>
       \/ /\ pc[f] = "backoff"
          /\ ReturnCancelled(f)
    /\ UNCHANGED <<cancelled, hop, current, status, chain, attempts, ghosts>>

\* The loop ends without a return: the budget is spent.
Exhausted(f) ==
    /\ pc[f] = "attempt"
    /\ attempts[f] = MaxAttempts
    /\ outcome' = [outcome EXCEPT ![f] =
                      IF IsTimeoutErr(err[f]) THEN "timeout"
                      ELSE "transient-failure-retried-exhausted"]
    /\ Return(f, err[f])
    /\ UNCHANGED <<cancelled, hop, current, status, chain, attempts, ghosts>>

-----------------------------------------------------------------------------
(* manualRedirectFetch: one hop is a validation and a request.             *)

\* The attempt ends with an outcome and an error.
Fail(f, o, e) ==
    /\ pc' = [pc EXCEPT ![f] = "judge"]
    /\ outcome' = [outcome EXCEPT ![f] = o]
    /\ err' = [err EXCEPT ![f] = e]
    /\ UNCHANGED <<hop, current>>

\* What resolveAndValidate's error is to isTimeoutErr.
LookupErr(r) == IF r = "timeout" THEN "timeout" ELSE "blocked"

ValidateHop(f) ==
    /\ pc[f] = "hop"
    /\ \E r \in Lookups[f] :
          IF r = "public"
          THEN Goto(f, "hop", "request") /\ UNCHANGED <<hop, current, err, outcome>>
          ELSE Fail(f, "blocked-target", LookupErr(r))
    /\ answered' = answered \ {f}
    /\ UNCHANGED <<slots, cancelled, status, chain, attempts, requests, transients, misjudged>>

\* DialContext resolves the name again, and refuses what it would not have
\* validated; the client wraps that as any other dial error.
DialBlocked(f, r) ==
    /\ r # "public"
    /\ IF r = "timeout" THEN Fail(f, "timeout", "timeout")
       ELSE Fail(f, "transport-error", "transport")
    /\ UNCHANGED <<status, chain, answered, requests>>

\* No response: the client's timeout, a transport error, or the context.
NoResponse(f) ==
    /\ \/ Fail(f, "transport-error", "transport")
       \/ f \notin cancelled /\ Fail(f, "timeout", "timeout")
    /\ UNCHANGED <<status, chain, answered>>

Success(s) == s \in 200 .. 299

Redirects(a) == a.status \in 300 .. 399 /\ a.location # NoLocation

\* A redirect: the hop's own URL joins the chain, then the limit is checked.
FollowRedirect(f, a) ==
    /\ chain' = [chain EXCEPT ![f] = Append(@, current[f])]
    /\ \/ /\ hop[f] = MaxRedirects
          /\ Fail(f, "too-many-redirects", "other")
       \/ /\ hop[f] < MaxRedirects /\ a.location = BadLocation   \* here or at the next hop
          /\ Fail(f, "non-transient-failure", "other")
       \/ /\ hop[f] < MaxRedirects /\ a.location # BadLocation
          /\ hop' = [hop EXCEPT ![f] = @ + 1]
          /\ current' = [current EXCEPT ![f] = a.location]
          /\ pc' = [pc EXCEPT ![f] = "hop"]
          /\ UNCHANGED <<err, outcome>>

\* A 3xx without a Location matches no case: the loop asks the same URL again.
AskAgain(f) ==
    /\ UNCHANGED chain
    /\ \/ /\ hop[f] = MaxRedirects
          /\ Fail(f, "too-many-redirects", "other")
       \/ /\ hop[f] < MaxRedirects
          /\ hop' = [hop EXCEPT ![f] = @ + 1]
          /\ pc' = [pc EXCEPT ![f] = "hop"]
          /\ UNCHANGED <<current, err, outcome>>

\* The classification of a response whose status is known, in the code's order.
Classify(f, a) ==
    \/ /\ a.body = "timeout" /\ Fail(f, "timeout", "timeout")
       /\ UNCHANGED chain
    \/ /\ a.body = "broken" /\ Fail(f, "transport-error", "transport")
       /\ UNCHANGED chain
    \/ /\ a.body = "large" /\ Fail(f, "non-transient-failure", "other")
       /\ UNCHANGED chain
    \/ a.body = "complete" /\ Redirects(a) /\ FollowRedirect(f, a)
    \/ a.body = "complete" /\ a.status \in 300 .. 399 /\ ~Redirects(a) /\ AskAgain(f)
    \/ /\ a.body = "complete" /\ Success(a.status) /\ Fail(f, "success", "nil")
       /\ UNCHANGED chain
    \/ /\ a.body = "complete" /\ a.status >= 400 /\ Fail(f, "http-error", "http")
       /\ UNCHANGED chain
    \/ /\ a.body = "complete" /\ a.status < 200 /\ Fail(f, "non-transient-failure", "other")
       /\ UNCHANGED chain

Request(f) ==
    /\ pc[f] = "request"
    /\ \/ \E r \in Lookups[f] : DialBlocked(f, r)
       \/ /\ requests' = [requests EXCEPT ![f] = @ + 1]
          /\ \/ NoResponse(f)
             \/ \E a \in Answers[f] :
                   /\ f \in cancelled => a.body = "broken"
                   /\ answered' = answered \cup {f}
                   /\ status' = [status EXCEPT ![f] = a.status]
                   /\ Classify(f, a)
    /\ UNCHANGED <<slots, cancelled, attempts, transients, misjudged>>

-----------------------------------------------------------------------------
(* The end of an attempt.                                                  *)

Transient(s) == s = 429 \/ s \in 502 .. 504

\* Mutant of ShouldRetry: every 5xx is worth another attempt.
ShouldRetryAll5xx(s, e) == IsTimeoutErr(e) \/ s = 429 \/ s >= 500

\* shouldRetry looks at the status of the response, which may be that of an
\* earlier attempt.
ShouldRetry(s, e) == IsTimeoutErr(e) \/ Transient(s)

\* Whether this attempt itself ended in a way that the policy retries.
EndedTransiently(f) == IsTimeoutErr(err[f]) \/ (f \in answered /\ Transient(status[f]))

JudgeCancelled(f) ==
    /\ pc[f] = "judge"
    /\ ReturnCancelled(f)
    /\ UNCHANGED <<cancelled, hop, current, status, chain, attempts, ghosts>>

\* Mutant of JudgeDone: the response is returned without its error.
JudgeDoneQuietly(f) ==
    /\ pc[f] = "judge"
    /\ f \notin cancelled
    /\ err[f] = "nil" \/ ~ShouldRetry(status[f], err[f])
    /\ Return(f, "nil")
    /\ UNCHANGED <<cancelled, hop, current, response, ghosts>>

JudgeDone(f) ==
    /\ pc[f] = "judge"
    /\ f \notin cancelled
    /\ err[f] = "nil" \/ ~ShouldRetry(status[f], err[f])
    /\ Return(f, err[f])
    /\ UNCHANGED <<cancelled, hop, current, response, ghosts>>

\* Mutant of JudgeRetry: a failed attempt is not charged to the budget.
JudgeRetryFree(f) ==
    /\ Goto(f, "judge", "attempt")
    /\ f \notin cancelled
    /\ err[f] # "nil" /\ ShouldRetry(status[f], err[f])
    /\ attempts' = [attempts EXCEPT ![f] = @ - 1]
    /\ UNCHANGED <<slots, cancelled, hop, current, err, status, outcome, chain, ghosts>>

JudgeRetry(f) ==
    /\ Goto(f, "judge", "attempt")
    /\ f \notin cancelled
    /\ err[f] # "nil" /\ ShouldRetry(status[f], err[f])
    /\ IF EndedTransiently(f)
       THEN transients' = [transients EXCEPT ![f] = @ + 1] /\ UNCHANGED misjudged
       ELSE misjudged' = misjudged \cup {f} /\ UNCHANGED transients
    /\ UNCHANGED <<slots, cancelled, hop, current, err, response, answered, requests>>

-----------------------------------------------------------------------------
Step(f) ==
    \/ AbandonQueue(f)
    \/ NextAttempt(f) \/ Backoff(f) \/ Exhausted(f)
    \/ ValidateHop(f) \/ Request(f)
    \/ JudgeCancelled(f) \/ JudgeDone(f) \/ JudgeRetry(f)

Next ==
    \E f \in Fetchers :
        FetchRefused(f) \/ FetchAllowed(f) \/ Cancel(f) \/ AcquireSlot(f) \/ Step(f)

Spec == Init /\ [][Next]_vars

\* Every lookup, request and timer ends, and a send on a full channel is served
\* in the order of arrival once receives keep coming.
FairSpec == Spec /\ \A f \in Fetchers : WF_vars(Step(f)) /\ SF_vars(AcquireSlot(f))

-----------------------------------------------------------------------------
\* The types of the state.
TypeOK ==
    /\ slots \subseteq Fetchers
    /\ pc \in [Fetchers -> {"idle", "queue"} \cup Working]
    /\ cancelled \subseteq Fetchers
    /\ hop \in [Fetchers -> Nat]
    /\ current \in [Fetchers -> Urls]
    /\ err \in [Fetchers -> Errors]
    /\ status \in [Fetchers -> Nat]
    /\ outcome \in [Fetchers -> Outcomes]
    /\ chain \in [Fetchers -> Seq(Urls)]
    /\ attempts \in [Fetchers -> Nat]
    /\ answered \subseteq Fetchers
    /\ requests \in [Fetchers -> Nat]
    /\ transients \in [Fetchers -> Nat]
    /\ misjudged \subseteq Fetchers

\* A slot is held exactly while a fetch works on an attempt, on every way out of
\* it, and there are never more than the channel holds.
SlotsInv ==
    /\ \A f \in Fetchers : f \in slots <=> pc[f] \in Working
    /\ Cardinality(slots) <= Slots

\* The work done for one fetch is bounded by the configuration whatever the
\* upstream answers: retries and redirects multiply, and nothing else adds to it.
\* The redirect chain, which all the attempts add to, lists no more than was sent.
RequestsBounded ==
    \A f \in Fetchers :
        /\ attempts[f] <= MaxAttempts
        /\ requests[f] <= MaxAttempts * (MaxRedirects + 1)
        /\ Len(chain[f]) <= requests[f]

\* The errors that are neither a timeout nor the caller's going away, and what an
\* attempt that ended with each of them is reported as.
Failing == [blocked |-> {"blocked-target"}, transport |-> {"transport-error"},
            http |-> {"http-error"}, other |-> {"too-many-redirects", "non-transient-failure"}]

Definite == DOMAIN Failing

\* The outcome of a returned fetch is the one of the error it returns and of the last
\* request it sent, although one response is filled in by all the attempts: no outcome
\* of an earlier attempt survives, a success or an HTTP error is that of an answer to
\* the last attempt, and a fetch that ran out of attempts says so.  Two things remain
\* of an earlier attempt: a lookup that timed out is reported as a timeout, not as a
\* blocked target, and a transient status left in the response, even by an attempt
\* before the last one, makes any last failure one of exhausted retries.
OutcomeIsReal ==
    \A f \in Fetchers :
        pc[f] = "idle" =>
            /\ outcome[f] = "none" <=> err[f] = "nil" /\ attempts[f] = 0
            /\ outcome[f] = "success" <=> err[f] = "nil" /\ attempts[f] > 0
            /\ outcome[f] = "timeout" <=> err[f] \in {"timeout", "canceled"}
            /\ outcome[f] = "transient-failure-retried-exhausted" <=>
                  Transient(status[f]) /\ err[f] \in Definite
            /\ ~Transient(status[f]) /\ err[f] \in Definite => outcome[f] \in Failing[err[f]]
            /\ outcome[f] = "transient-failure-retried-exhausted" => attempts[f] = MaxAttempts
            /\ outcome[f] = "success" => f \in answered /\ Success(status[f])
            /\ outcome[f] = "http-error" => f \in answered /\ status[f] >= 400
            /\ outcome[f] = "too-many-redirects" => f \in answered /\ hop[f] = MaxRedirects

\* A second attempt needs a transient failure of an earlier attempt, and transient is
\* what shouldRetry says it is: a timeout, a 429 or a 502 to 504.  So a client error
\* alone is never retried, and neither is a 500, which fetcher.go:8-10 would let be
\* retried (OtherServerErrorsRetried, below, is what that says, and fails).
RetriesNeedTransient ==
    \A f \in Fetchers : attempts[f] > 1 => transients[f] > 0

\* Every fetch returns.
FetchReturns == \A f \in Fetchers : pc[f] # "idle" ~> pc[f] = "idle"
-----------------------------------------------------------------------------
(* The engine implements FetchSpec: while a fetch is under way, what its   *)
(* response says so far is nobody's business.                              *)

Open == {f \in Fetchers : pc[f] # "idle"}

Verdicts == [f \in Fetchers |-> IF f \in Open THEN "none" ELSE outcome[f]]

Failures == {f \in Fetchers \ Open : err[f] # "nil"}

Abs == INSTANCE FetchSpec WITH
    Places <- Slots,
    MaxRequests <- MaxAttempts * (MaxRedirects + 1),
    open <- Open,
    working <- slots,
    sent <- requests,
    verdict <- Verdicts,
    failed <- Failures

\* Whatever the upstreams, the DNS and the clients do, every fetch returns one verdict,
\* with an error unless it is a success, sends its requests before that, with a slot
\* and within its budget, and nothing changes the verdict afterwards.
Refinement == Abs!Spec
-----------------------------------------------------------------------------
(* What the documentation says, and the code does not do.                  *)

\* "SOLO 429 y 502-504 mas timeouts del transporte se reintentan": an attempt that
\* ended in any other way is not followed by another one.
OnlyTransientRetried == misjudged = {}

\* "5xx outside that window is classified as transient-failure and may be retried up to
\* MaxAttempts": a fetch that ends with such a response says that it was transient.
OtherServerErrorsRetried ==
    \A f \in Fetchers :
        pc[f] = "idle" /\ err[f] = "http" /\ status[f] >= 500
            => outcome[f] = "transient-failure-retried-exhausted"
=============================================================================
