------------------------------- MODULE Links -------------------------------
(***************************************************************************)
(* CheckLinkStatus (internal/fetch/fetcher.go): one call checks a batch of *)
(* URLs with a few workers, each of which waits for a tick of the batch's  *)
(* own ticker before it checks a URL.  Checks compete for the slots of the *)
(* fetch engine with those of every other batch.  What a check does once   *)
(* it has a slot is the subject of Fetch.                                  *)
(***************************************************************************)
EXTENDS Naturals, Sequences, FiniteSets

CONSTANTS
    Batches,        \* calls of check_link_status
    URLs,           \* what a URL may be
    Inputs,         \* the sequences of URLs that each may be given
    Refused,        \* the URLs that validateURLText refuses
    MaxURLs,        \* the longest batch accepted
    MaxConcurrent   \* maxConcurrentFetches: workers of a batch, slots of all

ASSUME LinksAssumption ==
    /\ \A b \in Batches : Inputs[b] \subseteq Seq(URLs)
    /\ MaxURLs \in Nat
    /\ MaxConcurrent \in Nat \ {0}

VARIABLES
    stage,          \* of each call
    urls,           \* its argument
    next,           \* index of the next job to hand out; past the end, jobs is closed
    tick,           \* whether pace.C holds a tick
    done,           \* the calls whose context is done
    at,             \* where each worker is
    work,           \* the index each worker works on
    results         \* what has been recorded

vars == <<stage, urls, next, tick, done, at, work, results>>

Workers == 1 .. MaxConcurrent

None == [verdict |-> "nil"]

Verdicts == {"refused", "cancelled", "checked"}

Result == [url : URLs, verdict : Verdicts]

Init ==
    /\ stage = [b \in Batches |-> "new"]
    /\ urls = [b \in Batches |-> <<>>]
    /\ next = [b \in Batches |-> 1]
    /\ tick = [b \in Batches |-> FALSE]
    /\ done = {}
    /\ at = [b \in Batches |-> [w \in Workers |-> "off"]]
    /\ work = [b \in Batches |-> [w \in Workers |-> 0]]
    /\ results = [b \in Batches |-> <<>>]

Goto(b, w, from, to) == at[b][w] = from /\ at' = [at EXCEPT ![b][w] = to]

-----------------------------------------------------------------------------
Refuse(b, s) ==
    /\ stage[b] = "new"
    /\ Len(s) > MaxURLs
    /\ stage' = [stage EXCEPT ![b] = "refused"]
    /\ UNCHANGED <<urls, next, tick, done, at, work, results>>

\* No more workers than URLs.
Start(b, s) ==
    /\ stage[b] = "new"
    /\ Len(s) <= MaxURLs
    /\ stage' = [stage EXCEPT ![b] = "running"]
    /\ urls' = [urls EXCEPT ![b] = s]
    /\ results' = [results EXCEPT ![b] = [i \in DOMAIN s |-> None]]
    /\ at' = [at EXCEPT ![b] = [w \in Workers |-> IF w <= Len(s) THEN "idle" ELSE "off"]]
    /\ UNCHANGED <<next, tick, done, work>>

\* jobs has no buffer: sending and receiving are one step.
Hand(b, w) ==
    /\ stage[b] = "running"
    /\ next[b] <= Len(urls[b])
    /\ Goto(b, w, "idle", "pace")
    /\ work' = [work EXCEPT ![b][w] = next[b]]
    /\ next' = [next EXCEPT ![b] = @ + 1]
    /\ UNCHANGED <<stage, urls, tick, done, results>>

\* jobs is closed.
Leave(b, w) ==
    /\ next[b] > Len(urls[b])
    /\ Goto(b, w, "idle", "off")
    /\ UNCHANGED <<stage, urls, next, tick, done, work, results>>

\* The ticker drops a tick that nobody has taken, and stops with the call.
Tick(b) ==
    /\ stage[b] = "running"
    /\ ~tick[b]
    /\ tick' = [tick EXCEPT ![b] = TRUE]
    /\ UNCHANGED <<stage, urls, next, done, at, work, results>>

\* The client goes away.
ContextDone(b) ==
    /\ stage[b] = "running"
    /\ b \notin done
    /\ done' = done \cup {b}
    /\ UNCHANGED <<stage, urls, next, tick, at, work, results>>

\* Mutant of Record: results are stored in the order in which they come.
RecordAsTheyCome(b, w, verdict) ==
    /\ work' = [work EXCEPT ![b][w] = 0]
    /\ results' = [results EXCEPT
        ![b][Cardinality({i \in DOMAIN results[b] : results[b][i] # None}) + 1] =
            [url |-> urls[b][work[b][w]], verdict |-> verdict]]

Record(b, w, verdict) ==
    /\ work' = [work EXCEPT ![b][w] = 0]
    /\ results' = [results EXCEPT
        ![b][work[b][w]] = [url |-> urls[b][work[b][w]], verdict |-> verdict]]

\* Mutant of GiveUp: a tick is waited for before the context is looked at.
GiveUpAfterTick(b, w) ==
    /\ tick[b]
    /\ b \in done
    /\ Goto(b, w, "pace", "idle")
    /\ tick' = [tick EXCEPT ![b] = FALSE]
    /\ Record(b, w, "cancelled")
    /\ UNCHANGED <<stage, urls, next, done>>

GiveUp(b, w) ==
    /\ b \in done
    /\ Goto(b, w, "pace", "idle")
    /\ Record(b, w, "cancelled")
    /\ UNCHANGED <<stage, urls, next, tick, done>>

PacedRefusal(b, w) ==
    /\ Goto(b, w, "pace", "idle")
    /\ tick[b]
    /\ tick' = [tick EXCEPT ![b] = FALSE]
    /\ urls[b][work[b][w]] \in Refused
    /\ Record(b, w, "refused")
    /\ UNCHANGED <<stage, urls, next, done>>

PacedCheck(b, w) ==
    /\ Goto(b, w, "pace", "slot")
    /\ tick[b]
    /\ tick' = [tick EXCEPT ![b] = FALSE]
    /\ urls[b][work[b][w]] \notin Refused
    /\ UNCHANGED <<stage, urls, next, done, work, results>>

Holders == {p \in Batches \X Workers : at[p[1]][p[2]] = "fetch"}

AcquireSlot(b, w) ==
    /\ Cardinality(Holders) < MaxConcurrent
    /\ Goto(b, w, "slot", "fetch")
    /\ UNCHANGED <<stage, urls, next, tick, done, work, results>>

\* A check ends with what the last attempt found, or cancelled: a client that goes
\* after the last look at the context is too late.
CheckEnds(b, w) ==
    /\ Goto(b, w, "fetch", "idle")
    /\ \E verdict \in {"checked", "cancelled"} :
          /\ verdict = "cancelled" => b \in done
          /\ Record(b, w, verdict)
    /\ UNCHANGED <<stage, urls, next, tick, done>>

AbandonQueue(b, w) ==
    /\ b \in done
    /\ Goto(b, w, "slot", "idle")
    /\ Record(b, w, "cancelled")
    /\ UNCHANGED <<stage, urls, next, tick, done>>

\* Mutant of Return: nobody waits for the workers.
ReturnEarly(b) ==
    /\ stage[b] = "running"
    /\ next[b] > Len(urls[b])
    /\ stage' = [stage EXCEPT ![b] = "returned"]
    /\ UNCHANGED <<urls, next, tick, done, at, work, results>>

Return(b) ==
    /\ stage[b] = "running"
    /\ next[b] > Len(urls[b])
    /\ \A w \in Workers : at[b][w] = "off"
    /\ stage' = [stage EXCEPT ![b] = "returned"]
    /\ UNCHANGED <<urls, next, tick, done, at, work, results>>

-----------------------------------------------------------------------------
Worker(b, w) ==
    \/ Hand(b, w) \/ Leave(b, w) \/ GiveUp(b, w) \/ PacedRefusal(b, w) \/ PacedCheck(b, w)
    \/ CheckEnds(b, w) \/ AbandonQueue(b, w)

Next == \E b \in Batches :
    \/ \E s \in Inputs[b] : Refuse(b, s) \/ Start(b, s)
    \/ Tick(b) \/ ContextDone(b) \/ Return(b)
    \/ \E w \in Workers : Worker(b, w) \/ AcquireSlot(b, w)

Spec == Init /\ [][Next]_vars

\* Go runs what can run, and a check ends, by its timeouts if by nothing else.  Nothing
\* says that the ticker ticks, nor that a slot is ever granted.
FairSpec ==
    /\ Spec
    /\ \A b \in Batches :
          WF_vars(Return(b)) /\ \A w \in Workers : WF_vars(Worker(b, w))

-----------------------------------------------------------------------------
\* The types of the state: among them, no job beyond the last URL.
TypeOK ==
    /\ stage \in [Batches -> {"new", "refused", "running", "returned"}]
    /\ urls \in [Batches -> Seq(URLs)]
    /\ next \in [Batches -> Nat]
    /\ \A b \in Batches : next[b] \in 1 .. Len(urls[b]) + 1
    /\ tick \in [Batches -> BOOLEAN]
    /\ done \subseteq Batches
    /\ at \in [Batches -> [Workers -> {"off", "idle", "pace", "slot", "fetch"}]]
    /\ work \in [Batches -> [Workers -> Nat]]
    /\ DOMAIN results = Batches
    /\ \A b \in Batches : results[b] \in [DOMAIN urls[b] -> {None} \cup Result]

\* Whatever the order in which the workers finish, and whenever the client goes, the
\* results that a call returns are those of its URLs, one for each, in their order, and
\* only a URL that may be asked was asked.
ResultsInOrder ==
    \A b \in Batches : stage[b] = "returned" =>
        \A i \in DOMAIN urls[b] :
            /\ results[b][i] # None
            /\ results[b][i].url = urls[b][i]
            /\ urls[b][i] \in Refused => results[b][i].verdict \in {"refused", "cancelled"}

\* No worker outlives its call: what was returned is not written to any more.
ResultsStable ==
    [][\A b \in Batches : stage[b] = "returned" => results'[b] = results[b]]_vars

\* A call whose client has gone returns although no tick may ever come again and other
\* batches hold the slots.
CancelDrains == \A b \in Batches : b \in done ~> stage[b] = "returned"
=============================================================================
