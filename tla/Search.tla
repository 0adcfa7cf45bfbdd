------------------------------- MODULE Search -------------------------------
(***************************************************************************)
(* A search_* call from its handler (internal/mcp/tools.go) through its    *)
(* connector (internal/connectors) and back: look in the cache, else ask   *)
(* the upstream, turn a failure into a degraded response, cache whatever   *)
(* came out, record it in the history, reply.  Any number of calls run at  *)
(* once; nothing serialises two calls that ask for the same thing.         *)
(*                                                                         *)
(* The cache is the map of CacheSpec: each of its operations is one step,  *)
(* a write carries the time read before it, and dead entries are gone.     *)
(*                                                                         *)
(* The connectors come in three families:                                  *)
(*   "searxng"  web, news, youtube, academic, images, reddit: the key      *)
(*              holds the whole request, a degraded response is kept short *)
(*   "rest"     github, stackoverflow, npm, nuget, dockerhub: the key      *)
(*              holds the query and the connector                          *)
(*   "pypi"     keyed like "rest"; an upstream failure is an empty answer  *)
(***************************************************************************)
EXTENDS Naturals

CONSTANTS
    Callers,        \* concurrent tools/call requests
    Tools,          \* connectors
    Family,         \* the family of each connector
    Texts,          \* query texts after TrimSpace
    Blank,          \* the empty text
    Params,         \* the rest of a request: state, language, limit, ...
    Requests,       \* the requests that arrive
    TTL,            \* the configured ttl
    DegradedTTL,    \* DegradedSearchCacheTTL
    MaxClock,       \* bound: the clock stops here
    MaxSearches     \* bound: searches in a run

ASSUME SearchAssumption ==
    /\ Family \in [Tools -> {"searxng", "rest", "pypi"}]
    /\ Requests # {}
    /\ Requests \subseteq
          [tool : Tools, query : [text : Texts, padded : BOOLEAN], params : Params]
    /\ TTL \in Nat \ {0}
    /\ DegradedTTL \in Nat \ {0}
    /\ MaxClock \in Nat
    /\ MaxSearches \in Nat

VARIABLES
    clock,          \* time.Now()
    cache,          \* the entry each key is served from
    pc,             \* where each call is
    req,            \* the request of each call
    resp,           \* the response each call is building, or has returned
    stamp,          \* the time each call read in SetWithMaxTTL
    history,        \* what recordSearch has appended
    age,            \* history: how old the entry of a cached response was
    searches        \* history: searches begun

vars == <<clock, cache, pc, req, resp, stamp, history, age, searches>>

\* padded: the text has white space around it.
Query == [text : Texts, padded : BOOLEAN]

EmptyQuery == [text |-> Blank, padded |-> FALSE]

Request == [tool : Tools, query : Query, params : Params]

\* params and failed are not in the code's response: they record what the
\* response answers, and whether the upstream failed.
Response == [tool : Tools, query : Query, params : Params,
             results : {0, 1}, partial : BOOLEAN, failed : BOOLEAN, cached : BOOLEAN]

Key == [tool : Tools, text : Texts, params : Params]

AnyParams == CHOOSE p \in Params : TRUE

\* Mutant of KeyOf: every connector is keyed the way GenerateCacheKey does.
KeyWithoutParams(r) ==
    [tool |-> r.tool, text |-> r.query.text, params |-> AnyParams]

\* GenerateSearchCacheKey encodes the request with its query trimmed;
\* GenerateCacheKey the trimmed query and the connector.
KeyOf(r) ==
    [tool   |-> r.tool,
     text   |-> r.query.text,
     params |-> IF Family[r.tool] = "searxng" THEN r.params ELSE AnyParams]

AnyRequest == CHOOSE r \in Requests : TRUE

Blanked(r) == [tool |-> r.tool, query |-> r.query, params |-> r.params,
               results |-> 0, partial |-> FALSE, failed |-> FALSE, cached |-> FALSE]

\* A key without an entry: it expired before the clock started.
NoEntry == [resp |-> Blanked(AnyRequest), created |-> 0, expires |-> 0]

Entry == [resp : Response, created : Nat, expires : Nat]

Served(k) == cache[k].expires > clock

Goto(c, from, to) == pc[c] = from /\ pc' = [pc EXCEPT ![c] = to]

-----------------------------------------------------------------------------
Init ==
    /\ clock = 0
    /\ cache = [k \in Key |-> NoEntry]
    /\ pc = [c \in Callers |-> "idle"]
    /\ req = [c \in Callers |-> AnyRequest]
    /\ resp = [c \in Callers |-> Blanked(AnyRequest)]
    /\ stamp = [c \in Callers |-> 0]
    /\ history = {}
    /\ age = [c \in Callers |-> 0]
    /\ searches = 0

\* Entries that have expired are as good as gone, and are forgotten here.
Tick ==
    /\ clock < MaxClock
    /\ clock' = clock + 1
    /\ cache' = [k \in Key |-> IF cache[k].expires > clock' THEN cache[k] ELSE NoEntry]
    /\ UNCHANGED <<pc, req, resp, stamp, history, age, searches>>

\* A tools/call arrives.
Ask(c, r) ==
    /\ searches < MaxSearches
    /\ searches' = searches + 1
    /\ Goto(c, "idle", "lookup")
    /\ req' = [req EXCEPT ![c] = r]
    /\ resp' = [resp EXCEPT ![c] = Blanked(r)]
    /\ age' = [age EXCEPT ![c] = 0]
    /\ UNCHANGED <<clock, cache, stamp, history>>

\* Mutant of CacheHit: a hit is presented as a complete answer.
CacheHitUnmarked(c) ==
    LET e == cache[KeyOf(req[c])]
    IN  /\ Served(KeyOf(req[c]))
        /\ Goto(c, "lookup", "record")
        /\ resp' = [resp EXCEPT ![c] = [e.resp EXCEPT !.cached = TRUE, !.partial = FALSE]]
        /\ age' = [age EXCEPT ![c] = clock - e.created]
        /\ UNCHANGED <<clock, cache, req, stamp, history, searches>>

\* A hit is the stored response as it was built, marked as cached.
CacheHit(c) ==
    LET e == cache[KeyOf(req[c])]
    IN  /\ Served(KeyOf(req[c]))
        /\ Goto(c, "lookup", "record")
        /\ resp' = [resp EXCEPT ![c] = [e.resp EXCEPT !.cached = TRUE]]
        /\ age' = [age EXCEPT ![c] = clock - e.created]
        /\ UNCHANGED <<clock, cache, req, stamp, history, searches>>

CacheMiss(c) ==
    /\ ~Served(KeyOf(req[c]))
    /\ Goto(c, "lookup", "upstream")
    /\ UNCHANGED <<clock, cache, req, resp, stamp, history, age, searches>>

-----------------------------------------------------------------------------
(* The upstream.  A transport error, a timeout, a status of 400 or more, a *)
(* body that does not parse and a caller that went away are one outcome:   *)
(* an error and no results.  SearXNG can also answer 200 and name engines  *)
(* that did not respond, with or without results.                          *)

\* github, stackoverflow, npm, nuget, dockerhub.
RestOutcomes ==
    {[err |-> "none", results |-> n] : n \in {0, 1}}
      \cup {[err |-> "failed", results |-> 0]}

SearxngOutcomes ==
    RestOutcomes \cup {[err |-> "unresponsive", results |-> n] : n \in {0, 1}}

\* The exact match, then the prefix search: it failed if neither was answered.
PyPIOutcomes == RestOutcomes

Outcomes(family) ==
    IF family = "searxng" THEN SearxngOutcomes
    ELSE IF family = "pypi" THEN PyPIOutcomes ELSE RestOutcomes

\* recordSearxngError, and its counterpart in the other connectors: which
\* outcomes set Partial.
MarkedPartial(family, o) == family # "pypi" /\ o.err # "none"

\* The response a connector builds from what its upstream answered.
Fresh(r, o) ==
    [tool |-> r.tool, query |-> r.query, params |-> r.params,
     results |-> o.results, partial |-> MarkedPartial(Family[r.tool], o),
     failed |-> (o.err # "none"), cached |-> FALSE]

Upstream(c) ==
    /\ Goto(c, "upstream", "set")
    /\ \E o \in Outcomes(Family[req[c].tool]) :
          resp' = [resp EXCEPT ![c] = Fresh(req[c], o)]
    /\ UNCHANGED <<clock, cache, req, stamp, history, age, searches>>

-----------------------------------------------------------------------------
(* Caching: every response is stored, whatever the upstream said.          *)

\* Mutant of Lifetime: a degraded response lives as long as any other.
LifetimeUncapped(r) == TTL

\* cacheSearxngResponse caps a partial response; the others call Set.
Lifetime(r) ==
    IF Family[r.tool] = "searxng" /\ r.partial /\ TTL > DegradedTTL
    THEN DegradedTTL ELSE TTL

\* SetWithMaxTTL reads the clock, and then asks for the lock.
CacheSet(c) ==
    /\ Goto(c, "set", "insert")
    /\ stamp' = [stamp EXCEPT ![c] = clock]
    /\ UNCHANGED <<clock, cache, req, resp, history, age, searches>>

\* Mutant of CacheInsert: the lifetime is counted from a second reading of the clock.
CacheInsertLongLived(c) ==
    /\ Goto(c, "insert", "record")
    /\ cache' = [cache EXCEPT ![KeyOf(req[c])] =
                    [resp |-> resp[c], created |-> stamp[c],
                     expires |-> clock + Lifetime(resp[c])]]
    /\ stamp' = [stamp EXCEPT ![c] = 0]
    /\ UNCHANGED <<clock, req, resp, history, age, searches>>

\* A write later than its own lifetime leaves an entry nobody is served.
CacheInsert(c) ==
    LET expires == stamp[c] + Lifetime(resp[c])
    IN  /\ Goto(c, "insert", "record")
        /\ cache' = [cache EXCEPT ![KeyOf(req[c])] =
                        IF expires > clock
                        THEN [resp |-> resp[c], created |-> stamp[c], expires |-> expires]
                        ELSE NoEntry]
        /\ stamp' = [stamp EXCEPT ![c] = 0]
        /\ UNCHANGED <<clock, req, resp, history, age, searches>>

-----------------------------------------------------------------------------
(* recordSearch, and the reply.                                            *)

\* Mutant of Recordable: the gate looks at the flag of fresh answers only.
RecordableCached(r) ==
    r.query # EmptyQuery /\ (r.cached \/ ~(r.partial /\ r.results = 0))

Recordable(r) == r.query # EmptyQuery /\ ~(r.partial /\ r.results = 0)

RecordSearch(c) ==
    /\ Goto(c, "record", "idle")
    /\ history' = IF Recordable(resp[c]) THEN history \cup {resp[c]} ELSE history
    /\ UNCHANGED <<clock, cache, req, resp, stamp, age, searches>>

\* invalidate_cache, at any time, by anyone, of a key that is there.
InvalidateCache(k) ==
    /\ Served(k)
    /\ cache' = [cache EXCEPT ![k] = NoEntry]
    /\ UNCHANGED <<clock, pc, req, resp, stamp, history, age, searches>>

Step(c) ==
    \/ CacheHit(c) \/ CacheMiss(c) \/ Upstream(c)
    \/ CacheSet(c) \/ CacheInsert(c) \/ RecordSearch(c)

Next ==
    \/ Tick
    \/ \E c \in Callers : Step(c) \/ \E r \in Requests : Ask(c, r)
    \/ \E k \in Key : InvalidateCache(k)

Spec == Init /\ [][Next]_vars

-----------------------------------------------------------------------------
\* The types of the state.
TypeOK ==
    /\ clock \in Nat
    /\ cache \in [Key -> Entry]
    /\ pc \in [Callers -> {"idle", "lookup", "upstream", "set", "insert", "record"}]
    /\ req \in [Callers -> Request]
    /\ resp \in [Callers -> Response]
    /\ stamp \in [Callers -> Nat]
    /\ history \subseteq Response
    /\ age \in [Callers -> Nat]
    /\ searches \in Nat

Smaller(m, n) == IF m < n THEN m ELSE n

\* Every call is answered for the connector and the trimmed query it asked for,
\* and a SearXNG-backed call also for its parameters: no interleaving of lookups,
\* stores and invalidations hands a caller the response to another request.
AnswersTheRequest ==
    \A c \in Callers :
        /\ resp[c].tool = req[c].tool
        /\ resp[c].query.text = req[c].query.text
        /\ Family[req[c].tool] = "searxng" => resp[c].params = req[c].params

\* A degraded SearXNG response is served from the cache for less than 30 seconds,
\* or the configured ttl if that is shorter, whoever stored it and however late
\* the store took effect (docs/configuration.md:81); every other for less than
\* the ttl.
DegradedSoonGone ==
    \A c \in Callers :
        resp[c].cached =>
            /\ age[c] < TTL
            /\ Family[resp[c].tool] = "searxng" /\ resp[c].partial
                  => age[c] < Smaller(TTL, DegradedTTL)

\* A response that a connector other than PyPI made from a failed upstream says so to
\* every caller that gets it, the ones served from the cache included.  PyPI's never
\* do: searchPyPI returns no error (pypi.go:88), although resources.go:89 and 101 and
\* degradation.go:83 speak of every connector.
DegradationVisible ==
    \A c \in Callers :
        resp[c].failed /\ Family[resp[c].tool] # "pypi" => resp[c].partial

\* The history holds no search of a connector other than PyPI that failed with nothing
\* to show, even when the failure reached a second caller through the cache.  Of PyPI
\* it does hold such searches: HistoryHasNoFailures, below, is what tools.go:623 says
\* of all of them, and fails.
HistoryTruthful ==
    \A r \in history :
        r.failed /\ Family[r.tool] # "pypi" => r.results > 0

-----------------------------------------------------------------------------
(* The inductive invariant behind these properties.                        *)

\* Entries answer the requests that have their key.
EntriesAnswer ==
    \A k \in Key :
        Served(k) => /\ cache[k].resp.tool = k.tool
                     /\ cache[k].resp.query.text = k.text
                     /\ Family[k.tool] = "searxng" => cache[k].resp.params = k.params

\* Entries keep the degradation flag, and their lifetime follows it.
EntriesMarked ==
    \A k \in Key :
        LET r == cache[k].resp
        IN  /\ r.failed /\ Family[r.tool] # "pypi" => r.partial
            /\ cache[k].created <= clock
            /\ cache[k].expires <= cache[k].created + Lifetime(r)

StampsPast == \A c \in Callers : stamp[c] <= clock

IndInv ==
    /\ TypeOK
    /\ AnswersTheRequest /\ DegradedSoonGone /\ DegradationVisible /\ HistoryTruthful
    /\ EntriesAnswer /\ EntriesMarked /\ StampsPast

-----------------------------------------------------------------------------
(* The calls use the cache that Cache implements: with the payloads left   *)
(* out, what they do to it are steps of CacheSpec.                         *)

Held == [k \in Key |->
    IF Served(k) THEN [id |-> 1, created |-> cache[k].created, expires |-> cache[k].expires]
    ELSE [id |-> 0, created |-> 0, expires |-> 0]]

\* The calls that the cache has told to ask the upstream.
Missed == {c \in Callers : pc[c] \in {"upstream", "set", "insert"}
                             \/ (pc[c] = "record" /\ ~resp[c].cached)}

Told == [c \in Callers |->
    IF c \in Missed THEN [kind |-> "miss", key |-> KeyOf(req[c])] ELSE [kind |-> "none"]]

Store == INSTANCE CacheSpec WITH Keys <- Key, store <- Held, answer <- Told

\* Whatever calls, invalidations and the clock do at once, every entry is one that a
\* store of the cache can make, is there until it expires or is removed, and the
\* upstream is asked by a call only after a miss that was real.
UsesTheCache == Store!Spec

-----------------------------------------------------------------------------
(* What the documentation says, and the code does not do.                  *)

\* "search_github_pr y search_github_issue leen filters.state": the answer is for
\* the parameters of the request, in every family.
ParamsRespected == \A c \in Callers : resp[c].params = req[c].params

\* "recording it would pollute the audit trail with failed attempts": whatever the
\* connector, no search that failed and found nothing is in the history.
HistoryHasNoFailures == \A r \in history : r.failed => r.results > 0
=============================================================================
