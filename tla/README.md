# SourceRudder in TLA+

SourceRudder is a Go server that offers search and fetch tools to AI clients over MCP, by HTTP or
stdio. This directory specifies its stateful core, checks it with TLC on small instances, and proves
its main invariants with TLAPS for every value of the constants.

`PROJECT.json` is the index: components, runs, the lines of source behind every definition, the
hazards of the code and which property watches over each, findings and theorems.

## The system

| Part | State | Operations | What is hard |
|---|---|---|---|
| Result cache, `internal/cache/cache.go` | a map of entries with expiry times, an `RWMutex` | `Get` (purges lazily), `Set`, `SetWithMaxTTL`, `Delete`, `DeleteIfPresent`, `Clear`, `Keys` | a `Get` gives up the read lock before it takes the write lock; the clock is read before the lock; expired entries linger |
| Search history, `internal/cache/history.go` | a bounded newest-first slice, a mutex | `Append`, `List`, `Len` | which entry is dropped; searches finish in any order |
| Search connectors, `internal/connectors/*.go` | none of their own: each is a cache lookup, an upstream request and a cache store | `Search` | cached degradation, keys that leave parts of the request out, concurrent misses |
| Connector manager, `internal/search/connector_manager.go` | the map of connectors | `Register`, `Search`, `SearchAll` | merging and ranking of several answers |
| Planner and registry, `internal/search` | static tables | `Plan` | the best intent over a map that is walked in any order |
| Fetch engine, `internal/fetch/fetcher.go` | a channel of slots, one `FetchResponse` per fetch | `Fetch`, `FetchAndExtract`, `ExtractStructured`, `ValidateURL`, `CheckLinkStatus` | retries around redirects around a DNS check, one response filled in by all attempts, cancellation |
| Local index, `internal/connectors/local_index*.go` | a corpus read once at startup | `loadLocalIndexCorpus`, `Search` | inspected by name and opened by name, in a directory that someone may change; ties and limits |
| Synthesis, `internal/synthesis` | none | `Summarize`, `CompareSources`, `DeepResearch` | duplicates with different dates, maps walked in any order |
| Extractor, `internal/fetch/extractor.go` | none | `Extract`, `ExtractTables` | a text that every pattern misses; rows and headings of different lengths |
| Normalization, `internal/normalization` | none | the canonical form of an address | none |
| Tool handlers, `internal/mcp/tools.go` | none | one handler per tool, `recordSearch` | the history gate sees cached copies of failures |
| MCP server, `internal/mcp/server.go`, `cmd/sourcerudder` | the HTTP server, its SSE streams, one request per connection | `HandleHTTP`, `Start`, `Stop`, `handleRPCRequest` | graceful shutdown with open streams and calls; a call that outlives its write timeout |
| Stdio transport, `internal/mcp/transport.go` | the line being handled | `Start`, `handleMessage` | batches and notifications; lines that do not fit, a reader that is gone, a signal in the middle |
| Protocol version, `internal/mcp/protocol_version.go` | two static lists | negotiation, the check of the header | a version that was agreed is refused later |
| Auth, `internal/auth/auth.go` | a key | `Middleware` | two headers, and a server without a key |
| Metrics and tracing, `internal/observability` | counters | `Record...` | whether a request that is cut has been counted |

A tool call arrives through a transport and its handler; a search handler asks its connector, which
looks into the shared cache, asks its upstream on a miss, and stores what it built; the handler then
decides whether the search enters the shared history. A fetch tool goes through
`doFetchWithRetries`, which holds one of the shared slots while it works. Calls run on their own
goroutines and meet only in the cache, the history and the slots.

## Modules

| Module | Models |
|---|---|
| `CacheSpec` | what the cache promises: a map whose entries die with the clock, every operation at one instant |
| `Cache` | `cache.Service`: each call cut where another goroutine can get in, the lock, the lazy purges; implements `CacheSpec` |
| `History` | `HistoryService`: finished searches race for the mutex; `Append` and `List` are one step each |
| `Search` | a `search_*` call from its request to its history entry: lookup, upstream, the two halves of a store, `recordSearch`, with `invalidate_cache` at any time; what it does to the cache implements `CacheSpec` |
| `FetchSpec` | what a tool may rely on when it fetches: one verdict for each fetch, given when it returns, after a bounded number of requests sent with a place of its own, and a success only for a fetch that sent one |
| `Fetch` | `doFetchWithRetries` and `manualRedirectFetch`: slots, attempts, backoff, hops, validation, dialling, classification; implements `FetchSpec` |
| `Links` | `CheckLinkStatus`: the pool of workers of a batch, its job channel, its ticker, the shared slots, cancellation |
| `Server` | `Start`, `Stop`, the event streams and tool calls of connections, the shutdown of `net/http` as the code uses it, the signal |
| `Rpc` | the JSON-RPC layer of both transports: messages, versions, error codes, and the ledger of calls asked, run and answered |
| `Http` | extends `Server` and `Rpc`: routes, middleware, version check, decoding, dispatch, the answer or its loss, the count of requests |
| `Stdio` | extends `Rpc` with the loop over lines |
| `Ledger` | what the server promises about a call, over any transport |
| `Mcp` | `main`: one of the two transports; implements `Ledger` |
| `LocalIndex` | `loadLocalIndexCorpus` against the owner of the directory; scoring and ranking |
| `Selection` | selecting from a sequence by index and by key |
| `Planning` | the planner and `SearchAll` |
| `Extract` | the text and the tables of a page |
| `Results` | extends `LocalIndex`, `Planning` and `Extract` with what images, videos, papers, packages, reddit, official docs and synthesis select from a list |
| `SelectionProofs` | what `Selection` returns, for sequences of any length: the lemmas that the other proofs cite |
| `CacheProofs`, `HistoryProofs`, `SearchProofs`, `FetchProofs`, `LinksProofs`, `McpProofs` (with the server's), `ResultsProofs` | the proofs about the components |
| `MC*` | the instances TLC runs |

**Cache.** A goroutine is `idle`, at `want` (waiting for the lock its call needs), `in` the critical
section, or `mid` (it has looked the key up and has not yet acted). `GetExpired` gives up the read
lock and goes back to `want` as a `purge`: this is the gap at `cache.go:49`. `CallSet` reads the
clock and `SetWithMaxTTL` uses that reading later. A payload is the id of its store. The refinement
mapping (`Abs`) shows an entry only until it expires, so that a lingering entry and a purge are
invisible, and the answer of a call at the step that decided it.

**History.** `Finish` is a search that reaches `recordSearch`; `AppendEntry` may follow in any
order. `log` remembers everything appended, and the buffer is compared with it.

**Search.** A connector belongs to one of three families: what is in its cache key, how an upstream
failure is marked, and how long a degraded response is kept. The cache is used through what
`Cache` was shown to do: lookups are atomic, a store carries an earlier reading of the clock, and
expired entries are not seen. That this use is right is shown too: the instance `Store` of
`CacheSpec` leaves the payloads out (`Held`), sees a call as missed from its miss until it is
recorded (`Told`), and `UsesTheCache` says that every step of a search is one of the cache or none.
So the two modules meet at `CacheSpec`, `Cache` from below and `Search` from above. An
`invalidate_cache` of a key that is not served changes nothing and is not a step. `params` stands for every field of a request but its query, `failed`
remembers what the upstream did.

**Fetch.** The variables `status`, `outcome`, `chain` and `attempts` are the fields of one
`FetchResponse`, which no attempt resets. `Classify` lists what a response can be in the order of
the code. The DNS may answer the check and the dial differently. The history variables `answered`,
`requests`, `transients` and `misjudged` record what the response does not. The instance
`Abs` of `FetchSpec` hides attempts, hops, lookups and backoffs: the verdict of a fetch that is
running is not shown (the response holds those of its attempts), and an error is one that has been
returned.

**Links.** Each batch has its workers (as many as it has URLs, up to a limit), the next job to hand
out and the array of results, which workers write without a lock. A verdict is what one check found
or why none was made. `Return` needs every worker to have left, as `wg.Wait` does. `Tick` and
`ContextDone` belong to the ticker and to the client.

**Server.** A connection is fresh, idle between requests, streaming, or in a tool call that may be in
a backoff. The channel that ends the streams has the three states of the code (not made, open,
closed), and `panicked` says that it was closed twice; `Stop` and the hook that `Start` registers close it
concurrently.

**Rpc, Http, Stdio, Mcp.** A call is a request with its place: who sent it, in which turn, at which
position of a batch. It is in `asked` when it arrives, in `ran` when its tool has been started, in
`told` when an answer has been written that its sender can read. Sets do not see a repeat, so `runs`
and `given` count the tools started and the answers given: to start a call again would be no step of
`Ledger`, which lets `runs` grow with `ran` only. Every step of `Http` is a step of
`Server` (a request is what one connection of `Server` is busy with) or adds to that request. `late`
holds the connections that are past `httpWriteTimeout`: the tool goes on, its answer is lost, and
`lost` remembers its call, as it does those whose client had gone. `recorded` says of each request
counted whether it had been counted before.
`Stdio` handles the requests of one line one after the other and writes what they want together;
the process may be killed between any two steps, since main handles no signal in this mode. Whether
a call may run (`Entitled`) is stated for the ledger from what the client sent, and the handlers
decide it by the code's own sequence of checks. A model of both transports at once is not needed:
main runs one.

**LocalIndex, Results.** A file is an inode with a kind and a content; the configured name leads to
one of them, and the owner may change both while main loads. Selections are pure: `answer` holds the
last call and what it returned, and the properties say independently what a right answer is. What
the code finds out by parsing an address or matching words is given by functions and fields. Sorts
that are not stable and loops over maps are sets of outcomes. A page is the lengths of what the
patterns of the extractor capture; a query, to the planner, is how many keywords of each intent it
contains.

## Runs

| Run | Instance | Shows |
|---|---|---|
| `cache` | 2 goroutines, 2 keys, ttl 2 and a cap of 1, 2 stores, clock to 2 | what was read is still there when acted on; one observer per removal; a miss means gone; `Refinement`; every call returns |
| `history` | buffer of 2, several appends | `BufferIsNewest` (newest kept, newest first), `List` exact |
| `search` | 2 callers, one connector per family, 3 searches, ttl 2, degraded ttl 1 | answers match requests; degraded entries of SearXNG die early; a failure stays marked and, if it found nothing, out of the history, PyPI's excepted; `UsesTheCache`: every store and removal is one the cache allows, and the upstream is asked after a real miss |
| `search_params` | as `search`, one caller, 2 searches | finding: state filters are not in the key |
| `search_history` | as `search_params` | finding: failed PyPI searches enter the history |
| `fetch` | 2 fetches, 1 slot; one of them meets every class of answer and of lookup, the other a success and a transient failure; 2 attempts, 2 redirects | bounded work, the outcome that goes with the error and with the last attempt, retries need a transient failure, slots never leak, every fetch returns; `Refinement`: to a tool it is `FetchSpec` |
| `fetch_transient` | one fetch, as in `fetch` | finding: a stale status decides a retry |
| `fetch_5xx` | as `fetch_transient` | finding: a 500 is not a transient failure |
| `links` | 2 batches with workers, 2 shared slots | results complete and in order, never written after the return, a cancelled batch drains |
| `server_backoff` | 2 connections, 2 attempts | finding: a signal does not end a backoff |
| `mcp` | over HTTP, 2 clients: one sends any of 12 requests (right, wrong and no key, either header, versions, a tool, a notification, a body that does not decode, every route), one sends 2 of 4 that negotiate, speak a version, stream and notify, with a signal at any time; over stdio, 2 of 9 lines | both transports implement `Ledger`; answers in order and shaped like their line; one line of work lost at most; nothing is served without the key; an agreed version is accepted; a clean stop has answered and counted every request; the channel of the streams is closed once, and `Stop` needs no deadline; `RequestsSettle`: every call, and every line, is done with |
| `results` | 3 files (one a link), 4 contents, 1 change; lists and pages of up to 3 items that repeat or outdo one another, 3 limits; 3 connectors, each failing or answering; 3 intents with 0 to 2 keywords; tables of 2 rows of 2 cells | the corpus is the inspected file; each selection against its reference definition, as parts of four properties: `ListsAreSound` (pictures, videos, posts, papers, packages), `SynthesisIsSound`, `MapOrderIsHarmless` (plans, themes and merges over maps in any order) and `ExtractionKeepsText` |

The bounds are chosen so that the second of everything exists: a second goroutine between the two
halves of a call, a second store over the first, a second attempt after a first that left its fields
behind, a clock that passes an expiry in the middle of a call, a second connection whose stream opens
while the first one's call holds up the shutdown. The exceptions are lists of three items, which hold a duplicate, a better item and an intruder at once. Limits that the code
sets at 5, 10, 50 or 100 are 1 to 3 here, so that lists exceed them.

`search`, `links`, `results`, `mcp` and `server_backoff` do not check deadlock: there everything
ends, when the last search is recorded and what it stored is gone, when all batches have returned,
when one answer has been given, when main has returned.

Except for `McpTypeOK` the runs check no types: `TypeOK` of `Cache`, `History`, `Search`, `Fetch`,
`Links`, `Server` and `LocalIndex` is proved.

Fairness: in `Cache`, a goroutine that holds the lock goes on (weak fairness), and a lock that is
free again and again is granted (strong fairness: Go's `RWMutex` blocks new readers once a writer
waits, and lets the waiting readers in when the writer leaves). In `Fetch`, steps of a fetch happen
because every request has the client's timeout and every timer fires; a slot is granted in order of
arrival, so an `AcquireSlot` that is enabled again and again happens. In `Links` only workers and
`Return` are fair: nothing is assumed of ticks or of slots held elsewhere, since the drain must not
wait for them. In `Mcp` (`McpFairSpec`) main goes on, the handler of a
connection and the loop that has a line go on, because a tool returns and a ping is written or fails
(the connection has a write deadline); the select of a stream that has both a ping and the end of
streams to choose from takes the end sooner or later (strong fairness: Go chooses at random). Nothing
says that a client sends, reads or leaves, that a signal comes, or that the ten seconds of `Stop`
pass, so `Stops` may not rest on them.

## Proofs

The theorems hold for any sets of goroutines, keys, connectors and requests, lists and corpora of any
length and any bounds. Every safety property that a passing run checks, invariant, action property or
refinement, is also a theorem.

`CacheProofs` proves the invariants of the `cache` run and the refinement. The strengthening
`IndInv` adds that ids of stores are never reused (`EntryIds`, `DistinctIds`, `TakenIds`), that the
clock readings in flight are in the past (`NowInv`) and that a purge in flight concerns a miss that
was read before (`MissInv`): without the last two, neither the purge nor the late store would map
to a stutter or a `Put`.

`HistoryProofs` proves that the buffer is the end of the log, in the order of its timestamps
(`Stamped`, no stamp is ahead of the clock, makes that inductive), and from it the action property
`ListIsExact`: the indices of the buffer that match are, mirrored, the retained places of the log that
match (`MatchesAreRetained`), the n-th newest of these is the n-th match (`NthNewestIs`, by counting),
and the limit cuts both at the same place.

`SearchProofs` uses `EntriesAnswer` and `EntriesMarked`: a response is only as good as the entry it
came from, so the property of responses must hold of entries too. `SearchUsesCache` proves that the
searches implement `CacheSpec`; it rests on `EntriesMarked` and `StampsPast` (no entry outlives the
ttl, none is from the future) and on `Uncached` (what is stored was not read from the cache).

`LinksProofs` needs `JobInv` and `NoJobLost` (a job handed out is held by a worker
or its result is there), `RecordInv` (what is recorded is at its own index) and `StageInv` (who is
still there when the call has returned): no one of them is inductive without the others.

`FetchProofs` proves every safety property of the `fetch` run, and that `Fetch` implements
`FetchSpec`. `CountInv` bounds the requests sent by the
attempts before this one and the hops of this one, wherever the fetch is; `VerdictInv` says which
outcome goes with which error at the end of an attempt, and which fields are still those of an
earlier one, which `OutcomeIsReal` needs: an outcome set by an attempt is judged or replaced by the
next, and only a transient status outlives the attempt that met it; `TransientInv` says that a transient status in the response belongs to this
attempt or to one that was counted as transient, so that even the stale status of the finding
`fetch_transient` cannot earn a retry without a transient failure;
`SlotCount` is needed because slots are a set and the channel a number. The refinement needs
`SuccessSent` besides: a success is reported only by a fetch that has sent a request.

`McpProofs` begins with `Server` alone, which rests on `OnceGuards`, which says at which stages of
`Stop` and of the hook the channel can be open, and on `BackoffCounted`. Then every step of `Http` is
a step of `Server` or leaves it alone, so that these invariants carry over; `AskedInv` and `LineInv`
say that calls are new when they arrive, `RanInv` and `BusyInv` tie what ran to the one request of its
connection or to the line being handled, and `CountInv` what is recorded to what has ended. `SettleInv`
says that a call that wants an answer and has none is lost or is the one its connection is busy with,
so that none is left when `Shutdown` returns (`CleanStopHasAnswered`). From these, each step of either transport is a step of `Ledger` or a stutter. Last, `AnswersComeInOrder`:
at every step, what is written, answered and still to be answered remains what the lines read want
(`OrderStep`); a message that wants an answer moves from the front of `todo` to the end of `replies`
(`WantedTail`, `AnsweredAppend`), one that wants none leaves `todo` and changes nothing, and a written
line leaves what is owed for what is on paper (`WrittenAppend`, `StdioShapes`).

`ResultsProofs` follows a file: inspected and vouched for, then opened and the same, then read
(`Followed`). The rest are facts about the answer that a call computes, and the proofs follow the
code's own order of selection:

- `SelectionsAreSound`: what a loop keeps is a list of indices in increasing order; a stable sort
  carries that order over to the ranks, and dropping repetitions keeps the first of each key
  (`ListsFirst`), so the place of an item in the answer is the number of items before it
  (`BestPlaces`, `FirstOfEach`).
- `DocsComeFromOfficialHosts`, `ExtractionIsComplete`: filters and nested loops, the latter through
  `FlattenPlaces` (every cell of the answer comes from one place of the page).
- `MapOrderDoesNoHarm` is proved for every order of the map: the best intent so far leads all those
  met (`Leads`); the merge of all responses finds what each found, once (`KeptOnce`); an
  item goes to one theme, and sorting the themes moves no item (`PlacesIn`, `AsManyPlaces`).
- `SynthesisTellsTheTruth`: the sources are the first items of each address but are compared with
  every date (`ComparedSources`); a word occurs at least as often as there
  are titles that name it (`NamingOccurs`), so the code, which counts occurrences, never says "none"
  of a word in half of the titles, and what it says when it agrees occurs somewhere
  (`ConsensusFacts`); key findings by their phrases (`Findings`).
- `LocalIndexRanks`: whichever order the sort leaves equals in, what is cut is not before what stays.
  It needs that the corpus has distinct ids (`Followed`) and that no document is served without a
  corpus (`Served`).

`SelectionProofs` is where these meet. The library's induction theorems take an operator as a
parameter, which no installed prover instantiates; here a loop is proved about by induction on a set
of numbers (`InductionOnSet`, from the well-foundedness of `<`), as the function that gives its state
after each element (`LoopExists`). `Selection` numbers the elements of a set by counting those before them, and
not by recursion, so that the order of a selection follows from cardinalities (`RankedFacts`).

The assumptions are the named `ASSUME`s of the modules: types and orders of the constants, that the
standard input is not a client of the HTTP server (`McpAssumption`), that a message that is one has
one request (`HttpAssumption`, `StdioAssumption`).

Only model-checked: liveness, which is beyond the prover (`CallReturns`, `FetchReturns`, `Stops`,
`CancelDrains`, `RequestsSettle`), and the five findings, which are counterexamples.

## Findings

- `search_params`: PR and issue searches that differ in `filters.state` share a cached answer.
- `search_history`: `searchPyPI` returns no error when its requests fail, so the response is not
  marked, and a failed search enters the history as an empty one; `tools.go:626` would keep it out.
  (The properties `DegradationVisible` and `HistoryTruthful` of the `search` run therefore except PyPI;
  `resources.go:101` and `degradation.go:83` do not.)
- `fetch_5xx`: the comment at `fetcher.go:9` says that a 5xx outside 502 to 504 counts as transient
  and may be retried; the code ends with `http-error`, as `resources.go:201` says.
- `fetch_transient`: a response keeps the status of an earlier attempt, which then decides whether
  an error is retried.
- `server_backoff`: a comment promises that SIGTERM ends a backoff at once; no request context is
  cancelled by it.

Read while modelling, and not the subject of a run:

- `compare_sources` lists the first item of each address but compares dates with all items, so that
  no source may be the most recent one; `deep_research` keeps the last item of each address.
- The consensus of `findConsensusAndDivergences` counts a word repeated within one title as often as
  it occurs, and halves the number of results by integer division.
- `RedirectChain` starts with the first URL; a 3xx answer without `Location` ends as a redirect
  limit; a cached answer repeats the query as its first caller wrote it.
- The 200 ms between link checks hold between the starts of the checks of one batch, not for retries,
  redirects or several batches.
- A resource that does not exist is answered with -32602 (`server.go:667`); the comment at
  `resources.go:273` speaks of -32002.
- A plan's `maxResults` and its `timeRange` of a week for news are computed (`planner.go:133`) and
  read by no handler (`tools.go:101`).
- A table's headings are all its `th` cells, wherever they stand; of equal headings the last cell of a
  row wins (`extractor.go:251`), and text outside the area that the extractor picks is left out.
- Two callers who miss on one key both store, and a store may follow an `invalidate_cache`: a degraded
  response may replace a complete one or bring an entry back. No document excludes it.
- `LocalIndex` drops the error of a cancelled context (`local_index.go:48`); a `Location` that does
  not parse fails inside `http.Client.Do`, which `Fetch` sees as a request without a response.
- `SearchAll` is called by no tool.
- `OPTIONS` passes the authentication like everything else, so that a preflight without a key is
  answered with 401.

## Not modelled

Parsing of upstream bodies. In the extractor, the titles, the metadata, and the article and
documentation modes, which are one pattern after another; in normalization, the conversion of an
address to its canonical form, which is a given function. `search/registry.go`, which nothing
creates. The text of resources and schemas, the wording of summaries and the scores of synthesis.
All metrics but the count of requests: they are read by a scrape only. The health check, one request
of a process of its own. Time: the models order events and count attempts, and a bound in seconds is
stated nowhere; so the pace of link checks has a place (`Tick`) and no property. Scripts, deployment
and documentation.

## Plan

In this order:

1. Official docs over `Search`: the scoped search and the fallback share the cache of the web
   connector; their keys must keep them apart, and a degraded scoped answer must not become one
   that claims the registry.
2. `Links` over `FetchSpec`: the workers of a batch are fetchers, and share the slots with the
   fetches of other tools.
3. The article and documentation modes of the extractor, once their patterns have a place in
   `Extract`.
4. Proofs for what these add: that the scoped search and the fallback keep apart in the cache carries
   over through `SearchUsesCache`, and the slots of `Links` through `FetchImplements`.
