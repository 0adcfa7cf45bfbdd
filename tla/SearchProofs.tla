---------------------------- MODULE SearchProofs ----------------------------
(***************************************************************************)
(* What Search.tla promises, for every set of callers, connectors, texts   *)
(* and parameters, every ttl, and any number of searches.                  *)
(***************************************************************************)
EXTENDS Search, TLAPS

\* The families are the three the module knows.
LEMMA Families == \A t \in Tools : Family[t] \in {"searxng", "rest", "pypi"}
BY SearchAssumption

\* A request of the run is a request, and so is the one nobody made yet.
LEMMA RequestType == Requests \subseteq Request /\ AnyRequest \in Request
<1>1. Requests \subseteq Request
  BY SearchAssumption DEF Request, Query
<1>2. AnyRequest \in Requests
  BY SearchAssumption DEF AnyRequest
<1> QED BY <1>1, <1>2

LEMMA BlankedType ==
  ASSUME NEW r \in Request
  PROVE  /\ Blanked(r) \in Response
         /\ Blanked(r).tool = r.tool
         /\ Blanked(r).query = r.query
         /\ Blanked(r).params = r.params
         /\ Blanked(r).partial = FALSE
         /\ Blanked(r).failed = FALSE
         /\ Blanked(r).cached = FALSE
BY DEF Blanked, Response, Request

LEMMA KeyType ==
  ASSUME NEW r \in Request
  PROVE  /\ KeyOf(r) \in Key
         /\ KeyOf(r).tool = r.tool
         /\ KeyOf(r).text = r.query.text
         /\ Family[r.tool] = "searxng" => KeyOf(r).params = r.params
<1>1. AnyParams \in Params
  BY RequestType, AnyParams \in Params \/ Params = {} DEF AnyParams, Request
<1> QED BY <1>1 DEF KeyOf, Key, Request, Query

LEMMA LifetimeType ==
  ASSUME NEW r
  PROVE  /\ Lifetime(r) \in Nat
         /\ Lifetime(r) <= TTL
         /\ Family[r.tool] = "searxng" /\ r.partial => Lifetime(r) = Smaller(TTL, DegradedTTL)
BY SearchAssumption DEF Lifetime, Smaller

LEMMA NoEntryType == NoEntry \in Entry
BY RequestType, BlankedType DEF NoEntry, Entry

\* What an upstream answer is turned into.
LEMMA FreshType ==
  ASSUME NEW r \in Request, NEW o \in Outcomes(Family[r.tool])
  PROVE  /\ Fresh(r, o) \in Response
         /\ Fresh(r, o).tool = r.tool
         /\ Fresh(r, o).query = r.query
         /\ Fresh(r, o).params = r.params
         /\ Fresh(r, o).cached = FALSE
         /\ Fresh(r, o).failed /\ Family[r.tool] # "pypi" => Fresh(r, o).partial
<1>1. o.results \in {0, 1}
  <2>1. o \in SearxngOutcomes
    BY DEF Outcomes, RestOutcomes, SearxngOutcomes, PyPIOutcomes
  <2> QED BY <2>1 DEF RestOutcomes, SearxngOutcomes
<1>2. (o.err # "none") \in BOOLEAN /\ MarkedPartial(Family[r.tool], o) \in BOOLEAN
  BY DEF MarkedPartial
<1>3. Fresh(r, o) \in Response
  BY <1>1, <1>2 DEF Fresh, Response, Request
<1>4. Fresh(r, o).failed /\ Family[r.tool] # "pypi" => Fresh(r, o).partial
  BY DEF Fresh, MarkedPartial
<1> QED BY <1>3, <1>4 DEF Fresh

\* A hit is its entry's response in all but the cached flag.
LEMMA HitType ==
  ASSUME NEW r \in Response, NEW x, x = [r EXCEPT !.cached = TRUE]
  PROVE  /\ x \in Response
         /\ x.tool = r.tool /\ x.query = r.query /\ x.params = r.params
         /\ x.partial = r.partial /\ x.failed = r.failed /\ x.cached = TRUE
BY DEF Response

LEMMA TypeStep == TypeOK /\ StampsPast /\ EntriesMarked /\ [Next]_vars => TypeOK'
<1> SUFFICES ASSUME TypeOK, StampsPast, EntriesMarked, [Next]_vars PROVE TypeOK'
  OBVIOUS
<1> USE DEF TypeOK
<1>1. CASE Tick
  BY <1>1, NoEntryType DEF Tick
<1>2. ASSUME NEW c \in Callers, NEW r \in Requests, Ask(c, r) PROVE TypeOK'
  <2>1. r \in Request /\ Blanked(r) \in Response
    BY RequestType, BlankedType
  <2> QED BY <1>2, <2>1 DEF Ask, Goto
<1>3. ASSUME NEW c \in Callers, CacheHit(c) PROVE TypeOK'
  <2> DEFINE e == cache[KeyOf(req[c])]
  <2>1. e \in Entry
    BY KeyType
  <2>2. [e.resp EXCEPT !.cached = TRUE] \in Response
    BY <2>1, HitType DEF Entry
  <2>3. e.created \in Nat /\ e.created <= clock
    BY <2>1, KeyType DEF Entry, EntriesMarked
  <2>4. clock - e.created \in Nat
    BY <2>3
  <2> QED BY <1>3, <2>2, <2>4 DEF CacheHit, Goto
<1>4. ASSUME NEW c \in Callers, CacheMiss(c) PROVE TypeOK'
  BY <1>4 DEF CacheMiss, Goto
<1>5. ASSUME NEW c \in Callers, Upstream(c) PROVE TypeOK'
  <2>1. PICK o \in Outcomes(Family[req[c].tool]) : resp' = [resp EXCEPT ![c] = Fresh(req[c], o)]
    BY <1>5 DEF Upstream
  <2>2. Fresh(req[c], o) \in Response
    BY FreshType
  <2> QED BY <1>5, <2>1, <2>2 DEF Upstream, Goto
<1>6. ASSUME NEW c \in Callers, CacheSet(c) PROVE TypeOK'
  BY <1>6 DEF CacheSet, Goto
<1>7. ASSUME NEW c \in Callers, CacheInsert(c) PROVE TypeOK'
  <2> DEFINE expires == stamp[c] + Lifetime(resp[c])
             e == IF expires > clock
                  THEN [resp |-> resp[c], created |-> stamp[c], expires |-> expires]
                  ELSE NoEntry
  <2>1. expires \in Nat
    BY LifetimeType
  <2>2. e \in Entry
    BY <2>1, NoEntryType DEF Entry
  <2>3. cache' = [cache EXCEPT ![KeyOf(req[c])] = e]
    BY <1>7 DEF CacheInsert
  <2> QED BY <1>7, <2>2, <2>3 DEF CacheInsert, Goto
<1>8. ASSUME NEW c \in Callers, RecordSearch(c) PROVE TypeOK'
  BY <1>8 DEF RecordSearch, Goto
<1>9. ASSUME NEW k \in Key, InvalidateCache(k) PROVE TypeOK'
  BY <1>9, NoEntryType DEF InvalidateCache
<1>10. CASE UNCHANGED vars
  BY <1>10 DEF vars
<1> QED BY <1>1, <1>2, <1>3, <1>4, <1>5, <1>6, <1>7, <1>8, <1>9, <1>10 DEF Next, Step

\* The parts of the invariant about which request a response answers.
LEMMA AnswerStep == IndInv /\ [Next]_vars => AnswersTheRequest' /\ EntriesAnswer'
<1> DEFINE Good(r, q) == /\ r.tool = q.tool
                         /\ r.query.text = q.query.text
                         /\ Family[q.tool] = "searxng" => r.params = q.params
<1> SUFFICES ASSUME IndInv, [Next]_vars PROVE AnswersTheRequest' /\ EntriesAnswer'
  OBVIOUS
<1> USE DEF IndInv, TypeOK, AnswersTheRequest, EntriesAnswer
<1>1. CASE Tick
  <2>1. AnswersTheRequest'
    BY <1>1 DEF Tick
  <2>2. ASSUME NEW k \in Key, Served(k)'
        PROVE  cache'[k] = cache[k] /\ Served(k)
    <3>1. cache[k] \in Entry /\ clock' \in Nat /\ clock' = clock + 1
      BY <1>1 DEF Tick
    <3>2. cache'[k] = IF cache[k].expires > clock' THEN cache[k] ELSE NoEntry
      BY <1>1 DEF Tick
    <3>3. cache'[k].expires > clock'
      BY <2>2 DEF Served
    <3>4. cache'[k] = cache[k]
      BY <3>1, <3>2, <3>3 DEF NoEntry
    <3>5. cache[k].expires \in Nat
      BY <3>1 DEF Entry
    <3>6. cache[k].expires > clock
      BY <3>1, <3>3, <3>4, <3>5
    <3> QED BY <3>4, <3>6 DEF Served
  <2> QED BY <2>1, <2>2
<1>2. ASSUME NEW c \in Callers, NEW r \in Requests, Ask(c, r)
      PROVE  AnswersTheRequest' /\ EntriesAnswer'
  <2>1. r \in Request /\ Good(Blanked(r), r)
    BY RequestType, BlankedType
  <2> QED BY <1>2, <2>1 DEF Ask, Served
<1>3. ASSUME NEW c \in Callers, CacheHit(c)
      PROVE  AnswersTheRequest' /\ EntriesAnswer'
  <2> DEFINE k == KeyOf(req[c])
             x == [cache[k].resp EXCEPT !.cached = TRUE]
  <2>1. /\ k \in Key /\ k.tool = req[c].tool /\ k.text = req[c].query.text
        /\ Family[req[c].tool] = "searxng" => k.params = req[c].params
    BY KeyType
  <2>2. cache[k].resp \in Response
    BY <2>1 DEF Entry
  <2>3. x.tool = cache[k].resp.tool /\ x.query = cache[k].resp.query
        /\ x.params = cache[k].resp.params
    BY <2>2, HitType
  <2>4. Good(x, req[c])
    <3>1. Served(k)
      BY <1>3 DEF CacheHit
    <3>2. /\ cache[k].resp.tool = k.tool
          /\ cache[k].resp.query.text = k.text
          /\ Family[k.tool] = "searxng" => cache[k].resp.params = k.params
      BY <2>1, <3>1
    <3> HIDE DEF x, k
    <3> QED BY <2>1, <2>3, <3>2
  <2>5. resp' = [resp EXCEPT ![c] = x] /\ UNCHANGED <<clock, cache, req>>
    BY <1>3 DEF CacheHit
  <2> HIDE DEF x
  <2> QED BY <2>4, <2>5 DEF Served
<1>4. ASSUME NEW c \in Callers, CacheMiss(c)
      PROVE  AnswersTheRequest' /\ EntriesAnswer'
  BY <1>4 DEF CacheMiss, Served
<1>5. ASSUME NEW c \in Callers, Upstream(c)
      PROVE  AnswersTheRequest' /\ EntriesAnswer'
  <2>1. PICK o \in Outcomes(Family[req[c].tool]) : resp' = [resp EXCEPT ![c] = Fresh(req[c], o)]
    BY <1>5 DEF Upstream
  <2>2. Good(Fresh(req[c], o), req[c])
    <3>1. req[c] \in Request
      OBVIOUS
    <3>2. /\ Fresh(req[c], o).tool = req[c].tool
          /\ Fresh(req[c], o).query = req[c].query
          /\ Fresh(req[c], o).params = req[c].params
      BY <3>1, FreshType
    <3> QED BY <3>2
  <2> QED BY <1>5, <2>1, <2>2 DEF Upstream, Served
<1>6. ASSUME NEW c \in Callers, CacheSet(c)
      PROVE  AnswersTheRequest' /\ EntriesAnswer'
  BY <1>6 DEF CacheSet, Served
<1>7. ASSUME NEW c \in Callers, CacheInsert(c)
      PROVE  AnswersTheRequest' /\ EntriesAnswer'
  <2> DEFINE k == KeyOf(req[c])
  <2>1. /\ k \in Key /\ k.tool = req[c].tool /\ k.text = req[c].query.text
        /\ Family[req[c].tool] = "searxng" => k.params = req[c].params
    BY KeyType
  <2>2. cache'[k] = NoEntry \/ cache'[k].resp = resp[c]
    BY <1>7, <2>1 DEF CacheInsert
  <2>3. ~(NoEntry.expires > clock)
    BY DEF NoEntry
  <2>4. cache'[k].expires > clock' => cache'[k].resp = resp[c]
    BY <1>7, <2>2, <2>3 DEF CacheInsert
  <2>5. \A j \in Key : j # k => cache'[j] = cache[j]
    BY <1>7 DEF CacheInsert
  <2>6. AnswersTheRequest'
    BY <1>7 DEF CacheInsert
  <2>7. ASSUME NEW j \in Key, Served(j)'
        PROVE  /\ cache'[j].resp.tool = j.tool
               /\ cache'[j].resp.query.text = j.text
               /\ Family[j.tool] = "searxng" => cache'[j].resp.params = j.params
    <3>1. CASE j = k
      <4>1. cache'[j].resp = resp[c]
        BY <3>1, <2>4, <2>7 DEF Served
      <4>2. Good(resp[c], req[c])
        OBVIOUS
      <4>3. /\ j.tool = req[c].tool /\ j.text = req[c].query.text
            /\ Family[req[c].tool] = "searxng" => j.params = req[c].params
        BY <3>1, <2>1
      <4> QED BY <4>1, <4>2, <4>3
    <3>2. CASE j # k
      BY <3>2, <2>5, <2>7, <1>7 DEF CacheInsert, Served
    <3> QED BY <3>1, <3>2
  <2> QED BY <2>6, <2>7
<1>8. ASSUME NEW c \in Callers, RecordSearch(c)
      PROVE  AnswersTheRequest' /\ EntriesAnswer'
  BY <1>8 DEF RecordSearch, Served
<1>9. ASSUME NEW k \in Key, InvalidateCache(k)
      PROVE  AnswersTheRequest' /\ EntriesAnswer'
  <2>1. ~(NoEntry.expires > clock)
    BY DEF NoEntry
  <2> QED BY <1>9, <2>1 DEF InvalidateCache, Served
<1>10. CASE UNCHANGED vars
  BY <1>10 DEF vars, Served
<1> QED BY <1>1, <1>2, <1>3, <1>4, <1>5, <1>6, <1>7, <1>8, <1>9, <1>10 DEF Next, Step

\* The parts of the invariant about the age of what the cache serves.
LEMMA AgeStep ==
  IndInv /\ [Next]_vars => DegradedSoonGone' /\ EntriesMarked' /\ StampsPast'
<1> DEFINE Marked(e) ==
             /\ e.resp.failed /\ Family[e.resp.tool] # "pypi" => e.resp.partial
             /\ e.expires <= e.created + Lifetime(e.resp)
           Young(r, a) ==
             r.cached =>
               /\ a < TTL
               /\ Family[r.tool] = "searxng" /\ r.partial => a < Smaller(TTL, DegradedTTL)
<1> SUFFICES ASSUME IndInv, [Next]_vars
             PROVE  DegradedSoonGone' /\ EntriesMarked' /\ StampsPast'
  OBVIOUS
<1> USE DEF IndInv, TypeOK
<1>a. Marked(NoEntry) /\ NoEntry.created = 0
  <2>1. AnyRequest \in Request
    BY RequestType
  <2>2. Blanked(AnyRequest).failed = FALSE
    BY <2>1, BlankedType
  <2>3. Lifetime(Blanked(AnyRequest)) \in Nat
    BY LifetimeType
  <2> QED BY <2>2, <2>3 DEF NoEntry
<1>b. \A k \in Key : cache[k] \in Entry /\ Marked(cache[k]) /\ cache[k].created <= clock
  BY DEF EntriesMarked
<1>c. \A c \in Callers : stamp[c] \in Nat /\ stamp[c] <= clock
  BY DEF StampsPast
<1>d. \A c \in Callers : Young(resp[c], age[c])
  BY DEF DegradedSoonGone
<1>e. ASSUME \A k \in Key : Marked(cache'[k]) /\ cache'[k].created <= clock'
      PROVE  EntriesMarked'
  BY <1>e DEF EntriesMarked, Lifetime
<1>f. ASSUME \A c \in Callers : Young(resp'[c], age'[c])
      PROVE  DegradedSoonGone'
  BY <1>f DEF DegradedSoonGone, Smaller
<1>g. ASSUME UNCHANGED <<cache, clock>> PROVE EntriesMarked'
  BY <1>g, <1>b, <1>e
<1>h. ASSUME UNCHANGED <<resp, age>> PROVE DegradedSoonGone'
  BY <1>h, <1>d, <1>f
<1>i. ASSUME UNCHANGED <<stamp, clock>> PROVE StampsPast'
  BY <1>i, <1>c DEF StampsPast
<1> HIDE DEF Marked, Young
<1>1. CASE Tick
  <2>1. clock' = clock + 1 /\ UNCHANGED <<resp, age, stamp>>
    BY <1>1 DEF Tick
  <2>2. \A k \in Key : Marked(cache'[k]) /\ cache'[k].created <= clock'
    <3> SUFFICES ASSUME NEW k \in Key PROVE Marked(cache'[k]) /\ cache'[k].created <= clock'
      OBVIOUS
    <3>1. cache'[k] = cache[k] \/ cache'[k] = NoEntry
      BY <1>1 DEF Tick
    <3>2. cache[k].created \in Nat
      BY <1>b DEF Entry
    <3> QED BY <3>1, <3>2, <2>1, <1>a, <1>b
  <2>3. StampsPast'
    BY <2>1, <1>c DEF StampsPast
  <2> QED BY <2>1, <2>2, <2>3, <1>e, <1>h
<1>2. ASSUME NEW c \in Callers, NEW r \in Requests, Ask(c, r)
      PROVE  DegradedSoonGone' /\ EntriesMarked' /\ StampsPast'
  <2>1. Blanked(r).cached = FALSE
    BY RequestType, BlankedType
  <2>2. \A g \in Callers : Young(resp'[g], age'[g])
    BY <1>2, <1>d, <2>1 DEF Ask, Young
  <2>3. UNCHANGED <<cache, clock, stamp>>
    BY <1>2 DEF Ask
  <2> QED BY <2>2, <2>3, <1>f, <1>g, <1>i
<1>3. ASSUME NEW c \in Callers, CacheHit(c)
      PROVE  DegradedSoonGone' /\ EntriesMarked' /\ StampsPast'
  <2> DEFINE e == cache[KeyOf(req[c])]
             x == [e.resp EXCEPT !.cached = TRUE]
             a == clock - e.created
  <2>1. /\ e \in Entry /\ Marked(e) /\ e.created <= clock
        /\ e.expires > clock
    BY <1>3, <1>b, KeyType DEF CacheHit, Served
  <2>2. x.tool = e.resp.tool /\ x.partial = e.resp.partial
    BY <2>1, HitType DEF Entry
  <2>3. e.created \in Nat /\ e.expires \in Nat /\ e.expires <= e.created + Lifetime(e.resp)
    BY <2>1 DEF Entry, Marked
  <2>4. a < Lifetime(e.resp)
    BY <2>1, <2>3, LifetimeType
  <2>5. TTL \in Nat
    BY SearchAssumption
  <2>6. a \in Nat /\ a < TTL
    BY <2>1, <2>3, <2>4, <2>5, LifetimeType
  <2>7. Family[e.resp.tool] = "searxng" /\ e.resp.partial => a < Smaller(TTL, DegradedTTL)
    BY <2>4, LifetimeType
  <2>8. Young(x, a)
    BY <2>2, <2>6, <2>7 DEF Young
  <2>9. resp' = [resp EXCEPT ![c] = x] /\ age' = [age EXCEPT ![c] = a]
    BY <1>3 DEF CacheHit
  <2>10. \A g \in Callers : Young(resp'[g], age'[g])
    BY <2>8, <2>9, <1>d
  <2>11. UNCHANGED <<cache, clock, stamp>>
    BY <1>3 DEF CacheHit
  <2> QED BY <2>10, <2>11, <1>f, <1>g, <1>i
<1>4. ASSUME NEW c \in Callers, CacheMiss(c)
      PROVE  DegradedSoonGone' /\ EntriesMarked' /\ StampsPast'
  BY <1>4, <1>g, <1>h, <1>i DEF CacheMiss
<1>5. ASSUME NEW c \in Callers, Upstream(c)
      PROVE  DegradedSoonGone' /\ EntriesMarked' /\ StampsPast'
  <2>1. PICK o \in Outcomes(Family[req[c].tool]) : resp' = [resp EXCEPT ![c] = Fresh(req[c], o)]
    BY <1>5 DEF Upstream
  <2>2. Fresh(req[c], o).cached = FALSE
    BY DEF Fresh
  <2>3. UNCHANGED <<cache, clock, stamp, age>>
    BY <1>5 DEF Upstream
  <2>4. \A g \in Callers : Young(resp'[g], age'[g])
    BY <1>d, <2>1, <2>2, <2>3 DEF Young
  <2> QED BY <2>3, <2>4, <1>f, <1>g, <1>i
<1>6. ASSUME NEW c \in Callers, CacheSet(c)
      PROVE  DegradedSoonGone' /\ EntriesMarked' /\ StampsPast'
  <2>1. StampsPast'
    BY <1>6, <1>c DEF CacheSet, StampsPast
  <2> QED BY <1>6, <2>1, <1>g, <1>h DEF CacheSet
<1>7. ASSUME NEW c \in Callers, CacheInsert(c)
      PROVE  DegradedSoonGone' /\ EntriesMarked' /\ StampsPast'
  <2> DEFINE k == KeyOf(req[c])
             e == [resp |-> resp[c], created |-> stamp[c],
                   expires |-> stamp[c] + Lifetime(resp[c])]
  <2>1. Marked(e) /\ e.created <= clock
    <3>1. resp[c].failed /\ Family[resp[c].tool] # "pypi" => resp[c].partial
      BY DEF DegradationVisible
    <3>2. stamp[c] + Lifetime(resp[c]) <= stamp[c] + Lifetime(resp[c])
      BY <1>c, LifetimeType
    <3> QED BY <3>1, <3>2, <1>c DEF Marked
  <2>2. clock' = clock /\ UNCHANGED <<resp, age>>
    BY <1>7 DEF CacheInsert
  <2>3. \A j \in Key : cache'[j] \in {cache[j], e, NoEntry}
    BY <1>7 DEF CacheInsert
  <2>4. NoEntry.created <= clock
    BY <1>a
  <2> HIDE DEF e
  <2>5. \A j \in Key : Marked(cache'[j]) /\ cache'[j].created <= clock'
    BY <2>1, <2>2, <2>3, <2>4, <1>a, <1>b
  <2>6. StampsPast'
    BY <1>7, <1>c DEF CacheInsert, StampsPast
  <2> QED BY <2>2, <2>5, <2>6, <1>e, <1>h
<1>8. ASSUME NEW c \in Callers, RecordSearch(c)
      PROVE  DegradedSoonGone' /\ EntriesMarked' /\ StampsPast'
  BY <1>8, <1>g, <1>h, <1>i DEF RecordSearch
<1>9. ASSUME NEW k \in Key, InvalidateCache(k)
      PROVE  DegradedSoonGone' /\ EntriesMarked' /\ StampsPast'
  <2>1. UNCHANGED <<clock, resp, age, stamp>>
    BY <1>9 DEF InvalidateCache
  <2>2. \A j \in Key : cache'[j] \in {cache[j], NoEntry}
    BY <1>9 DEF InvalidateCache
  <2>3. NoEntry.created <= clock
    BY <1>a
  <2>4. \A j \in Key : Marked(cache'[j]) /\ cache'[j].created <= clock'
    BY <2>1, <2>2, <2>3, <1>a, <1>b
  <2> QED BY <2>1, <2>4, <1>e, <1>h, <1>i
<1>10. CASE UNCHANGED vars
  BY <1>10, <1>g, <1>h, <1>i DEF vars
<1> QED BY <1>1, <1>2, <1>3, <1>4, <1>5, <1>6, <1>7, <1>8, <1>9, <1>10 DEF Next, Step

\* The parts of the invariant about failures that must show.
LEMMA VisibleStep == IndInv /\ [Next]_vars => DegradationVisible' /\ HistoryTruthful'
<1> DEFINE Honest(r) == r.failed /\ Family[r.tool] # "pypi" => r.partial
<1> SUFFICES ASSUME IndInv, [Next]_vars PROVE DegradationVisible' /\ HistoryTruthful'
  OBVIOUS
<1> USE DEF IndInv, TypeOK
<1>a. ASSUME \A c \in Callers : Honest(resp'[c]) PROVE DegradationVisible'
  BY <1>a DEF DegradationVisible
<1>b. \A c \in Callers : Honest(resp[c])
  BY DEF DegradationVisible
<1>c. ASSUME UNCHANGED resp PROVE DegradationVisible'
  BY <1>a, <1>b, <1>c
<1>d. ASSUME UNCHANGED history PROVE HistoryTruthful'
  BY <1>d DEF HistoryTruthful
<1> HIDE DEF Honest
<1>1. CASE Tick
  BY <1>1, <1>c, <1>d DEF Tick
<1>2. ASSUME NEW c \in Callers, NEW r \in Requests, Ask(c, r)
      PROVE  DegradationVisible' /\ HistoryTruthful'
  <2>1. Honest(Blanked(r))
    BY RequestType, BlankedType DEF Honest
  <2>2. \A g \in Callers : Honest(resp'[g])
    BY <1>2, <1>b, <2>1 DEF Ask
  <2> QED BY <1>2, <2>2, <1>a, <1>d DEF Ask
<1>3. ASSUME NEW c \in Callers, CacheHit(c)
      PROVE  DegradationVisible' /\ HistoryTruthful'
  <2> DEFINE e == cache[KeyOf(req[c])]
             x == [e.resp EXCEPT !.cached = TRUE]
  <2>1. e.resp \in Response /\ Honest(e.resp)
    BY KeyType DEF Entry, EntriesMarked, Honest
  <2>2. Honest(x)
    BY <2>1, HitType DEF Honest
  <2>3. resp' = [resp EXCEPT ![c] = x]
    BY <1>3 DEF CacheHit
  <2>4. \A g \in Callers : Honest(resp'[g])
    BY <1>b, <2>2, <2>3
  <2> QED BY <1>3, <2>4, <1>a, <1>d DEF CacheHit
<1>4. ASSUME NEW c \in Callers, CacheMiss(c)
      PROVE  DegradationVisible' /\ HistoryTruthful'
  BY <1>4, <1>c, <1>d DEF CacheMiss
<1>5. ASSUME NEW c \in Callers, Upstream(c)
      PROVE  DegradationVisible' /\ HistoryTruthful'
  <2>1. PICK o \in Outcomes(Family[req[c].tool]) : resp' = [resp EXCEPT ![c] = Fresh(req[c], o)]
    BY <1>5 DEF Upstream
  <2>2. req[c] \in Request
    OBVIOUS
  <2>3. Honest(Fresh(req[c], o))
    BY <2>2, FreshType DEF Honest
  <2>4. \A g \in Callers : Honest(resp'[g])
    BY <1>b, <2>1, <2>3
  <2> QED BY <1>5, <2>4, <1>a, <1>d DEF Upstream
<1>6. ASSUME NEW c \in Callers, CacheSet(c)
      PROVE  DegradationVisible' /\ HistoryTruthful'
  BY <1>6, <1>c, <1>d DEF CacheSet
<1>7. ASSUME NEW c \in Callers, CacheInsert(c)
      PROVE  DegradationVisible' /\ HistoryTruthful'
  BY <1>7, <1>c, <1>d DEF CacheInsert
<1>8. ASSUME NEW c \in Callers, RecordSearch(c)
      PROVE  DegradationVisible' /\ HistoryTruthful'
  <2>1. DegradationVisible'
    BY <1>8, <1>c DEF RecordSearch
  <2>2. resp[c].results \in {0, 1}
    BY DEF Response
  <2>3. ASSUME Recordable(resp[c]), resp[c].failed, Family[resp[c].tool] # "pypi"
        PROVE  resp[c].results > 0
    BY <2>2, <2>3, <1>b DEF Recordable, Honest
  <2>4. history' = history \/ (Recordable(resp[c]) /\ history' = history \cup {resp[c]})
    BY <1>8 DEF RecordSearch
  <2>5. HistoryTruthful'
    BY <2>3, <2>4 DEF HistoryTruthful
  <2> QED BY <2>1, <2>5
<1>9. ASSUME NEW k \in Key, InvalidateCache(k)
      PROVE  DegradationVisible' /\ HistoryTruthful'
  BY <1>9, <1>c, <1>d DEF InvalidateCache
<1>10. CASE UNCHANGED vars
  BY <1>10, <1>c, <1>d DEF vars
<1> QED BY <1>1, <1>2, <1>3, <1>4, <1>5, <1>6, <1>7, <1>8, <1>9, <1>10 DEF Next, Step

LEMMA InitInv == Init => IndInv
<1> SUFFICES ASSUME Init PROVE IndInv
  OBVIOUS
<1> USE DEF Init
<1>1. AnyRequest \in Request /\ Blanked(AnyRequest) \in Response
  BY RequestType, BlankedType
<1>2. TypeOK
  <2> DEFINE q == AnyRequest
             b == Blanked(AnyRequest)
  <2>1. req = [c \in Callers |-> q] /\ resp = [c \in Callers |-> b]
    OBVIOUS
  <2> HIDE DEF q, b
  <2>2. q \in Request /\ b \in Response
    BY <1>1 DEF q, b
  <2> QED BY <2>1, <2>2, NoEntryType DEF TypeOK
<1>3. \A c \in Callers : /\ resp[c].tool = req[c].tool
                         /\ resp[c].query = req[c].query
                         /\ resp[c].params = req[c].params
                         /\ resp[c].failed = FALSE /\ resp[c].cached = FALSE
  <2>1. ASSUME NEW c \in Callers
        PROVE  req[c] = AnyRequest /\ resp[c] = Blanked(AnyRequest)
    OBVIOUS
  <2> QED BY <1>1, <2>1, BlankedType
<1>4. AnswersTheRequest /\ DegradedSoonGone /\ DegradationVisible /\ HistoryTruthful
  BY <1>3 DEF AnswersTheRequest, DegradedSoonGone, DegradationVisible, HistoryTruthful
<1>5. EntriesAnswer
  BY DEF EntriesAnswer, Served, NoEntry
<1>6. EntriesMarked
  <2>1. Blanked(AnyRequest).failed = FALSE /\ Lifetime(Blanked(AnyRequest)) \in Nat
    BY <1>1, BlankedType, LifetimeType
  <2> QED BY <2>1 DEF EntriesMarked, NoEntry
<1>7. StampsPast
  <2> SUFFICES ASSUME NEW c \in Callers PROVE stamp[c] <= clock
    BY DEF StampsPast
  <2>1. stamp[c] = 0 /\ clock = 0
    OBVIOUS
  <2>2. 0 <= 0
    OBVIOUS
  <2> QED BY ONLY <2>1, <2>2
<1> QED BY <1>2, <1>4, <1>5, <1>6, <1>7 DEF IndInv

LEMMA Invariant == Spec => []IndInv
<1>1. IndInv /\ [Next]_vars => IndInv'
  <2> SUFFICES ASSUME IndInv, [Next]_vars PROVE IndInv'
    OBVIOUS
  <2>1. TypeOK'
    BY TypeStep DEF IndInv
  <2> QED BY <2>1, AnswerStep, AgeStep, VisibleStep DEF IndInv
<1> QED BY InitInv, <1>1, PTL DEF Spec

\* The state keeps its types.
THEOREM SearchTypeCorrect == Spec => []TypeOK
BY Invariant, PTL DEF IndInv

\* Every call is answered for what it asked, whatever the other calls and the
\* invalidations do to the cache between its lookup and its store.
THEOREM SearchAnswers == Spec => []AnswersTheRequest
BY Invariant, PTL DEF IndInv

\* No degraded SearXNG response is served longer than the shorter of the cap
\* and the ttl, for every ttl.
THEOREM DegradedExpires == Spec => []DegradedSoonGone
BY Invariant, PTL DEF IndInv

\* A failure of a connector other than PyPI shows in every answer made from it, cached
\* ones included.
THEOREM DegradationShown == Spec => []DegradationVisible
BY Invariant, PTL DEF IndInv

\* The history holds no failed search without results of a connector other than PyPI.
THEOREM HistoryIsTruthful == Spec => []HistoryTruthful
BY Invariant, PTL DEF IndInv

-----------------------------------------------------------------------------
(* The calls are steps of CacheSpec.                                       *)

\* What a call stores it has not read from the cache.
Uncached == \A c \in Callers : pc[c] \in {"set", "insert"} => ~resp[c].cached

LEMMA UncachedInvariant == Spec => []Uncached
<1>1. Init => Uncached
  BY DEF Init, Uncached
<1>2. TypeOK /\ Uncached /\ [Next]_vars => Uncached'
  <2> SUFFICES ASSUME TypeOK, Uncached, [Next]_vars PROVE Uncached'
    OBVIOUS
  <2> USE DEF TypeOK, Uncached
  <2>1. CASE Tick
    BY <2>1 DEF Tick
  <2>2. ASSUME NEW c \in Callers, NEW r \in Requests, Ask(c, r) PROVE Uncached'
    BY <2>2 DEF Ask, Goto
  <2>3. ASSUME NEW c \in Callers, CacheHit(c) PROVE Uncached'
    BY <2>3 DEF CacheHit, Goto
  <2>4. ASSUME NEW c \in Callers, CacheMiss(c) PROVE Uncached'
    BY <2>4 DEF CacheMiss, Goto
  <2>5. ASSUME NEW c \in Callers, Upstream(c) PROVE Uncached'
    <3>1. PICK o \in Outcomes(Family[req[c].tool]) :
            resp' = [resp EXCEPT ![c] = Fresh(req[c], o)]
      BY <2>5 DEF Upstream
    <3>2. ~Fresh(req[c], o).cached
      BY DEF Fresh
    <3> HIDE DEF Fresh
    <3> QED BY <2>5, <3>1, <3>2 DEF Upstream, Goto
  <2>6. ASSUME NEW c \in Callers, CacheSet(c) PROVE Uncached'
    BY <2>6 DEF CacheSet, Goto
  <2>7. ASSUME NEW c \in Callers, CacheInsert(c) PROVE Uncached'
    BY <2>7 DEF CacheInsert, Goto
  <2>8. ASSUME NEW c \in Callers, RecordSearch(c) PROVE Uncached'
    BY <2>8 DEF RecordSearch, Goto
  <2>9. ASSUME NEW k \in Key, InvalidateCache(k) PROVE Uncached'
    BY <2>9 DEF InvalidateCache
  <2>10. CASE UNCHANGED vars
    BY <2>10 DEF vars
  <2> QED BY <2>1, <2>2, <2>3, <2>4, <2>5, <2>6, <2>7, <2>8, <2>9, <2>10 DEF Next, Step
<1> QED BY <1>1, <1>2, SearchTypeCorrect, PTL DEF Spec

\* The answers stay as long as no call starts or stops counting as missed.
LEMMA ToldStays ==
  ASSUME Missed' = Missed, UNCHANGED req
  PROVE  Told' = Told
BY DEF Told, KeyOf

LEMMA HeldStays ==
  ASSUME UNCHANGED <<cache, clock>>
  PROVE  Held' = Held
BY DEF Held, Served

\* Every step of a search is a step of the cache, or none.
LEMMA StoreStep == IndInv /\ Uncached /\ [Next]_vars => [Store!Next]_(Store!vars)
<1> SUFFICES ASSUME IndInv, Uncached, [Next]_vars PROVE [Store!Next]_(Store!vars)
  OBVIOUS
<1>t. TypeOK
  BY DEF IndInv
<1>u. \A c \in Callers : pc[c] \in {"set", "insert"} => resp[c].cached = FALSE
  BY <1>t DEF Uncached, TypeOK, Response
<1>k. \A c \in Callers : KeyOf(req[c]) \in Key
  BY <1>t, KeyType DEF TypeOK
<1>stutter. ASSUME UNCHANGED <<cache, clock, req>>, Missed' = Missed
            PROVE  [Store!Next]_(Store!vars)
  BY <1>stutter, ToldStays, HeldStays DEF Store!vars
<1>1. CASE Tick
  <2>1. Told' = Told
    <3>1. Missed' = Missed
      BY <1>1 DEF Tick, Missed
    <3> QED BY <1>1, <3>1, ToldStays DEF Tick
  <2>2. \A k \in Key : Held'[k] = IF Held[k].expires > clock' THEN Held[k] ELSE Store!Nothing
    <3> SUFFICES ASSUME NEW k \in Key
                 PROVE  Held'[k] = IF Held[k].expires > clock' THEN Held[k] ELSE Store!Nothing
      OBVIOUS
    <3>1. clock \in Nat /\ clock' = clock + 1 /\ cache[k].expires \in Nat
      BY <1>1, <1>t DEF Tick, TypeOK, Entry
    <3>2. cache'[k] = IF cache[k].expires > clock' THEN cache[k] ELSE NoEntry
      BY <1>1 DEF Tick
    <3>3. NoEntry.expires = 0
      BY DEF NoEntry
    <3>4. CASE cache[k].expires > clock'
      BY <3>1, <3>2, <3>4 DEF Held, Served
    <3>5. CASE ~(cache[k].expires > clock')
      <4>1. Held'[k] = Store!Nothing
        BY <3>1, <3>2, <3>3, <3>5 DEF Held, Served, Store!Nothing
      <4>2. ~(Held[k].expires > clock')
        BY <3>1, <3>5 DEF Held
      <4> QED BY <4>1, <4>2
    <3> QED BY <3>4, <3>5
  <2>3. Held' = [k \in Key |-> Held'[k]]
    BY DEF Held
  <2>4. Store!Tick
    BY <1>1, <2>1, <2>2, <2>3 DEF Tick, Store!Tick
  <2> QED BY <2>4 DEF Store!Next
<1>2. ASSUME NEW c \in Callers, NEW r \in Requests, Ask(c, r)
      PROVE  [Store!Next]_(Store!vars)
  <2>1. c \notin Missed /\ c \notin Missed'
    BY <1>2, <1>t DEF Ask, Goto, Missed, TypeOK
  <2>2. Missed' = Missed
    BY <1>2, <2>1, <1>t DEF Ask, Goto, Missed, TypeOK
  <2>3. Told' = Told
    BY <1>2, <2>1, <2>2, <1>t DEF Ask, Told, KeyOf, TypeOK
  <2> QED BY <1>2, <2>3, HeldStays DEF Ask, Store!vars
<1>3. ASSUME NEW c \in Callers, CacheHit(c) PROVE [Store!Next]_(Store!vars)
  <2>1. resp'[c].cached = TRUE /\ \A g \in Callers \ {c} : resp'[g] = resp[g]
    BY <1>3, <1>t, <1>k DEF CacheHit, TypeOK, Entry, Response
  <2>2. Missed' = Missed
    BY <1>3, <2>1, <1>t DEF CacheHit, Goto, Missed, TypeOK
  <2> QED BY <1>3, <2>2, <1>stutter DEF CacheHit
<1>4. ASSUME NEW c \in Callers, CacheMiss(c) PROVE [Store!Next]_(Store!vars)
  <2> DEFINE k == KeyOf(req[c])
  <2>1. k \in Key /\ k \notin Store!Served
    BY <1>4, <1>k DEF CacheMiss, Held, Store!Served, Store!Nothing
  <2>2. Missed' = Missed \cup {c}
    BY <1>4, <1>t DEF CacheMiss, Goto, Missed, TypeOK
  <2>3. Told' = [Told EXCEPT ![c] = Store!Miss(k)]
    BY <1>4, <2>2 DEF CacheMiss, Told, KeyOf, Store!Miss
  <2>4. Held' = Held
    BY <1>4, HeldStays DEF CacheMiss
  <2>5. Store!Lookup(c, k)
    BY <1>4, <2>1, <2>3, <2>4 DEF CacheMiss, Store!Lookup
  <2> QED BY <2>1, <2>5 DEF Store!Next
<1>5. ASSUME NEW c \in Callers, Upstream(c) PROVE [Store!Next]_(Store!vars)
  <2>1. Missed' = Missed
    <3>1. pc[c] = "upstream" /\ pc' = [pc EXCEPT ![c] = "set"]
      BY <1>5 DEF Upstream, Goto
    <3>2. \A g \in Callers \ {c} : resp'[g] = resp[g]
      BY <1>5, <1>t DEF Upstream, TypeOK
    <3> QED BY <3>1, <3>2, <1>t DEF Missed, TypeOK
  <2> QED BY <1>5, <2>1, <1>stutter DEF Upstream
<1>6. ASSUME NEW c \in Callers, CacheSet(c) PROVE [Store!Next]_(Store!vars)
  <2>1. Missed' = Missed
    BY <1>6, <1>t DEF CacheSet, Goto, Missed, TypeOK
  <2> QED BY <1>6, <2>1, <1>stutter DEF CacheSet
<1>7. ASSUME NEW c \in Callers, CacheInsert(c) PROVE [Store!Next]_(Store!vars)
  <2> DEFINE k == KeyOf(req[c])
             expires == stamp[c] + Lifetime(resp[c])
  <2>1. Missed' = Missed
    BY <1>7, <1>t, <1>u DEF CacheInsert, Goto, Missed, TypeOK
  <2>2. Told' = Told
    BY <1>7, <2>1, ToldStays DEF CacheInsert
  <2>3. stamp[c] \in Nat /\ stamp[c] <= clock /\ clock \in Nat
    BY <1>t DEF TypeOK, IndInv, StampsPast
  <2>4. expires \in Nat /\ expires <= stamp[c] + TTL
    BY <2>3, LifetimeType, SearchAssumption
  <2>5. k \in Key /\ clock' = clock
    BY <1>7, <1>k DEF CacheInsert
  <2>6. cache'[k] = IF expires > clock
                    THEN [resp |-> resp[c], created |-> stamp[c], expires |-> expires]
                    ELSE NoEntry
    BY <1>7, <2>5, <1>t DEF CacheInsert, TypeOK
  <2>7. \A j \in Key : j # k => cache'[j] = cache[j]
    BY <1>7, <1>t DEF CacheInsert, TypeOK
  <2> HIDE DEF k, expires
  <2>8. Held' = [Held EXCEPT ![k] = Held'[k]]
    <3>1. \A j \in Key : j # k => Held'[j] = Held[j]
      BY <2>5, <2>7 DEF Held, Served
    <3> QED BY <2>5, <3>1 DEF Held
  <2>9. \/ Held'[k] = Store!Nothing
        \/ /\ Held'[k] \in Store!Entry
           /\ Held'[k].created <= clock
           /\ clock < Held'[k].expires
           /\ Held'[k].expires <= Held'[k].created + TTL
    <3>1. CASE expires > clock
      <4>1. Held'[k] = [id |-> 1, created |-> stamp[c], expires |-> expires]
        BY <2>5, <2>6, <3>1 DEF Held, Served
      <4> QED BY <4>1, <2>3, <2>4, <3>1 DEF Store!Entry
    <3>2. CASE ~(expires > clock)
      <4>1. ~(cache'[k].expires > clock')
        BY <2>3, <2>5, <2>6, <3>2 DEF NoEntry
      <4> QED BY <4>1, <2>5 DEF Held, Served, Store!Nothing
    <3> QED BY <3>1, <3>2
  <2>10. Store!Put(k)
    BY <2>2, <2>5, <2>8, <2>9 DEF Store!Put
  <2> QED BY <2>5, <2>10 DEF Store!Next
<1>8. ASSUME NEW c \in Callers, RecordSearch(c) PROVE [Store!Next]_(Store!vars)
  <2>1. Missed' = Missed \ {c}
    BY <1>8, <1>t DEF RecordSearch, Goto, Missed, TypeOK
  <2>2. Told' = [Told EXCEPT ![c] = Store!NoAnswer]
    BY <1>8, <2>1 DEF RecordSearch, Told, KeyOf, Store!NoAnswer
  <2>3. Store!Ask(c)
    BY <1>8, <2>2, HeldStays DEF RecordSearch, Store!Ask
  <2> QED BY <2>3 DEF Store!Next
<1>9. ASSUME NEW k \in Key, InvalidateCache(k) PROVE [Store!Next]_(Store!vars)
  <2>1. Told' = Told
    <3>1. Missed' = Missed
      BY <1>9 DEF InvalidateCache, Missed
    <3> QED BY <1>9, <3>1, ToldStays DEF InvalidateCache
  <2>2. \A j \in Key : cache'[j] = IF j = k THEN NoEntry ELSE cache[j]
    BY <1>9, <1>t DEF InvalidateCache, TypeOK
  <2>3. clock' = clock /\ clock \in Nat
    BY <1>9, <1>t DEF InvalidateCache, TypeOK
  <2>4. \A j \in Key : Held'[j] = IF j \in {k} THEN Store!Nothing ELSE Held[j]
    BY <2>2, <2>3 DEF Held, Served, NoEntry, Store!Nothing
  <2>5. Held' = [j \in Key |-> Held'[j]]
    BY DEF Held
  <2>6. Store!Remove({k})
    BY <2>1, <2>3, <2>4, <2>5 DEF Store!Remove
  <2> QED BY <2>6 DEF Store!Next
<1>10. CASE UNCHANGED vars
  <2>1. Missed' = Missed
    BY <1>10 DEF vars, Missed
  <2> QED BY <1>10, <2>1, <1>stutter DEF vars
<1> QED BY <1>1, <1>2, <1>3, <1>4, <1>5, <1>6, <1>7, <1>8, <1>9, <1>10 DEF Next, Step

\* Searches and invalidations in any interleaving use the cache the way CacheSpec
\* describes it, for every set of callers and keys and every ttl.
THEOREM SearchUsesCache == Spec => UsesTheCache
<1>1. Init => Store!Init
  BY DEF Init, Store!Init, Held, Told, Missed, Served, NoEntry, Store!Nothing, Store!NoAnswer
<1> QED BY <1>1, Invariant, UncachedInvariant, StoreStep, PTL
     DEF Spec, UsesTheCache, Store!Spec
=============================================================================
