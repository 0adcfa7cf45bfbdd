----------------------------- MODULE CacheSpec -----------------------------
(***************************************************************************)
(* What internal/cache promises the rest of SourceRudder: a map whose      *)
(* entries die with the clock, on which every operation takes effect at    *)
(* one instant.  There are no locks, no lingering entries and no purges    *)
(* here.  Cache.tla is shown to implement this module.                     *)
(***************************************************************************)
EXTENDS Naturals

CONSTANTS
    Callers,        \* the goroutines that call the cache
    Keys,           \* cache keys
    TTL             \* the configured lifetime of an entry, in clock units

VARIABLES
    clock,          \* the time every caller reads
    store,          \* the entry each key can be served from, or Nothing
    answer          \* the answer to the last call of each caller

vars == <<clock, store, answer>>

Entry == [id : Nat, created : Nat, expires : Nat]

\* No entry: ids of stored entries start at 1.
Nothing == [id |-> 0, created |-> 0, expires |-> 0]

NoAnswer   == [kind |-> "none"]
Hit(k, e)  == [kind |-> "hit", key |-> k, entry |-> e]
Miss(k)    == [kind |-> "miss", key |-> k]
Taken(k)   == [kind |-> "taken", key |-> k]
Absent(k)  == [kind |-> "absent", key |-> k]
Listed(ks) == [kind |-> "listed", keys |-> ks]

Served == {k \in Keys : store[k] # Nothing}

-----------------------------------------------------------------------------
Init ==
    /\ clock = 0
    /\ store = [k \in Keys |-> Nothing]
    /\ answer = [c \in Callers |-> NoAnswer]

\* An entry is served until the instant it expires, and then it is gone.
Tick ==
    /\ clock' = clock + 1
    /\ store' = [k \in Keys |->
                    IF store[k].expires > clock' THEN store[k] ELSE Nothing]
    /\ UNCHANGED answer

\* A new call forgets the answer to the previous one.
Ask(c) ==
    /\ answer' = [answer EXCEPT ![c] = NoAnswer]
    /\ UNCHANGED <<clock, store>>

\* A write may be late: the entry can carry an earlier creation time, and a
\* write later than its own lifetime leaves the key without an entry.
Put(k) ==
    LET e == store'[k]
    IN  /\ store' = [store EXCEPT ![k] = e]
        /\ \/ e = Nothing
           \/ /\ e \in Entry
              /\ e.created <= clock
              /\ clock < e.expires
              /\ e.expires <= e.created + TTL
        /\ UNCHANGED <<clock, answer>>

\* A lookup is answered with the entry of the key, or with a miss.
Lookup(c, k) ==
    /\ answer' = [answer EXCEPT ![c] =
                    IF k \in Served THEN Hit(k, store[k]) ELSE Miss(k)]
    /\ UNCHANGED <<clock, store>>

\* A check-and-delete may also report an entry that has already died.
Take(c, k) ==
    /\ \/ answer' = [answer EXCEPT ![c] = Taken(k)]
       \/ k \notin Served /\ answer' = [answer EXCEPT ![c] = Absent(k)]
    /\ store' = [store EXCEPT ![k] = Nothing]
    /\ UNCHANGED clock

Remove(ks) ==
    /\ store' = [k \in Keys |-> IF k \in ks THEN Nothing ELSE store[k]]
    /\ UNCHANGED <<clock, answer>>

List(c) ==
    /\ answer' = [answer EXCEPT ![c] = Listed(Served)]
    /\ UNCHANGED <<clock, store>>

Next ==
    \/ Tick
    \/ \E k \in Keys : Put(k) \/ Remove({k})
    \/ \E c \in Callers, k \in Keys : Lookup(c, k) \/ Take(c, k)
    \/ Remove(Keys)
    \/ \E c \in Callers : Ask(c) \/ List(c)

Spec == Init /\ [][Next]_vars
=============================================================================
