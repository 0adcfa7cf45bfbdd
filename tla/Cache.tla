------------------------------- MODULE Cache -------------------------------
(***************************************************************************)
(* cache.Service of internal/cache/cache.go: a map guarded by a            *)
(* sync.RWMutex, called by any number of goroutines.  Each call is cut at  *)
(* the points where another goroutine can get in between: before it has    *)
(* the lock, and inside a critical section between reading the map and     *)
(* acting on what was read.  The clock advances between any two steps.     *)
(*                                                                         *)
(* A payload is abstracted to the id of its entry, the position of its     *)
(* store among all the stores.                                             *)
(***************************************************************************)
EXTENDS Integers

CONSTANTS
    Goroutines,     \* the request handlers using the cache
    Keys,           \* cache keys
    TTL,            \* the configured ttl
    Caps,           \* the maxTTL arguments; 0 leaves the ttl unchanged
    NoOne,          \* the writer of an unlocked mutex
    MaxClock,       \* bound: the clock stops here
    MaxStores       \* bound: no Set begins once this many have stored

ASSUME CacheAssumption ==
    /\ Keys # {}
    /\ TTL \in Nat
    /\ Caps \subseteq Nat
    /\ NoOne \notin Goroutines
    /\ MaxClock \in Nat
    /\ MaxStores \in Nat

VARIABLES
    clock,          \* time.Now()
    entries,        \* Service.entries
    readers,        \* goroutines holding mu for reading
    writer,         \* the goroutine holding mu for writing, or NoOne
    pc,             \* where each goroutine is in its call
    op,             \* the call each goroutine is making, and its arguments
    held,           \* the entry each goroutine has looked up
    reply,          \* what the last call of each goroutine returned
    stores,         \* history: how many stores have taken effect
    taken,          \* history: the ids a DeleteIfPresent has reported
    missedAt        \* history: the value of stores when a miss was read

vars == <<clock, entries, readers, writer, pc, op, held, reply, stores, taken, missedAt>>

Entry == [id : Nat, created : Nat, expires : Nat]

\* A key that is not in the map.
NoEntry == [id |-> 0, created |-> 0, expires |-> 0]

Present == {k \in Keys : entries[k].id # 0}

\* "get" runs under the read lock; "purge" is the second half of a Get that
\* found its entry expired.
Kinds == {"none", "get", "purge", "set", "delete", "deleteIfPresent", "clear", "keys"}

Op == [kind : Kinds, key : Keys, now : Nat, cap : Nat]

AnyKey == CHOOSE k \in Keys : TRUE

NoOp == [kind |-> "none", key |-> AnyKey, now |-> 0, cap |-> 0]

NoReply    == [kind |-> "none"]
Hit(k, e)  == [kind |-> "hit", key |-> k, entry |-> e]
Miss(k)    == [kind |-> "miss", key |-> k]
Taken(k)   == [kind |-> "taken", key |-> k]
Absent(k)  == [kind |-> "absent", key |-> k]
Listed(ks) == [kind |-> "listed", keys |-> ks]

-----------------------------------------------------------------------------
Init ==
    /\ clock = 0
    /\ entries = [k \in Keys |-> NoEntry]
    /\ readers = {}
    /\ writer = NoOne
    /\ pc = [g \in Goroutines |-> "idle"]
    /\ op = [g \in Goroutines |-> NoOp]
    /\ held = [g \in Goroutines |-> NoEntry]
    /\ reply = [g \in Goroutines |-> NoReply]
    /\ stores = 0
    /\ taken = {}
    /\ missedAt = [g \in Goroutines |-> 0]

Tick ==
    /\ clock < MaxClock
    /\ clock' = clock + 1
    /\ UNCHANGED <<entries, readers, writer, pc, op, held, reply, stores, taken, missedAt>>

-----------------------------------------------------------------------------
(* Entering a call, and its lock.                                          *)

Enter(g, o) ==
    /\ pc[g] = "idle"
    /\ pc' = [pc EXCEPT ![g] = "want"]
    /\ op' = [op EXCEPT ![g] = o]
    /\ reply' = [reply EXCEPT ![g] = NoReply]
    /\ missedAt' = [missedAt EXCEPT ![g] = 0]
    /\ UNCHANGED <<clock, entries, readers, writer, held, stores, taken>>

\* SetWithMaxTTL reads the clock before it has the lock.
CallSet(g, k, cap) ==
    /\ stores < MaxStores
    /\ Enter(g, [NoOp EXCEPT !.kind = "set", !.key = k, !.now = clock, !.cap = cap])

Call(g, kind, k) == Enter(g, [NoOp EXCEPT !.kind = kind, !.key = k])

ReadLock(g) ==
    /\ pc[g] = "want"
    /\ op[g].kind = "get"
    /\ writer = NoOne
    /\ readers' = readers \cup {g}
    /\ pc' = [pc EXCEPT ![g] = "in"]
    /\ UNCHANGED <<clock, entries, writer, op, held, reply, stores, taken, missedAt>>

\* Mutant of WriteLock: a writer is let in while readers are inside.
WriteLockPastReaders(g) ==
    /\ pc[g] = "want"
    /\ op[g].kind # "get"
    /\ writer = NoOne
    /\ writer' = g
    /\ pc' = [pc EXCEPT ![g] = "in"]
    /\ UNCHANGED <<clock, entries, readers, op, held, reply, stores, taken, missedAt>>

\* Mutant of WriteLock: no mutual exclusion between writers.
WriteLockPastWriter(g) ==
    /\ pc[g] = "want"
    /\ op[g].kind # "get"
    /\ readers = {}
    /\ writer' = g
    /\ pc' = [pc EXCEPT ![g] = "in"]
    /\ UNCHANGED <<clock, entries, readers, op, held, reply, stores, taken, missedAt>>

WriteLock(g) ==
    /\ pc[g] = "want"
    /\ op[g].kind # "get"
    /\ writer = NoOne
    /\ readers = {}
    /\ writer' = g
    /\ pc' = [pc EXCEPT ![g] = "in"]
    /\ UNCHANGED <<clock, entries, readers, op, held, reply, stores, taken, missedAt>>

\* The last statement of a critical section: unlock and return.
Return(g) ==
    /\ readers' = readers \ {g}
    /\ writer' = IF writer = g THEN NoOne ELSE writer
    /\ pc' = [pc EXCEPT ![g] = "idle"]
    /\ op' = [op EXCEPT ![g] = NoOp]
    /\ held' = [held EXCEPT ![g] = NoEntry]

At(g, label, kind) == pc[g] = label /\ op[g].kind = kind

-----------------------------------------------------------------------------
(* Get, under the read lock: the lookup, then the comparison with the      *)
(* clock.                                                                  *)

GetAbsent(g) ==
    /\ At(g, "in", "get")
    /\ op[g].key \notin Present
    /\ reply' = [reply EXCEPT ![g] = Miss(op[g].key)]
    /\ missedAt' = [missedAt EXCEPT ![g] = stores]
    /\ Return(g)
    /\ UNCHANGED <<clock, entries, stores, taken>>

GetFound(g) ==
    /\ At(g, "in", "get")
    /\ op[g].key \in Present
    /\ held' = [held EXCEPT ![g] = entries[op[g].key]]
    /\ pc' = [pc EXCEPT ![g] = "mid"]
    /\ UNCHANGED <<clock, entries, readers, writer, op, reply, stores, taken, missedAt>>

\* Mutant of GetHit: an entry is still served at the instant it expires.
GetHitLate(g) ==
    /\ At(g, "mid", "get")
    /\ clock <= held[g].expires
    /\ reply' = [reply EXCEPT ![g] = Hit(op[g].key, held[g])]
    /\ Return(g)
    /\ UNCHANGED <<clock, entries, stores, taken, missedAt>>

GetHit(g) ==
    /\ At(g, "mid", "get")
    /\ clock < held[g].expires
    /\ reply' = [reply EXCEPT ![g] = Hit(op[g].key, held[g])]
    /\ Return(g)
    /\ UNCHANGED <<clock, entries, stores, taken, missedAt>>

\* Mutant of GetExpired: the lookup is tried again, and nothing is purged.
GetExpiredRetry(g) ==
    /\ At(g, "mid", "get")
    /\ clock >= held[g].expires
    /\ readers' = readers \ {g}
    /\ pc' = [pc EXCEPT ![g] = "want"]
    /\ held' = [held EXCEPT ![g] = NoEntry]
    /\ UNCHANGED <<clock, entries, writer, op, reply, stores, taken, missedAt>>

\* An expired entry: drop the read lock, and ask for the write lock.
GetExpired(g) ==
    /\ At(g, "mid", "get")
    /\ clock >= held[g].expires
    /\ reply' = [reply EXCEPT ![g] = Miss(op[g].key)]
    /\ missedAt' = [missedAt EXCEPT ![g] = stores]
    /\ readers' = readers \ {g}
    /\ pc' = [pc EXCEPT ![g] = "want"]
    /\ op' = [op EXCEPT ![g] = [NoOp EXCEPT !.kind = "purge", !.key = op[g].key]]
    /\ held' = [held EXCEPT ![g] = NoEntry]
    /\ UNCHANGED <<clock, entries, writer, stores, taken>>

\* deleteExpiredLocked: what is left of the map at a given time.
Unexpired(now) ==
    [k \in Keys |-> IF entries[k].expires <= now THEN NoEntry ELSE entries[k]]

\* Mutant of GetPurge: the miss is answered, and the dead entries are left.
GetPurgeNothing(g) ==
    /\ At(g, "in", "purge")
    /\ Return(g)
    /\ UNCHANGED <<clock, entries, reply, stores, taken, missedAt>>

GetPurge(g) ==
    /\ At(g, "in", "purge")
    /\ entries' = Unexpired(clock)
    /\ Return(g)
    /\ UNCHANGED <<clock, reply, stores, taken, missedAt>>

-----------------------------------------------------------------------------
(* The operations under the write lock.                                    *)

Lifetime(cap) == IF cap > 0 /\ TTL > cap THEN cap ELSE TTL

SetWithMaxTTL(g) ==
    /\ At(g, "in", "set")
    /\ entries' = [Unexpired(op[g].now) EXCEPT ![op[g].key] =
                      [id      |-> stores + 1,
                       created |-> op[g].now,
                       expires |-> op[g].now + Lifetime(op[g].cap)]]
    /\ stores' = stores + 1
    /\ Return(g)
    /\ UNCHANGED <<clock, reply, taken, missedAt>>

Delete(g) ==
    /\ At(g, "in", "delete")
    /\ entries' = [entries EXCEPT ![op[g].key] = NoEntry]
    /\ Return(g)
    /\ UNCHANGED <<clock, reply, stores, taken, missedAt>>

DeleteIfPresentAbsent(g) ==
    /\ At(g, "in", "deleteIfPresent")
    /\ op[g].key \notin Present
    /\ reply' = [reply EXCEPT ![g] = Absent(op[g].key)]
    /\ Return(g)
    /\ UNCHANGED <<clock, entries, stores, taken, missedAt>>

DeleteIfPresentFound(g) ==
    /\ At(g, "in", "deleteIfPresent")
    /\ op[g].key \in Present
    /\ held' = [held EXCEPT ![g] = entries[op[g].key]]
    /\ pc' = [pc EXCEPT ![g] = "mid"]
    /\ UNCHANGED <<clock, entries, readers, writer, op, reply, stores, taken, missedAt>>

DeleteIfPresentDelete(g) ==
    /\ At(g, "mid", "deleteIfPresent")
    /\ entries' = [entries EXCEPT ![op[g].key] = NoEntry]
    /\ taken' = taken \cup {held[g].id}
    /\ reply' = [reply EXCEPT ![g] = Taken(op[g].key)]
    /\ Return(g)
    /\ UNCHANGED <<clock, stores, missedAt>>

Clear(g) ==
    /\ At(g, "in", "clear")
    /\ entries' = [k \in Keys |-> NoEntry]
    /\ Return(g)
    /\ UNCHANGED <<clock, reply, stores, taken, missedAt>>

ListKeys(g) ==
    /\ At(g, "in", "keys")
    /\ entries' = Unexpired(clock)
    /\ reply' = [reply EXCEPT ![g] = Listed({k \in Keys : entries'[k].id # 0})]
    /\ Return(g)
    /\ UNCHANGED <<clock, stores, taken, missedAt>>

-----------------------------------------------------------------------------
Begin(g) ==
    \/ \E k \in Keys, cap \in Caps : CallSet(g, k, cap)
    \/ \E kind \in {"get", "delete", "deleteIfPresent"}, k \in Keys : Call(g, kind, k)
    \/ \E kind \in {"clear", "keys"} : Call(g, kind, AnyKey)

\* The steps a goroutine takes on its own once it holds the lock.
Body(g) ==
    \/ GetAbsent(g) \/ GetFound(g) \/ GetHit(g) \/ GetExpired(g) \/ GetPurge(g)
    \/ SetWithMaxTTL(g)
    \/ Delete(g)
    \/ DeleteIfPresentAbsent(g) \/ DeleteIfPresentFound(g) \/ DeleteIfPresentDelete(g)
    \/ Clear(g)
    \/ ListKeys(g)

Next ==
    \/ Tick
    \/ \E g \in Goroutines : Begin(g) \/ ReadLock(g) \/ WriteLock(g) \/ Body(g)

\* A goroutine that can run does, and sync.RWMutex starves neither side:
\* a lock that is free again and again is eventually granted.
Fairness ==
    \A g \in Goroutines :
        WF_vars(Body(g)) /\ SF_vars(ReadLock(g)) /\ SF_vars(WriteLock(g))

Spec == Init /\ [][Next]_vars

FairSpec == Spec /\ Fairness

-----------------------------------------------------------------------------
\* The types of the state.
TypeOK ==
    /\ clock \in Nat
    /\ entries \in [Keys -> Entry]
    /\ readers \subseteq Goroutines
    /\ writer \in Goroutines \cup {NoOne}
    /\ pc \in [Goroutines -> {"idle", "want", "in", "mid"}]
    /\ op \in [Goroutines -> Op]
    /\ held \in [Goroutines -> Entry]
    /\ reply \in [Goroutines ->
          [kind : {"none"}]
            \cup [kind : {"hit"}, key : Keys, entry : Entry]
            \cup [kind : {"miss", "taken", "absent"}, key : Keys]
            \cup [kind : {"listed"}, keys : SUBSET Keys]]
    /\ stores \in Nat
    /\ taken \subseteq Nat
    /\ missedAt \in [Goroutines -> Nat]

\* The locking discipline: each goroutine inside a critical section holds mu
\* in the mode its call needs, and a writer is alone.
Holds(g) == pc[g] \in {"in", "mid"}

LockInv ==
    /\ \A g \in Goroutines : g \in readers <=> Holds(g) /\ op[g].kind = "get"
    /\ \A g \in Goroutines : writer = g <=> Holds(g) /\ op[g].kind # "get"
    /\ writer # NoOne => readers = {}
    /\ \A g \in Goroutines : pc[g] = "mid" => op[g].kind \in {"get", "deleteIfPresent"}

\* What a call read from the map is still in the map when the call acts on it:
\* the expiry check of Get and the delete of DeleteIfPresent concern the entry
\* that was looked up, whatever the other goroutines do.
HeldIsCurrent ==
    \A g \in Goroutines :
        pc[g] = "mid" => /\ held[g] = entries[op[g].key]
                         /\ held[g].id # 0

\* "Concurrent DeleteIfPresent calls on the same key are race-safe: exactly one
\* observer sees true" (cache.go:100): no call is about to report an entry that
\* another call has reported.
OneObserver ==
    \A g \in Goroutines :
        At(g, "mid", "deleteIfPresent") => held[g].id \notin taken

\* A miss means gone: after Get has answered a miss, an entry under that key was
\* stored after the miss was read.  So an invalidate_cache that follows a miss
\* of get_cached removes something only if a search has stored in between,
\* although DeleteIfPresent never looks at the clock.
MissMeansGone ==
    \A g \in Goroutines :
        LET k == reply[g].key
        IN  reply[g].kind = "miss" /\ op[g].kind # "purge" /\ k \in Present
                => entries[k].id > missedAt[g]

\* Every call returns: upgrading the read lock of a Get to the write lock, with
\* writers waiting for readers and readers for writers, never wedges a request.
CallReturns == \A g \in Goroutines : pc[g] # "idle" ~> pc[g] = "idle"

-----------------------------------------------------------------------------
(* The inductive invariant behind these properties.                        *)

\* Ids are never reused, and an entry in the map has not been reported as deleted.
EntryIds ==
    \A k \in Keys : /\ entries[k].id <= stores
                    /\ entries[k].id \notin taken
                    /\ entries[k].id = 0 => entries[k] = NoEntry

DistinctIds == \A j, k \in Present : entries[j].id = entries[k].id => j = k

TakenIds == \A t \in taken : 0 < t /\ t <= stores

StoreInv == EntryIds /\ DistinctIds /\ TakenIds

\* A pending Set carries a time that is not in the future.
NowInv == \A g \in Goroutines : op[g].now <= clock

\* The entry a Get found expired is dead until that Get purges it, or it has
\* been replaced by a later store.
MissInv ==
    /\ MissMeansGone
    /\ \A g \in Goroutines :
          /\ missedAt[g] <= stores
          /\ op[g].kind = "purge" =>
                \A k \in Keys :
                    reply[g] = Miss(k) /\ entries[k].id <= missedAt[g]
                        => entries[k].expires <= clock

IndInv == TypeOK /\ LockInv /\ HeldIsCurrent /\ StoreInv /\ NowInv /\ MissInv

-----------------------------------------------------------------------------
(* The cache implements CacheSpec: an entry is served from the instant it  *)
(* is stored until it expires, whenever the map gets round to dropping it. *)

Live == [k \in Keys |-> IF entries[k].expires > clock THEN entries[k] ELSE NoEntry]

Abs == INSTANCE CacheSpec WITH
    Callers <- Goroutines, store <- Live, answer <- reply

\* Every answer of the locked, lazily purged map is one that the map of
\* CacheSpec gives at a single instant between the call and its return.
Refinement == Abs!Spec
=============================================================================
