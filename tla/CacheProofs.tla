---------------------------- MODULE CacheProofs ----------------------------
(***************************************************************************)
(* Proofs about the cache, for any set of goroutines and keys, any ttl and *)
(* caps, and any length of run.                                            *)
(***************************************************************************)
EXTENDS Cache, TLAPS

\* The placeholder call of an idle goroutine is a well-typed call.
LEMMA NoOpType == NoOp \in Op /\ AnyKey \in Keys /\ NoEntry \in Entry
  BY CacheAssumption DEF NoOp, Op, AnyKey, Kinds, NoEntry, Entry

\* Lifetimes are numbers: the ttl, or a cap below it.
LEMMA LifetimeType ==
  ASSUME NEW cap \in Nat
  PROVE  Lifetime(cap) \in Nat /\ Lifetime(cap) <= TTL
  BY CacheAssumption DEF Lifetime

\* Every step keeps the types of the state.
LEMMA TypeStep == TypeOK /\ [Next]_vars => TypeOK'
<1> SUFFICES ASSUME TypeOK, [Next]_vars
             PROVE  TypeOK'
  OBVIOUS
<1> USE CacheAssumption, NoOpType DEF TypeOK
<1>1. CASE Tick
  BY <1>1 DEF Tick
<1>2. ASSUME NEW g \in Goroutines, NEW k \in Keys, NEW cap \in Caps, CallSet(g, k, cap)
      PROVE  TypeOK'
  <2>1. [NoOp EXCEPT !.kind = "set", !.key = k, !.now = clock, !.cap = cap] \in Op
    BY DEF NoOp, Op, Kinds
  <2>2. QED
    BY <1>2, <2>1 DEF CallSet, Enter, NoReply
<1>3. ASSUME NEW g \in Goroutines, NEW k \in Keys, NEW kind \in Kinds, Call(g, kind, k)
      PROVE  TypeOK'
  <2>1. [NoOp EXCEPT !.kind = kind, !.key = k] \in Op
    BY DEF NoOp, Op
  <2>2. QED
    BY <1>3, <2>1 DEF Call, Enter, NoReply
<1>4. ASSUME NEW g \in Goroutines, ReadLock(g)
      PROVE  TypeOK'
  BY <1>4 DEF ReadLock
<1>5. ASSUME NEW g \in Goroutines, WriteLock(g)
      PROVE  TypeOK'
  BY <1>5 DEF WriteLock
<1>6. ASSUME NEW g \in Goroutines, GetAbsent(g)
      PROVE  TypeOK'
  BY <1>6 DEF GetAbsent, At, Return, Miss, Op
<1>7. ASSUME NEW g \in Goroutines, GetFound(g) \/ DeleteIfPresentFound(g)
      PROVE  TypeOK'
  <2>1. entries[op[g].key] \in Entry
    BY DEF Op
  <2>2. QED
    BY <1>7, <2>1 DEF GetFound, DeleteIfPresentFound
<1>8. ASSUME NEW g \in Goroutines, GetHit(g)
      PROVE  TypeOK'
  BY <1>8 DEF GetHit, At, Return, Hit, Op
<1>9. ASSUME NEW g \in Goroutines, GetExpired(g)
      PROVE  TypeOK'
  <2>1. [NoOp EXCEPT !.kind = "purge", !.key = op[g].key] \in Op
    BY DEF NoOp, Op, Kinds
  <2>2. QED
    BY <1>9, <2>1 DEF GetExpired, At, Miss, Op
<1>10. ASSUME NEW g \in Goroutines, GetPurge(g)
       PROVE  TypeOK'
  BY <1>10 DEF GetPurge, Return, Unexpired
<1>11. ASSUME NEW g \in Goroutines, SetWithMaxTTL(g)
       PROVE  TypeOK'
  <2>1. op[g] \in Op
    OBVIOUS
  <2>2. [id |-> stores + 1, created |-> op[g].now,
         expires |-> op[g].now + Lifetime(op[g].cap)] \in Entry
    BY <2>1, LifetimeType DEF Op, Entry
  <2>3. Unexpired(op[g].now) \in [Keys -> Entry]
    BY DEF Unexpired
  <2>4. entries' \in [Keys -> Entry]
    BY <1>11, <2>1, <2>2, <2>3 DEF SetWithMaxTTL, Op
  <2>5. QED
    BY <1>11, <2>4 DEF SetWithMaxTTL, Return
<1>12. ASSUME NEW g \in Goroutines, Delete(g)
       PROVE  TypeOK'
  BY <1>12 DEF Delete, Return
<1>13. ASSUME NEW g \in Goroutines, DeleteIfPresentAbsent(g)
       PROVE  TypeOK'
  BY <1>13 DEF DeleteIfPresentAbsent, Return, Absent, Op
<1>14. ASSUME NEW g \in Goroutines, DeleteIfPresentDelete(g)
       PROVE  TypeOK'
  <2>1. op[g].key \in Keys /\ held[g].id \in Nat
    BY DEF Op, Entry
  <2>2. entries' \in [Keys -> Entry] /\ taken' \subseteq Nat
    BY <1>14, <2>1 DEF DeleteIfPresentDelete
  <2>3. Taken(op[g].key) \in [kind : {"miss", "taken", "absent"}, key : Keys]
    BY <2>1 DEF Taken
  <2>4. QED
    BY <1>14, <2>2, <2>3 DEF DeleteIfPresentDelete, Return
<1>15. ASSUME NEW g \in Goroutines, Clear(g)
       PROVE  TypeOK'
  BY <1>15 DEF Clear, Return
<1>16. ASSUME NEW g \in Goroutines, ListKeys(g)
       PROVE  TypeOK'
  BY <1>16 DEF ListKeys, Return, Unexpired, Listed
<1>17. CASE UNCHANGED vars
  BY <1>17 DEF vars
<1>18. QED
  BY <1>1, <1>2, <1>3, <1>4, <1>5, <1>6, <1>7, <1>8, <1>9, <1>10, <1>11, <1>12,
     <1>13, <1>14, <1>15, <1>16, <1>17 DEF Next, Begin, Body, Kinds

\* The types of the state, for every instance.
THEOREM TypeCorrect == Spec => []TypeOK
<1>1. Init => TypeOK
  BY CacheAssumption, NoOpType DEF Init, TypeOK, NoReply
<1>2. QED
  BY <1>1, TypeStep, PTL DEF Spec

-----------------------------------------------------------------------------
(* The lock.                                                               *)

\* Every step keeps the locking discipline.
LEMMA LockStep == TypeOK /\ LockInv /\ [Next]_vars => LockInv'
<1> SUFFICES ASSUME TypeOK, LockInv, [Next]_vars
             PROVE  LockInv'
  OBVIOUS
<1> USE CacheAssumption, NoOpType DEF TypeOK, LockInv, Holds
<1>1. CASE Tick \/ UNCHANGED vars
  BY <1>1 DEF Tick, vars
<1>2. ASSUME NEW g \in Goroutines, NEW o \in Op, Enter(g, o)
      PROVE  LockInv'
  BY <1>2 DEF Enter
<1>3. ASSUME NEW g \in Goroutines, Begin(g)
      PROVE  LockInv'
  <2>1. ASSUME NEW k \in Keys, NEW cap \in Caps
        PROVE  [NoOp EXCEPT !.kind = "set", !.key = k, !.now = clock, !.cap = cap] \in Op
    BY DEF NoOp, Op, Kinds
  <2>2. ASSUME NEW k \in Keys, NEW kind \in Kinds
        PROVE  [NoOp EXCEPT !.kind = kind, !.key = k] \in Op
    BY DEF NoOp, Op
  <2>3. QED
    BY <1>2, <1>3, <2>1, <2>2 DEF Begin, CallSet, Call, Kinds
<1>4. ASSUME NEW g \in Goroutines, ReadLock(g)
      PROVE  LockInv'
  BY <1>4 DEF ReadLock
<1>5. ASSUME NEW g \in Goroutines, WriteLock(g)
      PROVE  LockInv'
  BY <1>5 DEF WriteLock
<1>6. ASSUME NEW g \in Goroutines, Holds(g), Return(g)
      PROVE  LockInv'
  BY <1>6 DEF Return
<1>7. ASSUME NEW g \in Goroutines, GetFound(g) \/ DeleteIfPresentFound(g)
      PROVE  LockInv'
  BY <1>7 DEF GetFound, DeleteIfPresentFound, At
<1>8. ASSUME NEW g \in Goroutines, GetExpired(g)
      PROVE  LockInv'
  BY <1>8 DEF GetExpired, At
<1>9. ASSUME NEW g \in Goroutines, Body(g)
      PROVE  LockInv'
  BY <1>6, <1>7, <1>8, <1>9
     DEF Body, At, GetAbsent, GetHit, GetPurge, SetWithMaxTTL, Delete,
         DeleteIfPresentAbsent, DeleteIfPresentDelete, Clear, ListKeys
<1>10. QED
  BY <1>1, <1>3, <1>4, <1>5, <1>9 DEF Next

\* A goroutine inside a critical section holds the lock it needs, and a writer
\* is alone.
THEOREM LockSafe == Spec => []LockInv
<1>1. Init => LockInv
  BY CacheAssumption DEF Init, LockInv, Holds
<1>2. QED
  BY <1>1, TypeCorrect, LockStep, PTL DEF Spec

-----------------------------------------------------------------------------
(* What was read is still there.                                           *)

\* Nobody else is inside a critical section while a writer is.
LEMMA Exclusive ==
  ASSUME TypeOK, LockInv,
         NEW g \in Goroutines, Holds(g), op[g].kind # "get",
         NEW h \in Goroutines, Holds(h)
  PROVE  h = g
  BY CacheAssumption DEF TypeOK, LockInv

\* Steps that change the map or the locals of a call in progress.
LEMMA HeldStep ==
  TypeOK /\ LockInv /\ StoreInv /\ HeldIsCurrent /\ [Next]_vars => HeldIsCurrent'
<1> SUFFICES ASSUME TypeOK, LockInv, StoreInv, HeldIsCurrent, [Next]_vars
             PROVE  HeldIsCurrent'
  OBVIOUS
<1> USE DEF TypeOK, HeldIsCurrent
<1>1. CASE Tick \/ UNCHANGED vars
  BY <1>1 DEF Tick, vars
<1>2. ASSUME NEW g \in Goroutines, Begin(g) \/ ReadLock(g) \/ WriteLock(g)
      PROVE  HeldIsCurrent'
  BY <1>2 DEF Begin, CallSet, Call, Enter, ReadLock, WriteLock
<1>3. ASSUME NEW g \in Goroutines, GetFound(g) \/ DeleteIfPresentFound(g)
      PROVE  HeldIsCurrent'
  BY <1>3 DEF GetFound, DeleteIfPresentFound, Present
<1>4. ASSUME NEW g \in Goroutines, UNCHANGED entries, Return(g)
      PROVE  HeldIsCurrent'
  BY <1>4 DEF Return
<1>5. ASSUME NEW g \in Goroutines, Holds(g), op[g].kind # "get", Return(g)
      PROVE  HeldIsCurrent'
  <2>1. \A h \in Goroutines : pc'[h] # "mid"
    BY <1>5, Exclusive DEF Return, Holds
  <2>2. QED
    BY <2>1
<1>6. ASSUME NEW g \in Goroutines, GetExpired(g)
      PROVE  HeldIsCurrent'
  BY <1>6 DEF GetExpired
<1>7. ASSUME NEW g \in Goroutines, GetAbsent(g) \/ GetHit(g) \/ DeleteIfPresentAbsent(g)
      PROVE  HeldIsCurrent'
  BY <1>4, <1>7 DEF GetAbsent, GetHit, DeleteIfPresentAbsent
<1>8. ASSUME NEW g \in Goroutines,
             \/ GetPurge(g) \/ SetWithMaxTTL(g) \/ Delete(g)
             \/ DeleteIfPresentDelete(g) \/ Clear(g) \/ ListKeys(g)
      PROVE  HeldIsCurrent'
  BY <1>5, <1>8 DEF GetPurge, SetWithMaxTTL, Delete, DeleteIfPresentDelete, Clear,
                    ListKeys, At, Holds
<1>9. QED
  BY <1>1, <1>2, <1>3, <1>6, <1>7, <1>8 DEF Next, Body

\* The clock only moves forward, past the times the pending calls read.
LEMMA NowStep == TypeOK /\ NowInv /\ [Next]_vars => NowInv'
<1> SUFFICES ASSUME TypeOK, NowInv, [Next]_vars
             PROVE  NowInv'
  OBVIOUS
<1> USE DEF TypeOK, NowInv
<1>1. NoOp.now = 0 /\ \A kind, k : [NoOp EXCEPT !.kind = kind, !.key = k].now = 0
  BY DEF NoOp
<1>2. \A k, cap : [NoOp EXCEPT !.kind = "set", !.key = k, !.now = clock, !.cap = cap].now = clock
  BY DEF NoOp
<1>3. CASE Tick \/ UNCHANGED vars
  BY <1>3 DEF Tick, vars, Op
<1>4. ASSUME NEW g \in Goroutines, Begin(g) \/ ReadLock(g) \/ WriteLock(g)
      PROVE  NowInv'
  <2>1. ASSUME NEW o, o.now <= clock, Enter(g, o)
        PROVE  NowInv'
    BY <2>1 DEF Enter
  <2>2. CASE Begin(g)
    <3>1. ASSUME NEW k \in Keys, NEW cap \in Caps, CallSet(g, k, cap)
          PROVE  NowInv'
      <4> DEFINE o == [NoOp EXCEPT !.kind = "set", !.key = k, !.now = clock, !.cap = cap]
      <4>1. o.now <= clock
        BY <1>2
      <4>2. Enter(g, o)
        BY <3>1 DEF CallSet
      <4>3. QED
        BY <2>1, <4>1, <4>2
    <3>2. ASSUME NEW kind, NEW k, Call(g, kind, k)
          PROVE  NowInv'
      <4> DEFINE o == [NoOp EXCEPT !.kind = kind, !.key = k]
      <4>1. o.now <= clock
        BY <1>1
      <4>2. Enter(g, o)
        BY <3>2 DEF Call
      <4>3. QED
        BY <2>1, <4>1, <4>2
    <3>3. QED
      BY <2>2, <3>1, <3>2 DEF Begin
  <2>3. QED
    BY <1>4, <2>2 DEF ReadLock, WriteLock
<1>5. ASSUME NEW g \in Goroutines, Return(g), UNCHANGED clock
      PROVE  NowInv'
  BY <1>1, <1>5 DEF Return
<1>6. ASSUME NEW g \in Goroutines, GetExpired(g)
      PROVE  NowInv'
  BY <1>1, <1>6 DEF GetExpired
<1>7. ASSUME NEW g \in Goroutines, Body(g)
      PROVE  NowInv'
  BY <1>5, <1>6, <1>7
     DEF Body, GetAbsent, GetFound, GetHit, GetPurge, SetWithMaxTTL, Delete,
         DeleteIfPresentAbsent, DeleteIfPresentFound, DeleteIfPresentDelete, Clear, ListKeys
<1>8. QED
  BY <1>3, <1>4, <1>7 DEF Next

\* Every step keeps ids fresh.
LEMMA StoreStep ==
  TypeOK /\ LockInv /\ HeldIsCurrent /\ StoreInv /\ [Next]_vars => StoreInv'
<1> SUFFICES ASSUME TypeOK, LockInv, HeldIsCurrent, StoreInv, [Next]_vars
             PROVE  StoreInv'
  OBVIOUS
<1> USE NoOpType DEF StoreInv, EntryIds, DistinctIds, TakenIds, Present, NoEntry
<1>0. /\ stores \in Nat /\ taken \subseteq Nat /\ \A k \in Keys : entries[k].id \in Nat
      /\ \A g \in Goroutines : op[g].key \in Keys
      /\ entries = [k \in Keys |-> entries[k]]
  BY DEF TypeOK, Entry, Op
<1>1. CASE Tick \/ UNCHANGED vars
  BY <1>1 DEF Tick, vars
<1>2. ASSUME NEW g \in Goroutines, Begin(g) \/ ReadLock(g) \/ WriteLock(g)
      PROVE  StoreInv'
  BY <1>2 DEF Begin, CallSet, Call, Enter, ReadLock, WriteLock
<1>3. ASSUME NEW g \in Goroutines,
             \/ GetAbsent(g) \/ GetFound(g) \/ GetHit(g) \/ GetExpired(g)
             \/ DeleteIfPresentAbsent(g) \/ DeleteIfPresentFound(g)
      PROVE  StoreInv'
  BY <1>3 DEF GetAbsent, GetFound, GetHit, GetExpired, DeleteIfPresentAbsent,
              DeleteIfPresentFound
<1>4. ASSUME NEW S \in SUBSET Keys,
             entries' = [k \in Keys |-> IF k \in S THEN NoEntry ELSE entries[k]],
             UNCHANGED <<stores, taken>>
      PROVE  StoreInv'
  BY <1>0, <1>4
<1>5. ASSUME NEW g \in Goroutines, GetPurge(g) \/ ListKeys(g)
      PROVE  StoreInv'
  <2> DEFINE S == {k \in Keys : entries[k].expires <= clock}
  <2>1. entries' = [k \in Keys |-> IF k \in S THEN NoEntry ELSE entries[k]]
    BY <1>5 DEF GetPurge, ListKeys, Unexpired
  <2>2. QED
    BY <1>4, <1>5, <2>1 DEF GetPurge, ListKeys
<1>6. ASSUME NEW g \in Goroutines, Delete(g) \/ DeleteIfPresentDelete(g)
      PROVE  entries' = [k \in Keys |-> IF k \in {op[g].key} THEN NoEntry ELSE entries[k]]
  BY <1>0, <1>6 DEF Delete, DeleteIfPresentDelete
<1>7. ASSUME NEW g \in Goroutines, Delete(g)
      PROVE  StoreInv'
  BY <1>0, <1>4, <1>6, <1>7 DEF Delete
<1>8. ASSUME NEW g \in Goroutines, Clear(g)
      PROVE  StoreInv'
  BY <1>4, <1>8 DEF Clear
<1>9. ASSUME NEW g \in Goroutines, DeleteIfPresentDelete(g)
      PROVE  StoreInv'
  <2>1. held[g] = entries[op[g].key] /\ held[g].id # 0
    BY <1>9 DEF DeleteIfPresentDelete, At, HeldIsCurrent
  <2>2. taken' = taken \cup {held[g].id} /\ stores' = stores
    BY <1>9 DEF DeleteIfPresentDelete
  <2>3. QED
    BY <1>0, <1>6, <1>9, <2>1, <2>2
<1>10. ASSUME NEW g \in Goroutines, SetWithMaxTTL(g)
       PROVE  StoreInv'
  <2>1. entries'[op[g].key].id = stores + 1
    BY <1>0, <1>10 DEF SetWithMaxTTL, Unexpired
  <2>2. \A k \in Keys : k # op[g].key => entries'[k] \in {NoEntry, entries[k]}
    BY <1>10 DEF SetWithMaxTTL, Unexpired
  <2>3. stores' = stores + 1 /\ UNCHANGED taken
    BY <1>10 DEF SetWithMaxTTL
  <2>4. EntryIds'
    BY <1>0, <2>1, <2>2, <2>3
  <2>5. DistinctIds'
    BY <1>0, <2>1, <2>2
  <2>6. TakenIds'
    BY <1>0, <2>3
  <2> HIDE DEF EntryIds, DistinctIds, TakenIds
  <2>7. QED
    BY <2>4, <2>5, <2>6
<1>11. QED
  BY <1>1, <1>2, <1>3, <1>5, <1>7, <1>8, <1>9, <1>10 DEF Next, Body

-----------------------------------------------------------------------------
(* Misses, and the invariant as a whole.                                   *)

\* Every step keeps a missed entry dead or replaced.
LEMMA MissStep ==
  TypeOK /\ LockInv /\ HeldIsCurrent /\ StoreInv /\ MissInv /\ [Next]_vars => MissInv'
<1> SUFFICES ASSUME TypeOK, LockInv, HeldIsCurrent, StoreInv, MissInv, [Next]_vars
             PROVE  MissInv'
  OBVIOUS
<1> USE DEF MissInv, MissMeansGone, Present
<1>0. /\ stores \in Nat /\ clock \in Nat
      /\ \A k \in Keys : /\ entries[k].id \in Nat /\ entries[k].expires \in Nat
                         /\ entries[k].id <= stores
      /\ \A g \in Goroutines : missedAt[g] \in Nat /\ op[g].key \in Keys
      /\ NoEntry.id = 0 /\ NoEntry.expires = 0 /\ NoOp.kind = "none"
  BY DEF TypeOK, StoreInv, EntryIds, Entry, Op, NoEntry, NoOp
<1>1. CASE Tick \/ UNCHANGED vars
  BY <1>0, <1>1 DEF Tick, vars
<1>2. ASSUME NEW g \in Goroutines, Begin(g) \/ ReadLock(g) \/ WriteLock(g)
      PROVE  MissInv'
  <2>1. ASSUME NEW o, Enter(g, o)
        PROVE  MissInv'
    BY <1>0, <2>1 DEF Enter, NoReply, Miss, TypeOK
  <2>2. QED
    BY <1>2, <2>1 DEF Begin, CallSet, Call, ReadLock, WriteLock
<1>3. ASSUME NEW g \in Goroutines, GetFound(g) \/ DeleteIfPresentFound(g)
      PROVE  MissInv'
  BY <1>3 DEF GetFound, DeleteIfPresentFound
<1>4. ASSUME NEW g \in Goroutines, GetAbsent(g)
      PROVE  MissInv'
  BY <1>0, <1>4 DEF GetAbsent, Return, Miss, TypeOK
<1>5. ASSUME NEW g \in Goroutines, GetExpired(g)
      PROVE  MissInv'
  <2>1. held[g] = entries[op[g].key] /\ held[g].expires <= clock
    BY <1>0, <1>5 DEF GetExpired, At, HeldIsCurrent
  <2>2. QED
    BY <1>0, <1>5, <2>1 DEF GetExpired, Miss, TypeOK
<1>6. ASSUME NEW g \in Goroutines, op[g].kind # "purge",
             \A h \in Goroutines : reply'[h] = reply[h] \/ reply'[h].kind # "miss",
             \A k \in Keys : entries'[k] \in {NoEntry, entries[k]},
             Return(g), UNCHANGED <<clock, stores, missedAt>>
      PROVE  MissInv'
  <2>1. \A h \in Goroutines :
           /\ h # g => op'[h] = op[h]
           /\ h = g => op'[h] = NoOp
    BY <1>6 DEF Return, TypeOK
  <2>2. \A h \in Goroutines : op'[h].kind = "purge" => h # g /\ op[h].kind = "purge"
    BY <1>0, <2>1
  <2>3. \A h \in Goroutines : op'[h].kind # "purge" => op[h].kind # "purge"
    BY <1>6, <2>1
  <2>4. clock' = clock /\ stores' = stores /\ missedAt' = missedAt
    BY <1>6
  <2>5. \A k \in Keys : entries'[k].id # 0 => entries'[k] = entries[k]
    BY <1>0, <1>6
  <2>6. ASSUME NEW h \in Goroutines, reply'[h].kind = "miss", op'[h].kind # "purge",
               reply'[h].key \in Keys, entries'[reply'[h].key].id # 0
        PROVE  entries'[reply'[h].key].id > missedAt'[h]
    <3>1. reply'[h] = reply[h]
      BY <1>6, <2>6
    <3>2. entries'[reply'[h].key] = entries[reply[h].key]
      BY <2>5, <2>6, <3>1
    <3>3. reply[h].key \in Present /\ op[h].kind # "purge" /\ reply[h].kind = "miss"
      BY <2>3, <2>6, <3>1, <3>2
    <3>4. QED
      BY <2>4, <3>2, <3>3
  <2>7. MissMeansGone'
    BY <2>6
  <2>8. \A h \in Goroutines : missedAt'[h] <= stores'
    BY <2>4
  <2>9. ASSUME NEW h \in Goroutines, op'[h].kind = "purge", NEW k \in Keys,
               reply'[h] = Miss(k), entries'[k].id <= missedAt'[h]
        PROVE  entries'[k].expires <= clock'
    <3>1. reply[h] = Miss(k) /\ op[h].kind = "purge"
      BY <1>6, <2>2, <2>9 DEF Miss
    <3>2. CASE entries'[k] = NoEntry
      BY <1>0, <2>4, <3>2
    <3>3. CASE entries'[k] = entries[k]
      BY <2>4, <2>9, <3>1, <3>3
    <3>4. QED
      BY <1>6, <3>2, <3>3
  <2>10. QED
    BY <2>7, <2>8, <2>9
<1>7. ASSUME NEW g \in Goroutines,
             \/ GetHit(g) \/ Delete(g) \/ Clear(g) \/ ListKeys(g)
             \/ DeleteIfPresentAbsent(g) \/ DeleteIfPresentDelete(g)
      PROVE  MissInv'
  <2>1. \A k \in Keys : entries'[k] \in {NoEntry, entries[k]}
    BY <1>7 DEF GetHit, Delete, Clear, ListKeys, DeleteIfPresentAbsent,
                DeleteIfPresentDelete, Unexpired, TypeOK
  <2>2. \A h \in Goroutines : reply'[h] = reply[h] \/ reply'[h].kind # "miss"
    BY <1>7 DEF GetHit, Delete, Clear, ListKeys, DeleteIfPresentAbsent,
                DeleteIfPresentDelete, TypeOK, Hit, Listed, Absent, Taken
  <2>3. QED
    BY <1>6, <1>7, <2>1, <2>2 DEF GetHit, Delete, Clear, ListKeys,
          DeleteIfPresentAbsent, DeleteIfPresentDelete, At
<1>8. ASSUME NEW g \in Goroutines, GetPurge(g)
      PROVE  MissInv'
  <2>1. \A k \in Keys : entries'[k] = IF entries[k].expires <= clock
                                     THEN NoEntry ELSE entries[k]
    BY <1>8 DEF GetPurge, Unexpired
  <2>2. op[g].kind = "purge" /\ Return(g) /\ UNCHANGED <<clock, reply, stores, missedAt>>
    BY <1>8 DEF GetPurge, At
  <2>3. ASSUME reply[g].kind = "miss"
        PROVE  reply[g].key \in Keys /\ reply[g] = Miss(reply[g].key)
    BY <2>3 DEF TypeOK, Miss
  <2>4. QED
    BY <1>0, <2>1, <2>2, <2>3 DEF Return, TypeOK
<1>9. ASSUME NEW g \in Goroutines, SetWithMaxTTL(g)
      PROVE  MissInv'
  <2>1. entries'[op[g].key].id = stores + 1
    BY <1>0, <1>9 DEF SetWithMaxTTL, Unexpired
  <2>2. \A k \in Keys : k # op[g].key => entries'[k] \in {NoEntry, entries[k]}
    BY <1>9 DEF SetWithMaxTTL, Unexpired
  <2>3. /\ op[g].kind = "set" /\ Return(g)
        /\ stores' = stores + 1 /\ UNCHANGED <<clock, reply, missedAt>>
    BY <1>9 DEF SetWithMaxTTL, At
  <2>4. QED
    BY <1>0, <2>1, <2>2, <2>3 DEF Return, TypeOK
<1>10. QED
  BY <1>1, <1>2, <1>3, <1>4, <1>5, <1>7, <1>8, <1>9 DEF Next, Body

\* The inductive invariant of the cache.
LEMMA Invariant == Spec => []IndInv
<1>1. Init => IndInv
  <2>1. Init => TypeOK /\ LockInv
    BY CacheAssumption, NoOpType DEF Init, TypeOK, NoReply, LockInv, Holds
  <2>2. Init => HeldIsCurrent /\ StoreInv /\ NowInv /\ MissInv
    BY DEF Init, HeldIsCurrent, StoreInv, NowInv, MissInv, MissMeansGone, EntryIds,
           DistinctIds, TakenIds, Present, NoEntry,
           NoOp, NoReply, Miss
  <2>3. QED
    BY <2>1, <2>2 DEF IndInv
<1>2. IndInv /\ [Next]_vars => IndInv'
  BY TypeStep, LockStep, HeldStep, StoreStep, NowStep, MissStep DEF IndInv
<1>3. QED
  BY <1>1, <1>2, PTL DEF Spec

\* What a call read from the map is what it acts on.
THEOREM ReadsStayCurrent == Spec => []HeldIsCurrent
  BY Invariant, PTL DEF IndInv

\* No two calls of DeleteIfPresent report the same entry.
THEOREM DeleteIfPresentOnce == Spec => []OneObserver
<1>1. IndInv => OneObserver
  BY DEF IndInv, TypeOK, Op, HeldIsCurrent, StoreInv, EntryIds, OneObserver, At
<1>2. QED
  BY <1>1, Invariant, PTL

\* After a miss, only a later store puts an entry under the key.
THEOREM MissGone == Spec => []MissMeansGone
  BY Invariant, PTL DEF IndInv, MissInv

-----------------------------------------------------------------------------
(* The refinement.                                                         *)

\* The map as the abstract cache sees it.
LEMMA LiveFacts ==
  ASSUME TypeOK
  PROVE  /\ Live \in [Keys -> Entry]
         /\ \A k \in Keys : Live[k] # NoEntry <=> entries[k].expires > clock
  BY NoOpType DEF TypeOK, Live, NoEntry, Entry

\* Dropping entries that have expired changes nothing the abstract cache sees.
LEMMA PurgeInvisible ==
  ASSUME TypeOK, NEW now \in Nat, now <= clock,
         entries' = Unexpired(now), clock' = clock
  PROVE  Live' = Live
  BY DEF TypeOK, Live, Unexpired, NoEntry, Entry

\* Every step of the cache is a step of the abstract cache, or invisible to it.
LEMMA RefinementStep == IndInv /\ IndInv' /\ [Next]_vars => [Abs!Next]_(Abs!vars)
<1> SUFFICES ASSUME IndInv, IndInv', [Next]_vars
             PROVE  [Abs!Next]_(Abs!vars)
  OBVIOUS
<1>0. TypeOK /\ TypeOK' /\ HeldIsCurrent /\ StoreInv /\ NowInv
  BY DEF IndInv
<1> USE DEF Abs!vars
<1>1. CASE UNCHANGED vars
  BY <1>1 DEF vars, Live
<1>2. CASE Tick
  <2>1. Live' = [k \in Keys |-> IF Live[k].expires > clock' THEN Live[k] ELSE NoEntry]
    BY <1>0, <1>2 DEF Tick, Live, TypeOK, Entry, NoEntry
  <2>2. Abs!Tick
    BY <1>2, <2>1 DEF Tick, Abs!Tick, Abs!Nothing, NoEntry
  <2>3. QED
    BY <2>2 DEF Abs!Next
<1>3. ASSUME NEW g \in Goroutines, Begin(g)
      PROVE  [Abs!Next]_(Abs!vars)
  <2>1. Abs!Ask(g)
    BY <1>3 DEF Begin, CallSet, Call, Enter, Abs!Ask, Abs!NoAnswer, NoReply, Live
  <2>2. QED
    BY <2>1 DEF Abs!Next
<1>4. ASSUME NEW g \in Goroutines,
             \/ ReadLock(g) \/ WriteLock(g) \/ GetFound(g) \/ DeleteIfPresentFound(g)
      PROVE  UNCHANGED Abs!vars
  BY <1>4 DEF ReadLock, WriteLock, GetFound, DeleteIfPresentFound, Live
<1>5. ASSUME NEW g \in Goroutines, GetPurge(g)
      PROVE  UNCHANGED Abs!vars
  BY <1>0, <1>5, PurgeInvisible DEF GetPurge, TypeOK
<1>6. ASSUME NEW g \in Goroutines, GetAbsent(g) \/ GetHit(g) \/ GetExpired(g)
      PROVE  Abs!Lookup(g, op[g].key)
  <2> DEFINE k == op[g].key
  <2>1. k \in Keys
    BY <1>0 DEF TypeOK, Op
  <2>2. Live' = Live /\ UNCHANGED clock
    BY <1>6 DEF GetAbsent, GetHit, GetExpired, Live
  <2>3. CASE GetHit(g)
    <3>1. held[g] = entries[k] /\ entries[k].expires > clock
      BY <1>0, <2>1, <2>3 DEF GetHit, At, HeldIsCurrent, TypeOK, Entry
    <3>2. Live[k] = held[g] /\ Live[k] # NoEntry
      BY <1>0, <2>1, <3>1, LiveFacts DEF Live
    <3>3. QED
      BY <2>1, <2>2, <2>3, <3>2
         DEF GetHit, Abs!Lookup, Abs!Served, Abs!Hit, Hit, Abs!Nothing, NoEntry
  <2>4. CASE GetAbsent(g) \/ GetExpired(g)
    <3>1. entries[k].expires <= clock
      BY <1>0, <2>1, <2>4 DEF GetAbsent, GetExpired, At, HeldIsCurrent, StoreInv, EntryIds,
                              Present, NoEntry, TypeOK, Entry
    <3>2. Live[k] = NoEntry
      BY <1>0, <2>1, <3>1 DEF Live, TypeOK, Entry
    <3>3. QED
      BY <2>1, <2>2, <2>4, <3>2
         DEF GetAbsent, GetExpired, Abs!Lookup, Abs!Served, Abs!Miss, Miss, Abs!Nothing, NoEntry
  <2>5. QED
    BY <1>6, <2>3, <2>4
<1>7. ASSUME NEW g \in Goroutines, SetWithMaxTTL(g)
      PROVE  Abs!Put(op[g].key)
  <2> DEFINE k == op[g].key
             now == op[g].now
  <2>1. k \in Keys /\ now \in Nat /\ now <= clock /\ op[g].cap \in Nat
    BY <1>0 DEF TypeOK, Op, NowInv
  <2>2. clock' = clock /\ reply' = reply
    BY <1>7 DEF SetWithMaxTTL
  <2>3. entries' = [Unexpired(now) EXCEPT ![k] =
                      [id |-> stores + 1, created |-> now,
                       expires |-> now + Lifetime(op[g].cap)]]
    BY <1>7 DEF SetWithMaxTTL
  <2>4. Live' = [Live EXCEPT ![k] = Live'[k]]
    <3>1. ASSUME NEW j \in Keys, j # k
          PROVE  Live'[j] = Live[j]
      <4>1. entries'[j] = IF entries[j].expires <= now THEN NoEntry ELSE entries[j]
        BY <2>1, <2>3, <3>1 DEF Unexpired
      <4>2. entries[j].expires \in Nat /\ clock \in Nat /\ NoEntry.expires = 0
        BY <1>0 DEF TypeOK, Entry, NoEntry
      <4>3. QED
        BY <2>1, <2>2, <4>1, <4>2 DEF Live
    <3>2. Live = [j \in Keys |-> Live[j]] /\ Live' = [j \in Keys |-> Live'[j]]
      BY DEF Live
    <3>3. QED
      BY <2>1, <3>1, <3>2
  <2>5. \/ Live'[k] = NoEntry
        \/ /\ Live'[k] \in Entry
           /\ Live'[k].created <= clock
           /\ clock < Live'[k].expires
           /\ Live'[k].expires <= Live'[k].created + TTL
    <3>1. Live'[k] = IF entries'[k].expires > clock THEN entries'[k] ELSE NoEntry
      BY <2>1, <2>2 DEF Live
    <3>2. entries'[k] = [id |-> stores + 1, created |-> now,
                         expires |-> now + Lifetime(op[g].cap)]
      BY <2>1, <2>3 DEF Unexpired
    <3>3. Lifetime(op[g].cap) \in Nat /\ Lifetime(op[g].cap) <= TTL /\ TTL \in Nat
      BY <2>1, LifetimeType, CacheAssumption
    <3>4. entries'[k] \in Entry
      BY <1>0, <2>1 DEF TypeOK
    <3>5. QED
      BY <1>0, <2>1, <3>1, <3>2, <3>3, <3>4 DEF TypeOK
  <2>6. QED
    BY <2>2, <2>4, <2>5 DEF Abs!Put, Abs!Nothing, Abs!Entry, NoEntry, Entry
<1>8. ASSUME NEW g \in Goroutines, Delete(g)
      PROVE  Abs!Remove({op[g].key})
  BY <1>0, <1>8 DEF Delete, Abs!Remove, Abs!Nothing, Live, NoEntry, TypeOK
<1>9. ASSUME NEW g \in Goroutines, Clear(g)
      PROVE  Abs!Remove(Keys)
  BY <1>0, <1>9 DEF Clear, Abs!Remove, Abs!Nothing, Live, NoEntry, TypeOK
<1>10. ASSUME NEW g \in Goroutines, DeleteIfPresentAbsent(g)
       PROVE  Abs!Take(g, op[g].key)
  <2>1. op[g].key \in Keys /\ entries[op[g].key].id = 0
    BY <1>0, <1>10 DEF DeleteIfPresentAbsent, Present, TypeOK, Op
  <2>2. Live[op[g].key] = NoEntry
    BY <1>0, <2>1 DEF Live, StoreInv, EntryIds, NoEntry, TypeOK
  <2>3. Live' = Live /\ clock' = clock
    BY <1>10 DEF DeleteIfPresentAbsent, Live
  <2>4. Live' = [Live EXCEPT ![op[g].key] = NoEntry]
    BY <1>0, <2>1, <2>2, <2>3, LiveFacts
  <2>5. reply' = [reply EXCEPT ![g] = Absent(op[g].key)]
    BY <1>10 DEF DeleteIfPresentAbsent
  <2>6. QED
    BY <2>2, <2>3, <2>4, <2>5
       DEF Abs!Take, Abs!Absent, Absent, Abs!Served, Abs!Nothing, NoEntry
<1>11. ASSUME NEW g \in Goroutines, DeleteIfPresentDelete(g)
       PROVE  Abs!Take(g, op[g].key)
  <2>1. Live' = [Live EXCEPT ![op[g].key] = NoEntry] /\ clock' = clock
    <3>1. clock' = clock
      BY <1>11 DEF DeleteIfPresentDelete
    <3>2. \A k \in Keys : entries'[k] = IF k = op[g].key THEN NoEntry ELSE entries[k]
      <4>1. entries \in [Keys -> Entry]
        BY <1>0 DEF TypeOK
      <4>2. entries' = [entries EXCEPT ![op[g].key] = NoEntry]
        BY <1>11 DEF DeleteIfPresentDelete
      <4>3. QED
        BY <4>1, <4>2
    <3>3. clock \in Nat
      BY <1>0 DEF TypeOK
    <3>4. \A k \in Keys : Live'[k] = IF k = op[g].key THEN NoEntry ELSE Live[k]
      BY <3>1, <3>2, <3>3 DEF Live, NoEntry
    <3>5. QED
      BY <3>1, <3>4 DEF Live
  <2>2. reply' = [reply EXCEPT ![g] = Taken(op[g].key)]
    BY <1>11 DEF DeleteIfPresentDelete
  <2>3. QED
    BY <2>1, <2>2 DEF Abs!Take, Abs!Taken, Taken, Abs!Nothing, NoEntry
<1>12. ASSUME NEW g \in Goroutines, ListKeys(g)
       PROVE  Abs!List(g)
  <2>1. Live' = Live /\ clock' = clock
    BY <1>0, <1>12, PurgeInvisible DEF ListKeys, TypeOK
  <2>2. \A k \in Keys : entries'[k].id # 0 <=> Live[k] # NoEntry
    <3>1. \A k \in Keys : entries'[k] = IF entries[k].expires <= clock
                                        THEN NoEntry ELSE entries[k]
      BY <1>12 DEF ListKeys, Unexpired
    <3>2. \A k \in Keys : entries[k].expires \in Nat /\ clock \in Nat
      BY <1>0 DEF TypeOK, Entry
    <3>3. \A k \in Keys : entries[k].id = 0 => entries[k].expires = 0
      BY <1>0 DEF StoreInv, EntryIds, NoEntry
    <3>4. \A k \in Keys : entries'[k] = Live[k]
      BY <3>1, <3>2 DEF Live
    <3>5. ASSUME NEW k \in Keys, Live[k] # NoEntry
          PROVE  Live[k].id # 0
      BY <3>2, <3>3, <3>5 DEF Live
    <3>6. QED
      BY <3>4, <3>5 DEF NoEntry
  <2>3. reply' = [reply EXCEPT ![g] = Listed({k \in Keys : Live[k] # NoEntry})]
    BY <1>12, <2>2 DEF ListKeys
  <2>4. QED
    BY <2>1, <2>3 DEF Abs!List, Abs!Listed, Listed, Abs!Served, Abs!Nothing, NoEntry
<1>13. ASSUME NEW g \in Goroutines
       PROVE  op[g].key \in Keys
  BY <1>0 DEF TypeOK, Op
<1>14. ASSUME NEW g \in Goroutines, Body(g)
       PROVE  [Abs!Next]_(Abs!vars)
  BY <1>4, <1>5, <1>6, <1>7, <1>8, <1>9, <1>10, <1>11, <1>12, <1>13, <1>14
     DEF Body, Abs!Next
<1>15. QED
  BY <1>1, <1>2, <1>3, <1>4, <1>14 DEF Next

\* The locked, lazily purged map implements the map whose entries die with the
\* clock and whose operations are atomic.
THEOREM CacheImplements == Spec => Refinement
<1>1. Init => Abs!Init
  BY DEF Init, Abs!Init, Live, NoEntry, Abs!Nothing, NoReply, Abs!NoAnswer
<1>2. QED
  BY <1>1, RefinementStep, Invariant, PTL DEF Spec, Refinement, Abs!Spec

=============================================================================
