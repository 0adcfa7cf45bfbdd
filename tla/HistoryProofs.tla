--------------------------- MODULE HistoryProofs ---------------------------
(***************************************************************************)
(* Proofs about the search history, for any bound and any number of        *)
(* searches: what the buffer holds, and what List returns of it.           *)
(***************************************************************************)
EXTENDS History, SelectionProofs

\* The buffer always has room for an entry.
LEMMA CapacityType == Capacity \in Nat /\ Capacity >= 1
  BY HistoryAssumption DEF Capacity

\* The entries of a sequence of entries carry numbers for timestamps.
LEMMA EntryTime ==
  ASSUME NEW s \in Seq(Entry), NEW i \in 1 .. Len(s)
  PROVE  s[i] \in Entry /\ s[i].timestamp \in Nat
<1>1. s[i] \in Entry
  OBVIOUS
<1>2. QED
  BY <1>1 DEF Entry

\* Prepending puts the entry first and shifts the rest, dropping the last of a
\* full buffer.
LEMMA PushedShape ==
  ASSUME NEW e \in Entry, entries \in Seq(Entry), Len(entries) <= Capacity
  PROVE  /\ Pushed(e) \in Seq(Entry)
         /\ Len(Pushed(e)) = Smaller(Len(entries) + 1, Capacity)
         /\ Pushed(e)[1] = e
         /\ \A i \in 2 .. Len(Pushed(e)) : Pushed(e)[i] = entries[i - 1]
<1> DEFINE kept == IF Len(entries) >= Capacity
                   THEN SubSeq(entries, 1, Len(entries) - 1) ELSE entries
<1>1. /\ kept \in Seq(Entry)
      /\ Len(kept) = IF Len(entries) >= Capacity THEN Len(entries) - 1 ELSE Len(entries)
      /\ \A i \in 1 .. Len(kept) : kept[i] = entries[i]
  BY CapacityType
<1>2. <<e>> \in Seq(Entry) /\ Len(<<e>>) = 1 /\ <<e>>[1] = e
  OBVIOUS
<1>3. Pushed(e) = <<e>> \o kept
  BY DEF Pushed
<1> HIDE DEF kept
<1>4. /\ Pushed(e) \in Seq(Entry) /\ Len(Pushed(e)) = 1 + Len(kept)
      /\ Pushed(e)[1] = e
      /\ \A i \in 2 .. Len(Pushed(e)) : Pushed(e)[i] = kept[i - 1]
  BY <1>1, <1>2, <1>3
<1>5. Len(Pushed(e)) = Smaller(Len(entries) + 1, Capacity)
  BY <1>1, <1>4, CapacityType DEF Smaller
<1>6. \A i \in 2 .. Len(Pushed(e)) : Pushed(e)[i] = entries[i - 1]
  BY <1>1, <1>4
<1>7. QED
  BY <1>4, <1>5, <1>6

-----------------------------------------------------------------------------
\* Timestamps are never ahead of the clock, in the buffer or in the log.
Stamped == \A i \in 1 .. Len(entries) : entries[i].timestamp <= clock

\* The main invariant: the types, the buffer as the end of the log, and the stamps.
IndInv == BufferTypeOK /\ KeepsNewest /\ NewestFirst /\ Stamped

\* Every step keeps the buffer equal to the newest part of the log, in order.
LEMMA Step == IndInv /\ [Next]_vars => IndInv'
<1> SUFFICES ASSUME IndInv, [Next]_vars
             PROVE  IndInv'
  OBVIOUS
<1>0. BufferTypeOK /\ KeepsNewest /\ NewestFirst /\ Stamped
  BY DEF IndInv
<1> USE DEF IndInv, BufferTypeOK, KeepsNewest, NewestFirst, Stamped
<1>1. CASE Tick
  <2>1. \A i \in 1 .. Len(entries) : entries[i].timestamp \in Nat
    BY <1>0, EntryTime
  <2>2. QED
    BY <1>0, <1>1, <2>1 DEF Tick
<1>2. ASSUME NEW s \in Searchers, NEW q \in Queries, Finish(s, q)
      PROVE  IndInv'
  BY <1>0, <1>2 DEF Finish
<1>3. ASSUME NEW s \in Searchers, AppendEntry(s)
      PROVE  IndInv'
  <2>1. PICK q \in finished[s] :
          /\ entries' = Pushed([query |-> q, timestamp |-> clock])
          /\ log' = Append(log, [query |-> q, timestamp |-> clock])
    BY <1>3 DEF AppendEntry
  <2> DEFINE e == [query |-> q, timestamp |-> clock]
  <2>2. e \in Entry /\ e.timestamp = clock /\ clock \in Nat
    BY <1>0 DEF Entry
  <2> HIDE DEF e
  <2>3. entries' = Pushed(e) /\ log' = Append(log, e)
    BY <2>1 DEF e
  <2>4. Len(log) \in Nat /\ Len(entries) = Smaller(Len(log), Capacity)
    BY <1>0
  <2>5. /\ entries' \in Seq(Entry)
        /\ Len(entries') = Smaller(Len(entries) + 1, Capacity)
        /\ entries'[1] = e
        /\ \A i \in 2 .. Len(entries') : entries'[i] = entries[i - 1]
    BY <1>0, <2>2, <2>3, <2>4, CapacityType, PushedShape DEF Smaller
  <2>6. /\ log' \in Seq(Entry) /\ Len(log') = Len(log) + 1
        /\ log'[Len(log) + 1] = e
        /\ \A p \in 1 .. Len(log) : log'[p] = log[p]
    BY <1>0, <2>2, <2>3
  <2>7. UNCHANGED <<clock, listed>> /\ finished' \in [Searchers -> SUBSET Queries]
    BY <1>0, <1>3 DEF AppendEntry, Nothing
  <2>8. BufferTypeOK'
    BY <1>0, <2>5, <2>6, <2>7
  <2>9. KeepsNewest'
    <3>1. Len(entries') = Smaller(Len(log'), Capacity)
      BY <2>4, <2>5, <2>6, CapacityType DEF Smaller
    <3>2. ASSUME NEW i \in 1 .. Len(entries')
          PROVE  entries'[i] = log'[Len(log') + 1 - i]
      <4>1. CASE i = 1
        BY <2>5, <2>6, <2>4, <4>1
      <4>2. CASE i # 1
        <5>1. i - 1 \in 1 .. Len(entries)
          BY <3>2, <4>2, <2>4, <2>5, CapacityType DEF Smaller
        <5>2. entries'[i] = log[Len(log) + 1 - (i - 1)]
          BY <1>0, <2>5, <3>2, <4>2, <5>1
        <5>3. Len(log) + 1 - (i - 1) \in 1 .. Len(log)
          BY <5>1, <2>4, CapacityType DEF Smaller
        <5>4. QED
          BY <2>4, <2>6, <3>2, <5>2, <5>3
      <4>3. QED
        BY <4>1, <4>2
    <3>3. QED
      BY <3>1, <3>2
  <2>10. Stamped' /\ NewestFirst'
    <3>1. ASSUME NEW i \in 1 .. Len(entries'), i # 1
          PROVE  i - 1 \in 1 .. Len(entries) /\ entries'[i] = entries[i - 1]
      <4>1. i \in 2 .. Len(entries')
        BY <3>1, <2>5, <2>4, CapacityType DEF Smaller
      <4>2. Len(entries') <= Len(entries) + 1 /\ Len(entries) \in Nat
        BY <2>4, <2>5, CapacityType DEF Smaller
      <4>3. QED
        BY <2>5, <4>1, <4>2
    <3>2. \A i \in 1 .. Len(entries') : entries'[i].timestamp <= clock'
      <4>1. ASSUME NEW i \in 1 .. Len(entries')
            PROVE  entries'[i].timestamp <= clock'
        BY <1>0, <2>2, <2>5, <2>7, <3>1
      <4>2. QED
        BY <4>1
    <3>3. ASSUME NEW i \in 1 .. Len(entries'), NEW j \in 1 .. Len(entries'), i < j
          PROVE  entries'[i].timestamp >= entries'[j].timestamp
      <4>1. j - 1 \in 1 .. Len(entries) /\ entries'[j] = entries[j - 1]
        BY <3>1, <3>3
      <4>2. entries[j - 1].timestamp <= clock /\ entries[j - 1].timestamp \in Nat
        BY <1>0, <4>1, EntryTime
      <4>3. CASE i = 1
        BY <2>2, <2>5, <4>1, <4>2, <4>3
      <4>4. CASE i # 1
        <5>1. i - 1 \in 1 .. Len(entries) /\ entries'[i] = entries[i - 1] /\ i - 1 < j - 1
          BY <3>1, <3>3, <4>4
        <5>2. QED
          BY <1>0, <4>1, <5>1
      <4>5. QED
        BY <4>3, <4>4
    <3>4. QED
      BY <3>2, <3>3
  <2>11. QED
    BY <2>8, <2>9, <2>10
<1>4. ASSUME NEW limit \in Limits, NEW filter \in Filters, ListEntries(limit, filter)
      PROVE  IndInv'
  BY <1>0, <1>4 DEF ListEntries
<1>5. CASE UNCHANGED vars
  BY <1>0, <1>5 DEF vars
<1>6. QED
  BY <1>1, <1>2, <1>3, <1>4, <1>5 DEF Next

\* The buffer invariant of every behaviour.
LEMMA Invariant == Spec => []IndInv
<1>1. Init => IndInv
  BY CapacityType DEF Init, IndInv, BufferTypeOK, KeepsNewest, NewestFirst, Stamped, Smaller, Nothing
<1>2. QED
  BY <1>1, Step, PTL DEF Spec

\* The types of the buffer, the log and the pending records, for every bound.
THEOREM HistoryTypeCorrect == Spec => []BufferTypeOK
  BY Invariant, PTL DEF IndInv

\* The buffer holds exactly the newest appends, newest first and by falling timestamps.
THEOREM HistoryBufferIsNewest == Spec => []BufferIsNewest
  BY Invariant, PTL DEF IndInv, BufferIsNewest
-----------------------------------------------------------------------------
(* What List returns.                                                      *)

\* The indices in the buffer that match.
Matching(filter) == {i \in DOMAIN entries : entries[i].query \in filter}

\* order lists the matches in the buffer, and their places in the log are the
\* retained ones that match.
Ordered(order, c, filter) ==
    /\ c \in Nat /\ order \in [1 .. c -> Nat]
    /\ \A j, k \in 1 .. c : j < k <=> order[j] < order[k]
    /\ Retained(filter) = {Len(log) + 1 - order[k] : k \in 1 .. c}

\* The buffer mirrors the end of the log, so its matches are the retained ones.
LEMMA MatchesAreRetained ==
  ASSUME BufferTypeOK, KeepsNewest, NEW filter
  PROVE  /\ Cardinality(Matching(filter)) \in Nat
         /\ Ordered(InOrder(Matching(filter)), Cardinality(Matching(filter)), filter)
         /\ \A k \in 1 .. Cardinality(Matching(filter)) :
               entries[InOrder(Matching(filter))[k]]
                 = log[Len(log) + 1 - InOrder(Matching(filter))[k]]
<1> DEFINE at == Matching(filter)
           f == InOrder(at)
           c == Cardinality(at)
<1>1. /\ Len(log) \in Nat /\ Len(entries) \in Nat /\ DOMAIN entries = 1 .. Len(entries)
      /\ Len(entries) = Smaller(Len(log), Capacity)
      /\ \A i \in 1 .. Len(entries) : entries[i] = log[Len(log) + 1 - i]
  BY DEF BufferTypeOK, KeepsNewest
<1>2. at \in SUBSET (1 .. Len(entries))
  BY <1>1 DEF Matching
<1>3. /\ c \in Nat /\ f \in [1 .. c -> at]
      /\ \A i \in at : \E k \in 1 .. c : f[k] = i
      /\ \A j, k \in 1 .. c : j < k <=> f[j] < f[k]
  BY <1>1, <1>2, InOrderFacts
<1>4. \A i \in 1 .. Len(entries) : i \in at <=> log[Len(log) + 1 - i].query \in filter
  BY <1>1 DEF Matching
<1> HIDE DEF at, f, c
<1>5. ASSUME NEW i \in at
      PROVE  Len(log) + 1 - i \in Retained(filter)
  <2>1. i \in 1 .. Len(entries) /\ log[Len(log) + 1 - i].query \in filter
    BY <1>2, <1>4
  <2>2. /\ Len(log) + 1 - i \in 1 .. Len(log)
        /\ Len(log) + 1 - i > Len(log) - Capacity
    BY <1>1, <2>1, CapacityType DEF Smaller
  <2> QED
    BY <2>1, <2>2 DEF Retained
<1>6. ASSUME NEW p \in Retained(filter)
      PROVE  \E i \in at : p = Len(log) + 1 - i
  <2>1. p \in 1 .. Len(log) /\ p > Len(log) - Capacity /\ log[p].query \in filter
    BY DEF Retained
  <2>2. /\ Len(log) + 1 - p \in 1 .. Len(entries)
        /\ p = Len(log) + 1 - (Len(log) + 1 - p)
    BY <1>1, <2>1, CapacityType DEF Smaller
  <2> QED
    BY <1>4, <2>1, <2>2
<1>7. Retained(filter) = {Len(log) + 1 - f[k] : k \in 1 .. c}
  BY <1>3, <1>5, <1>6
<1>8. at \subseteq Nat
  BY <1>2
<1>9. f \in [1 .. c -> Nat]
  BY <1>3, <1>8
<1>10. Ordered(f, c, filter)
  BY <1>3, <1>7, <1>9 DEF Ordered
<1>11. \A k \in 1 .. c : entries[f[k]] = log[Len(log) + 1 - f[k]]
  BY <1>1, <1>2, <1>3
<1> QED
  BY <1>3, <1>10, <1>11 DEF at, f, c

\* The n-th newest of the retained matches is the n-th match in the buffer.
LEMMA NthNewestIs ==
  ASSUME Len(log) \in Nat, NEW filter, NEW order, NEW c, Ordered(order, c, filter)
  PROVE  /\ Cardinality(Retained(filter)) = c
         /\ \A k \in 1 .. c : NthNewest(Retained(filter), k) = Len(log) + 1 - order[k]
<1> DEFINE S == Retained(filter)
           place == [k \in 1 .. c |-> Len(log) + 1 - order[k]]
<1>1. /\ c \in Nat /\ order \in [1 .. c -> Nat]
      /\ \A j, k \in 1 .. c : j < k <=> order[j] < order[k]
      /\ S = {Len(log) + 1 - order[k] : k \in 1 .. c}
  BY DEF Ordered
<1>2. /\ \A k \in 1 .. c : place[k] = Len(log) + 1 - order[k] /\ place[k] \in Int
      /\ \A x \in S : \E k \in 1 .. c : x = place[k]
      /\ \A k \in 1 .. c : place[k] \in S
      /\ S = {place[k] : k \in 1 .. c}
  <2>1. \A k \in 1 .. c : place[k] = Len(log) + 1 - order[k]
    OBVIOUS
  <2>2. \A k \in 1 .. c : place[k] \in Int
    BY <1>1, <2>1
  <2> HIDE DEF place
  <2>3. S = {place[k] : k \in 1 .. c}
    BY <1>1, <2>1
  <2> QED
    BY <2>1, <2>2, <2>3
<1>3. \A j, k \in 1 .. c : j < k <=> place[k] < place[j]
  BY <1>1
<1> HIDE DEF S, place
<1>4. \A j, k \in 1 .. c : place[j] = place[k] => j = k
  BY <1>1, <1>2, <1>3
<1>5. ASSUME NEW k \in 1 .. c
      PROVE  Cardinality({q \in S : q >= place[k]}) = k
  <2>1. {q \in S : q >= place[k]} = {place[i] : i \in 1 .. k}
    <3>1. ASSUME NEW q \in S, q >= place[k]
          PROVE  \E i \in 1 .. k : q = place[i]
      <4>1. PICK i \in 1 .. c : q = place[i]
        BY <1>2
      <4>2. ~(k < i)
        BY <1>2, <1>3, <3>1, <4>1
      <4> QED
        BY <1>1, <4>1, <4>2
    <3>2. ASSUME NEW i \in 1 .. k
          PROVE  place[i] \in S /\ place[i] >= place[k]
      <4>1. i \in 1 .. c /\ ~(k < i)
        BY <1>1
      <4> QED
        BY <1>2, <1>3, <4>1
    <3> QED
      BY <3>1, <3>2
  <2>2. k \in Nat /\ \A i, j \in 1 .. k : i \in 1 .. c /\ j \in 1 .. c
    BY <1>1
  <2>3. \A i, j \in 1 .. k : place[i] = place[j] => i = j
    BY <1>4, <2>2
  <2>4. Cardinality({place[i] : i \in 1 .. k}) = k
    BY <2>2, <2>3, ImageCount
  <2> QED
    BY <2>1, <2>4
<1>6. Cardinality(S) = c
  <2>1. c \in Nat
    BY <1>1
  <2>2. Cardinality({place[i] : i \in 1 .. c}) = c
    BY <1>4, <2>1, ImageCount
  <2> QED
    BY <1>2, <2>2
<1>7. ASSUME NEW k \in 1 .. c
      PROVE  NthNewest(S, k) = place[k]
  <2> DEFINE p == NthNewest(S, k)
  <2>1. place[k] \in S /\ Cardinality({q \in S : q >= place[k]}) = k
    BY <1>2, <1>5
  <2>2. p \in S /\ Cardinality({q \in S : q >= p}) = k
    BY <2>1 DEF NthNewest
  <2> HIDE DEF p
  <2>3. PICK j \in 1 .. c : p = place[j]
    BY <1>2, <2>2
  <2>4. Cardinality({q \in S : q >= p}) = j
    BY <1>5, <2>3
  <2>5. j = k
    BY <2>2, <2>4
  <2> QED
    BY <2>3, <2>5 DEF p
<1> QED
  BY <1>2, <1>6, <1>7 DEF S

\* What List takes from the buffer is what the log says it must.
LEMMA ListStep ==
  ASSUME BufferTypeOK, KeepsNewest, NEW limit \in Nat, NEW filter, ListEntries(limit, filter)
  PROVE  listed' = Answer(limit, filter) /\ listed' \in Seq(Entry)
<1> DEFINE at == Matching(filter)
           f == InOrder(at)
           c == Cardinality(at)
           found == Selected(filter)
           n == IF limit = 0 \/ limit > c THEN c ELSE limit
<1>1. entries \in Seq(Entry) /\ at \in SUBSET DOMAIN entries /\ Len(log) \in Nat
  BY DEF BufferTypeOK, Matching
<1>2. found = Picked(entries, at)
  BY DEF Selected, Kept, Matching
<1>3. /\ c \in Nat /\ found \in Seq(Entry) /\ Len(found) = c
      /\ \A k \in 1 .. c : found[k] = entries[f[k]]
  BY <1>1, <1>2, PickedFacts
<1>4. /\ Ordered(f, c, filter)
      /\ \A k \in 1 .. c : entries[f[k]] = log[Len(log) + 1 - f[k]]
  BY MatchesAreRetained
<1> HIDE DEF at, f, c
<1>5. /\ Cardinality(Retained(filter)) = c
      /\ \A k \in 1 .. c : NthNewest(Retained(filter), k) = Len(log) + 1 - f[k]
  BY <1>1, <1>4, NthNewestIs
<1>6. listed' = SubSeq(found, 1, n)
  BY <1>3 DEF ListEntries
<1> HIDE DEF found
<1>7. n \in 0 .. c
  BY <1>3
<1>8. n = IF limit = 0 THEN c ELSE Smaller(limit, c)
  BY <1>3 DEF Smaller
<1>9. Answer(limit, filter) = [k \in 1 .. n |-> log[NthNewest(Retained(filter), k)]]
  BY <1>5, <1>8 DEF Answer
<1> HIDE DEF n
<1>10. \A k \in 1 .. n : log[NthNewest(Retained(filter), k)] = found[k] /\ k \in 1 .. c
  BY <1>3, <1>4, <1>5, <1>7
<1>11. /\ listed' \in Seq(Entry)
       /\ listed' = [k \in 1 .. n |-> found[k]]
  BY <1>3, <1>6, <1>7
<1>12. [k \in 1 .. n |-> log[NthNewest(Retained(filter), k)]] = [k \in 1 .. n |-> found[k]]
  BY <1>10
<1> QED
  BY <1>9, <1>11, <1>12

\* The types of the whole state, what List returned included.
THEOREM HistoryStateTypeCorrect == Spec => []TypeOK
<1>1. Init => TypeOK
  BY DEF Init, TypeOK, BufferTypeOK, Nothing
<1>2. IndInv /\ TypeOK /\ IndInv' /\ [Next]_vars => TypeOK'
  <2>1. SUFFICES ASSUME IndInv, TypeOK, IndInv', [Next]_vars PROVE listed' \in Seq(Entry)
    BY DEF TypeOK, IndInv
  <2>2. ASSUME NEW limit \in Limits, NEW filter \in Filters, ListEntries(limit, filter)
        PROVE  listed' \in Seq(Entry)
    BY <2>1, <2>2, ListStep, HistoryAssumption DEF IndInv
  <2>3. CASE listed' = listed
    BY <2>1, <2>3 DEF TypeOK
  <2> QED
    BY <2>1, <2>2, <2>3 DEF Next, Tick, AppendEntry, Finish, vars
<1> QED
  BY <1>1, <1>2, Invariant, PTL DEF Spec

\* get_search_history is exact for every bound, limit, filter and length of the log:
\* filtering comes before the limit, and the order is that of the log.
THEOREM HistoryListIsExact == Spec => ListIsExact
<1>1. IndInv /\ [Next]_vars =>
        [\A limit \in Limits, filter \in Filters :
           ListEntries(limit, filter) => listed' = Answer(limit, filter)]_vars
  BY ListStep, HistoryAssumption DEF IndInv
<1> QED
  BY <1>1, Invariant, PTL DEF Spec, ListIsExact
=============================================================================
