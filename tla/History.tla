------------------------------ MODULE History ------------------------------
(***************************************************************************)
(* cache.HistoryService of internal/cache/history.go: the bounded,         *)
(* newest-first buffer of completed searches behind get_search_history.    *)
(* Searches finish on many goroutines; Append and List each run under one  *)
(* mutex, so each is one step, but the order in which finished searches    *)
(* get the mutex is arbitrary.                                             *)
(*                                                                         *)
(* A query is a member of Queries; the substring filter of List is the     *)
(* set of queries it matches, and the empty filter matches all of them.    *)
(***************************************************************************)
EXTENDS Integers, Sequences, FiniteSets, Selection

CONSTANTS
    Searchers,      \* goroutines that record completed searches
    Queries,        \* query texts
    Filters,        \* what a caller may filter on: sets of matching queries
    Limits,         \* the limit arguments of List
    Bound,          \* the bound given to NewHistoryService
    MaxClock,       \* bound: the clock stops here
    MaxAppends      \* bound: appends in a run

ASSUME HistoryAssumption ==
    /\ Filters \subseteq SUBSET Queries
    /\ Limits \subseteq Nat
    /\ Bound \in Nat
    /\ MaxClock \in Nat
    /\ MaxAppends \in Nat

VARIABLES
    clock,          \* time.Now()
    entries,        \* HistoryService.entries, newest first
    finished,       \* the query each goroutine is about to record, or Nothing
    listed,         \* what the last List returned
    log             \* history: everything ever appended, oldest first

vars == <<clock, entries, finished, listed, log>>

\* NewHistoryService: a bound that is not positive means 100.
Capacity == IF Bound = 0 THEN 100 ELSE Bound

Entry == [query : Queries, timestamp : Nat]

Nothing == {}

-----------------------------------------------------------------------------
Init ==
    /\ clock = 0
    /\ entries = <<>>
    /\ finished = [s \in Searchers |-> Nothing]
    /\ listed = <<>>
    /\ log = <<>>

Tick ==
    /\ clock < MaxClock
    /\ clock' = clock + 1
    /\ UNCHANGED <<entries, finished, listed, log>>

\* A search completes and its handler reaches recordSearch.
Finish(s, q) ==
    /\ finished[s] = Nothing
    /\ finished' = [finished EXCEPT ![s] = {q}]
    /\ UNCHANGED <<clock, entries, listed, log>>

\* Mutant of Pushed: the bound is checked before the new entry is counted.
PushedPastBound(e) ==
    <<e>> \o (IF Len(entries) > Capacity
              THEN SubSeq(entries, 1, Len(entries) - 1) ELSE entries)

\* Mutant of Pushed: the new entry goes to the tail of the buffer.
PushedAtTail(e) ==
    (IF Len(entries) >= Capacity THEN Tail(entries) ELSE entries) \o <<e>>

\* Prepend, dropping the tail of a buffer that is full.
Pushed(e) ==
    <<e>> \o (IF Len(entries) >= Capacity
              THEN SubSeq(entries, 1, Len(entries) - 1) ELSE entries)

\* Append stamps the entry once it has the mutex, not when the search ended.
AppendEntry(s) ==
    /\ Len(log) < MaxAppends
    /\ \E q \in finished[s] :
          LET e == [query |-> q, timestamp |-> clock]
          IN  /\ entries' = Pushed(e)
              /\ log' = Append(log, e)
    /\ finished' = [finished EXCEPT ![s] = Nothing]
    /\ UNCHANGED <<clock, listed>>

\* List: filter the buffer, then cut it to the limit; 0 means no limit.
Selected(filter) == Kept(entries, LAMBDA i : entries[i].query \in filter)

\* Mutant of ListEntries: the limit is applied before the filter.
ListLimitFirst(limit, filter) ==
    LET n == IF limit = 0 \/ limit > Len(entries) THEN Len(entries) ELSE limit
    IN  /\ listed' = Kept(SubSeq(entries, 1, n), LAMBDA i : entries[i].query \in filter)
        /\ UNCHANGED <<clock, entries, finished, log>>

ListEntries(limit, filter) ==
    LET found == Selected(filter)
        n == IF limit = 0 \/ limit > Len(found) THEN Len(found) ELSE limit
    IN  /\ listed' = SubSeq(found, 1, n)
        /\ UNCHANGED <<clock, entries, finished, log>>

Next ==
    \/ Tick
    \/ \E s \in Searchers : AppendEntry(s) \/ \E q \in Queries : Finish(s, q)
    \/ \E limit \in Limits, filter \in Filters : ListEntries(limit, filter)

Spec == Init /\ [][Next]_vars

-----------------------------------------------------------------------------
BufferTypeOK ==
    /\ clock \in Nat
    /\ entries \in Seq(Entry)
    /\ finished \in [Searchers -> SUBSET Queries]
    /\ log \in Seq(Entry)

\* The types of the state.
TypeOK == BufferTypeOK /\ listed \in Seq(Entry)

Smaller(m, n) == IF m < n THEN m ELSE n

\* The buffer is exactly the newest entries ever appended, as many as fit, newest
\* first: the trim of the tail and the prepend lose, repeat and reorder nothing.
KeepsNewest ==
    /\ Len(entries) = Smaller(Len(log), Capacity)
    /\ \A i \in 1 .. Len(entries) : entries[i] = log[Len(log) + 1 - i]

\* The buffer is in the order of its timestamps, although searches finish in any
\* order: the stamp is taken under the mutex that orders the buffer.
NewestFirst ==
    \A i, j \in 1 .. Len(entries) :
        i < j => entries[i].timestamp >= entries[j].timestamp

\* Whatever the order in which searches finish, the buffer is the end of the log, and
\* its timestamps fall.
BufferIsNewest == KeepsNewest /\ NewestFirst

\* What List must return, from the log alone: the positions of the retained
\* entries that match, newest first, cut to the limit.
Retained(filter) ==
    {p \in 1 .. Len(log) : /\ p > Len(log) - Capacity
                           /\ log[p].query \in filter}

NthNewest(S, n) == CHOOSE p \in S : Cardinality({q \in S : q >= p}) = n

Answer(limit, filter) ==
    LET S == Retained(filter)
        n == IF limit = 0 THEN Cardinality(S) ELSE Smaller(limit, Cardinality(S))
    IN  [i \in 1 .. n |-> log[NthNewest(S, i)]]

\* get_search_history answers with the newest retained entries that match, even
\* when newer entries that do not match stand in front of them: filtering comes
\* before the limit, and a limit beyond the buffer is not an error.
ListIsExact ==
    [][\A limit \in Limits, filter \in Filters :
          ListEntries(limit, filter) => listed' = Answer(limit, filter)]_vars
=============================================================================
