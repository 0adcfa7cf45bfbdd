---------------------------- MODULE FetchProofs ----------------------------
(***************************************************************************)
(* Proofs about Fetch, for any number of fetches, slots, attempts and      *)
(* redirects, any upstream and any DNS.                                    *)
(***************************************************************************)
EXTENDS Fetch, FiniteSetTheorems, TLAPS

\* The requests that this many attempts may send.
Budget(n) == n * (MaxRedirects + 1)

\* Where a walk along a chain of redirects is under way, or about to begin.
Walking == {"backoff", "hop", "request"}

\* Attempts, hops, requests and links of the chain so far: the attempts before this one
\* have sent what their budget allows, and this one at most one request for each hop.
Counted(at, a, h, r, n) ==
    /\ a <= MaxAttempts
    /\ h <= MaxRedirects
    /\ n <= r
    /\ at = "queue" => a = 0
    /\ at \in {"hop", "request", "judge"} => a >= 1
    /\ at = "backoff" => a >= 2 /\ h = 0
    /\ at \in Walking => r <= Budget(a - 1) + h
    /\ at \notin Walking => r <= Budget(a)

CountInv == \A f \in Fetchers :
    Counted(pc[f], attempts[f], hop[f], requests[f], Len(chain[f]))

\* How the outcome and the error of an attempt go together when it has ended, with the
\* status, whether its last request was answered, and its hop.
Paired(o, e, s, ans, h) ==
    \/ o = "success" /\ e = "nil" /\ ans /\ Success(s)
    \/ o \in {"timeout", "blocked-target"} /\ e = "timeout"
    \/ o = "blocked-target" /\ e = "blocked"
    \/ o = "transport-error" /\ e = "transport"
    \/ o = "http-error" /\ e = "http" /\ ans /\ s >= 400
    \/ o = "too-many-redirects" /\ e = "other" /\ ans /\ h = MaxRedirects
    \/ o = "non-transient-failure" /\ e = "other"

\* How they go together when the fetch has returned: OutcomeIsReal of one fetch.
Settled(a, o, e, s, ans, h) ==
    /\ o = "none" <=> e = "nil" /\ a = 0
    /\ o = "success" <=> e = "nil" /\ a > 0
    /\ o = "timeout" <=> e \in {"timeout", "canceled"}
    /\ o = "transient-failure-retried-exhausted" <=> Transient(s) /\ e \in Definite
    /\ ~Transient(s) /\ e \in Definite => o \in Failing[e]
    /\ o = "transient-failure-retried-exhausted" => a = MaxAttempts
    /\ o = "success" => ans /\ Success(s)
    /\ o = "http-error" => ans /\ s >= 400
    /\ o = "too-many-redirects" => ans /\ h = MaxRedirects

\* What an attempt leaves behind for the next one, or for the caller.
Judged(at, a, o, e, s, ans, h) ==
    /\ at = "judge" => Paired(o, e, s, ans, h)
    /\ at \in {"attempt", "backoff"} /\ a > 0 =>
          e \notin {"nil", "canceled"} /\ ShouldRetry(s, e)
    /\ at = "idle" => Settled(a, o, e, s, ans, h)

VerdictInv == \A f \in Fetchers :
    Judged(pc[f], attempts[f], outcome[f], err[f], status[f], f \in answered, hop[f])

\* A transient status is one of this attempt, or one that was counted.
Excused(at, a, s, ans, t) ==
    /\ a > 1 => t > 0
    /\ at = "attempt" /\ a > 0 => t > 0
    /\ Transient(s) /\ (at = "judge" => ~ans) /\ at # "idle" => t > 0

TransientInv == \A f \in Fetchers :
    Excused(pc[f], attempts[f], status[f], f \in answered, transients[f])

SlotCount == SlotsInv /\ IsFiniteSet(slots)

IndInv == TypeOK /\ SlotCount /\ CountInv /\ VerdictInv /\ TransientInv

\* The fetches start in the invariant.
LEMMA InitInv == Init => IndInv
<1>1. SUFFICES ASSUME Init PROVE IndInv
  OBVIOUS
<1>2. TypeOK
  BY <1>1, FetchAssumption DEF Init, TypeOK, Errors, Outcomes
<1>3. SlotCount
  BY <1>1, FS_EmptySet, FetchAssumption DEF Init, SlotCount, SlotsInv, Working
<1>4. CountInv
  BY <1>1, FetchAssumption DEF Init, CountInv, Counted, Budget, Walking
<1>5. VerdictInv /\ TransientInv
  BY <1>1 DEF Init, VerdictInv, TransientInv, Judged, Settled, Excused, Transient, Definite, Failing
<1>6. QED
  BY <1>2, <1>3, <1>4, <1>5 DEF IndInv

-----------------------------------------------------------------------------
(* Types.                                                                  *)

\* A response has a status, a location and a body.
LEMMA AnswerType ==
  ASSUME NEW f \in Fetchers, NEW a \in Answers[f]
  PROVE  /\ a.status \in Nat
         /\ Redirects(a) /\ a.location # BadLocation => a.location \in Urls
<1>1. a \in Answer
  BY FetchAssumption
<1>2. a.status \in 100 .. 599 /\ a.location \in Urls \cup {NoLocation, BadLocation}
  BY <1>1 DEF Answer
<1>3. QED
  BY <1>2 DEF Redirects

\* What the classification of a response can do to its fetch.
LEMMA ClassifyEffect ==
  ASSUME TypeOK, NEW f \in Fetchers, NEW a \in Answers[f], Classify(f, a)
  PROVE  \/ /\ \E o \in Outcomes, e \in Errors :
                 /\ Fail(f, o, e)
                 /\ o # "none"
                 /\ o = "success" <=> e = "nil"
                 /\ o = "success" => Success(a.status)
            /\ chain' \in {chain, [chain EXCEPT ![f] = Append(@, current[f])]}
         \/ /\ hop[f] < MaxRedirects
            /\ a.status \in 300 .. 399
            /\ hop' = [hop EXCEPT ![f] = @ + 1]
            /\ pc' = [pc EXCEPT ![f] = "hop"]
            /\ \E u \in Urls : current' = [current EXCEPT ![f] = u]
            /\ chain' \in {chain, [chain EXCEPT ![f] = Append(@, current[f])]}
            /\ UNCHANGED <<err, outcome>>
<1>1. CASE a.body = "complete" /\ Redirects(a) /\ FollowRedirect(f, a)
  BY <1>1, AnswerType DEF FollowRedirect, Outcomes, Errors, Redirects
<1>2. CASE a.body = "complete" /\ a.status \in 300 .. 399 /\ ~Redirects(a) /\ AskAgain(f)
  <2>1. current = [current EXCEPT ![f] = current[f]] /\ current[f] \in Urls
    BY DEF TypeOK
  <2>2. QED
    BY <1>2, <2>1 DEF AskAgain, Outcomes, Errors
<1>3. QED
  BY <1>1, <1>2 DEF Classify, Outcomes, Errors

\* What a request can do to its fetch: fail without a response, or have one classified.
LEMMA RequestEffect ==
  ASSUME TypeOK, NEW f \in Fetchers, Request(f)
  PROVE  /\ pc[f] = "request"
         /\ UNCHANGED <<slots, cancelled, attempts, transients, misjudged>>
         /\ \/ /\ \E o \in Outcomes \ {"none", "success"}, e \in Errors \ {"nil"} : Fail(f, o, e)
               /\ requests' \in {requests, [requests EXCEPT ![f] = @ + 1]}
               /\ UNCHANGED <<status, chain, answered>>
            \/ \E a \in Answers[f] :
                  /\ requests' = [requests EXCEPT ![f] = @ + 1]
                  /\ answered' = answered \cup {f}
                  /\ status' = [status EXCEPT ![f] = a.status]
                  /\ Classify(f, a)
  BY DEF Request, DialBlocked, NoResponse, Outcomes, Errors

\* Every step keeps the types.
LEMMA TypeStep == TypeOK /\ [Next]_vars => TypeOK'
<1>1. SUFFICES ASSUME TypeOK, [Next]_vars PROVE TypeOK'
  OBVIOUS
<1>2. ASSUME NEW f \in Fetchers, FetchRefused(f) \/ FetchAllowed(f)
      PROVE  TypeOK'
  <2>1. /\ slots' = slots
        /\ pc' = pc \/ pc' = [pc EXCEPT ![f] = "queue"]
        /\ \E o \in Outcomes : outcome' = [outcome EXCEPT ![f] = o]
        /\ \E e \in Errors : err' = [err EXCEPT ![f] = e]
    BY <1>2 DEF FetchRefused, FetchAllowed, Reset, Goto, Outcomes, Errors
  <2>2. pc' \in [Fetchers -> {"idle", "queue"} \cup Working]
    BY <1>1, <2>1 DEF TypeOK
  <2>3. Reset(f)
    BY <1>2 DEF FetchRefused, FetchAllowed
  <2>4. /\ cancelled' \subseteq Fetchers /\ answered' \subseteq Fetchers
        /\ misjudged' \subseteq Fetchers
        /\ current' \in [Fetchers -> Urls]
        /\ chain' \in [Fetchers -> Seq(Urls)]
    BY <1>1, <2>3, FetchAssumption DEF TypeOK, Reset
  <2>5. /\ hop' \in [Fetchers -> Nat] /\ status' \in [Fetchers -> Nat]
        /\ attempts' \in [Fetchers -> Nat] /\ requests' \in [Fetchers -> Nat]
        /\ transients' \in [Fetchers -> Nat]
    BY <1>1, <2>3 DEF TypeOK, Reset
  <2>6. outcome' \in [Fetchers -> Outcomes] /\ err' \in [Fetchers -> Errors]
    BY <1>1, <2>1 DEF TypeOK
  <2>7. QED
    BY <1>1, <2>1, <2>2, <2>4, <2>5, <2>6 DEF TypeOK
<1>3. ASSUME NEW f \in Fetchers, Cancel(f) \/ AcquireSlot(f)
      PROVE  TypeOK'
  BY <1>1, <1>3 DEF TypeOK, Cancel, AcquireSlot, Goto, Working, response, ghosts
<1>4. ASSUME NEW f \in Fetchers, AbandonQueue(f) \/ Exhausted(f) \/ JudgeCancelled(f)
      PROVE  TypeOK'
  BY <1>1, <1>4
     DEF TypeOK, AbandonQueue, Exhausted, JudgeCancelled, ReturnCancelled, Return, ghosts, Outcomes,
         Errors
<1>5. ASSUME NEW f \in Fetchers, NextAttempt(f)
      PROVE  TypeOK'
  <2>1. attempts' \in [Fetchers -> Nat]
    BY <1>1, <1>5 DEF TypeOK, NextAttempt
  <2>2. UNCHANGED <<cancelled, status, chain, answered, requests, transients, misjudged>>
    BY <1>5 DEF NextAttempt, ghosts
  <2>3. CASE ReturnCancelled(f) /\ UNCHANGED <<hop, current>>
    BY <1>1, <2>1, <2>2, <2>3 DEF TypeOK, ReturnCancelled, Return, Outcomes, Errors
  <2>4. CASE /\ pc' = [pc EXCEPT ![f] = IF attempts[f] = 0 THEN "hop" ELSE "backoff"]
             /\ hop' = [hop EXCEPT ![f] = 0]
             /\ current' = [current EXCEPT ![f] = Target]
             /\ UNCHANGED <<slots, err, outcome>>
    BY <1>1, <2>1, <2>2, <2>4, FetchAssumption DEF TypeOK, Working
  <2>5. QED
    BY <1>5, <2>3, <2>4 DEF NextAttempt
<1>6. ASSUME NEW f \in Fetchers, Backoff(f)
      PROVE  TypeOK'
  BY <1>1, <1>6
     DEF TypeOK, Backoff, ReturnCancelled, Return, Goto, ghosts, Outcomes, Errors, Working
<1>7. ASSUME NEW f \in Fetchers, ValidateHop(f)
      PROVE  TypeOK'
  BY <1>1, <1>7 DEF TypeOK, ValidateHop, Fail, LookupErr, Goto, Outcomes, Errors, Working
<1>8. ASSUME NEW f \in Fetchers, Request(f)
      PROVE  TypeOK'
  <2>1. current[f] \in Urls /\ requests[f] + 1 \in Nat /\ hop[f] + 1 \in Nat
    BY <1>1 DEF TypeOK
  <2>2. [chain EXCEPT ![f] = Append(@, current[f])] \in [Fetchers -> Seq(Urls)]
    BY <1>1, <2>1 DEF TypeOK
  <2>3. /\ chain' \in [Fetchers -> Seq(Urls)]
        /\ answered' \subseteq Fetchers /\ status' \in [Fetchers -> Nat]
    <3>1. CASE UNCHANGED <<status, chain, answered>>
      BY <1>1, <3>1 DEF TypeOK
    <3>2. ASSUME NEW a \in Answers[f],
                 answered' = answered \cup {f},
                 status' = [status EXCEPT ![f] = a.status],
                 Classify(f, a)
          PROVE  /\ chain' \in [Fetchers -> Seq(Urls)]
                 /\ answered' \subseteq Fetchers /\ status' \in [Fetchers -> Nat]
      <4>1. chain' \in {chain, [chain EXCEPT ![f] = Append(@, current[f])]}
        BY <1>1, <3>2, ClassifyEffect
      <4>2. a.status \in Nat
        BY AnswerType
      <4>3. answered' \subseteq Fetchers /\ status' \in [Fetchers -> Nat]
        BY <1>1, <3>2, <4>2 DEF TypeOK
      <4>4. chain \in [Fetchers -> Seq(Urls)]
        BY <1>1 DEF TypeOK
      <4>5. QED
        BY <2>2, <4>1, <4>3, <4>4
    <3>3. QED
      BY <1>1, <1>8, <3>1, <3>2, RequestEffect
  <2>4. /\ UNCHANGED <<slots, cancelled, attempts, transients, misjudged>>
        /\ requests' \in {requests, [requests EXCEPT ![f] = @ + 1]}
    BY <1>1, <1>8, RequestEffect
  <2>5. requests' \in [Fetchers -> Nat]
    BY <1>1, <2>1, <2>4 DEF TypeOK
  <2>6. CASE \E o \in Outcomes, e \in Errors : Fail(f, o, e)
    BY <1>1, <2>3, <2>4, <2>5, <2>6 DEF TypeOK, Fail, Working
  <2>7. CASE /\ hop' = [hop EXCEPT ![f] = @ + 1]
             /\ pc' = [pc EXCEPT ![f] = "hop"]
             /\ \E u \in Urls : current' = [current EXCEPT ![f] = u]
             /\ UNCHANGED <<err, outcome>>
    <3>1. hop' \in [Fetchers -> Nat] /\ current' \in [Fetchers -> Urls]
      BY <1>1, <2>1, <2>7 DEF TypeOK
    <3>2. pc' \in [Fetchers -> {"idle", "queue"} \cup Working]
      BY <1>1, <2>7 DEF TypeOK, Working
    <3>3. UNCHANGED <<slots, cancelled, attempts, transients, misjudged, err, outcome>>
      BY <2>4, <2>7
    <3>4. QED
      BY <1>1, <2>3, <2>5, <3>1, <3>2, <3>3 DEF TypeOK
  <2>8. CASE \E a \in Answers[f] : Classify(f, a)
    <3>1. PICK a \in Answers[f] : Classify(f, a)
      BY <2>8
    <3>2. \/ \E o \in Outcomes, e \in Errors : Fail(f, o, e)
          \/ /\ hop' = [hop EXCEPT ![f] = @ + 1]
             /\ pc' = [pc EXCEPT ![f] = "hop"]
             /\ \E u \in Urls : current' = [current EXCEPT ![f] = u]
             /\ UNCHANGED <<err, outcome>>
      BY <1>1, <3>1, ClassifyEffect
    <3>3. QED
      BY <2>6, <2>7, <3>2
  <2>9. \/ \E o \in Outcomes, e \in Errors : Fail(f, o, e)
        \/ \E a \in Answers[f] : Classify(f, a)
    BY <1>1, <1>8, RequestEffect
  <2>10. QED
    BY <2>6, <2>8, <2>9
<1>9. ASSUME NEW f \in Fetchers, JudgeDone(f)
      PROVE  TypeOK'
  BY <1>1, <1>9 DEF TypeOK, JudgeDone, Return, response, ghosts
<1>10. ASSUME NEW f \in Fetchers, JudgeRetry(f)
      PROVE  TypeOK'
  <2>1. transients[f] + 1 \in Nat
    BY <1>1 DEF TypeOK
  <2>2. transients' \in [Fetchers -> Nat] /\ misjudged' \subseteq Fetchers
    BY <1>1, <1>10, <2>1 DEF TypeOK, JudgeRetry
  <2>3. pc' \in [Fetchers -> {"idle", "queue"} \cup Working]
    BY <1>1, <1>10 DEF TypeOK, JudgeRetry, Goto, Working
  <2>4. UNCHANGED <<slots, cancelled, hop, current, err, response, answered, requests>>
    BY <1>10 DEF JudgeRetry
  <2>5. QED
    BY <1>1, <2>2, <2>3, <2>4 DEF TypeOK, response
<1>11. CASE UNCHANGED vars
  BY <1>1, <1>11 DEF TypeOK, vars, response, ghosts
<1>12. QED
  BY <1>1, <1>2, <1>3, <1>4, <1>5, <1>6, <1>7, <1>8, <1>9, <1>10, <1>11 DEF Next, Step

-----------------------------------------------------------------------------
(* Slots.                                                                  *)

\* A slot is taken when work begins and given back on every way out of it.
LEMMA SlotStep == TypeOK /\ SlotCount /\ [Next]_vars => SlotCount'
<1>1. SUFFICES ASSUME TypeOK, SlotCount, [Next]_vars PROVE SlotCount'
  OBVIOUS
<1>2. ASSUME NEW f \in Fetchers, AcquireSlot(f)
      PROVE  SlotCount'
  <2>1. f \notin slots /\ IsFiniteSet(slots) /\ Cardinality(slots) < Slots
    BY <1>1, <1>2 DEF SlotCount, SlotsInv, AcquireSlot, Goto, Working
  <2>2. IsFiniteSet(slots') /\ Cardinality(slots') = Cardinality(slots) + 1
    BY <1>2, <2>1, FS_AddElement DEF AcquireSlot
  <2>3. Cardinality(slots') <= Slots
    BY <2>1, <2>2, FS_CardinalityType, FetchAssumption
  <2>4. \A g \in Fetchers : g \in slots' <=> pc'[g] \in Working
    BY <1>1, <1>2 DEF TypeOK, SlotCount, SlotsInv, AcquireSlot, Goto, Working
  <2>5. QED
    BY <2>2, <2>3, <2>4 DEF SlotCount, SlotsInv
<1>3. ASSUME NEW f \in Fetchers, NEW e, pc[f] # "idle", Return(f, e)
      PROVE  SlotCount'
  <2>1. IsFiniteSet(slots') /\ Cardinality(slots') <= Cardinality(slots)
    BY <1>1, <1>3, FS_Subset DEF SlotCount, Return
  <2>2. Cardinality(slots') <= Slots
    BY <1>1, <2>1, FS_CardinalityType, FetchAssumption DEF SlotCount, SlotsInv
  <2>3. \A g \in Fetchers : g \in slots' <=> pc'[g] \in Working
    BY <1>1, <1>3 DEF TypeOK, SlotCount, SlotsInv, Return, Working
  <2>4. QED
    BY <2>1, <2>2, <2>3 DEF SlotCount, SlotsInv
<1>4. ASSUME NEW f \in Fetchers, NEW to, slots' = slots, pc' = [pc EXCEPT ![f] = to],
             pc[f] \in Working <=> to \in Working
      PROVE  SlotCount'
  BY <1>1, <1>4 DEF TypeOK, SlotCount, SlotsInv
<1>5. ASSUME slots' = slots, pc' = pc
      PROVE  SlotCount'
  BY <1>1, <1>5 DEF SlotCount, SlotsInv
<1>6. ASSUME NEW f \in Fetchers, FetchRefused(f) \/ FetchAllowed(f) \/ Cancel(f)
      PROVE  SlotCount'
  BY <1>4, <1>5, <1>6 DEF FetchRefused, FetchAllowed, Reset, Cancel, Goto, Working
<1>7. ASSUME NEW f \in Fetchers, NextAttempt(f) \/ Backoff(f) \/ ValidateHop(f) \/ JudgeRetry(f)
      PROVE  SlotCount'
  BY <1>3, <1>4, <1>7
     DEF NextAttempt, Backoff, ValidateHop, JudgeRetry, ReturnCancelled, Fail, Goto, Working
<1>8. ASSUME NEW f \in Fetchers, Request(f)
      PROVE  SlotCount'
  <2>1. pc[f] = "request" /\ slots' = slots
    BY <1>1, <1>8, RequestEffect
  <2>2. \E to \in {"judge", "hop"} : pc' = [pc EXCEPT ![f] = to]
    BY <1>1, <1>8, RequestEffect, ClassifyEffect DEF Fail
  <2>3. QED
    BY <1>4, <2>1, <2>2 DEF Working
<1>9. ASSUME NEW f \in Fetchers,
             AbandonQueue(f) \/ Exhausted(f) \/ JudgeCancelled(f) \/ JudgeDone(f)
      PROVE  SlotCount'
  BY <1>3, <1>9 DEF AbandonQueue, Exhausted, JudgeCancelled, JudgeDone, ReturnCancelled
<1>10. CASE UNCHANGED vars
  BY <1>5, <1>10 DEF vars
<1>11. QED
  BY <1>1, <1>2, <1>6, <1>7, <1>8, <1>9, <1>10 DEF Next, Step

-----------------------------------------------------------------------------
(* Budgets.                                                                *)

\* Each attempt adds its hops to the budget.
LEMMA BudgetGrows ==
  ASSUME NEW m \in Nat
  PROVE  Budget(m) \in Nat /\ Budget(m + 1) = Budget(m) + MaxRedirects + 1
<1> DEFINE r == MaxRedirects + 1
<1>1. r \in Nat
  BY FetchAssumption
<1>2. m * r \in Nat /\ (m + 1) * r = m * r + r
  BY <1>1
<1>3. QED
  BY <1>1, <1>2, FetchAssumption DEF Budget

\* Fewer attempts have no more of it.
LEMMA BudgetMonotone ==
  ASSUME NEW m \in Nat, NEW n \in Nat, m <= n
  PROVE  Budget(m) <= Budget(n)
<1> DEFINE r == MaxRedirects + 1
<1>1. r \in Nat /\ n - m \in Nat
  BY FetchAssumption
<1>2. m * r \in Nat /\ (n - m) * r \in Nat /\ n * r = m * r + (n - m) * r
  BY <1>1
<1>3. QED
  BY <1>1, <1>2 DEF Budget

\* A walk that ends stays within the budget of its attempts.
LEMMA WalkEnds ==
  ASSUME NEW at \in Walking, NEW a \in Nat, NEW h \in Nat, NEW r \in Nat,
         NEW n \in Nat, Counted(at, a, h, r, n)
  PROVE  a >= 1 /\ r + 1 <= Budget(a)
<1>1. a - 1 \in Nat /\ r <= Budget(a - 1) + h
  BY DEF Counted, Walking
<1>2. Budget(a - 1) \in Nat /\ Budget((a - 1) + 1) = Budget(a - 1) + MaxRedirects + 1
  BY <1>1, BudgetGrows
<1>3. (a - 1) + 1 = a /\ h <= MaxRedirects
  BY DEF Counted
<1>4. QED
  BY <1>1, <1>2, <1>3, FetchAssumption DEF Counted

\* A step that concerns one fetch keeps the counts if it keeps the counts of that one.
LEMMA CountsOfOthers ==
  ASSUME CountInv, NEW f \in Fetchers,
         \A g \in Fetchers \ {f} :
            /\ pc'[g] = pc[g] /\ attempts'[g] = attempts[g] /\ hop'[g] = hop[g]
            /\ requests'[g] = requests[g] /\ chain'[g] = chain[g],
         Counted(pc'[f], attempts'[f], hop'[f], requests'[f], Len(chain'[f]))
  PROVE  CountInv'
  BY DEF CountInv

\* Every step keeps the counts.
LEMMA CountStep == TypeOK /\ CountInv /\ [Next]_vars => CountInv'
<1>1. SUFFICES ASSUME TypeOK, CountInv, [Next]_vars PROVE CountInv'
  OBVIOUS
<1>2. ASSUME NEW f \in Fetchers
      PROVE  /\ Counted(pc[f], attempts[f], hop[f], requests[f], Len(chain[f]))
             /\ attempts[f] \in Nat /\ hop[f] \in Nat /\ requests[f] \in Nat
             /\ chain[f] \in Seq(Urls) /\ Len(chain[f]) \in Nat
             /\ Budget(attempts[f]) \in Nat
             /\ Budget(attempts[f] + 1) = Budget(attempts[f]) + MaxRedirects + 1
             /\ pc[f] \in Walking =>
                   attempts[f] >= 1 /\ requests[f] + 1 <= Budget(attempts[f])
  <2>1. chain[f] \in Seq(Urls) /\ attempts[f] \in Nat /\ hop[f] \in Nat /\ requests[f] \in Nat
    BY <1>1 DEF TypeOK
  <2>2. /\ Budget(attempts[f]) \in Nat
        /\ Budget(attempts[f] + 1) = Budget(attempts[f]) + MaxRedirects + 1
    BY <2>1, BudgetGrows
  <2>3. Counted(pc[f], attempts[f], hop[f], requests[f], Len(chain[f]))
    BY <1>1 DEF CountInv
  <2>4. Len(chain[f]) \in Nat
    BY <2>1
  <2>5. QED
    BY <2>1, <2>2, <2>3, <2>4, WalkEnds
<1>3. ASSUME NEW f \in Fetchers, Reset(f),
             (pc' = pc /\ pc[f] = "idle") \/ pc' = [pc EXCEPT ![f] = "queue"]
      PROVE  CountInv'
  <2>1. /\ pc'[f] \in {"idle", "queue"}
        /\ attempts'[f] = 0 /\ hop'[f] = 0 /\ requests'[f] = 0 /\ chain'[f] = <<>>
    BY <1>1, <1>3 DEF TypeOK, Reset
  <2>2. Budget(0) \in Nat
    BY BudgetGrows
  <2>3. Counted(pc'[f], attempts'[f], hop'[f], requests'[f], Len(chain'[f]))
    BY <2>1, <2>2, FetchAssumption DEF Counted, Walking
  <2>4. QED
    BY <1>1, <1>3, <2>3, CountsOfOthers DEF TypeOK, Reset
<1>4. ASSUME NEW f \in Fetchers, NEW to \in {"idle", "attempt"},
             pc' = [pc EXCEPT ![f] = to],
             pc[f] # "idle", to = "attempt" => pc[f] \notin Walking,
             UNCHANGED <<attempts, hop, requests, chain>>
      PROVE  CountInv'
  <2>1. Counted(to, attempts[f], hop[f], requests[f], Len(chain[f]))
    BY <1>2, <1>4 DEF Counted, Walking
  <2>2. QED
    BY <1>1, <1>4, <2>1, CountsOfOthers DEF TypeOK
<1>5. ASSUME NEW f \in Fetchers, NextAttempt(f)
      PROVE  CountInv'
  <2>1. /\ attempts'[f] = attempts[f] + 1 /\ attempts[f] < MaxAttempts
        /\ requests' = requests /\ chain' = chain
    BY <1>1, <1>5 DEF TypeOK, NextAttempt, ghosts
  <2>2. \/ pc' = [pc EXCEPT ![f] = "idle"] /\ hop' = hop
        \/ /\ pc' = [pc EXCEPT ![f] = IF attempts[f] = 0 THEN "hop" ELSE "backoff"]
           /\ hop' = [hop EXCEPT ![f] = 0]
    BY <1>5 DEF NextAttempt, ReturnCancelled, Return
  <2>3. \/ pc'[f] = "idle" /\ hop'[f] = hop[f]
        \/ pc'[f] = "hop" /\ hop'[f] = 0
        \/ pc'[f] = "backoff" /\ hop'[f] = 0 /\ attempts[f] # 0
    BY <1>1, <2>2 DEF TypeOK
  <2>4. /\ attempts'[f] - 1 = attempts[f]
        /\ requests'[f] <= Budget(attempts[f]) /\ Len(chain'[f]) <= requests'[f]
        /\ hop[f] <= MaxRedirects
    BY <1>2, <1>5, <2>1 DEF NextAttempt, Counted, Walking
  <2>5. requests'[f] <= Budget(attempts'[f])
    BY <1>2, <2>1, <2>4, FetchAssumption
  <2>6. attempts'[f] \in Nat /\ attempts'[f] >= 1 /\ attempts'[f] <= MaxAttempts
    BY <1>2, <2>1, FetchAssumption
  <2>7. Counted(pc'[f], attempts'[f], hop'[f], requests'[f], Len(chain'[f]))
    <3>1. CASE pc'[f] = "idle" /\ hop'[f] = hop[f]
      BY <2>4, <2>5, <2>6, <3>1 DEF Counted, Walking
    <3>2. CASE pc'[f] = "hop" /\ hop'[f] = 0
      BY <1>2, <2>1, <2>4, <2>6, <3>2, FetchAssumption DEF Counted, Walking
    <3>3. CASE pc'[f] = "backoff" /\ hop'[f] = 0 /\ attempts[f] # 0
      BY <1>2, <2>1, <2>4, <2>6, <3>3, FetchAssumption DEF Counted, Walking
    <3>4. QED
      BY <2>3, <3>1, <3>2, <3>3
  <2>8. QED
    BY <1>1, <1>5, <2>7, CountsOfOthers
       DEF TypeOK, NextAttempt, ReturnCancelled, Return, ghosts
<1>6. ASSUME NEW f \in Fetchers, AcquireSlot(f)
      PROVE  CountInv'
  BY <1>1, <1>4, <1>6 DEF AcquireSlot, Goto, Walking, response, ghosts
<1>7. ASSUME NEW f \in Fetchers, Backoff(f) \/ ValidateHop(f)
      PROVE  CountInv'
  <2>1. /\ pc[f] \in {"backoff", "hop"}
        /\ \/ pc[f] = "backoff" /\ pc' = [pc EXCEPT ![f] = "hop"]
           \/ pc[f] = "backoff" /\ pc' = [pc EXCEPT ![f] = "idle"]
           \/ pc[f] = "hop" /\ pc' = [pc EXCEPT ![f] = "request"]
           \/ pc[f] = "hop" /\ pc' = [pc EXCEPT ![f] = "judge"]
        /\ UNCHANGED <<attempts, hop, requests, chain>>
    BY <1>7 DEF Backoff, ValidateHop, Fail, ReturnCancelled, Return, Goto, ghosts
  <2>2. Counted(pc'[f], attempts[f], hop[f], requests[f], Len(chain[f]))
    BY <1>1, <1>2, <2>1 DEF TypeOK, Counted, Walking
  <2>3. QED
    BY <1>1, <2>1, <2>2, CountsOfOthers DEF TypeOK
<1>8. ASSUME NEW f \in Fetchers, Request(f)
      PROVE  CountInv'
  <2>1. pc[f] = "request" /\ attempts' = attempts
    BY <1>1, <1>8, RequestEffect
  <2>2. \/ /\ pc' = [pc EXCEPT ![f] = "judge"] /\ hop' = hop
           /\ \/ chain' = chain /\ requests' \in {requests, [requests EXCEPT ![f] = @ + 1]}
              \/ /\ requests' = [requests EXCEPT ![f] = @ + 1]
                 /\ chain' \in {chain, [chain EXCEPT ![f] = Append(@, current[f])]}
        \/ /\ hop[f] < MaxRedirects
           /\ hop' = [hop EXCEPT ![f] = @ + 1]
           /\ pc' = [pc EXCEPT ![f] = "hop"]
           /\ requests' = [requests EXCEPT ![f] = @ + 1]
           /\ chain' \in {chain, [chain EXCEPT ![f] = Append(@, current[f])]}
    BY <1>1, <1>8, RequestEffect, ClassifyEffect DEF Fail
  <2>3. Len(Append(chain[f], current[f])) = Len(chain[f]) + 1
    BY <1>1, <1>2 DEF TypeOK
  <2>4. /\ requests'[f] \in {requests[f], requests[f] + 1}
        /\ Len(chain'[f]) <= requests'[f]
        /\ \/ pc'[f] = "judge" /\ hop'[f] = hop[f]
           \/ pc'[f] = "hop" /\ hop[f] < MaxRedirects /\ hop'[f] = hop[f] + 1
    <3>1. Len(chain[f]) <= requests[f]
      BY <1>2 DEF Counted
    <3>2. QED
      BY <1>1, <1>2, <2>2, <2>3, <3>1 DEF TypeOK
  <2>5. /\ attempts[f] >= 1 /\ attempts[f] <= MaxAttempts /\ hop[f] <= MaxRedirects
        /\ requests[f] <= Budget(attempts[f] - 1) + hop[f]
        /\ requests[f] + 1 <= Budget(attempts[f])
    BY <1>2, <2>1 DEF Counted, Walking
  <2>6. Budget(attempts[f] - 1) \in Nat
    <3>1. attempts[f] - 1 \in Nat
      BY <1>2, <2>5
    <3>2. QED
      BY <3>1, BudgetGrows
  <2>7. /\ requests'[f] <= Budget(attempts[f])
         /\ requests'[f] <= Budget(attempts[f] - 1) + hop[f] + 1
    BY <1>2, <2>4, <2>5, <2>6
  <2>8. Counted(pc'[f], attempts'[f], hop'[f], requests'[f], Len(chain'[f]))
    <3>1. CASE pc'[f] = "judge" /\ hop'[f] = hop[f]
      BY <2>1, <2>4, <2>5, <2>7, <3>1 DEF Counted, Walking
    <3>2. CASE pc'[f] = "hop" /\ hop[f] < MaxRedirects /\ hop'[f] = hop[f] + 1
      <4>1. hop'[f] <= MaxRedirects /\ requests'[f] <= Budget(attempts[f] - 1) + hop'[f]
        BY <1>2, <2>6, <2>7, <3>2, FetchAssumption
      <4>2. QED
        BY <2>1, <2>4, <2>5, <3>2, <4>1 DEF Counted, Walking
    <3>3. QED
      BY <2>4, <3>1, <3>2
  <2>9. QED
    BY <1>1, <2>1, <2>2, <2>8, CountsOfOthers DEF TypeOK
<1>9. ASSUME NEW f \in Fetchers,
             AbandonQueue(f) \/ Exhausted(f) \/ JudgeCancelled(f) \/ JudgeDone(f) \/ JudgeRetry(f)
      PROVE  CountInv'
  BY <1>4, <1>9
     DEF AbandonQueue, Exhausted, JudgeCancelled, JudgeDone, JudgeRetry, ReturnCancelled, Return, Goto,
         Walking, response, ghosts
<1>10. CASE UNCHANGED <<pc, attempts, hop, requests, chain>>
  BY <1>1, <1>10 DEF CountInv
<1>11. ASSUME NEW f \in Fetchers, FetchRefused(f) \/ FetchAllowed(f)
      PROVE  CountInv'
  BY <1>3, <1>11 DEF FetchRefused, FetchAllowed, Goto
<1>12. QED
  BY <1>1, <1>5, <1>6, <1>7, <1>8, <1>9, <1>10, <1>11
     DEF Next, Step, Cancel, vars, response, ghosts

-----------------------------------------------------------------------------
(* Outcomes.                                                               *)

\* A step that concerns one fetch keeps the verdicts if it keeps the verdict of that one.
LEMMA VerdictsOfOthers ==
  ASSUME VerdictInv, NEW f \in Fetchers,
         \A g \in Fetchers \ {f} :
            /\ pc'[g] = pc[g] /\ attempts'[g] = attempts[g] /\ outcome'[g] = outcome[g]
            /\ err'[g] = err[g] /\ status'[g] = status[g] /\ hop'[g] = hop[g]
            /\ g \in answered' <=> g \in answered,
         Judged(pc'[f], attempts'[f], outcome'[f], err'[f], status'[f], f \in answered', hop'[f])
  PROVE  VerdictInv'
<1>1. ASSUME NEW g \in Fetchers \ {f}
      PROVE  Judged(pc'[g], attempts'[g], outcome'[g], err'[g], status'[g], g \in answered', hop'[g])
  <2>1. Judged(pc[g], attempts[g], outcome[g], err[g], status[g], g \in answered, hop[g])
    BY DEF VerdictInv
  <2>2. QED
    BY <1>1, <2>1 DEF Judged, Settled, Paired
<1>2. QED
  BY <1>1 DEF VerdictInv

\* A response that ends the attempt gives it an outcome that goes with its error.
LEMMA ClassifyPairs ==
  ASSUME NEW f \in Fetchers, NEW a \in Answers[f], Classify(f, a)
  PROVE  \/ \E o \in Outcomes, e \in Errors :
                Fail(f, o, e) /\ Paired(o, e, a.status, TRUE, hop[f])
         \/ /\ pc' = [pc EXCEPT ![f] = "hop"] /\ UNCHANGED <<err, outcome>>
            /\ hop' = [hop EXCEPT ![f] = @ + 1]
  BY DEF Classify, FollowRedirect, AskAgain, Outcomes, Errors, Paired

\* A request without a response does too.
LEMMA RequestPairs ==
  ASSUME NEW f \in Fetchers, Request(f)
  PROVE  \/ /\ UNCHANGED <<status, answered>>
            /\ \E o \in Outcomes, e \in Errors :
                  Fail(f, o, e) /\ Paired(o, e, status[f], FALSE, hop[f])
         \/ \E a \in Answers[f] :
               /\ status' = [status EXCEPT ![f] = a.status]
               /\ answered' = answered \cup {f}
               /\ Classify(f, a)
  BY DEF Request, DialBlocked, NoResponse, Outcomes, Errors, Paired

\* What a fetch returns when its attempt is not to be repeated.
LEMMA DoneSettles ==
  ASSUME NEW a \in Nat \ {0}, NEW o, NEW e, NEW s, NEW ans, NEW h, Paired(o, e, s, ans, h),
         e = "nil" \/ ~ShouldRetry(s, e)
  PROVE  Settled(a, o, e, s, ans, h)
  BY DEF Paired, Settled, ShouldRetry, IsTimeoutErr, Definite, Failing

\* What a fetch returns when its attempts are spent.
LEMMA ExhaustedSettles ==
  ASSUME NEW e \in Errors \ {"nil", "canceled"}, NEW s, NEW ans, NEW h, ShouldRetry(s, e)
  PROVE  Settled(MaxAttempts,
                 IF IsTimeoutErr(e) THEN "timeout" ELSE "transient-failure-retried-exhausted",
                 e, s, ans, h)
  BY FetchAssumption DEF Settled, ShouldRetry, IsTimeoutErr, Definite, Failing, Errors

\* Every step keeps the verdicts.
LEMMA VerdictStep == TypeOK /\ CountInv /\ VerdictInv /\ [Next]_vars => VerdictInv'
<1>1. SUFFICES ASSUME TypeOK, CountInv, VerdictInv, [Next]_vars PROVE VerdictInv'
  OBVIOUS
<1>2. ASSUME NEW f \in Fetchers
      PROVE  /\ Judged(pc[f], attempts[f], outcome[f], err[f], status[f], f \in answered, hop[f])
             /\ attempts[f] \in Nat /\ err[f] \in Errors
             /\ pc[f] = "queue" => attempts[f] = 0
             /\ pc[f] \in {"hop", "request", "judge"} => attempts[f] >= 1
  BY <1>1 DEF TypeOK, VerdictInv, CountInv, Counted
<1>3. ASSUME NEW f \in Fetchers, FetchRefused(f) \/ FetchAllowed(f)
      PROVE  VerdictInv'
  <2>1. /\ Reset(f) /\ pc[f] = "idle"
        /\ attempts'[f] = 0 /\ status'[f] = 0
        /\ \/ pc'[f] = "idle" /\ outcome'[f] = "blocked-target" /\ err'[f] = "blocked"
           \/ pc'[f] = "queue"
    BY <1>1, <1>3 DEF TypeOK, FetchRefused, FetchAllowed, Reset, Goto
  <2>2. Judged(pc'[f], attempts'[f], outcome'[f], err'[f], status'[f], f \in answered', hop'[f])
    BY <2>1 DEF Judged, Settled, Transient, Definite, Failing
  <2>3. QED
    BY <1>1, <1>3, <2>1, <2>2, VerdictsOfOthers DEF TypeOK, Reset, FetchRefused, FetchAllowed, Goto
<1>4. ASSUME NEW f \in Fetchers, ReturnCancelled(f), UNCHANGED <<status, hop, answered>>,
             attempts' \in {attempts, [attempts EXCEPT ![f] = @ + 1]}
      PROVE  VerdictInv'
  <2>1. pc'[f] = "idle" /\ outcome'[f] = "timeout" /\ err'[f] = "canceled"
    BY <1>1, <1>4 DEF TypeOK, ReturnCancelled, Return
  <2>2. Judged(pc'[f], attempts'[f], outcome'[f], err'[f], status'[f], f \in answered', hop'[f])
    BY <2>1 DEF Judged, Settled, Definite, Failing
  <2>3. QED
    BY <1>1, <1>4, <2>2, VerdictsOfOthers DEF TypeOK, ReturnCancelled, Return
<1>5. ASSUME NEW f \in Fetchers, AbandonQueue(f) \/ JudgeCancelled(f)
      PROVE  VerdictInv'
  BY <1>4, <1>5 DEF AbandonQueue, JudgeCancelled, ghosts
<1>6. ASSUME NEW f \in Fetchers, NEW to \in {"attempt", "hop", "backoff", "request"},
             pc' = [pc EXCEPT ![f] = to],
             UNCHANGED <<outcome, err, status>>,
             \A g \in Fetchers \ {f} :
                hop'[g] = hop[g] /\ (g \in answered' <=> g \in answered),
             \/ attempts' = attempts /\ to \in {"hop", "request"}
             \/ attempts' = attempts /\ pc[f] = "queue" /\ to = "attempt"
             \/ /\ attempts' = attempts /\ pc[f] = "judge" /\ to = "attempt"
                /\ err[f] # "nil" /\ ShouldRetry(status[f], err[f])
             \/ /\ attempts' = [attempts EXCEPT ![f] = @ + 1] /\ pc[f] = "attempt"
                /\ to = IF attempts[f] = 0 THEN "hop" ELSE "backoff"
      PROVE  VerdictInv'
  <2>1. /\ pc'[f] = to /\ outcome'[f] = outcome[f] /\ err'[f] = err[f] /\ status'[f] = status[f]
        /\ attempts'[f] = attempts[f] \/ attempts'[f] = attempts[f] + 1
        /\ attempts'[f] = attempts[f] + 1 \/ attempts' = attempts
    BY <1>1, <1>2, <1>6 DEF TypeOK
  <2>2. Judged(to, attempts'[f], outcome[f], err[f], status[f], f \in answered', hop'[f])
    BY <1>1, <1>2, <1>6 DEF TypeOK, Judged, Paired
  <2>3. QED
    BY <1>1, <1>6, <2>1, <2>2, VerdictsOfOthers DEF TypeOK
<1>7. ASSUME NEW f \in Fetchers, JudgeDone(f)
      PROVE  VerdictInv'
  <2>1. /\ pc[f] = "judge" /\ pc' = [pc EXCEPT ![f] = "idle"] /\ err' = err
        /\ err[f] = "nil" \/ ~ShouldRetry(status[f], err[f])
        /\ UNCHANGED <<hop, status, outcome, attempts, answered>>
    BY <1>1, <1>7 DEF TypeOK, JudgeDone, Return, response, ghosts
  <2>2. /\ Paired(outcome[f], err[f], status[f], f \in answered, hop[f])
        /\ attempts[f] \in Nat \ {0}
    BY <1>2, <2>1 DEF Judged
  <2>3. Settled(attempts[f], outcome[f], err[f], status[f], f \in answered, hop[f])
    BY <2>1, <2>2, DoneSettles
  <2>4. pc'[f] = "idle"
    BY <1>1, <2>1 DEF TypeOK
  <2>5. Judged(pc'[f], attempts'[f], outcome'[f], err'[f], status'[f], f \in answered', hop'[f])
    BY <2>1, <2>3, <2>4 DEF Judged
  <2>6. QED
    BY <1>1, <2>1, <2>5, VerdictsOfOthers DEF TypeOK
<1>8. ASSUME NEW f \in Fetchers, AcquireSlot(f) \/ JudgeRetry(f)
      PROVE  VerdictInv'
  BY <1>6, <1>8 DEF AcquireSlot, JudgeRetry, Goto, response, ghosts
<1>9. ASSUME NEW f \in Fetchers, NextAttempt(f) \/ Backoff(f)
      PROVE  VerdictInv'
  <2>1. /\ UNCHANGED <<status, answered>>
        /\ \A g \in Fetchers \ {f} : hop'[g] = hop[g]
    BY <1>1, <1>9 DEF TypeOK, NextAttempt, Backoff, ghosts
  <2>2. CASE ReturnCancelled(f) /\ UNCHANGED hop
    BY <1>4, <1>9, <2>1, <2>2 DEF NextAttempt, Backoff
  <2>3. CASE ~(ReturnCancelled(f) /\ UNCHANGED hop)
    BY <1>6, <1>9, <2>1, <2>3 DEF NextAttempt, Backoff, Goto
  <2>4. QED
    BY <2>2, <2>3
<1>10. ASSUME NEW f \in Fetchers, Exhausted(f)
      PROVE  VerdictInv'
  <2>1. /\ pc'[f] = "idle" /\ err'[f] = err[f]
        /\ attempts[f] = MaxAttempts /\ pc[f] = "attempt"
        /\ UNCHANGED <<status, attempts, answered, hop>>
        /\ outcome'[f] = IF IsTimeoutErr(err[f]) THEN "timeout"
                         ELSE "transient-failure-retried-exhausted"
    BY <1>1, <1>10 DEF TypeOK, Exhausted, Return, ghosts
  <2>2. err[f] \in Errors \ {"nil", "canceled"} /\ ShouldRetry(status[f], err[f])
    BY <1>2, <2>1, FetchAssumption DEF Judged
  <2>3. Settled(attempts'[f], outcome'[f], err'[f], status'[f], f \in answered', hop'[f])
    BY <2>1, <2>2, ExhaustedSettles
  <2>4. Judged(pc'[f], attempts'[f], outcome'[f], err'[f], status'[f], f \in answered', hop'[f])
    BY <2>1, <2>3 DEF Judged
  <2>5. QED
    BY <1>1, <1>10, <2>1, <2>4, VerdictsOfOthers DEF TypeOK, Exhausted, Return
<1>11. ASSUME NEW f \in Fetchers, NEW o \in Outcomes, NEW e \in Errors, Fail(f, o, e),
             Paired(o, e, status'[f], f \in answered', hop[f]), attempts' = attempts,
             \A g \in Fetchers \ {f} :
                status'[g] = status[g] /\ (g \in answered' <=> g \in answered)
      PROVE  VerdictInv'
  <2>1. pc'[f] = "judge" /\ outcome'[f] = o /\ err'[f] = e /\ hop' = hop
    BY <1>1, <1>11 DEF TypeOK, Fail
  <2>2. Judged(pc'[f], attempts'[f], outcome'[f], err'[f], status'[f], f \in answered', hop'[f])
    BY <1>11, <2>1 DEF Judged
  <2>3. QED
    BY <1>1, <1>11, <2>2, VerdictsOfOthers DEF TypeOK, Fail
<1>12. ASSUME NEW f \in Fetchers, ValidateHop(f)
      PROVE  VerdictInv'
  <2>1. CASE pc' = [pc EXCEPT ![f] = "request"] /\ UNCHANGED <<hop, err, outcome>>
    BY <1>6, <1>12, <2>1 DEF ValidateHop
  <2>2. CASE \E r \in Lookups[f] : Fail(f, "blocked-target", LookupErr(r))
    BY <1>11, <1>12, <2>2 DEF ValidateHop, LookupErr, Outcomes, Errors, Paired
  <2>3. QED
    BY <1>12, <2>1, <2>2 DEF ValidateHop, Goto
<1>13. ASSUME NEW f \in Fetchers, Request(f)
      PROVE  VerdictInv'
  <2>1. pc[f] = "request" /\ attempts' = attempts
    BY <1>1, <1>13, RequestEffect
  <2>2. CASE /\ UNCHANGED <<status, answered>>
             /\ \E o \in Outcomes, e \in Errors :
                   Fail(f, o, e) /\ Paired(o, e, status[f], FALSE, hop[f])
    <3>1. PICK o \in Outcomes, e \in Errors :
             Fail(f, o, e) /\ Paired(o, e, status[f], FALSE, hop[f])
      BY <2>2
    <3>2. Paired(o, e, status'[f], f \in answered', hop[f])
      BY <2>2, <3>1 DEF Paired
    <3>3. QED
      BY <1>11, <2>1, <2>2, <3>1, <3>2
  <2>3. ASSUME NEW a \in Answers[f], status' = [status EXCEPT ![f] = a.status],
               answered' = answered \cup {f}, Classify(f, a)
        PROVE  VerdictInv'
    <3>1. /\ status'[f] = a.status
          /\ \A g \in Fetchers \ {f} :
                status'[g] = status[g] /\ (g \in answered' <=> g \in answered)
      BY <1>1, <2>3 DEF TypeOK
    <3>2. ASSUME NEW o \in Outcomes, NEW e \in Errors, Fail(f, o, e),
                 Paired(o, e, a.status, TRUE, hop[f])
          PROVE  VerdictInv'
      <4>1. Paired(o, e, status'[f], f \in answered', hop[f])
        BY <2>3, <3>1, <3>2 DEF Paired
      <4>2. QED
        BY <1>11, <2>1, <3>1, <3>2, <4>1
    <3>3. CASE /\ pc' = [pc EXCEPT ![f] = "hop"] /\ UNCHANGED <<err, outcome>>
               /\ hop' = [hop EXCEPT ![f] = @ + 1]
      <4>1. pc'[f] = "hop" /\ \A g \in Fetchers \ {f} : hop'[g] = hop[g]
        BY <1>1, <3>3 DEF TypeOK
      <4>2. Judged(pc'[f], attempts'[f], outcome'[f], err'[f], status'[f], f \in answered', hop'[f])
        BY <4>1 DEF Judged
      <4>3. QED
        BY <1>1, <2>1, <3>1, <3>3, <4>1, <4>2, VerdictsOfOthers DEF TypeOK
    <3>4. QED
      BY <2>3, <3>2, <3>3, ClassifyPairs
  <2>4. QED
    BY <1>13, <2>2, <2>3, RequestPairs
<1>14. CASE UNCHANGED <<pc, attempts, outcome, err, status, answered, hop>>
  BY <1>1, <1>14 DEF VerdictInv
<1>15. QED
  BY <1>1, <1>3, <1>5, <1>7, <1>8, <1>9, <1>10, <1>12, <1>13, <1>14
     DEF Next, Step, Cancel, vars, response, ghosts

-----------------------------------------------------------------------------
(* Retries.                                                                *)

\* A step that concerns one fetch keeps the excuses if it keeps the excuse of that one.
LEMMA ExcusesOfOthers ==
  ASSUME TransientInv, NEW f \in Fetchers,
         \A g \in Fetchers \ {f} :
            /\ pc'[g] = pc[g] /\ attempts'[g] = attempts[g] /\ status'[g] = status[g]
            /\ (g \in answered' <=> g \in answered) /\ transients'[g] = transients[g],
         Excused(pc'[f], attempts'[f], status'[f], f \in answered', transients'[f])
  PROVE  TransientInv'
  BY DEF TransientInv

\* Every step keeps the excuses.
LEMMA TransientStep == TypeOK /\ CountInv /\ TransientInv /\ [Next]_vars => TransientInv'
<1>1. SUFFICES ASSUME TypeOK, CountInv, TransientInv, [Next]_vars PROVE TransientInv'
  OBVIOUS
<1>2. ASSUME NEW f \in Fetchers
      PROVE  /\ Excused(pc[f], attempts[f], status[f], f \in answered, transients[f])
             /\ attempts[f] \in Nat /\ transients[f] \in Nat
             /\ pc[f] = "queue" => attempts[f] = 0
  BY <1>1 DEF TypeOK, TransientInv, CountInv, Counted
<1>3. ASSUME NEW f \in Fetchers, FetchRefused(f) \/ FetchAllowed(f)
      PROVE  TransientInv'
  <2>1. Reset(f) /\ ((pc' = pc /\ pc[f] = "idle") \/ pc' = [pc EXCEPT ![f] = "queue"])
    BY <1>3 DEF FetchRefused, FetchAllowed, Goto
  <2>2. pc'[f] \in {"idle", "queue"} /\ attempts'[f] = 0 /\ status'[f] = 0
    BY <1>1, <2>1 DEF TypeOK, Reset
  <2>3. Excused(pc'[f], attempts'[f], status'[f], f \in answered', transients'[f])
    BY <2>2 DEF Excused, Transient
  <2>4. QED
    <3>1. \A g \in Fetchers \ {f} :
             /\ pc'[g] = pc[g] /\ attempts'[g] = attempts[g] /\ status'[g] = status[g]
             /\ (g \in answered' <=> g \in answered) /\ transients'[g] = transients[g]
      BY <1>1, <2>1 DEF TypeOK, Reset
    <3>2. QED
      BY <1>1, <2>3, <3>1, ExcusesOfOthers
<1>4. ASSUME NEW f \in Fetchers, NEW to \in {"idle", "attempt", "hop", "request", "judge"},
             pc' = [pc EXCEPT ![f] = to],
             UNCHANGED <<attempts, status, transients>>,
             pc[f] # "judge" \/ to = "idle", pc[f] # "idle",
             to = "attempt" => pc[f] = "queue",
             answered' \in {answered, answered \ {f}}
      PROVE  TransientInv'
  <2>1. pc'[f] = to
    BY <1>1, <1>4 DEF TypeOK
  <2>2. Excused(to, attempts[f], status[f], f \in answered', transients[f])
    BY <1>2, <1>4 DEF Excused
  <2>3. QED
    <3>1. \A g \in Fetchers \ {f} :
             /\ pc'[g] = pc[g] /\ attempts'[g] = attempts[g] /\ status'[g] = status[g]
             /\ (g \in answered' <=> g \in answered) /\ transients'[g] = transients[g]
      BY <1>1, <1>4 DEF TypeOK
    <3>2. Excused(pc'[f], attempts'[f], status'[f], f \in answered', transients'[f])
      BY <1>4, <2>1, <2>2
    <3>3. QED
      BY <1>1, <3>1, <3>2, ExcusesOfOthers
<1>5. ASSUME NEW f \in Fetchers,
             \/ AcquireSlot(f) \/ Backoff(f) \/ ValidateHop(f)
             \/ AbandonQueue(f) \/ Exhausted(f) \/ JudgeCancelled(f) \/ JudgeDone(f)
      PROVE  TransientInv'
  <2>1. CASE AcquireSlot(f) \/ Backoff(f)
    BY <1>4, <2>1
       DEF AcquireSlot, Backoff, ReturnCancelled, Return, Goto, response, ghosts
  <2>2. CASE ValidateHop(f)
    BY <1>4, <2>2 DEF ValidateHop, Fail, Goto
  <2>3. CASE AbandonQueue(f) \/ Exhausted(f) \/ JudgeCancelled(f) \/ JudgeDone(f)
    BY <1>4, <2>3
       DEF AbandonQueue, Exhausted, JudgeCancelled, JudgeDone, ReturnCancelled, Return, response, ghosts
  <2>4. QED
    BY <1>5, <2>1, <2>2, <2>3
<1>6. ASSUME NEW f \in Fetchers, NextAttempt(f)
      PROVE  TransientInv'
  <2>1. /\ pc[f] = "attempt" /\ attempts'[f] = attempts[f] + 1
        /\ UNCHANGED <<status, answered, transients>>
    BY <1>1, <1>6 DEF TypeOK, NextAttempt, ghosts
  <2>2. \/ pc' = [pc EXCEPT ![f] = "idle"]
        \/ pc' = [pc EXCEPT ![f] = IF attempts[f] = 0 THEN "hop" ELSE "backoff"]
    BY <1>6 DEF NextAttempt, ReturnCancelled, Return
  <2>3. pc'[f] \in {"idle", "hop", "backoff"}
    BY <1>1, <2>2 DEF TypeOK
  <2>4. Excused(pc'[f], attempts'[f], status'[f], f \in answered', transients'[f])
    BY <1>2, <2>1, <2>3 DEF Excused
  <2>5. QED
    BY <1>1, <1>6, <2>1, <2>2, <2>4, ExcusesOfOthers DEF TypeOK, NextAttempt
<1>7. ASSUME NEW f \in Fetchers, Request(f)
      PROVE  TransientInv'
  <2>1. pc[f] = "request" /\ UNCHANGED <<attempts, transients>>
    BY <1>1, <1>7, RequestEffect
  <2>2. CASE UNCHANGED <<status, answered>> /\ pc' = [pc EXCEPT ![f] = "judge"]
    BY <1>4, <2>1, <2>2
  <2>3. ASSUME NEW a \in Answers[f],
               answered' = answered \cup {f},
               status' = [status EXCEPT ![f] = a.status],
               Classify(f, a)
        PROVE  TransientInv'
    <3>1. status'[f] = a.status /\ f \in answered'
      BY <1>1, <2>3 DEF TypeOK
    <3>2. \/ pc' = [pc EXCEPT ![f] = "judge"]
          \/ pc' = [pc EXCEPT ![f] = "hop"] /\ a.status \in 300 .. 399
      BY <1>1, <2>3, ClassifyEffect DEF Fail
    <3>3. pc'[f] = "judge" \/ (pc'[f] = "hop" /\ ~Transient(a.status))
      <4>1. a.status \in 300 .. 399 => ~Transient(a.status)
        BY DEF Transient
      <4>2. QED
        BY <1>1, <3>2, <4>1 DEF TypeOK
    <3>4. Excused(pc'[f], attempts'[f], status'[f], f \in answered', transients'[f])
      BY <1>2, <2>1, <3>1, <3>3 DEF Excused
    <3>5. QED
      <4>1. \A g \in Fetchers \ {f} :
               /\ pc'[g] = pc[g] /\ attempts'[g] = attempts[g] /\ status'[g] = status[g]
               /\ (g \in answered' <=> g \in answered) /\ transients'[g] = transients[g]
        BY <1>1, <2>1, <2>3, <3>2 DEF TypeOK
      <4>2. QED
        BY <1>1, <3>4, <4>1, ExcusesOfOthers
  <2>4. QED
    BY <1>1, <1>7, <2>2, <2>3, RequestEffect DEF Fail
<1>8. ASSUME NEW f \in Fetchers, JudgeRetry(f)
      PROVE  TransientInv'
  <2>1. /\ pc[f] = "judge" /\ pc'[f] = "attempt"
        /\ UNCHANGED <<attempts, status, answered>>
        /\ IsTimeoutErr(err[f]) \/ Transient(status[f])
    BY <1>1, <1>8 DEF TypeOK, JudgeRetry, Goto, response, ShouldRetry
  <2>2. transients'[f] > 0
    <3>1. CASE EndedTransiently(f)
      BY <1>1, <1>2, <1>8, <3>1 DEF TypeOK, JudgeRetry
    <3>2. CASE ~EndedTransiently(f)
      BY <1>2, <1>8, <2>1, <3>2 DEF JudgeRetry, EndedTransiently, Excused
    <3>3. QED
      BY <3>1, <3>2
  <2>3. Excused(pc'[f], attempts'[f], status'[f], f \in answered', transients'[f])
    BY <2>2 DEF Excused
  <2>4. QED
    BY <1>1, <1>8, <2>1, <2>3, ExcusesOfOthers DEF TypeOK, JudgeRetry, Goto
<1>9. CASE UNCHANGED <<pc, attempts, status, answered, transients>>
  BY <1>1, <1>9 DEF TransientInv
<1>10. QED
  BY <1>1, <1>3, <1>5, <1>6, <1>7, <1>8, <1>9
     DEF Next, Step, Cancel, vars, response, ghosts

-----------------------------------------------------------------------------
(* The theorems.                                                           *)

\* The invariant always holds.
LEMMA Invariance == Spec => []IndInv
<1>1. IndInv /\ [Next]_vars => IndInv'
  BY TypeStep, SlotStep, CountStep, VerdictStep, TransientStep DEF IndInv
<1>2. QED
  BY InitInv, <1>1, PTL DEF Spec

\* The state of the fetches always has its types.
THEOREM FetchTypeCorrect == Spec => []TypeOK
<1>1. IndInv => TypeOK
  BY DEF IndInv
<1>2. QED
  BY <1>1, Invariance, PTL

\* A slot of FetcherService.slots is held exactly by a fetch that works, and there are
\* never more of them than the channel holds.
THEOREM SlotsNeverLeak == Spec => []SlotsInv
<1>1. IndInv => SlotsInv
  BY DEF IndInv, SlotCount
<1>2. QED
  BY <1>1, Invariance, PTL

\* doFetchWithRetries sends at most MaxAttempts * (MaxRedirects + 1) requests, whatever
\* the upstream answers, and the chain it reports lists no more than it sent.
THEOREM FetchesAreBounded == Spec => []RequestsBounded
<1>1. ASSUME IndInv, NEW f \in Fetchers
      PROVE  /\ attempts[f] <= MaxAttempts
             /\ requests[f] <= MaxAttempts * (MaxRedirects + 1)
             /\ Len(chain[f]) <= requests[f]
  <2>1. /\ attempts[f] \in Nat /\ requests[f] \in Nat /\ hop[f] \in Nat
        /\ Len(chain[f]) \in Nat
        /\ Counted(pc[f], attempts[f], hop[f], requests[f], Len(chain[f]))
    <3>1. chain[f] \in Seq(Urls)
      BY <1>1 DEF IndInv, TypeOK
    <3>2. QED
      BY <1>1, <3>1 DEF IndInv, TypeOK, CountInv
  <2>2. /\ attempts[f] <= MaxAttempts /\ Len(chain[f]) <= requests[f]
        /\ pc[f] \notin Walking => requests[f] <= Budget(attempts[f])
    BY <2>1 DEF Counted
  <2>3. pc[f] \in Walking => requests[f] + 1 <= Budget(attempts[f])
    BY <2>1, WalkEnds
  <2>4. /\ Budget(attempts[f]) \in Nat /\ Budget(MaxAttempts) \in Nat
        /\ Budget(attempts[f]) <= Budget(MaxAttempts)
    BY <2>1, <2>2, BudgetGrows, BudgetMonotone, FetchAssumption
  <2>5. requests[f] <= Budget(MaxAttempts)
    BY <2>1, <2>2, <2>3, <2>4
  <2>6. QED
    BY <2>2, <2>5 DEF Budget
<1>2. IndInv => RequestsBounded
  BY <1>1 DEF RequestsBounded
<1>3. QED
  BY <1>2, Invariance, PTL

\* The outcome of a fetch that has returned is the one of the error it returns and of
\* its last request; what an earlier attempt was reported as never shows through.
THEOREM OutcomesAreReal == Spec => []OutcomeIsReal
<1>1. ASSUME IndInv, NEW f \in Fetchers, pc[f] = "idle"
      PROVE  Settled(attempts[f], outcome[f], err[f], status[f], f \in answered, hop[f])
  BY <1>1 DEF IndInv, VerdictInv, Judged
<1>2. IndInv => OutcomeIsReal
  BY <1>1 DEF OutcomeIsReal, Settled
<1>3. QED
  BY <1>2, Invariance, PTL

\* A second attempt needs a transient failure of an earlier one, although shouldRetry
\* may be misled by the status of an earlier attempt.
THEOREM RetriesAreEarned == Spec => []RetriesNeedTransient
<1>1. IndInv => RetriesNeedTransient
  BY DEF IndInv, TransientInv, Excused, RetriesNeedTransient
<1>2. QED
  BY <1>1, Invariance, PTL

-----------------------------------------------------------------------------
(* The refinement.                                                         *)

\* Only a request that was sent makes a success.
SuccessSent == \A f \in Fetchers : outcome[f] = "success" => requests[f] > 0

\* Every step keeps SuccessSent.
LEMMA SuccessStep == TypeOK /\ SuccessSent /\ [Next]_vars => SuccessSent'
<1>1. SUFFICES ASSUME TypeOK, SuccessSent, [Next]_vars PROVE SuccessSent'
  OBVIOUS
<1>2. ASSUME NEW f \in Fetchers, NEW o \in Outcomes,
             outcome' = [outcome EXCEPT ![f] = o],
             \A g \in Fetchers \ {f} : requests'[g] = requests[g],
             o = "success" => requests'[f] > 0
      PROVE  SuccessSent'
  BY <1>1, <1>2 DEF TypeOK, SuccessSent
<1>3. CASE outcome' = outcome /\ requests' = requests
  BY <1>1, <1>3 DEF SuccessSent
<1>4. ASSUME NEW f \in Fetchers, FetchRefused(f) \/ FetchAllowed(f)
      PROVE  SuccessSent'
  <2>1. \A g \in Fetchers \ {f} : requests'[g] = requests[g]
    BY <1>1, <1>4 DEF TypeOK, FetchRefused, FetchAllowed, Reset
  <2>2. \E o \in Outcomes \ {"success"} : outcome' = [outcome EXCEPT ![f] = o]
    BY <1>4 DEF FetchRefused, FetchAllowed, Outcomes
  <2>3. QED
    BY <1>2, <2>1, <2>2
<1>5. ASSUME NEW f \in Fetchers, ReturnCancelled(f), requests' = requests
      PROVE  SuccessSent'
  BY <1>2, <1>5 DEF ReturnCancelled, Outcomes
<1>6. ASSUME NEW f \in Fetchers,
             AbandonQueue(f) \/ NextAttempt(f) \/ Backoff(f) \/ JudgeCancelled(f)
      PROVE  SuccessSent'
  BY <1>3, <1>5, <1>6 DEF AbandonQueue, NextAttempt, Backoff, JudgeCancelled, ghosts
<1>7. ASSUME NEW f \in Fetchers, Exhausted(f)
      PROVE  SuccessSent'
  BY <1>2, <1>7 DEF Exhausted, ghosts, Outcomes
<1>8. ASSUME NEW f \in Fetchers, ValidateHop(f)
      PROVE  SuccessSent'
  BY <1>2, <1>3, <1>8 DEF ValidateHop, Fail, Outcomes
<1>9. ASSUME NEW f \in Fetchers, Request(f)
      PROVE  SuccessSent'
  <2>1. /\ \A g \in Fetchers \ {f} : requests'[g] = requests[g]
        /\ requests'[f] \in {requests[f], requests[f] + 1}
        /\ requests[f] \in Nat
    <3>1. requests' \in {requests, [requests EXCEPT ![f] = @ + 1]}
      BY <1>1, <1>9, RequestEffect
    <3>2. QED
      BY <1>1, <3>1 DEF TypeOK
  <2>2. CASE \E o \in Outcomes \ {"none", "success"}, e \in Errors \ {"nil"} : Fail(f, o, e)
    BY <1>2, <2>1, <2>2 DEF Fail
  <2>3. ASSUME NEW a \in Answers[f],
               requests' = [requests EXCEPT ![f] = @ + 1], Classify(f, a)
        PROVE  SuccessSent'
    <3>1. requests'[f] > 0
      BY <1>1, <2>1, <2>3 DEF TypeOK
    <3>2. CASE \E o \in Outcomes, e \in Errors : Fail(f, o, e)
      BY <1>2, <2>1, <3>1, <3>2 DEF Fail
    <3>3. CASE outcome' = outcome
      <4>1. outcome' = [outcome EXCEPT ![f] = outcome[f]] /\ outcome[f] \in Outcomes
        BY <1>1, <3>3 DEF TypeOK
      <4>2. QED
        BY <1>2, <2>1, <3>1, <4>1
    <3>4. QED
      BY <1>1, <2>3, <3>2, <3>3, ClassifyEffect
  <2>4. QED
    BY <1>1, <1>9, <2>2, <2>3, RequestEffect
<1>10. QED
  BY <1>1, <1>3, <1>4, <1>6, <1>7, <1>8, <1>9
     DEF Next, Step, Cancel, AcquireSlot, JudgeDone, JudgeRetry, Return, vars, response, ghosts

\* What a step of a fetch under way does to its response does not show.
LEMMA Unseen ==
  ASSUME TypeOK, NEW f \in Fetchers, NEW to,
         pc[f] # "idle", to # "idle", pc' = [pc EXCEPT ![f] = to],
         \A g \in Fetchers \ {f} : outcome'[g] = outcome[g] /\ err'[g] = err[g]
  PROVE  Open' = Open /\ Verdicts' = Verdicts /\ Failures' = Failures
<1>1. \A g \in Fetchers : pc'[g] = "idle" <=> pc[g] = "idle"
  BY DEF TypeOK
<1>2. Open' = Open
  BY <1>1 DEF Open
<1>3. \A g \in Fetchers \ Open : outcome'[g] = outcome[g] /\ err'[g] = err[g]
  BY DEF Open
<1>4. QED
  BY <1>2, <1>3 DEF Verdicts, Failures

\* A fetch that returns gives its verdict.
LEMMA ReturnMaps ==
  ASSUME TypeOK, NEW f \in Fetchers, NEW o \in Outcomes \ {"none"}, NEW e,
         pc[f] # "idle", pc' = [pc EXCEPT ![f] = "idle"],
         slots' = slots \ {f}, requests' = requests,
         outcome' = [outcome EXCEPT ![f] = o], err' = [err EXCEPT ![f] = e],
         o = "success" <=> e = "nil", o = "success" => requests[f] > 0
  PROVE  Abs!Return(f)
<1>1. f \in Open /\ Open' = Open \ {f}
  BY DEF TypeOK, Open
<1>2. outcome'[f] = o /\ err'[f] = e
  BY DEF TypeOK
<1>3. \A g \in Fetchers \ {f} : outcome'[g] = outcome[g] /\ err'[g] = err[g]
  BY DEF TypeOK
<1>4. Verdicts' = [Verdicts EXCEPT ![f] = o]
  BY <1>1, <1>2, <1>3 DEF Verdicts
<1>5. Failures' = IF o = "success" THEN Failures ELSE Failures \cup {f}
  BY <1>1, <1>2, <1>3 DEF Failures
<1>6. QED
  BY <1>1, <1>4, <1>5 DEF Abs!Return

\* A fetch that is refused, or begins.
LEMMA BeginMaps ==
  ASSUME TypeOK, NEW f \in Fetchers, FetchRefused(f) \/ FetchAllowed(f), pc[f] = "idle"
  PROVE  Abs!Refuse(f) \/ Abs!Begin(f)
<1>1. /\ f \notin Open /\ slots' = slots
      /\ requests' = [requests EXCEPT ![f] = 0]
      /\ \A g \in Fetchers \ {f} : outcome'[g] = outcome[g] /\ err'[g] = err[g] /\ pc'[g] = pc[g]
  BY DEF TypeOK, Open, FetchRefused, FetchAllowed, Reset, Goto
<1>2. CASE FetchRefused(f)
  <2>1. Open' = Open /\ outcome'[f] = "blocked-target" /\ err'[f] = "blocked"
    BY <1>2 DEF TypeOK, Open, FetchRefused
  <2>2. Verdicts' = [Verdicts EXCEPT ![f] = "blocked-target"]
    BY <1>1, <2>1 DEF Verdicts
  <2>3. Failures' = Failures \cup {f}
    BY <1>1, <2>1 DEF Failures
  <2>4. QED
    BY <1>1, <2>1, <2>2, <2>3 DEF Abs!Refuse
<1>3. CASE FetchAllowed(f)
  <2>1. pc'[f] = "queue"
    BY <1>3 DEF TypeOK, FetchAllowed, Goto
  <2>2. Open' = Open \cup {f}
    BY <1>1, <2>1 DEF Open
  <2>3. Verdicts' = [Verdicts EXCEPT ![f] = "none"]
    BY <1>1, <2>2 DEF Verdicts
  <2>4. Failures' = Failures \ {f}
    BY <1>1, <2>2 DEF Failures
  <2>5. QED
    BY <1>1, <2>2, <2>3, <2>4 DEF Abs!Begin
<1>4. QED
  BY <1>2, <1>3

\* Every step is a step of FetchSpec or a stutter.
LEMMA RefinementStep ==
  ASSUME IndInv, SuccessSent, RequestsBounded', [Next]_vars
  PROVE  [Abs!Next]_(Abs!vars)
<1>1. TypeOK /\ SlotsInv /\ CountInv /\ VerdictInv
  BY DEF IndInv, SlotCount
<1>2. CASE Open' = Open /\ Verdicts' = Verdicts /\ Failures' = Failures
           /\ slots' = slots /\ requests' = requests
  BY <1>2 DEF Abs!vars
<1>3. ASSUME NEW f \in Fetchers, FetchRefused(f) \/ FetchAllowed(f)
      PROVE  Abs!Next
  <2>1. pc[f] = "idle"
    BY <1>3 DEF FetchRefused, FetchAllowed, Goto
  <2>2. QED
    BY <1>1, <1>3, <2>1, BeginMaps DEF Abs!Next
<1>4. ASSUME NEW f \in Fetchers, Cancel(f)
      PROVE  Abs!vars' = Abs!vars
  BY <1>4 DEF Cancel, response, ghosts, Abs!vars, Open, Verdicts, Failures
<1>5. ASSUME NEW f \in Fetchers, AcquireSlot(f)
      PROVE  Abs!Next
  <2>1. pc[f] = "queue" /\ f \in Open /\ f \notin slots
    BY <1>1, <1>5 DEF AcquireSlot, Goto, Open, SlotsInv, Working
  <2>2. Open' = Open /\ Verdicts' = Verdicts /\ Failures' = Failures
    BY <1>1, <1>5, <2>1, Unseen DEF AcquireSlot, Goto, response
  <2>3. /\ Cardinality(slots) < Slots /\ slots' = slots \cup {f}
        /\ requests' = requests
    BY <1>5 DEF AcquireSlot, ghosts
  <2>4. Abs!Cardinality(slots) = Cardinality(slots)
    BY DEF Abs!Cardinality, Cardinality
  <2>5. Abs!Enter(f)
    BY <2>1, <2>2, <2>3, <2>4 DEF Abs!Enter
  <2>6. QED
    BY <2>5 DEF Abs!Next
<1>6. ASSUME NEW f \in Fetchers, ReturnCancelled(f), pc[f] # "idle", requests' = requests
      PROVE  Abs!Next
  <2>1. Abs!Return(f)
    BY <1>1, <1>6, ReturnMaps DEF ReturnCancelled, Return, Outcomes
  <2>2. QED
    BY <2>1 DEF Abs!Next
<1>7. ASSUME NEW f \in Fetchers, AbandonQueue(f) \/ JudgeCancelled(f)
      PROVE  Abs!Next
  BY <1>6, <1>7 DEF AbandonQueue, JudgeCancelled, ghosts
<1>8. ASSUME NEW f \in Fetchers, NextAttempt(f) \/ Backoff(f)
      PROVE  [Abs!Next]_(Abs!vars)
  <2>1. pc[f] # "idle" /\ requests' = requests
    BY <1>8 DEF NextAttempt, Backoff, Goto, ghosts
  <2>2. CASE ReturnCancelled(f)
    BY <1>6, <2>1, <2>2
  <2>3. CASE /\ \E to \in {"hop", "backoff"} : pc' = [pc EXCEPT ![f] = to]
             /\ UNCHANGED <<slots, err, outcome>>
    <3>1. Open' = Open /\ Verdicts' = Verdicts /\ Failures' = Failures
      BY <1>1, <2>1, <2>3, Unseen
    <3>2. QED
      BY <1>2, <2>1, <2>3, <3>1
  <2>4. QED
    BY <1>8, <2>2, <2>3 DEF NextAttempt, Backoff, Goto
<1>9. ASSUME NEW f \in Fetchers, Exhausted(f)
      PROVE  Abs!Next
  <2>1. attempts[f] > 0 /\ err[f] # "nil"
    BY <1>1, <1>9, FetchAssumption DEF TypeOK, Exhausted, VerdictInv, Judged
  <2>2. Abs!Return(f)
    <3>1. \E o \in Outcomes \ {"none", "success"} : outcome' = [outcome EXCEPT ![f] = o]
      <4>1. CASE IsTimeoutErr(err[f])
        BY <1>9, <4>1 DEF Exhausted, Outcomes
      <4>2. CASE ~IsTimeoutErr(err[f])
        BY <1>9, <4>2 DEF Exhausted, Outcomes
      <4>3. QED
        BY <4>1, <4>2
    <3>2. QED
      BY <1>1, <1>9, <2>1, <3>1, ReturnMaps DEF Exhausted, Return, ghosts
  <2>3. QED
    BY <2>2 DEF Abs!Next
<1>10. ASSUME NEW f \in Fetchers, JudgeDone(f)
      PROVE  Abs!Next
  <2>1. pc[f] = "judge" /\ attempts[f] > 0
    BY <1>1, <1>10 DEF JudgeDone, TypeOK, CountInv, Counted
  <2>2. /\ outcome[f] \in Outcomes \ {"none"}
        /\ outcome[f] = "success" <=> err[f] = "nil"
    BY <1>1, <2>1 DEF TypeOK, VerdictInv, Judged, Paired
  <2>3. outcome' = [outcome EXCEPT ![f] = outcome[f]] /\ requests' = requests
    BY <1>1, <1>10 DEF JudgeDone, TypeOK, response, ghosts
  <2>4. Abs!Return(f)
    BY <1>1, <1>10, <2>1, <2>2, <2>3, ReturnMaps DEF JudgeDone, Return, SuccessSent
  <2>5. QED
    BY <2>4 DEF Abs!Next
<1>11. ASSUME NEW f \in Fetchers, JudgeRetry(f)
      PROVE  [Abs!Next]_(Abs!vars)
  <2>1. /\ pc[f] # "idle" /\ pc' = [pc EXCEPT ![f] = "attempt"]
        /\ UNCHANGED <<slots, requests, outcome, err>>
    BY <1>11 DEF JudgeRetry, Goto, response
  <2>2. Open' = Open /\ Verdicts' = Verdicts /\ Failures' = Failures
    BY <1>1, <2>1, Unseen
  <2>3. QED
    BY <1>2, <2>1, <2>2
<1>12. ASSUME NEW f \in Fetchers, ValidateHop(f)
      PROVE  [Abs!Next]_(Abs!vars)
  <2>1. /\ pc[f] # "idle" /\ UNCHANGED <<slots, requests>>
        /\ \E to \in {"request", "judge"} : pc' = [pc EXCEPT ![f] = to]
        /\ \A g \in Fetchers \ {f} : outcome'[g] = outcome[g] /\ err'[g] = err[g]
    BY <1>1, <1>12 DEF ValidateHop, Goto, Fail, TypeOK
  <2>2. Open' = Open /\ Verdicts' = Verdicts /\ Failures' = Failures
    BY <1>1, <2>1, Unseen
  <2>3. QED
    BY <1>2, <2>1, <2>2
<1>13. ASSUME NEW f \in Fetchers, Request(f)
      PROVE  [Abs!Next]_(Abs!vars)
  <2>1. /\ pc[f] = "request" /\ slots' = slots
        /\ requests' \in {requests, [requests EXCEPT ![f] = @ + 1]}
    BY <1>1, <1>13, RequestEffect
  <2>2. /\ \E to \in {"hop", "judge"} : pc' = [pc EXCEPT ![f] = to]
        /\ \A g \in Fetchers \ {f} : outcome'[g] = outcome[g] /\ err'[g] = err[g]
    <3>1. CASE \E o \in Outcomes, e \in Errors : Fail(f, o, e)
      BY <1>1, <3>1 DEF Fail, TypeOK
    <3>2. CASE pc' = [pc EXCEPT ![f] = "hop"] /\ UNCHANGED <<err, outcome>>
      BY <3>2
    <3>3. QED
      BY <1>1, <1>13, <3>1, <3>2, RequestEffect, ClassifyEffect
  <2>3. Open' = Open /\ Verdicts' = Verdicts /\ Failures' = Failures
    BY <1>1, <2>1, <2>2, Unseen
  <2>4. CASE requests' = requests
    BY <1>2, <2>1, <2>3, <2>4
  <2>5. CASE requests' = [requests EXCEPT ![f] = @ + 1]
    <3>1. /\ requests[f] \in Nat /\ requests'[f] = requests[f] + 1
          /\ MaxAttempts * (MaxRedirects + 1) \in Nat
      BY <1>1, <2>5, FetchAssumption DEF TypeOK
    <3>2. requests'[f] <= MaxAttempts * (MaxRedirects + 1)
      BY DEF RequestsBounded
    <3>3. requests[f] < MaxAttempts * (MaxRedirects + 1)
      BY <3>1, <3>2
    <3>4. f \in slots
      BY <1>1, <2>1 DEF SlotsInv, Working
    <3>5. Abs!Send(f)
      BY <2>1, <2>3, <2>5, <3>3, <3>4 DEF Abs!Send
    <3>6. QED
      BY <3>5 DEF Abs!Next
  <2>6. QED
    BY <2>1, <2>4, <2>5
<1>14. CASE UNCHANGED vars
  BY <1>14 DEF vars, response, ghosts, Abs!vars, Open, Verdicts, Failures
<1>15. QED
  BY <1>3, <1>4, <1>5, <1>7, <1>8, <1>9, <1>10, <1>11, <1>12, <1>13, <1>14 DEF Next, Step

\* The engine implements FetchSpec: one verdict for each fetch, within the budget.
THEOREM FetchImplements == Spec => Refinement
<1>1. Init => SuccessSent
  BY DEF Init, SuccessSent
<1>2. IndInv => TypeOK
  BY DEF IndInv
<1>3. Spec => []SuccessSent
  BY <1>1, <1>2, SuccessStep, Invariance, PTL DEF Spec
<1>4. Init => Abs!Init
  <2>1. SUFFICES ASSUME Init PROVE Abs!Init
    OBVIOUS
  <2>2. Open = {}
    BY <2>1 DEF Init, Open
  <2>3. Verdicts = [f \in Fetchers |-> "none"] /\ Failures = {}
    BY <2>1, <2>2 DEF Init, Verdicts, Failures
  <2>4. QED
    BY <2>1, <2>2, <2>3 DEF Init, Abs!Init
<1>5. IndInv /\ SuccessSent /\ RequestsBounded' /\ [Next]_vars => [Abs!Next]_(Abs!vars)
  BY RefinementStep
<1>6. Spec => Abs!Spec
  BY <1>3, <1>4, <1>5, Invariance, FetchesAreBounded, PTL DEF Spec, Abs!Spec
<1>7. QED
  BY <1>6 DEF Refinement
=============================================================================
