---------------------------- MODULE LinksProofs ----------------------------
(***************************************************************************)
(* Proofs about Links, for any batches of any length and any number of     *)
(* workers and slots.                                                      *)
(***************************************************************************)
EXTENDS Links, TLAPS

Working(b, w) == at[b][w] \in {"pace", "slot", "fetch"}

\* A worker that works has been handed a job, and beyond the pace it checks a URL that
\* may be asked.
JobInv == \A b \in Batches, w \in Workers :
    /\ Working(b, w) => work[b][w] \in 1 .. next[b] - 1
    /\ at[b][w] \in {"slot", "fetch"} => urls[b][work[b][w]] \notin Refused

\* What is recorded under an index is about the URL of that index.
RecordInv == \A b \in Batches : \A i \in DOMAIN urls[b] : results[b][i] # None =>
    /\ results[b][i].url = urls[b][i]
    /\ urls[b][i] \in Refused => results[b][i].verdict \in {"refused", "cancelled"}

\* A job that was handed out is being worked on unless its result is there.
NoJobLost == \A b \in Batches : \A i \in 1 .. next[b] - 1 :
    results[b][i] # None \/ \E w \in Workers : Working(b, w) /\ work[b][w] = i

\* A call that has not begun or has returned has no workers.
StageInv == \A b \in Batches :
    /\ stage[b] # "running" => \A w \in Workers : at[b][w] = "off"
    /\ stage[b] \in {"new", "refused"} => urls[b] = <<>> /\ next[b] = 1
    /\ stage[b] = "returned" => next[b] > Len(urls[b])

IndInv == TypeOK /\ JobInv /\ RecordInv /\ NoJobLost /\ StageInv

-----------------------------------------------------------------------------
\* No call has begun.
LEMMA InitInv == Init => IndInv
<1>1. SUFFICES ASSUME Init PROVE IndInv
  OBVIOUS
<1>2. <<>> \in Seq(URLs) /\ Len(<<>>) = 0 /\ DOMAIN <<>> = {}
  OBVIOUS
<1>3. TypeOK
  BY <1>1, <1>2 DEF Init, TypeOK
<1>4. JobInv /\ RecordInv /\ NoJobLost /\ StageInv
  BY <1>1, <1>2 DEF Init, JobInv, RecordInv, NoJobLost, StageInv, Working
<1>5. QED
  BY <1>3, <1>4 DEF IndInv

\* Beginning a batch.
LEMMA StartInv ==
  ASSUME IndInv, NEW b \in Batches, NEW s \in Inputs[b], Start(b, s)
  PROVE  IndInv'
<1>1. s \in Seq(URLs)
  BY LinksAssumption
<1>2. TypeOK'
  BY <1>1 DEF IndInv, TypeOK, StageInv, Start
<1>3. JobInv'
  BY DEF IndInv, TypeOK, JobInv, StageInv, Working, Start
<1>4. RecordInv'
  BY DEF IndInv, TypeOK, RecordInv, Start
<1>5. NoJobLost'
  BY DEF IndInv, TypeOK, NoJobLost, StageInv, Working, Start
<1>6. StageInv'
  BY DEF IndInv, TypeOK, StageInv, Start
<1>7. QED
  BY <1>2, <1>3, <1>4, <1>5, <1>6 DEF IndInv

\* Handing out a job.
LEMMA HandInv ==
  ASSUME IndInv, NEW b \in Batches, NEW w \in Workers, Hand(b, w)
  PROVE  IndInv'
<1>1. TypeOK'
  BY DEF IndInv, TypeOK, Hand, Goto
<1>2. JobInv'
  BY DEF IndInv, TypeOK, JobInv, Working, Hand, Goto
<1>3. RecordInv'
  BY DEF IndInv, TypeOK, RecordInv, Hand, Goto
<1>4. NoJobLost'
  <2>1. SUFFICES ASSUME NEW a \in Batches, NEW i \in 1 .. next'[a] - 1, results[a][i] = None
                 PROVE  \E v \in Workers : Working(a, v)' /\ work'[a][v] = i
    BY DEF NoJobLost, Hand
  <2>2. CASE a = b /\ i = next[b]
    <3>1. Working(b, w)' /\ work'[b][w] = i
      BY <2>2 DEF IndInv, TypeOK, Working, Hand, Goto
    <3>2. QED
      BY <2>2, <3>1
  <2>3. CASE ~(a = b /\ i = next[b])
    <3>1. i \in 1 .. next[a] - 1
      BY <2>1, <2>3 DEF IndInv, TypeOK, Hand
    <3>2. PICK v \in Workers : Working(a, v) /\ work[a][v] = i
      BY <2>1, <3>1 DEF IndInv, NoJobLost
    <3>3. a # b \/ v # w
      BY <3>2 DEF Working, Hand, Goto
    <3>4. Working(a, v)' /\ work'[a][v] = i
      BY <3>2, <3>3 DEF IndInv, TypeOK, Working, Hand, Goto
    <3>5. QED
      BY <3>4
  <2>4. QED
    BY <2>2, <2>3
<1>5. StageInv'
  BY DEF IndInv, TypeOK, StageInv, Hand, Goto
<1>6. QED
  BY <1>1, <1>2, <1>3, <1>4, <1>5 DEF IndInv

\* A worker that records its result has done its job and no other.
LEMMA RecordedInv ==
  ASSUME IndInv, NEW b \in Batches, NEW w \in Workers, NEW verdict \in Verdicts,
         Working(b, w),
         at' = [at EXCEPT ![b][w] = "idle"],
         Record(b, w, verdict),
         urls[b][work[b][w]] \in Refused => verdict \in {"refused", "cancelled"},
         tick' \in [Batches -> BOOLEAN],
         UNCHANGED <<stage, urls, next, done>>
  PROVE  IndInv'
<1> DEFINE i == work[b][w]
           r == [url |-> urls[b][i], verdict |-> verdict]
<1>1. i \in 1 .. next[b] - 1 /\ i \in DOMAIN urls[b] /\ urls[b][i] \in URLs
  BY DEF IndInv, TypeOK, JobInv
<1>2. r \in Result /\ r # None
  BY <1>1 DEF Result, None, Verdicts
<1>3. /\ \A a \in Batches \ {b} : results'[a] = results[a]
      /\ results'[b] = [results[b] EXCEPT ![i] = r]
      /\ DOMAIN results' = Batches
  BY DEF Record, IndInv, TypeOK
<1>4. /\ results'[b] \in [DOMAIN urls[b] -> {None} \cup Result]
      /\ results'[b][i] = r
      /\ \A j \in DOMAIN urls[b] \ {i} : results'[b][j] = results[b][j]
  BY <1>1, <1>2, <1>3 DEF IndInv, TypeOK
<1> HIDE DEF r
<1>5. TypeOK'
  BY <1>1, <1>3, <1>4 DEF IndInv, TypeOK, Record
<1>6. JobInv'
  BY DEF IndInv, TypeOK, JobInv, Working, Record
<1>7. RecordInv'
  <2>1. r.url = urls[b][i] /\ r.verdict = verdict
    BY DEF r
  <2>2. SUFFICES ASSUME NEW a \in Batches, NEW j \in DOMAIN urls[a], results'[a][j] # None
                 PROVE  /\ results'[a][j].url = urls[a][j]
                        /\ urls[a][j] \in Refused =>
                             results'[a][j].verdict \in {"refused", "cancelled"}
    BY DEF RecordInv
  <2>3. CASE a = b /\ j = i
    BY <1>4, <2>1, <2>3
  <2>4. CASE ~(a = b /\ j = i)
    BY <1>3, <1>4, <2>2, <2>4 DEF IndInv, RecordInv
  <2>5. QED
    BY <2>3, <2>4
<1>8. NoJobLost'
  <2>1. SUFFICES ASSUME NEW a \in Batches, NEW j \in 1 .. next[a] - 1, results'[a][j] = None
                 PROVE  \E v \in Workers : Working(a, v)' /\ work'[a][v] = j
    BY DEF NoJobLost
  <2>2. j \in DOMAIN urls[a]
    BY DEF IndInv, TypeOK
  <2>3. ~(a = b /\ j = i) /\ results[a][j] = None
    BY <1>2, <1>3, <1>4, <2>1, <2>2
  <2>4. PICK v \in Workers : Working(a, v) /\ work[a][v] = j
    BY <2>3 DEF IndInv, NoJobLost
  <2>5. a # b \/ v # w
    BY <2>3, <2>4
  <2>6. Working(a, v)' /\ work'[a][v] = j
    BY <2>4, <2>5 DEF IndInv, TypeOK, Working, Record
  <2>7. QED
    BY <2>6
<1>9. StageInv'
  BY DEF IndInv, TypeOK, StageInv, Working
<1>10. QED
  BY <1>5, <1>6, <1>7, <1>8, <1>9 DEF IndInv

\* The steps of a worker that record a result.
LEMMA WorkerEndsInv ==
  ASSUME IndInv, NEW b \in Batches, NEW w \in Workers,
         GiveUp(b, w) \/ PacedRefusal(b, w) \/ CheckEnds(b, w) \/ AbandonQueue(b, w)
  PROVE  IndInv'
<1>1. tick \in [Batches -> BOOLEAN] /\ Verdicts = {"refused", "cancelled", "checked"}
  BY DEF IndInv, TypeOK, Verdicts
<1>2. CASE GiveUp(b, w)
  BY <1>1, <1>2, RecordedInv DEF GiveUp, Goto, Working
<1>3. CASE PacedRefusal(b, w)
  BY <1>1, <1>3, RecordedInv DEF PacedRefusal, Goto, Working
<1>4. CASE CheckEnds(b, w)
  <2>1. urls[b][work[b][w]] \notin Refused
    BY <1>4 DEF CheckEnds, Goto, IndInv, JobInv
  <2>2. QED
    BY <1>1, <1>4, <2>1, RecordedInv DEF CheckEnds, Goto, Working
<1>5. CASE AbandonQueue(b, w)
  BY <1>1, <1>5, RecordedInv DEF AbandonQueue, Goto, Working
<1>6. QED
  BY <1>2, <1>3, <1>4, <1>5

\* The steps of a worker between its job and its result, and its leaving.
LEMMA WorkerMovesInv ==
  ASSUME IndInv, NEW b \in Batches, NEW w \in Workers,
         Leave(b, w) \/ PacedCheck(b, w) \/ AcquireSlot(b, w)
  PROVE  IndInv'
<1>1. PICK to \in {"off", "slot", "fetch"} :
        /\ at' = [at EXCEPT ![b][w] = to]
        /\ to = "off" => ~Working(b, w)
        /\ to # "off" => Working(b, w) /\ urls[b][work[b][w]] \notin Refused
  BY DEF IndInv, JobInv, Working, Leave, PacedCheck, AcquireSlot, Goto
<1>2. tick' \in [Batches -> BOOLEAN] /\ UNCHANGED <<stage, urls, next, done, work, results>>
  BY DEF IndInv, TypeOK, Leave, PacedCheck, AcquireSlot
<1>3. at[b][w] # "off"
  BY DEF Leave, PacedCheck, AcquireSlot, Goto
<1>4. TypeOK'
  BY <1>1, <1>2 DEF IndInv, TypeOK
<1>5. \A a \in Batches, v \in Workers :
        IF a = b /\ v = w THEN at'[a][v] = to ELSE at'[a][v] = at[a][v]
  BY <1>1 DEF IndInv, TypeOK
<1>6. \A a \in Batches, v \in Workers : Working(a, v)' <=> Working(a, v)
  BY <1>1, <1>5 DEF Working
<1>7. JobInv'
  BY <1>1, <1>2, <1>5, <1>6 DEF IndInv, JobInv
<1>8. RecordInv'
  BY <1>2 DEF IndInv, RecordInv
<1>9. NoJobLost'
  BY <1>2, <1>6 DEF IndInv, NoJobLost
<1>10. StageInv'
  BY <1>2, <1>3, <1>5 DEF IndInv, StageInv
<1>11. QED
  BY <1>4, <1>7, <1>8, <1>9, <1>10 DEF IndInv

\* The steps of a call as a whole, and of its ticker and its client.
LEMMA CallInv ==
  ASSUME IndInv, NEW b \in Batches,
         (\E s \in Inputs[b] : Refuse(b, s)) \/ Tick(b) \/ ContextDone(b) \/ Return(b)
  PROVE  IndInv'
<1>1. TypeOK'
  BY DEF IndInv, TypeOK, Refuse, Tick, ContextDone, Return
<1>2. JobInv' /\ RecordInv'
  BY DEF IndInv, JobInv, RecordInv, Working, Refuse, Tick, ContextDone, Return
<1>3. NoJobLost'
  BY DEF IndInv, NoJobLost, Working, Refuse, Tick, ContextDone, Return
<1>4. StageInv'
  BY DEF IndInv, TypeOK, StageInv, Refuse, Tick, ContextDone, Return
<1>5. QED
  BY <1>1, <1>2, <1>3, <1>4 DEF IndInv

\* Every step keeps the invariant.
LEMMA NextInv == IndInv /\ [Next]_vars => IndInv'
<1>1. SUFFICES ASSUME IndInv, [Next]_vars PROVE IndInv'
  OBVIOUS
<1>2. CASE UNCHANGED vars
  BY <1>1, <1>2
     DEF vars, IndInv, TypeOK, JobInv, RecordInv, NoJobLost, StageInv, Working
<1>3. QED
  BY <1>1, <1>2, StartInv, HandInv, WorkerEndsInv, WorkerMovesInv, CallInv DEF Next, Worker

\* The invariant always holds.
LEMMA Invariance == Spec => []IndInv
  BY InitInv, NextInv, PTL DEF Spec

\* The state always has its types, and no job is handed out beyond the last URL.
THEOREM LinksTypeCorrect == Spec => []TypeOK
<1>1. IndInv => TypeOK
  BY DEF IndInv
<1>2. QED
  BY <1>1, Invariance, PTL

\* For batches of any length, CheckLinkStatus returns one result for each URL, in the
\* order of the URLs, whatever the workers' order and whenever the context ends.
THEOREM LinksInOrder == Spec => []ResultsInOrder
<1>1. ASSUME IndInv PROVE ResultsInOrder
  <2>1. SUFFICES ASSUME NEW b \in Batches, stage[b] = "returned", NEW i \in DOMAIN urls[b]
                 PROVE  results[b][i] # None
    BY <1>1 DEF IndInv, RecordInv, ResultsInOrder
  <2>2. i \in 1 .. next[b] - 1
    BY <1>1, <2>1 DEF IndInv, TypeOK, StageInv
  <2>3. QED
    BY <1>1, <2>1, <2>2 DEF IndInv, NoJobLost, StageInv, Working
<1>2. QED
  BY <1>1, Invariance, PTL

\* No worker writes a result after its call has returned it (wg.Wait).
THEOREM LinksStable == Spec => ResultsStable
<1>1. IndInv /\ [Next]_vars =>
        [\A b \in Batches : stage[b] = "returned" => results'[b] = results[b]]_vars
  <2>1. SUFFICES ASSUME IndInv, Next, NEW a \in Batches, stage[a] = "returned"
                 PROVE  results'[a] = results[a]
    BY DEF vars
  <2>2. \A w \in Workers : at[a][w] = "off"
    BY <2>1 DEF IndInv, StageInv
  <2>3. PICK b \in Batches :
          \/ \E s \in Inputs[b] : Refuse(b, s) \/ Start(b, s)
          \/ Tick(b) \/ ContextDone(b) \/ Return(b)
          \/ \E w \in Workers : Worker(b, w) \/ AcquireSlot(b, w)
    BY <2>1 DEF Next
  <2>4. CASE a # b
    BY <2>1, <2>3, <2>4
       DEF IndInv, TypeOK, Refuse, Start, Tick, ContextDone, Return, Worker, AcquireSlot,
           Hand, Leave, GiveUp, PacedRefusal, PacedCheck, CheckEnds, AbandonQueue, Record
  <2>5. CASE a = b
    BY <2>1, <2>2, <2>3, <2>5
       DEF Refuse, Start, Tick, ContextDone, Return, Worker, AcquireSlot,
           Hand, Leave, GiveUp, PacedRefusal, PacedCheck, CheckEnds, AbandonQueue, Goto
  <2>6. QED
    BY <2>4, <2>5
<1>2. QED
  BY <1>1, Invariance, PTL DEF Spec, ResultsStable
=============================================================================
