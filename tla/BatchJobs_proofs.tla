-------------------------- MODULE BatchJobs_proofs --------------------------
(***************************************************************************)
(* The answer of a batch agrees with itself, for every set of mail boxes   *)
(* and every limit.  The counters are the numbers of the goroutines that   *)
(* have been counted; a batch that waits for a WaitGroup answers when all  *)
(* have been, and one that collects from a channel when the counters add   *)
(* up to the number of mail boxes, which is only then.                     *)
(***************************************************************************)
EXTENDS BatchJobs, FiniteSetTheorems, TLAPS

Counted(o) ==
  {i \in items : worker[i] \in {"counted", "done"} /\ outcome[i] = o}

CountersAgree ==
  /\ successCount = Cardinality(Counted("ok"))
  /\ failCount = Cardinality(Counted("failed"))

\* What a goroutine has done goes with where it is and with the kind of batch.
WorkersAgree ==
  \A i \in Items :
    /\ worker[i] = "none" <=> i \notin items
    /\ worker[i] \in {"fetched", "counted", "sent", "done"} =>
         outcome[i] \in Outcomes
    /\ results[i] = IF worker[i] = "done" THEN 1 ELSE 0
    /\ kind = "refresh" => worker[i] # "sent"
    /\ kind = "detect" => worker[i] # "counted"

\* A batch is empty until it runs, and answered when every goroutine is done.
BatchPhases ==
  /\ batch \in {"idle", "refused"} => items = {}
  /\ batch = "answered" => \A i \in items : worker[i] = "done"

BatchInv ==
  /\ BatchTypeOK
  /\ IsFiniteSet(items) /\ items \subseteq Items
  /\ WorkersAgree
  /\ CountersAgree
  /\ BatchPhases

USE BatchAssumption

\* Before any batch there is nothing to count.
LEMMA BatchStarts == BatchInit => BatchInv
<1> SUFFICES ASSUME BatchInit PROVE BatchInv
  OBVIOUS
<1>1. Counted("ok") = {} /\ Counted("failed") = {}
  BY DEF BatchInit, Counted
<1>2. BatchTypeOK /\ WorkersAgree /\ BatchPhases /\ items = {}
  BY DEF BatchInit, BatchTypeOK, WorkersAgree, BatchPhases, Outcomes
<1> QED
  BY <1>1, <1>2, FS_EmptySet DEF BatchInit, BatchInv, CountersAgree

\* The sets that are counted are finite.
LEMMA CountedFinite ==
  ASSUME BatchInv, NEW o
  PROVE  IsFiniteSet(Counted(o)) /\ Cardinality(Counted(o)) \in Nat
<1>1. Counted(o) \in SUBSET items /\ IsFiniteSet(items)
  BY DEF Counted, BatchInv
<1>2. IsFiniteSet(Counted(o))
  BY <1>1, FS_Subset
<1> QED
  BY <1>2, FS_CardinalityType

\* Counting a goroutine that was not counted keeps the counters true.
LEMMA CountingAdds ==
  ASSUME BatchInv, NEW i \in Items, NEW c \in {"counted", "done"},
         worker[i] \in {"fetched", "sent"},
         worker' = [worker EXCEPT ![i] = c],
         Counts(i), UNCHANGED <<items, outcome>>
  PROVE  CountersAgree' /\ successCount' \in Nat /\ failCount' \in Nat
<1>1. i \in items /\ outcome[i] \in Outcomes
  BY DEF BatchInv, WorkersAgree
<1>2. \A o : Counted(o)' =
        IF outcome[i] = o THEN Counted(o) \cup {i} ELSE Counted(o)
  <2> SUFFICES ASSUME NEW o
               PROVE  Counted(o)' = IF outcome[i] = o
                                    THEN Counted(o) \cup {i} ELSE Counted(o)
    OBVIOUS
  <2>1. \A j \in items : j \in Items
    BY DEF BatchInv
  <2>2. \A j \in items : worker'[j] = IF j = i THEN c ELSE worker[j]
    BY <2>1 DEF BatchInv, BatchTypeOK
  <2>3. Counted(o)' =
          {j \in items : worker'[j] \in {"counted", "done"} /\ outcome[j] = o}
    BY DEF Counted
  <2> QED
    BY <1>1, <2>2, <2>3 DEF Counted
<1>3. \A o : i \notin Counted(o)
  BY DEF Counted
<1>4. \A o : Cardinality(Counted(o)') =
        IF outcome[i] = o THEN Cardinality(Counted(o)) + 1
        ELSE Cardinality(Counted(o))
  BY <1>2, <1>3, CountedFinite, FS_AddElement
<1>5. CASE outcome[i] = "ok"
  BY <1>4, <1>5, CountedFinite DEF BatchInv, CountersAgree, Counts
<1>6. CASE outcome[i] = "failed"
  BY <1>4, <1>6, CountedFinite DEF BatchInv, CountersAgree, Counts
<1> QED
  BY <1>1, <1>5, <1>6 DEF Outcomes

\* A step that counts nobody, and leaves the counters, keeps them true.
LEMMA CountedSame ==
  ASSUME BatchInv, NEW i \in Items, NEW c \in {"fetched", "sent", "done"},
         worker[i] \in {"counted", "done"} <=> c = "done",
         worker' = [worker EXCEPT ![i] = c],
         \A j \in Items : j # i => outcome'[j] = outcome[j],
         c = "done" => outcome' = outcome,
         UNCHANGED <<items, successCount, failCount>>
  PROVE  CountersAgree'
<1>1. \A o : Counted(o)' = Counted(o)
  <2> SUFFICES ASSUME NEW o PROVE Counted(o)' = Counted(o)
    OBVIOUS
  <2>1. \A j \in items : worker'[j] = IF j = i THEN c ELSE worker[j]
    BY DEF BatchInv, BatchTypeOK
  <2>2. \A j \in items : j = i \/ outcome'[j] = outcome[j]
    BY DEF BatchInv
  <2>3. worker[i] \in {"counted", "done"} => outcome'[i] = outcome[i]
    OBVIOUS
  <2> QED
    BY <2>1, <2>2, <2>3 DEF Counted
<1> QED
  BY <1>1 DEF BatchInv, CountersAgree

\* Together the counters are the number of goroutines that have been counted.
LEMMA CountersSum ==
  ASSUME BatchInv
  PROVE  LET All == Counted("ok") \cup Counted("failed")
         IN  All \in SUBSET items /\ successCount + failCount = Cardinality(All)
<1> DEFINE S == Counted("ok")
           T == Counted("failed")
<1>1. IsFiniteSet(S) /\ IsFiniteSet(T) /\ S \cap T = {}
  BY CountedFinite DEF Counted
<1>2. Cardinality(S \cup T) = Cardinality(S) + Cardinality(T)
  <2>1. Cardinality(S \cup T) =
          Cardinality(S) + Cardinality(T) - Cardinality(S \cap T)
    BY <1>1, FS_Union
  <2>2. Cardinality(S \cap T) = 0
    BY <1>1, FS_EmptySet
  <2>3. Cardinality(S) \in Nat /\ Cardinality(T) \in Nat
    BY CountedFinite
  <2> QED
    BY <2>1, <2>2, <2>3
<1>3. S \cup T \in SUBSET items
  BY DEF Counted
<1> QED
  BY <1>2, <1>3 DEF BatchInv, CountersAgree

\* When the counters add up to the number of mail boxes, all are done.
LEMMA AllCounted ==
  ASSUME BatchInv, kind = "detect",
         successCount + failCount = Cardinality(items)
  PROVE  \A i \in items : worker[i] = "done"
<1> DEFINE All == Counted("ok") \cup Counted("failed")
<1>1. All \in SUBSET items /\ IsFiniteSet(items) /\ Cardinality(All) = Cardinality(items)
  BY CountersSum DEF BatchInv
<1>2. All = items
  BY <1>1, FS_Subset
<1> QED
  BY <1>2 DEF Counted, BatchInv, WorkersAgree

\* Every step of a batch keeps the invariant.
LEMMA BatchKeeps == BatchInv /\ [BatchStep]_batchVars => BatchInv'
<1> SUFFICES ASSUME BatchInv, [BatchStep]_batchVars PROVE BatchInv'
  OBVIOUS
<1> USE DEF BatchInv
<1>1. CASE BatchArrives
  <2>1. items = {} /\ \A i \in Items : worker[i] = "none"
    BY <1>1 DEF BatchArrives, BatchPhases, WorkersAgree
  <2>2. PICK k \in {"refresh", "detect"}, S \in Batches :
          /\ kind' = k
          /\ IF S = {} \/ (k = "refresh" /\ Cardinality(S) > MaxBatch)
             THEN batch' = "refused" /\ UNCHANGED <<items, worker>>
             ELSE /\ batch' = "running"
                  /\ items' = S
                  /\ worker' = [i \in Items |->
                                  IF i \in S THEN "working" ELSE "none"]
    BY <1>1 DEF BatchArrives
  <2>3. UNCHANGED <<outcome, successCount, failCount, results>>
    BY <1>1 DEF BatchArrives
  <2>4. \/ batch' = "refused" /\ items' = items /\ worker' = worker
        \/ /\ batch' = "running" /\ items' = S
           /\ worker' = [i \in Items |->
                           IF i \in S THEN "working" ELSE "none"]
    BY <2>2
  <2>5. S \subseteq Items /\ IsFiniteSet(S)
    OBVIOUS
  <2>6. \A i \in Items : worker'[i] \in {"none", "working"}
    BY <2>1, <2>4
  <2>7. BatchTypeOK'
    BY <2>2, <2>3, <2>4 DEF BatchTypeOK
  <2>8. IsFiniteSet(items') /\ items' \subseteq Items
    BY <2>4, <2>5
  <2>9. WorkersAgree'
    BY <2>1, <2>2, <2>3, <2>4, <2>6 DEF WorkersAgree
  <2>10. \A o : Counted(o)' = {} /\ Counted(o) = {}
    BY <2>1, <2>6, <2>8 DEF Counted
  <2>11. CountersAgree'
    BY <2>3, <2>10 DEF CountersAgree
  <2>12. BatchPhases'
    BY <2>1, <2>4 DEF BatchPhases
  <2> QED
    BY <2>7, <2>8, <2>9, <2>11, <2>12
<1>2. ASSUME NEW i \in Items, JobEnds(i) PROVE BatchInv'
  <2>1. PICK o \in Outcomes : outcome' = [outcome EXCEPT ![i] = o]
    BY <1>2 DEF JobEnds
  <2>2. CountersAgree'
    <3>1. \A j \in Items : j # i => outcome'[j] = outcome[j]
      BY <2>1 DEF BatchTypeOK
    <3>2. /\ worker[i] = "working"
          /\ worker' = [worker EXCEPT ![i] = "fetched"]
          /\ UNCHANGED <<items, successCount, failCount>>
      BY <1>2 DEF JobEnds
    <3> QED
      BY <3>1, <3>2, CountedSame
  <2>3. BatchTypeOK'
    BY <1>2, <2>1 DEF JobEnds, BatchTypeOK
  <2>4. WorkersAgree'
    BY <1>2, <2>1 DEF JobEnds, WorkersAgree, BatchTypeOK
  <2>5. BatchPhases'
    BY <1>2 DEF JobEnds, BatchPhases, BatchTypeOK
  <2> QED
    BY <1>2, <2>2, <2>3, <2>4, <2>5 DEF JobEnds
<1>3. ASSUME NEW i \in Items, CountJob(i) PROVE BatchInv'
  <2>1. CountersAgree' /\ successCount' \in Nat /\ failCount' \in Nat
    BY <1>3, CountingAdds DEF CountJob
  <2>2. BatchTypeOK'
    BY <1>3, <2>1 DEF CountJob, BatchTypeOK
  <2>3. WorkersAgree'
    BY <1>3 DEF CountJob, WorkersAgree, BatchTypeOK
  <2>4. BatchPhases'
    BY <1>3 DEF CountJob, BatchPhases, BatchTypeOK, WorkersAgree
  <2> QED
    BY <1>3, <2>1, <2>2, <2>3, <2>4 DEF CountJob
<1>4. ASSUME NEW i \in Items, AppendResult(i) PROVE BatchInv'
  <2>1. CountersAgree'
    <3>1. /\ worker[i] = "counted"
          /\ worker' = [worker EXCEPT ![i] = "done"]
          /\ UNCHANGED <<items, outcome, successCount, failCount>>
      BY <1>4 DEF AppendResult
    <3> QED
      BY <3>1, CountedSame
  <2>2. BatchTypeOK'
    BY <1>4 DEF AppendResult, BatchTypeOK
  <2>3. WorkersAgree'
    BY <1>4 DEF AppendResult, WorkersAgree, BatchTypeOK
  <2>4. BatchPhases'
    BY <1>4 DEF AppendResult, BatchPhases, BatchTypeOK
  <2> QED
    BY <1>4, <2>1, <2>2, <2>3, <2>4 DEF AppendResult
<1>5. ASSUME NEW i \in Items, SendResult(i) PROVE BatchInv'
  <2>1. CountersAgree'
    <3>1. /\ worker[i] = "fetched"
          /\ worker' = [worker EXCEPT ![i] = "sent"]
          /\ UNCHANGED <<items, outcome, successCount, failCount>>
      BY <1>5 DEF SendResult
    <3> QED
      BY <3>1, CountedSame
  <2>2. BatchTypeOK'
    BY <1>5 DEF SendResult, BatchTypeOK
  <2>3. WorkersAgree'
    BY <1>5 DEF SendResult, WorkersAgree, BatchTypeOK
  <2>4. BatchPhases'
    BY <1>5 DEF SendResult, BatchPhases, BatchTypeOK, WorkersAgree
  <2> QED
    BY <1>5, <2>1, <2>2, <2>3, <2>4 DEF SendResult
<1>6. ASSUME NEW i \in Items, CollectResult(i) PROVE BatchInv'
  <2>1. CountersAgree' /\ successCount' \in Nat /\ failCount' \in Nat
    BY <1>6, CountingAdds DEF CollectResult
  <2>2. BatchTypeOK'
    BY <1>6, <2>1 DEF CollectResult, BatchTypeOK
  <2>3. WorkersAgree'
    BY <1>6 DEF CollectResult, WorkersAgree, BatchTypeOK
  <2>4. BatchPhases'
    BY <1>6 DEF CollectResult, BatchPhases, BatchTypeOK
  <2> QED
    BY <1>6, <2>1, <2>2, <2>3, <2>4 DEF CollectResult
<1>7. CASE BatchAnswers
  <2>1. \A i \in items : worker[i] = "done"
    BY <1>7, AllCounted DEF BatchAnswers, BatchTypeOK
  <2>2. CountersAgree'
    BY <1>7 DEF BatchAnswers, CountersAgree, Counted
  <2>3. BatchTypeOK' /\ WorkersAgree' /\ BatchPhases'
    BY <1>7, <2>1 DEF BatchAnswers, BatchTypeOK, WorkersAgree, BatchPhases
  <2> QED
    BY <1>7, <2>2, <2>3 DEF BatchAnswers
<1>8. CASE UNCHANGED batchVars
  BY <1>8 DEF batchVars, BatchTypeOK, WorkersAgree, CountersAgree, Counted,
              BatchPhases
<1> QED
  BY <1>1, <1>2, <1>3, <1>4, <1>5, <1>6, <1>7, <1>8
  DEF BatchStep, BatchProgress

\* The invariant says what an answer must say.
LEMMA BatchInvAgrees == BatchInv => BatchAgrees
<1> SUFFICES ASSUME BatchInv, batch = "answered" PROVE BatchAgrees
  BY DEF BatchAgrees
<1>1. \A i \in items : worker[i] = "done"
  BY DEF BatchInv, BatchPhases
<1>2. Counted("ok") = JobsOf("ok") /\ Counted("failed") = JobsOf("failed")
  BY <1>1 DEF Counted, JobsOf
<1>3. \A i \in Items : results[i] = IF i \in items THEN 1 ELSE 0
  BY <1>1 DEF BatchInv, WorkersAgree
<1> QED
  BY <1>2, <1>3 DEF BatchAgrees, BatchInv, CountersAgree

-----------------------------------------------------------------------------
(* Why a batch ends: as long as it runs it can go on, and it goes on only  *)
(* so many times.                                                          *)

\* When all are done, the counters add up: none is left out.
LEMMA BatchNeverStuck == BatchInv /\ batch = "running" => BatchCanRun
<1> SUFFICES ASSUME BatchInv, \A i \in items : worker[i] = "done"
             PROVE  successCount + failCount = Cardinality(items)
  BY DEF BatchCanRun
<1>1. Counted("ok") \cup Counted("failed") = items
  BY DEF BatchInv, WorkersAgree, Counted, Outcomes
<1> QED
  BY <1>1, CountersSum

\* The steps each goroutine has still to take, numbered down to 1.
StepsOf(w) ==
  IF w = "working" THEN 1..3
  ELSE IF w = "fetched" THEN 1..2
  ELSE IF w \in {"counted", "sent"} THEN {1} ELSE {}

StepsLeft == {p \in items \X (1..3) : p[2] \in StepsOf(worker[p[1]])}

LEMMA StepsLeftFinite == BatchInv => IsFiniteSet(StepsLeft)
<1> SUFFICES ASSUME BatchInv PROVE IsFiniteSet(StepsLeft)
  OBVIOUS
<1>1. IsFiniteSet(1..3)
  <2>1. \A a, b \in Int : IsFiniteSet(a..b)
    BY FS_Interval
  <2>2. 1 \in Int /\ 3 \in Int
    OBVIOUS
  <2> QED
    BY <2>1, <2>2, Zenon
<1>2. IsFiniteSet(items \X (1..3))
  BY <1>1, FS_Product DEF BatchInv
<1>3. StepsLeft \in SUBSET (items \X (1..3))
  BY DEF StepsLeft
<1> QED
  BY <1>2, <1>3, FS_Subset

\* Every step of a batch is the answer, or there is one step less to take.
LEMMA BatchShrinks ==
  ASSUME BatchInv, BatchProgress
  PROVE  \/ batch = "running" /\ batch' = "answered" /\ UNCHANGED StepsLeft
         \/ StepsLeft' \subseteq StepsLeft /\ StepsLeft' # StepsLeft
<1> USE DEF BatchInv, BatchTypeOK
<1>1. CASE BatchAnswers
  BY <1>1 DEF BatchAnswers, StepsLeft
<1>2. ASSUME NEW i \in Items, NEW w, worker' = [worker EXCEPT ![i] = w],
             items' = items, worker[i] # "none",
             NEW n \in 1..3, StepsOf(w) \cup {n} = StepsOf(worker[i]),
             n \notin StepsOf(w)
      PROVE  StepsLeft' \subseteq StepsLeft /\ StepsLeft' # StepsLeft
  <2>1. \A j \in items : StepsOf(worker'[j]) =
                           IF j = i THEN StepsOf(w) ELSE StepsOf(worker[j])
    BY <1>2
  <2>2. StepsLeft' = {p \in items \X (1..3) : p[2] \in StepsOf(worker'[p[1]])}
    BY <1>2 DEF StepsLeft
  <2>3. StepsLeft' \subseteq StepsLeft
    BY <1>2, <2>1, <2>2 DEF StepsLeft
  <2>4. i \in items
    BY <1>2 DEF WorkersAgree
  <2>5. <<i, n>> \in StepsLeft /\ <<i, n>> \notin StepsLeft'
    BY <1>2, <2>1, <2>2, <2>4 DEF StepsLeft
  <2> QED
    BY <2>3, <2>5
<1>3. ASSUME NEW i \in Items, JobEnds(i)
      PROVE  StepsLeft' \subseteq StepsLeft /\ StepsLeft' # StepsLeft
  <2>1. StepsOf("fetched") \cup {3} = StepsOf("working") /\ 3 \notin StepsOf("fetched")
    BY DEF StepsOf
  <2>2. /\ worker' = [worker EXCEPT ![i] = "fetched"] /\ items' = items
        /\ worker[i] = "working" /\ worker[i] # "none" /\ 3 \in 1..3
    BY <1>3 DEF JobEnds
  <2> QED
    BY <1>2, <2>1, <2>2
<1>4. ASSUME NEW i \in Items, CountJob(i) \/ SendResult(i)
      PROVE  StepsLeft' \subseteq StepsLeft /\ StepsLeft' # StepsLeft
  <2>1. \A w \in {"counted", "sent"} :
          StepsOf(w) \cup {2} = StepsOf("fetched") /\ 2 \notin StepsOf(w)
    BY DEF StepsOf
  <2> QED
    BY <1>2, <1>4, <2>1 DEF CountJob, SendResult
<1>5. ASSUME NEW i \in Items, AppendResult(i) \/ CollectResult(i)
      PROVE  StepsLeft' \subseteq StepsLeft /\ StepsLeft' # StepsLeft
  <2>1. \A w \in {"counted", "sent"} :
          StepsOf("done") \cup {1} = StepsOf(w) /\ 1 \notin StepsOf("done")
    BY DEF StepsOf
  <2> QED
    BY <1>2, <1>5, <2>1 DEF AppendResult, CollectResult
<1> QED
  BY <1>1, <1>3, <1>4, <1>5 DEF BatchProgress

=============================================================================
