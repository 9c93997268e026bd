------------------------------ MODULE BatchJobs ------------------------------
(***************************************************************************)
(* A batch request: one goroutine per mail box, and an answer made of what *)
(* they all came to.  A batch refresh (HandleBatchRefreshToken, on gRPC    *)
(* BatchRefreshToken) counts and collects under a mutex, in two critical   *)
(* sections, and waits for a WaitGroup.  A batch detection                 *)
(* (BatchDetectProtocolType) collects from a channel.  What one goroutine  *)
(* asks for is a request of TokenProvider; here it succeeds or fails.      *)
(*                                                                         *)
(* The order of the results is left out.  The channel has room for every   *)
(* result, so no goroutine waits to send.                                  *)
(***************************************************************************)
EXTENDS Naturals, FiniteSets

CONSTANTS
  Items,      \* mail boxes
  Batches,    \* the sets of mail boxes a request may have
  MaxBatch    \* the limit of a batch refresh: 100

ASSUME BatchAssumption ==
  /\ \A S \in Batches : S \subseteq Items /\ IsFiniteSet(S)
  /\ MaxBatch \in Nat

VARIABLES
  batch,         \* where the request is
  kind,          \* "refresh" or "detect"
  items,         \* its mail boxes
  worker,        \* where the goroutine of each mail box is
  outcome,       \* what the goroutine's request came to
  successCount,
  failCount,
  results        \* how many results each mail box has in the list

batchVars ==
  <<batch, kind, items, worker, outcome, successCount, failCount, results>>

Outcomes == {"ok", "failed"}

BatchTypeOK ==
  /\ batch \in {"idle", "running", "answered", "refused"}
  /\ kind \in {"refresh", "detect"}
  /\ items \in Batches \cup {{}}
  /\ worker \in
       [Items -> {"none", "working", "fetched", "counted", "sent", "done"}]
  /\ outcome \in [Items -> Outcomes \cup {"none"}]
  /\ successCount \in Nat /\ failCount \in Nat
  /\ results \in [Items -> Nat]

BatchInit ==
  /\ batch = "idle" /\ kind = "refresh" /\ items = {}
  /\ worker = [i \in Items |-> "none"]
  /\ outcome = [i \in Items |-> "none"]
  /\ successCount = 0 /\ failCount = 0
  /\ results = [i \in Items |-> 0]

\* The request comes in.  An empty one is refused, and a refresh beyond the
\* limit; a detection has no limit.
BatchArrives ==
  /\ batch = "idle"
  /\ \E k \in {"refresh", "detect"}, S \in Batches :
       /\ kind' = k
       /\ IF S = {} \/ (k = "refresh" /\ Cardinality(S) > MaxBatch)
          THEN /\ batch' = "refused"
               /\ UNCHANGED <<items, worker>>
          ELSE /\ batch' = "running"
               /\ items' = S
               /\ worker' = [i \in Items |->
                               IF i \in S THEN "working" ELSE "none"]
  /\ UNCHANGED <<outcome, successCount, failCount, results>>

\* A bug: the goroutine returns on an error without a result.
JobEndsSilently(i) ==
  /\ worker[i] = "working"
  /\ \E o \in Outcomes :
       /\ outcome' = [outcome EXCEPT ![i] = o]
       /\ worker' = [worker EXCEPT ![i] =
                       IF o = "ok" THEN "fetched" ELSE "done"]
  /\ UNCHANGED <<batch, kind, items, successCount, failCount, results>>

\* The request of one mail box succeeds or fails.
JobEnds(i) ==
  /\ worker[i] = "working"
  /\ \E o \in Outcomes : outcome' = [outcome EXCEPT ![i] = o]
  /\ worker' = [worker EXCEPT ![i] = "fetched"]
  /\ UNCHANGED <<batch, kind, items, successCount, failCount, results>>

Counts(i) ==
  IF outcome[i] = "ok"
  THEN successCount' = successCount + 1 /\ UNCHANGED failCount
  ELSE failCount' = failCount + 1 /\ UNCHANGED successCount

\* A bug: no lock, so that the increment may be lost to another goroutine.
CountJobUnlocked(i) ==
  /\ kind = "refresh"
  /\ worker[i] = "fetched"
  /\ worker' = [worker EXCEPT ![i] = "counted"]
  /\ \/ Counts(i)
     \/ /\ \E j \in items \ {i} : worker[j] = "fetched"
        /\ UNCHANGED <<successCount, failCount>>
  /\ UNCHANGED <<batch, kind, items, outcome, results>>

\* The first critical section.
CountJob(i) ==
  /\ kind = "refresh"
  /\ worker[i] = "fetched"
  /\ worker' = [worker EXCEPT ![i] = "counted"]
  /\ Counts(i)
  /\ UNCHANGED <<batch, kind, items, outcome, results>>

\* The second one, and wg.Done.
AppendResult(i) ==
  /\ worker[i] = "counted"
  /\ worker' = [worker EXCEPT ![i] = "done"]
  /\ results' = [results EXCEPT ![i] = @ + 1]
  /\ UNCHANGED <<batch, kind, items, outcome, successCount, failCount>>

\* A detection sends its result into the channel and is done.
SendResult(i) ==
  /\ kind = "detect"
  /\ worker[i] = "fetched"
  /\ worker' = [worker EXCEPT ![i] = "sent"]
  /\ UNCHANGED <<batch, kind, items, outcome>>
  /\ UNCHANGED <<successCount, failCount, results>>

\* The collector takes a result from the channel, appends and counts it.
CollectResult(i) ==
  /\ batch = "running"
  /\ worker[i] = "sent"
  /\ worker' = [worker EXCEPT ![i] = "done"]
  /\ results' = [results EXCEPT ![i] = @ + 1]
  /\ Counts(i)
  /\ UNCHANGED <<batch, kind, items, outcome>>

\* wg.Wait returns, or the collector has received as many results as there
\* are mail boxes.
BatchAnswers ==
  /\ batch = "running"
  /\ IF kind = "refresh"
     THEN \A i \in items : worker[i] = "done"
     ELSE successCount + failCount = Cardinality(items)
  /\ batch' = "answered"
  /\ UNCHANGED <<kind, items, worker, outcome>>
  /\ UNCHANGED <<successCount, failCount, results>>

BatchProgress ==
  \/ BatchAnswers
  \/ \E i \in Items :
       \/ JobEnds(i) \/ CountJob(i) \/ AppendResult(i)
       \/ SendResult(i) \/ CollectResult(i)

BatchStep == BatchArrives \/ BatchProgress

\* A goroutine of the batch has something to do, or the batch is answered.
BatchCanRun ==
  /\ batch = "running"
  /\ \/ \E i \in items : worker[i] # "done"
     \/ kind = "refresh"
     \/ successCount + failCount = Cardinality(items)

-----------------------------------------------------------------------------
JobsOf(o) == {i \in items : outcome[i] = o}

\* The answer agrees with itself and with what happened: one result for every
\* mail box, and counters that say how many succeeded and how many failed,
\* though goroutines count and append in separate critical sections, and a
\* collector counts what it receives.
BatchAgrees ==
  batch = "answered" =>
    /\ successCount = Cardinality(JobsOf("ok"))
    /\ failCount = Cardinality(JobsOf("failed"))
    /\ \A i \in Items : results[i] = IF i \in items THEN 1 ELSE 0

=============================================================================
