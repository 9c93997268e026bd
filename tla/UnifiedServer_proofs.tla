------------------------ MODULE UnifiedServer_proofs ------------------------
(***************************************************************************)
(* Theorems about UnifiedServer, for any requests, streams and mails.      *)
(*                                                                         *)
(* A step of the server is a step of the batch, of the query, of the       *)
(* subscriptions, or of none of them, so the invariants of                 *)
(* BatchJobs_proofs and MailQuery_proofs carry over, and that of the       *)
(* subscriptions, which ties the map and its writers to the handlers.      *)
(* What main waits for follows from the phases it goes through: once       *)
(* GracefulStop has returned, no gRPC request is unfinished and none can   *)
(* begin.                                                                  *)
(***************************************************************************)
EXTENDS UnifiedServer, BatchJobs_proofs, MailQuery_proofs

\* A gRPC request has found the server serving.
AcceptedOK ==
  \A r \in Requests :
    over[r] = "grpc" => grpc \notin {"none", "created", "refused"}

\* What each phase of main has brought about.
MainPhases ==
  /\ grpc = "draining" => main = "draining"
  /\ main = "waiting" => grpc \in {"none", "created", "serving"}
  /\ main \in {"waiting", "draining", "drained"} => rest # "closed"
  /\ main \in {"drained", "shutdown", "exited"} =>
       (Serving("grpc") => grpc \in {"created", "serving"})
  /\ main = "exited" => (Serving("rest") => late)

ServerInv == ServerTypeOK /\ AcceptedOK /\ MainPhases

\* A handler is in a map write exactly where it says so; without a race, the
\* map has the subscriptions that handlers have created and not removed, and
\* never one that is not created yet.
MapPhases ==
  /\ \A s \in Streams :
       /\ s \in mapWriters <=> stream[s] \in {"creating", "removing"}
       /\ stream[s] = "cancelling" => s \in ImapStreams
       /\ stream[s] \in {"none", "creating"} => s \notin subscriptions
       /\ s \in ImapStreams /\ stream[s] \in {"open", "cleanup"} =>
            s \in subscriptions \/ mapRaced
  /\ \A s, t \in mapWriters : s # t => mapRaced

StreamInv == StreamTypeOK /\ MapPhases /\ CancelledUnlessRaced

IInv == BatchInv /\ QueryInv /\ WayOK /\ ServerInv /\ StreamInv

USE ServerAssumption, StreamsAssumption

-----------------------------------------------------------------------------
(* The requests and the servers. *)

\* Requests that go on, and none that begins, leave no more unfinished.
LEMMA FewerServing ==
  ASSUME UNCHANGED over,
         \A r \in Requests : Unfinished(r)' => Unfinished(r)
  PROVE  \A t : Serving(t)' => Serving(t)
BY DEF Serving

\* A step of the requests alone that begins none keeps ServerInv.
LEMMA RequestsGoOn ==
  ASSUME ServerInv, UNCHANGED <<serverVars, over>>, ServerTypeOK',
         \A r \in Requests : Unfinished(r)' => Unfinished(r)
  PROVE  ServerInv'
<1>1. \A t : Serving(t)' => Serving(t)
  BY FewerServing
<1> QED
  BY <1>1 DEF ServerInv, AcceptedOK, MainPhases, serverVars

\* A request that is accepted comes while main has not ended, and over gRPC
\* while that serves.
LEMMA RequestComes ==
  ASSUME ServerInv, NEW r \in Requests, Accepts(r), UNCHANGED serverVars,
         ServerTypeOK',
         \A q \in Requests \ {r} : Unfinished(q)' => Unfinished(q)
  PROVE  ServerInv'
<1> USE DEF ServerInv
<1>1. main # "exited"
  BY DEF Accepts, Gone
<1>2. /\ over' = [over EXCEPT ![r] = "grpc"] /\ grpc = "serving"
      \/ over' = [over EXCEPT ![r] = "rest"]
  BY DEF Accepts
<1>3. \A q \in Requests : q # r => over'[q] = over[q]
  BY <1>2 DEF ServerTypeOK
<1>4. AcceptedOK'
  BY <1>2, <1>3 DEF AcceptedOK, ServerTypeOK, serverVars
<1>5. grpc # "serving" => (Serving("grpc")' => Serving("grpc"))
  BY <1>2, <1>3 DEF Serving, ServerTypeOK
<1>6. MainPhases'
  BY <1>1, <1>5 DEF MainPhases, serverVars
<1> QED
  BY <1>4, <1>6

\* Steps of main and of the start.
LEMMA ServersMove ==
  ASSUME ServerInv, StartStep \/ MainProgress
  PROVE  ServerInv'
<1> USE DEF ServerInv
<1>1. UNCHANGED <<over, streamVars, batchVars, queryVars>>
  BY DEF StartStep, MainProgress
<1>2. \A t \in Transports : Serving(t)' <=> Serving(t)
  BY <1>1 DEF Serving, Unfinished, StreamUnfinished, QueryRuns, streamVars,
               batchVars, queryVars
<1>3. CASE StartStep
  <2>1. ServerTypeOK'
    BY <1>1, <1>3 DEF StartStep, GrpcListens, GrpcServes, RestListens,
       StartFails, SignalArrives, ServerTypeOK
  <2>2. AcceptedOK'
    BY <1>1, <1>3 DEF StartStep, GrpcListens, GrpcServes, RestListens,
       StartFails, SignalArrives, AcceptedOK
  <2>3. MainPhases'
    BY <1>2, <1>3 DEF StartStep, GrpcListens, GrpcServes, RestListens,
       StartFails, SignalArrives, MainPhases, Transports, Gone
  <2> QED
    BY <2>1, <2>2, <2>3
<1>4. CASE StopServer
  <2>1. ServerTypeOK' /\ AcceptedOK'
    BY <1>1, <1>4 DEF StopServer, ServerTypeOK, AcceptedOK
  <2>2. grpc = "none" => ~Serving("grpc")
    BY DEF AcceptedOK, Serving
  <2>3. MainPhases'
    BY <1>2, <1>4, <2>2 DEF StopServer, MainPhases, Transports
  <2> QED
    BY <2>1, <2>3
<1>5. CASE GrpcDrained
  <2>1. ServerTypeOK' /\ AcceptedOK'
    BY <1>1, <1>5 DEF GrpcDrained, ServerTypeOK, AcceptedOK
  <2>2. MainPhases'
    BY <1>2, <1>5 DEF GrpcDrained, MainPhases, Transports
  <2> QED
    BY <2>1, <2>2
<1>6. CASE ShutdownBegins \/ FiveSecondsPass \/ ShutdownEnds
  <2>1. ServerTypeOK' /\ AcceptedOK'
    BY <1>1, <1>6
    DEF ShutdownBegins, FiveSecondsPass, ShutdownEnds, ServerTypeOK, AcceptedOK
  <2>2. MainPhases'
    BY <1>2, <1>6
    DEF ShutdownBegins, FiveSecondsPass, ShutdownEnds, MainPhases, Transports
  <2> QED
    BY <2>1, <2>2
<1> QED
  BY <1>3, <1>4, <1>5, <1>6 DEF MainProgress

-----------------------------------------------------------------------------
(* The composition. *)

\* Every step is one of the batch or none of it.
LEMMA NextBatch == [Next]_vars => [BatchStep]_batchVars
BY DEF Next, vars, StartStep, MainProgress, BatchComes, QueryComes, StreamComes,
       BatchGoesOn, QueryGoesOn, MailServerGoesOn, StreamGoesOn, MapRaceNoticed,
       BatchStep

\* Every step is one of the query or none of it.
LEMMA NextQuery == [Next]_vars => [QueryStep]_queryVars
BY DEF Next, vars, StartStep, MainProgress, BatchComes, QueryComes, StreamComes,
       BatchGoesOn, QueryGoesOn, MailServerGoesOn, StreamGoesOn, MapRaceNoticed,
       QueryStep

\* Every step is one of the subscriptions or none of them.
LEMMA NextStream == [Next]_vars => [StreamStep]_streamVars
BY DEF Next, vars, StartStep, MainProgress, BatchComes, QueryComes, StreamComes,
       BatchGoesOn, QueryGoesOn, MailServerGoesOn, StreamGoesOn, MapRaceNoticed,
       StreamStep

\* A batch that goes on does not begin.
LEMMA BatchOnlyEnds == BatchProgress => (batch' = "running" => batch = "running")
BY DEF BatchProgress, BatchAnswers, JobEnds, CountJob, AppendResult, SendResult,
       CollectResult

\* Nor does a query.
LEMMA QueryOnlyEnds ==
  ASSUME QueryProgress \/ QueryRecovers \/ MailServerStep
  PROVE  (QueryRuns \/ query = "panicked")' => QueryRuns \/ query = "panicked"
<1>1. CASE QueryProgress
  BY <1>1
  DEF QueryProgress, QueryRuns, TokenArrives, TokenFails, TokenKills, Dials,
      LogsIn, ConnectFails, Selects, Searches, Fetches, CommandFails,
      ListAnswers, FindAnswers, GraphFails, QueryMoves, Replies, RepliesWith
<1>2. CASE QueryRecovers
  BY <1>2 DEF QueryRecovers, Replies, QueryMoves, QueryRuns
<1>3. CASE MailServerStep
  BY <1>3 DEF MailServerStep, MailArrives, MailExpunged, ServerLogsOut, QueryRuns
<1> QED
  BY <1>1, <1>2, <1>3

\* Every step keeps ServerInv.
LEMMA ServerKeeps == ServerInv /\ StreamTypeOK /\ [Next]_vars => ServerInv'
<1> SUFFICES ASSUME ServerInv, StreamTypeOK, [Next]_vars PROVE ServerInv'
  OBVIOUS
<1> USE DEF ServerInv
<1>1. CASE StartStep \/ MainProgress
  BY <1>1, ServersMove
<1>2. CASE BatchComes
  <2>1. ServerTypeOK'
    BY <1>2 DEF BatchComes, ServerTypeOK, Accepts, Requests, Transports, serverVars
  <2>2. \A q \in Requests \ {"batch"} : Unfinished(q)' => Unfinished(q)
    BY <1>2 DEF BatchComes, Unfinished, StreamUnfinished, Requests, streamVars,
                queryVars, QueryRuns
  <2>3. "batch" \in Requests /\ Accepts("batch") /\ UNCHANGED serverVars
    BY <1>2 DEF BatchComes, Requests
  <2> QED
    BY <2>1, <2>2, <2>3, RequestComes
<1>3. CASE QueryComes
  <2>1. ServerTypeOK'
    BY <1>3 DEF QueryComes, ServerTypeOK, Accepts, Requests, Transports, serverVars
  <2>2. \A q \in Requests \ {"query"} : Unfinished(q)' => Unfinished(q)
    BY <1>3 DEF QueryComes, Unfinished, StreamUnfinished, Requests, streamVars,
                batchVars
  <2>3. "query" \in Requests /\ Accepts("query") /\ UNCHANGED serverVars
    BY <1>3 DEF QueryComes, Requests
  <2> QED
    BY <2>1, <2>2, <2>3, RequestComes
<1>4. ASSUME NEW s \in Streams, StreamComes(s) PROVE ServerInv'
  <2>1. ServerTypeOK'
    BY <1>4 DEF StreamComes, ServerTypeOK, Accepts, Requests, Transports, serverVars
  <2>2. \A q \in Requests \ {s} : Unfinished(q)' => Unfinished(q)
    BY <1>4 DEF StreamComes, StreamOpens, StreamMoves, Unfinished, Requests,
                StreamUnfinished, StreamTypeOK, batchVars, queryVars, QueryRuns
  <2>3. s \in Requests /\ Accepts(s) /\ UNCHANGED serverVars
    BY <1>4 DEF StreamComes, Requests
  <2> QED
    BY <2>1, <2>2, <2>3, RequestComes
<1>5. CASE BatchGoesOn
  <2>1. UNCHANGED <<serverVars, over, streamVars, queryVars>> /\ ServerTypeOK'
    BY <1>5 DEF BatchGoesOn, ServerTypeOK, serverVars
  <2>2. \A r \in Requests : Unfinished(r)' => Unfinished(r)
    BY <1>5, <2>1, BatchOnlyEnds 
    DEF BatchGoesOn, Unfinished, StreamUnfinished, streamVars, queryVars, QueryRuns
  <2> QED
    BY <2>1, <2>2, RequestsGoOn
<1>6. CASE QueryGoesOn \/ MailServerGoesOn
  <2>1. UNCHANGED <<serverVars, over, streamVars, batchVars>> /\ ServerTypeOK'
    BY <1>6 DEF QueryGoesOn, MailServerGoesOn, ServerTypeOK, serverVars
  <2>2. (QueryRuns \/ query = "panicked")' => QueryRuns \/ query = "panicked"
    BY <1>6, QueryOnlyEnds DEF QueryGoesOn, MailServerGoesOn
  <2>3. \A r \in Requests : Unfinished(r)' => Unfinished(r)
    BY <2>1, <2>2 DEF Unfinished, StreamUnfinished, streamVars, batchVars
  <2> QED
    BY <2>1, <2>3, RequestsGoOn
<1>7. ASSUME NEW s \in Streams, StreamGoesOn(s) PROVE ServerInv'
  <2>1. UNCHANGED <<serverVars, over, batchVars, queryVars>> /\ ServerTypeOK'
    BY <1>7 DEF StreamGoesOn, ServerTypeOK, serverVars
  <2>2. \A t \in Streams : StreamUnfinished(t)' => StreamUnfinished(t)
    BY <1>7
    DEF StreamGoesOn, StreamProgress, CreateEnds, GraphCreateFails, StreamEnds,
        FindsSubscription, MissesSubscription, Cancels, RemoveEnds,
        GraphCleansUp, StreamMoves, StreamUnfinished, StreamTypeOK
  <2>3. \A r \in Requests : Unfinished(r)' => Unfinished(r)
    BY <2>1, <2>2 DEF Unfinished, batchVars, queryVars, QueryRuns
  <2> QED
    BY <2>1, <2>3, RequestsGoOn
<1>8. CASE UNCHANGED vars
  <2>1. UNCHANGED <<serverVars, over>> /\ ServerTypeOK'
    BY <1>8 DEF vars, serverVars, ServerTypeOK
  <2>2. \A r \in Requests : Unfinished(r)' => Unfinished(r)
    BY <1>8 DEF vars, Unfinished, StreamUnfinished, streamVars, batchVars,
                queryVars, QueryRuns
  <2> QED
    BY <2>1, <2>2, RequestsGoOn
<1>9. CASE MapRaceNoticed
  <2>1. ServerTypeOK'
    BY <1>9 DEF MapRaceNoticed, ServerTypeOK
  <2>2. \A t : Serving(t)' <=> Serving(t)
    BY <1>9 DEF MapRaceNoticed, Serving, Unfinished, StreamUnfinished, streamVars,
                batchVars, queryVars, QueryRuns
  <2> QED
    BY <1>9, <2>1, <2>2 DEF MapRaceNoticed, AcceptedOK, MainPhases
<1> QED
  BY <1>1, <1>2, <1>3, <1>4, <1>5, <1>6, <1>7, <1>8, <1>9 DEF Next

-----------------------------------------------------------------------------
(* The map of the subscriptions. *)

\* Every step keeps StreamInv.
LEMMA StreamKeeps == StreamInv /\ [StreamStep]_streamVars => StreamInv'
<1> SUFFICES ASSUME StreamInv, [StreamStep]_streamVars PROVE StreamInv'
  OBVIOUS
<1> USE DEF StreamInv, StreamTypeOK, StreamPC, MapPhases, CancelledUnlessRaced
<1>1. CASE UNCHANGED streamVars
  BY <1>1 DEF streamVars
<1>2. ASSUME NEW s \in Streams, StreamOpens(s) PROVE StreamInv'
  BY <1>2 DEF StreamOpens, StreamMoves, BeginMapWrite, NoMapStep
<1>3. ASSUME NEW s \in Streams, CreateEnds(s) PROVE StreamInv'
  BY <1>3 DEF CreateEnds, StreamMoves, EndMapWrite
<1>4. ASSUME NEW s \in Streams, StreamEnds(s) PROVE StreamInv'
  BY <1>4 DEF StreamEnds, StreamMoves, NoMapStep
<1>5. ASSUME NEW s \in Streams, FindsSubscription(s) PROVE StreamInv'
  BY <1>5 DEF FindsSubscription, StreamMoves, NoMapStep
<1>6. ASSUME NEW s \in Streams, MissesSubscription(s) PROVE StreamInv'
  BY <1>6 DEF MissesSubscription, StreamMoves
<1>7. ASSUME NEW s \in Streams, Cancels(s) PROVE StreamInv'
  BY <1>7 DEF Cancels, StreamMoves, BeginMapWrite, NoMapStep
<1>8. ASSUME NEW s \in Streams, RemoveEnds(s) PROVE StreamInv'
  BY <1>8 DEF RemoveEnds, StreamMoves, EndMapWrite
<1>9. ASSUME NEW s \in Streams, GraphCleansUp(s) PROVE StreamInv'
  BY <1>9 DEF GraphCleansUp, StreamMoves, NoMapStep
<1>10. ASSUME NEW s \in Streams, GraphCreateFails(s) PROVE StreamInv'
  BY <1>10 DEF GraphCreateFails, StreamMoves, NoMapStep
<1> QED
  BY <1>1, <1>2, <1>3, <1>4, <1>5, <1>6, <1>7, <1>8, <1>9, <1>10
  DEF StreamStep, StreamProgress

-----------------------------------------------------------------------------
\* The inductive invariant holds in every state.
THEOREM ServerInvariant == Spec => []IInv
<1>1. Init => IInv
  <2> SUFFICES ASSUME Init PROVE IInv
    OBVIOUS
  <2>1. BatchInv /\ QueryInv /\ WayOK
    BY BatchStarts, QueryStarts DEF Init, QueryInit, WayOK
  <2>2. ServerTypeOK
    BY DEF Init, ServerTypeOK, Transports
  <2>3. AcceptedOK /\ MainPhases
    BY DEF Init, AcceptedOK, MainPhases
  <2>4. StreamInv
    BY DEF Init, StreamInit, StreamInv, StreamTypeOK, StreamPC, MapPhases,
           CancelledUnlessRaced
  <2> QED
    BY <2>1, <2>2, <2>3, <2>4 DEF IInv, ServerInv
<1>2. IInv /\ [Next]_vars => IInv'
  BY NextBatch, NextQuery, NextStream, BatchKeeps, QueryKeeps, WayKeeps,
     ServerKeeps, StreamKeeps
  DEF IInv, StreamInv
<1> QED
  BY <1>1, <1>2, PTL DEF Spec

\* Every variable keeps its type, in every run of the server.
THEOREM ServerTypeCorrect == Spec => []TypeOK
<1>1. IInv => TypeOK
  BY DEF IInv, TypeOK, BatchInv, QueryInv, ServerInv, StreamInv
<1> QED
  BY <1>1, ServerInvariant, PTL

\* An answered batch agrees with itself and with what happened, for any mail
\* boxes and whatever the goroutines' order.
THEOREM ServerBatchAgrees == Spec => []BatchAgrees
<1>1. IInv => BatchAgrees
  BY BatchInvAgrees DEF IInv
<1> QED
  BY <1>1, ServerInvariant, PTL

\* The latest mail is the latest, for any folders and whatever arrives or goes
\* while the query runs.
THEOREM ServerNothingNewerMissed == Spec => []NothingNewerMissed
<1>1. IInv => NothingNewerMissed
  BY DEF IInv, QueryInv
<1> QED
  BY <1>1, ServerInvariant, PTL

\* A find answers the mail asked for or none, likewise.
THEOREM ServerFoundIsAsked == Spec => []FoundIsAsked
<1>1. IInv => FoundIsAsked
  BY DEF IInv, QueryInv
<1> QED
  BY <1>1, ServerInvariant, PTL

\* A query implements AtomicQuery, whatever else the server does: it answers
\* what one look at the mailbox gave at one instant.
THEOREM ServerQueryAtomic == Spec => QueryAtomic
<1>1. Init => Atomic!Init
  BY QueryStartsAtomic DEF Init
<1>2. IInv /\ IInv' /\ [Next]_vars => [Atomic!Next]_(Atomic!vars)
  BY NextQuery, QueryStepsAtomic DEF IInv
<1> QED
  BY <1>1, <1>2, ServerInvariant, PTL DEF Spec, QueryAtomic, Atomic!Spec

\* main does not exit before the gRPC requests have ended, nor before the REST
\* requests have unless 5 seconds have passed, for any number of streams.
THEOREM ServerExitAfterRequests == Spec => []ExitAfterRequests
<1>1. IInv => ExitAfterRequests
  BY DEF IInv, ServerInv, MainPhases, ExitAfterRequests
<1> QED
  BY <1>1, ServerInvariant, PTL

\* The webhook is served as long as gRPC streams are drained.
THEOREM ServerWebhookOutlivesStreams == Spec => []WebhookOutlivesStreams
<1>1. IInv => WebhookOutlivesStreams
  BY DEF IInv, ServerInv, MainPhases, WebhookOutlivesStreams
<1> QED
  BY <1>1, ServerInvariant, PTL

\* No IMAP subscription is left behind uncancelled, and no entry in the map,
\* unless map writes have overlapped or the lookup of its clean-up fell into
\* another handler's write, for any number of subscriptions.
THEOREM ServerCancelledUnlessRaced == Spec => []CancelledUnlessRaced
<1>1. IInv => CancelledUnlessRaced
  BY DEF IInv, StreamInv
<1> QED
  BY <1>1, ServerInvariant, PTL

-----------------------------------------------------------------------------
(* Why nobody waits in vain. *)

\* While GracefulStop waits, the handler it waits for can go on, or hangs.
LEMMA DrainedByTheUnfinished ==
  ASSUME IInv, Serving("grpc")
  PROVE  \/ BatchCanRun \/ QueryCanRun
         \/ \E s \in Streams :
              StreamCanRun(s) \/ (over[s] = "grpc" /\ stream[s] = "hung")
<1>1. PICK r \in Requests : over[r] = "grpc" /\ Unfinished(r)
  BY DEF Serving
<1>2. CASE r = "batch" /\ batch = "running"
  BY <1>2, BatchNeverStuck DEF IInv
<1>3. CASE r = "query" /\ (QueryRuns \/ query = "panicked")
  BY <1>3 DEF QueryCanRun
<1>4. CASE r \in Streams /\ StreamUnfinished(r)
  BY <1>1, <1>4 DEF StreamUnfinished, StreamCanRun
<1> QED
  BY <1>1, <1>2, <1>3, <1>4 DEF Unfinished

\* Nothing stalls but what waits for a gRPC subscription that hangs, for any
\* number of mail boxes and subscriptions.
THEOREM ServerOnlyHungStreamsStall == Spec => []OnlyHungStreamsStall
<1>1. IInv => OnlyHungStreamsStall
  <2> SUFFICES ASSUME IInv, ~Gone PROVE OnlyHungStreamsStall
    BY DEF OnlyHungStreamsStall
  <2>1. batch = "running" => BatchCanRun
    BY BatchNeverStuck DEF IInv
  <2>2. ASSUME signalled, ~MainCanRun PROVE Serving("grpc")
    <3>1. /\ main \in {"waiting", "draining", "drained", "shutdown", "exited"}
          /\ main = "waiting" => grpc \in {"none", "created", "serving"}
          /\ main # "exited"
      BY DEF IInv, ServerInv, ServerTypeOK, MainPhases, Gone
    <3> QED
      BY <2>2, <3>1 DEF MainCanRun
  <2> QED
    BY <2>1, <2>2, DrainedByTheUnfinished DEF OnlyHungStreamsStall
<1> QED
  BY <1>1, ServerInvariant, PTL

\* A batch goes on only so often: each of its steps is the answer, or takes
\* one of the finitely many steps its goroutines have left.  With the above,
\* all that BatchAnswered needs besides fairness.
THEOREM ServerBatchShrinks ==
  Spec => [][BatchGoesOn =>
               /\ IsFiniteSet(StepsLeft)
               /\ \/ batch = "running" /\ batch' = "answered"
                  \/ StepsLeft' \subseteq StepsLeft /\ StepsLeft' # StepsLeft]_vars
<1>1. IInv /\ BatchGoesOn =>
        /\ IsFiniteSet(StepsLeft)
        /\ \/ batch = "running" /\ batch' = "answered"
           \/ StepsLeft' \subseteq StepsLeft /\ StepsLeft' # StepsLeft
  BY BatchShrinks, StepsLeftFinite DEF IInv, BatchGoesOn
<1> QED
  BY <1>1, ServerInvariant, PTL

\* How many steps a query, and a stream, has at most before it.
QueryLeft ==
  CASE query = "token" -> 7
    [] query = "dial" -> 6
    [] query = "login" -> 5
    [] query = "select" -> 4
    [] query = "search" -> 3
    [] query \in {"fetch", "http"} -> 2
    [] query = "panicked" -> 1
    [] OTHER -> 0

StreamLeft(s) ==
  CASE stream[s] = "creating" -> 5
    [] stream[s] = "open" -> 4
    [] stream[s] = "cleanup" -> 3
    [] stream[s] = "cancelling" -> 2
    [] stream[s] = "removing" -> 1
    [] OTHER -> 0

\* A query takes each step once.
LEMMA QueryShrinks == QueryProgress \/ QueryRecovers => QueryLeft' < QueryLeft
<1>1. ASSUME TokenArrives \/ TokenFails \/ TokenKills
      PROVE  QueryLeft' < QueryLeft
  BY <1>1 DEF TokenArrives, TokenFails, TokenKills, Replies, QueryMoves, QueryLeft
<1>2. ASSUME Dials \/ LogsIn \/ ConnectFails
      PROVE  QueryLeft' < QueryLeft
  BY <1>2 DEF Dials, LogsIn, ConnectFails, Replies, QueryMoves, QueryLeft
<1>3. ASSUME Selects \/ Searches
      PROVE  QueryLeft' < QueryLeft
  BY <1>3 DEF Selects, Searches, Replies, QueryMoves, QueryLeft
<1>4. ASSUME Fetches \/ CommandFails
      PROVE  QueryLeft' < QueryLeft
  BY <1>4 DEF Fetches, CommandFails, RepliesWith, Replies, QueryMoves, QueryLeft
<1>5. ASSUME ListAnswers \/ FindAnswers \/ GraphFails
      PROVE  QueryLeft' < QueryLeft
  BY <1>5
  DEF ListAnswers, FindAnswers, GraphFails, RepliesWith, Replies, QueryMoves,
      QueryLeft
<1>6. ASSUME QueryRecovers PROVE QueryLeft' < QueryLeft
  BY <1>6 DEF QueryRecovers, Replies, QueryMoves, QueryLeft
<1> QED
  BY <1>1, <1>2, <1>3, <1>4, <1>5, <1>6 DEF QueryProgress

\* So does a stream, on every way out.
LEMMA StreamShrinks ==
  ASSUME StreamTypeOK, NEW s \in Streams, StreamProgress(s)
  PROVE  StreamLeft(s)' < StreamLeft(s)
BY DEF StreamProgress, CreateEnds, GraphCreateFails, StreamEnds,
       FindsSubscription, MissesSubscription, Cancels, RemoveEnds, GraphCleansUp, StreamMoves, StreamTypeOK, StreamLeft

\* While GracefulStop waits, the gRPC requests it waits for only get fewer.
Drains ==
  grpc = "draining" =>
    \A r \in Requests :
      over'[r] = "grpc" /\ Unfinished(r)' => over[r] = "grpc" /\ Unfinished(r)

LEMMA DrainsOnly == ServerTypeOK /\ StreamTypeOK /\ [Next]_vars => Drains
<1> SUFFICES ASSUME ServerTypeOK, StreamTypeOK, [Next]_vars, grpc = "draining",
                    NEW r \in Requests, over'[r] = "grpc", Unfinished(r)'
             PROVE  over[r] = "grpc" /\ Unfinished(r)
  BY DEF Drains
<1>1. ASSUME NEW q \in Requests, Accepts(q) PROVE over'[q] = "rest"
  BY <1>1 DEF Accepts, ServerTypeOK
<1>2. ASSUME NEW q \in Requests, Accepts(q), q # r PROVE over'[r] = over[r]
  BY <1>2 DEF Accepts, ServerTypeOK
<1>3. CASE BatchComes
  BY <1>1, <1>2, <1>3 
  DEF BatchComes, Requests, Unfinished, StreamUnfinished, streamVars, queryVars,
      QueryRuns
<1>4. CASE QueryComes
  BY <1>1, <1>2, <1>4 
  DEF QueryComes, Requests, Unfinished, StreamUnfinished, streamVars, batchVars
<1>5. ASSUME NEW s \in Streams, StreamComes(s)
      PROVE  over[r] = "grpc" /\ Unfinished(r)
  BY <1>1, <1>2, <1>5 
  DEF StreamComes, StreamOpens, StreamMoves, StreamTypeOK, Requests, Unfinished,
      StreamUnfinished, batchVars, queryVars, QueryRuns
<1>6. CASE BatchGoesOn
  BY <1>6, BatchOnlyEnds
  DEF BatchGoesOn, Unfinished, StreamUnfinished, streamVars, queryVars, QueryRuns
<1>7. CASE QueryGoesOn \/ MailServerGoesOn
  <2>1. UNCHANGED <<over, stream, batch>>
    BY <1>7 DEF QueryGoesOn, MailServerGoesOn, streamVars, batchVars
  <2>2. (QueryRuns \/ query = "panicked")' => QueryRuns \/ query = "panicked"
    BY <1>7, QueryOnlyEnds DEF QueryGoesOn, MailServerGoesOn
  <2> QED
    BY <2>1, <2>2 DEF Unfinished, StreamUnfinished
<1>8. ASSUME NEW s \in Streams, StreamGoesOn(s)
      PROVE  over[r] = "grpc" /\ Unfinished(r)
  <2>1. UNCHANGED <<over, batch, query>>
    BY <1>8 DEF StreamGoesOn, batchVars, queryVars
  <2>2. \A t \in Streams : StreamUnfinished(t)' => StreamUnfinished(t)
    BY <1>8
    DEF StreamGoesOn, StreamProgress, CreateEnds, GraphCreateFails, StreamEnds,
        FindsSubscription, MissesSubscription, Cancels, RemoveEnds,
        GraphCleansUp, StreamMoves, StreamUnfinished, StreamTypeOK
  <2> QED
    BY <2>1, <2>2 DEF Unfinished, QueryRuns
<1>9. CASE StartStep \/ MainProgress \/ MapRaceNoticed \/ UNCHANGED vars
  BY <1>9
  DEF StartStep, MainProgress, MapRaceNoticed, vars, Unfinished, StreamUnfinished,
      streamVars, batchVars, queryVars, QueryRuns
<1> QED
  BY <1>3, <1>4, <1>5, <1>6, <1>7, <1>8, <1>9 DEF Next

\* What GracefulStop waits for comes to an end, as far as a bound can say it: no
\* request is added, and the query and each stream have a step less left after
\* every step of theirs, as a batch has.
THEOREM ServerRequestsShrink ==
  Spec => [][/\ QueryGoesOn => QueryLeft' < QueryLeft
             /\ \A s \in Streams : StreamGoesOn(s) => StreamLeft(s)' < StreamLeft(s)
             /\ Drains]_vars
<1>1. IInv /\ [Next]_vars =>
        /\ QueryGoesOn => QueryLeft' < QueryLeft
        /\ \A s \in Streams : StreamGoesOn(s) => StreamLeft(s)' < StreamLeft(s)
        /\ Drains
  BY QueryShrinks, StreamShrinks, DrainsOnly
  DEF IInv, StreamInv, ServerInv, QueryGoesOn, StreamGoesOn
<1> QED
  BY <1>1, ServerInvariant, PTL DEF Spec

=============================================================================
