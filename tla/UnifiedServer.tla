----------------------------- MODULE UnifiedServer -----------------------------
(***************************************************************************)
(* The process: main, the gRPC and the REST server, and the requests they  *)
(* serve, from the start to the exit (cmd/unified-server, api/grpc/server, *)
(* api/rest/router).  A batch is one of BatchJobs, a query one of          *)
(* MailQuery, subscriptions are those of SubscriptionHandlers.             *)
(***************************************************************************)
EXTENDS BatchJobs, MailQuery, SubscriptionHandlers

CONSTANT
  Loads      \* bound: the sets of requests that come in one run

ASSUME ServerAssumption == Streams \cap {"batch", "query"} = {}

VARIABLES
  main,       \* where main is
  signalled,  \* SIGINT or SIGTERM has come
  late,       \* the 5 seconds of Shutdown are over
  grpc,       \* the gRPC server
  rest,       \* the REST server
  fatal,      \* log.Fatal, or a fatal error of the Go runtime
  over        \* the server each request came to

serverVars == <<main, signalled, late, grpc, rest, fatal>>
vars == <<serverVars, over, streamVars, batchVars, queryVars>>

Transports == {"grpc", "rest"}
Requests == Streams \cup {"batch", "query"}

\* "refused": stopped after ms.server was set, before Serve.
ServerTypeOK ==
  /\ main \in {"waiting", "draining", "drained", "shutdown", "exited"}
  /\ signalled \in BOOLEAN /\ late \in BOOLEAN /\ fatal \in BOOLEAN
  /\ grpc \in {"none", "created", "serving", "draining", "stopped", "refused"}
  /\ rest \in {"none", "listening", "closed"}
  /\ over \in [Requests -> Transports \cup {"none"}]

TypeOK == ServerTypeOK /\ BatchTypeOK /\ QueryTypeOK /\ StreamTypeOK

Init ==
  /\ BatchInit /\ QueryInit /\ StreamInit
  /\ main = "waiting"
  /\ signalled = FALSE /\ late = FALSE /\ fatal = FALSE
  /\ grpc = "none" /\ rest = "none"
  /\ over = [r \in Requests |-> "none"]

\* A panic in a goroutine of gRPC, or one that a handler has started, ends the
\* process; gin.Recovery sees those of REST handlers.
Panicked ==
  \/ query = "killed"
  \/ query = "panicked" /\ over["query"] = "grpc"
  \/ \E s \in Streams : stream[s] = "killed"
  \/ \E s \in Streams : stream[s] = "panicked" /\ over[s] = "grpc"

Gone == main = "exited" \/ fatal \/ Panicked

\* The requests that a server has accepted and not finished.
Unfinished(r) ==
  \/ r = "batch" /\ batch = "running"
  \/ r = "query" /\ (QueryRuns \/ query = "panicked")
  \/ r \in Streams /\ StreamUnfinished(r)

Serving(transport) ==
  \E r \in Requests : over[r] = transport /\ Unfinished(r)

Accepts(r) ==
  /\ ~Gone
  /\ over[r] = "none"
  /\ \E load \in Loads :
       r \in load /\ \A q \in Requests : over[q] # "none" => q \in load
  /\ \/ grpc = "serving" /\ over' = [over EXCEPT ![r] = "grpc"]
     \/ rest = "listening" /\ over' = [over EXCEPT ![r] = "rest"]

-----------------------------------------------------------------------------
(* The start: each server in a goroutine that main does not wait for. *)

\* ms.server is set.
GrpcListens ==
  /\ ~Gone /\ grpc = "none" /\ grpc' = "created"
  /\ UNCHANGED <<main, signalled, late, rest, fatal>>

GrpcServes ==
  /\ ~Gone /\ grpc = "created" /\ grpc' = "serving"
  /\ UNCHANGED <<main, signalled, late, rest, fatal>>

RestListens ==
  /\ ~Gone /\ rest = "none" /\ rest' = "listening"
  /\ UNCHANGED <<main, signalled, late, grpc, fatal>>

\* A port is taken, or Serve finds that the server was stopped before.
StartFails ==
  /\ ~Gone
  /\ grpc = "none" \/ rest = "none" \/ grpc = "refused"
  /\ fatal' = TRUE
  /\ UNCHANGED <<main, signalled, late, grpc, rest>>

SignalArrives ==
  /\ ~Gone /\ ~signalled /\ signalled' = TRUE
  /\ UNCHANGED <<main, late, grpc, rest, fatal>>

-----------------------------------------------------------------------------
(* The end. *)

\* A bug: REST is closed first.
StopServerAfterRest ==
  /\ ~Gone /\ main = "waiting" /\ signalled
  /\ rest' = "closed"
  /\ \/ /\ grpc \in {"created", "serving"}
        /\ main' = "draining"
        /\ grpc' = IF grpc = "serving" THEN "draining" ELSE "refused"
     \/ /\ grpc \in {"none", "created"}
        /\ main' = "drained"
        /\ UNCHANGED grpc
  /\ UNCHANGED <<signalled, late, fatal>>

\* StopServer: GracefulStop, which lets no request in any more; nothing if
\* ms.server is nil.  It is read without synchronisation: its value may be
\* unseen while it is new.
StopServer ==
  /\ ~Gone /\ main = "waiting" /\ signalled
  /\ \/ /\ grpc \in {"created", "serving"}
        /\ main' = "draining"
        /\ grpc' = IF grpc = "serving" THEN "draining" ELSE "refused"
     \/ /\ grpc \in {"none", "created"}
        /\ main' = "drained"
        /\ UNCHANGED grpc
  /\ UNCHANGED <<signalled, late, rest, fatal>>

\* A bug: Stop and not GracefulStop.
GrpcStops ==
  /\ ~Gone /\ main = "draining"
  /\ main' = "drained"
  /\ grpc' = IF grpc = "draining" THEN "stopped" ELSE grpc
  /\ UNCHANGED <<signalled, late, rest, fatal>>

\* GracefulStop returns when the handlers have.
GrpcDrained ==
  /\ ~Gone /\ main = "draining"
  /\ ~Serving("grpc")
  /\ main' = "drained"
  /\ grpc' = IF grpc = "draining" THEN "stopped" ELSE grpc
  /\ UNCHANGED <<signalled, late, rest, fatal>>

\* Shutdown lets no request in any more; a ListenAndServe to come returns.
ShutdownBegins ==
  /\ ~Gone /\ main = "drained"
  /\ main' = "shutdown" /\ rest' = "closed"
  /\ UNCHANGED <<signalled, late, grpc, fatal>>

FiveSecondsPass ==
  /\ ~Gone /\ main = "shutdown" /\ ~late /\ late' = TRUE
  /\ UNCHANGED <<main, signalled, grpc, rest, fatal>>

\* A bug: a context without a timeout.
ShutdownWaits ==
  /\ ~Gone /\ main = "shutdown" /\ ~Serving("rest")
  /\ main' = "exited"
  /\ UNCHANGED <<signalled, late, grpc, rest, fatal>>

\* Shutdown returns when the handlers have, or after 5 seconds; main closes
\* the cache and returns, and with it every goroutine ends.
ShutdownEnds ==
  /\ ~Gone /\ main = "shutdown"
  /\ ~Serving("rest") \/ late
  /\ main' = "exited"
  /\ UNCHANGED <<signalled, late, grpc, rest, fatal>>

-----------------------------------------------------------------------------
(* The requests. *)

BatchComes ==
  /\ Accepts("batch")
  /\ BatchArrives
  /\ UNCHANGED <<serverVars, streamVars, queryVars>>

QueryComes ==
  /\ Accepts("query")
  /\ QueryArrives
  /\ UNCHANGED <<serverVars, streamVars, batchVars>>

StreamComes(s) ==
  /\ Accepts(s)
  /\ StreamOpens(s)
  /\ UNCHANGED <<serverVars, batchVars, queryVars>>

StreamGoesOn(s) ==
  /\ ~Gone
  /\ StreamProgress(s)
  /\ UNCHANGED <<serverVars, over, batchVars, queryVars>>

\* "concurrent map writes", "concurrent map read and map write"
MapRaceNoticed ==
  /\ ~Gone /\ MapInUse /\ fatal' = TRUE
  /\ UNCHANGED <<main, signalled, late, grpc, rest>>
  /\ UNCHANGED <<over, streamVars, batchVars, queryVars>>

BatchGoesOn ==
  /\ ~Gone /\ BatchProgress
  /\ UNCHANGED <<serverVars, over, streamVars, queryVars>>

QueryGoesOn ==
  /\ ~Gone
  /\ QueryProgress \/ QueryRecovers
  /\ UNCHANGED <<serverVars, over, streamVars, batchVars>>

MailServerGoesOn ==
  /\ ~Gone /\ MailServerStep
  /\ UNCHANGED <<serverVars, over, streamVars, batchVars>>

-----------------------------------------------------------------------------
MainProgress ==
  /\ StopServer \/ GrpcDrained \/ ShutdownBegins \/ FiveSecondsPass
     \/ ShutdownEnds
  /\ UNCHANGED <<over, streamVars, batchVars, queryVars>>

StartStep ==
  /\ GrpcListens \/ GrpcServes \/ RestListens \/ StartFails \/ SignalArrives
  /\ UNCHANGED <<over, streamVars, batchVars, queryVars>>

Next ==
  \/ StartStep \/ MainProgress \/ MapRaceNoticed
  \/ BatchComes \/ QueryComes \/ (\E s \in Streams : StreamComes(s))
  \/ BatchGoesOn \/ QueryGoesOn \/ MailServerGoesOn
  \/ \E s \in Streams : StreamGoesOn(s)

\* Goroutines are scheduled, timers fire, and the mail servers and the token
\* endpoint answer what they are asked.
Fairness ==
  /\ WF_vars(MainProgress) /\ WF_vars(BatchGoesOn) /\ WF_vars(QueryGoesOn)
  /\ \A s \in Streams : WF_vars(StreamGoesOn(s))

Spec == Init /\ [][Next]_vars /\ Fairness

\* Who has a step to take.
MainCanRun ==
  \/ main = "waiting" /\ signalled /\ grpc \in {"none", "created", "serving"}
  \/ main = "draining" /\ ~Serving("grpc")
  \/ main \in {"drained", "shutdown"}

QueryCanRun == QueryRuns \/ query = "panicked"

StreamCanRun(s) ==
  stream[s] \in {"creating", "open", "cleanup", "cancelling", "removing"}

-----------------------------------------------------------------------------
\* main does not exit before the requests have ended, the clean-up of streams
\* included: not one of gRPC, unless StopServer came before the server; and
\* one of REST only after the 5 seconds.  (log.Fatal and panics cut them all.)
ExitAfterRequests ==
  main = "exited" =>
    /\ Serving("grpc") => grpc \in {"created", "serving"}
    /\ Serving("rest") => late

\* While gRPC streams are drained, which takes up to 3 minutes, the webhook
\* that brings Graph's notices to them is still served.
WebhookOutlivesStreams ==
  \A s \in Streams \ ImapStreams :
    grpc = "draining" /\ ~Gone /\ over[s] = "grpc" /\ Unfinished(s) =>
      rest # "closed"

\* A batch is answered, whatever becomes of its requests: no goroutine ends
\* without what wg.Wait or the collector waits for.
BatchAnswered == batch = "running" ~> batch = "answered" \/ Gone

\* After a signal the process ends, unless a gRPC subscription hangs in its
\* clean-up: no other request, and no way the start is still under way, keeps
\* it.
ShutsDown ==
  signalled ~>
    Gone \/ \E s \in Streams : over[s] = "grpc" /\ stream[s] = "hung"

\* A running batch has a goroutine that can go on, and after a signal someone
\* can, main or a request: nobody waits for a result, a wg.Done or a handler's
\* return that no one is left to give, except for a gRPC subscription that
\* hangs in its clean-up.
OnlyHungStreamsStall ==
  ~Gone =>
    /\ batch = "running" => BatchCanRun
    /\ signalled =>
         \/ MainCanRun \/ BatchCanRun \/ QueryCanRun
         \/ \E s \in Streams :
              StreamCanRun(s) \/ (over[s] = "grpc" /\ stream[s] = "hung")

=============================================================================
