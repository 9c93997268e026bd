---------------------------- MODULE TokenService ----------------------------
(***************************************************************************)
(* What the token requests promise, as their callers see it: no cache, no  *)
(* token endpoint, no stores.  Each request is answered once or fails.  An *)
(* access token answered is the caller's own, of the caller's protocol,    *)
(* and not too old at that instant; the one that comes with a new refresh  *)
(* token has just been issued.  Only a request for both tokens over Graph  *)
(* can end the process.                                                    *)
(***************************************************************************)
EXTENDS Naturals

CONSTANTS
  Requests, RequestType, Scopes, NoToken,
  MixedKeys,       \* accounts whose tokens may be of either protocol
  ScopeIssued(_),  \* the scope of a token issued for a request
  Delay            \* the age up to which a token counts as just issued

VARIABLES
  now,       \* the clock
  maxAge,    \* how old a token may be, set up at the start
  phase,     \* of each request: "idle", "asked", "answered", "failed"
  asked,     \* what each asks for
  answer,    \* the access token each was answered
  crashed    \* the process has ended

vars == <<now, maxAge, phase, asked, answer, crashed>>

ReturnsToken(q) == q.op \in {"access", "both"}

Allowed(q) ==
  {t \in [key : {q.key}, scope : Scopes, issued : 0..now] :
     /\ q.key \notin MixedKeys => t.scope = ScopeIssued(q)
     /\ now <= t.issued + (IF q.op = "both" THEN Delay ELSE maxAge)}

Init ==
  /\ now = 0 /\ maxAge \in Nat
  /\ phase = [r \in Requests |-> "idle"]
  /\ asked \in [Requests -> RequestType]
  /\ answer = [r \in Requests |-> NoToken]
  /\ crashed = FALSE

Ask(r) ==
  /\ ~crashed /\ phase[r] # "asked"
  /\ phase' = [phase EXCEPT ![r] = "asked"]
  /\ \E q \in RequestType : asked' = [asked EXCEPT ![r] = q]
  /\ answer' = [answer EXCEPT ![r] = NoToken]
  /\ UNCHANGED <<now, maxAge, crashed>>

Answer(r) ==
  /\ ~crashed /\ phase[r] = "asked"
  /\ phase' = [phase EXCEPT ![r] = "answered"]
  /\ \E t \in IF ReturnsToken(asked[r]) THEN Allowed(asked[r]) ELSE {NoToken} :
       answer' = [answer EXCEPT ![r] = t]
  /\ UNCHANGED <<now, maxAge, asked, crashed>>

Fail(r) ==
  /\ ~crashed /\ phase[r] = "asked"
  /\ phase' = [phase EXCEPT ![r] = "failed"]
  /\ UNCHANGED <<now, maxAge, asked, answer, crashed>>

Crash(r) ==
  /\ ~crashed /\ phase[r] = "asked"
  /\ asked[r].op = "both" /\ asked[r].protocol = "GRAPH"
  /\ crashed' = TRUE
  /\ UNCHANGED <<now, maxAge, phase, asked, answer>>

Tick ==
  /\ ~crashed /\ now' = now + 1
  /\ UNCHANGED <<maxAge, phase, asked, answer, crashed>>

Restart ==
  /\ crashed' = FALSE
  /\ phase' = [r \in Requests |-> "idle"]
  /\ answer' = [r \in Requests |-> NoToken]
  /\ UNCHANGED <<now, maxAge, asked>>

Next ==
  \/ Tick \/ Restart
  \/ \E r \in Requests : Ask(r) \/ Answer(r) \/ Fail(r) \/ Crash(r)

Spec == Init /\ [][Next]_vars

=============================================================================
