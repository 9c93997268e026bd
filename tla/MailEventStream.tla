--------------------------- MODULE MailEventStream ---------------------------
(***************************************************************************)
(* What a mail subscription promises to its client, whatever the transport *)
(* (SSE or a gRPC stream) and the protocol behind it (IMAP or Graph): first *)
(* the subscription event, then heartbeats, then at most one mail followed *)
(* by "complete"; or an end without a mail (timeout, failure, client gone). *)
(* What the server holds for the subscription is released only after the   *)
(* stream has ended, and nothing is sent after it ended.                   *)
(***************************************************************************)
EXTENDS Naturals

CONSTANTS Mails, NoMail, MaxBeats

VARIABLES
  stream,    \* how far the stream is
  beats,     \* heartbeats sent
  mail,      \* the mail sent, NoMail before
  resources  \* "none", then "held", then "released"

vars == <<stream, beats, mail, resources>>

Ended == {"completed", "timedOut", "failed", "dropped"}

Init ==
  /\ stream = "opening"
  /\ beats = 0
  /\ mail = NoMail
  /\ resources = "none"

Acquire ==
  /\ stream = "opening"
  /\ resources = "none"
  /\ resources' = "held"
  /\ UNCHANGED <<stream, beats, mail>>

Subscribed ==
  /\ stream = "opening"
  /\ resources = "held"
  /\ stream' = "subscribed"
  /\ UNCHANGED <<beats, mail, resources>>

Heartbeat ==
  /\ stream = "subscribed"
  /\ beats < MaxBeats
  /\ beats' = beats + 1
  /\ UNCHANGED <<stream, mail, resources>>

SendMail ==
  /\ stream = "subscribed"
  /\ stream' = "mailSent"
  /\ mail' \in Mails
  /\ UNCHANGED <<beats, resources>>

Complete ==
  /\ stream = "mailSent"
  /\ stream' = "completed"
  /\ UNCHANGED <<beats, mail, resources>>

\* An end without "complete": the client is gone, or, before a mail was sent,
\* the subscription failed or its time is over.
End ==
  /\ \/ /\ stream \in {"opening", "subscribed", "mailSent"}
        /\ stream' = "dropped"
     \/ /\ stream = "opening"
        /\ stream' = "failed"
     \/ /\ stream = "subscribed"
        /\ stream' = "timedOut"
  /\ UNCHANGED <<beats, mail, resources>>

Release ==
  /\ stream \in Ended
  /\ resources = "held"
  /\ resources' = "released"
  /\ UNCHANGED <<stream, beats, mail>>

Next ==
  \/ Acquire \/ Subscribed \/ Heartbeat \/ SendMail \/ Complete \/ End
  \/ Release

Spec == Init /\ [][Next]_vars

=============================================================================
