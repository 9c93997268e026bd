-------------------------- MODULE MCGraphSubscription --------------------------
(***************************************************************************)
(* GraphSubscription for TLC, and what the repository says of it that the  *)
(* code does not keep, for the runs that show it.                          *)
(***************************************************************************)
EXTENDS GraphSubscription

\* graph_webhook_handler.go: every notice of a call is processed.
EveryNoticeProcessed ==
  [][\A w \in Webhooks :
       webhook[w].pc # "idle" /\ webhook'[w].pc = "idle" =>
         webhook[w].next = Len(webhook[w].batch)]_vars

\* dto.go: subscribe, get one newly arrived mail.  A notice that arrives while
\* the caller is subscribed and has no mail yet is not thrown away with nothing
\* else waiting for the handler.
NoticeNotThrownAway ==
  [][\A w \in Webhooks :
       /\ webhook[w].pc \in {"lookup", "send"}
       /\ webhook'[w].pc = "idle"
       /\ process' = "up"
       => LET s == SubscriptionOf(Notice(w))
          IN  stream[s] = "subscribed" /\ fetching[s] = NoMail =>
                queue'[s] # NoMail]_vars

=============================================================================
