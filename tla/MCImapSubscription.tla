-------------------------- MODULE MCImapSubscription --------------------------
(***************************************************************************)
(* ImapSubscription for TLC, and what the repository says of a             *)
(* subscription that the code does not keep, for the runs that show it.    *)
(***************************************************************************)
EXTENDS ImapSubscription

\* dto.go: a subscription gets the mail that arrives after it was made.
NewMailOnly == mail # NoMail => mail > InitialMails

\* common_imap_client.go: the notices that are intercepted before the fetch are
\* duplicates, so none of them reports more mails than were recorded.
OnlyDuplicatesSkipped ==
  [][listener = "select" /\ listener' = "skipWait" /\ Head(updates) = "mailbox"
       => mbox.messages <= lastBox.messages]_vars

\* Disconnect: with the Updates channel reset there is no deadlock, so every
\* subscription is cleaned up.
CleanedUp == registered ~> ~registered

=============================================================================
