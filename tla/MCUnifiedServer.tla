---------------------------- MODULE MCUnifiedServer ----------------------------
(***************************************************************************)
(* UnifiedServer for TLC.                                                  *)
(***************************************************************************)
EXTENDS UnifiedServer

CONSTANTS i1, i2, i3, s1, s2, s3

\* One batch of every size up to one beyond the limit.
BatchSizes == {{}, {i1}, {i1, i2}, {i1, i2, i3}}

\* Two mails in the inbox, one in the junk folder between them.
ThreeMails == {<<"inbox", "junk", "inbox">>}

\* A batch with a Graph subscription, two IMAP subscriptions, a query: requests
\* meet nowhere but in the servers and in the map of the subscriptions.
Meetings == {{"batch", s3}, {s1, s2}, {"query"}}

=============================================================================
