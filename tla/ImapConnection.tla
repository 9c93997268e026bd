---------------------------- MODULE ImapConnection ----------------------------
(***************************************************************************)
(* One authenticated IMAP connection with INBOX selected: the mail server, *)
(* and the go-imap client the repository drives (external code, modelled   *)
(* from the calls common_imap_client.go makes).  go-imap runs one reader   *)
(* goroutine per connection.  It takes the lines of the server in order,   *)
(* keeps the mailbox status up to date, and sends one Update per unsolicited *)
(* line into the channel the application stored in client.Updates.  While  *)
(* that channel is full the reader stands still, and then nothing that     *)
(* comes later on the wire is read, the answers to commands included.      *)
(***************************************************************************)
EXTENDS Naturals, Sequences, FiniteSets

CONSTANTS
  UpdatesCap,    \* capacity of the Updates channel (1 in SubscribeNewEmails)
  InitialMails,  \* mails in INBOX when it is selected
  MaxMails,      \* bound: mails that arrive during the session
  MaxChatter,    \* bound: lines the server sends without a change of INBOX
  MaxExpunged    \* bound: mails that other sessions delete

ASSUME ConnectionAssumption ==
  /\ UpdatesCap \in Nat \ {0}
  /\ InitialMails \in Nat
  /\ MaxMails \in Nat
  /\ MaxChatter \in Nat
  /\ MaxExpunged \in Nat

VARIABLES
  connected,   \* isConnected, and c.client is not nil
  link,        \* the connection as its reader goroutine knows it (below)
  inbox,       \* mails in INBOX; a mail's sequence number is its rank
  arrived,     \* mails that arrived since INBOX was selected
  chatter,     \* lines sent without a change of INBOX
  wire,        \* lines the server sent and the reader has not taken yet
  mbox,        \* the client's mailbox status; every MailboxUpdate points to it
  updatesSet,  \* client.Updates is not nil
  updates,     \* content of the Updates channel
  held,        \* the update the reader is blocked on, "none" if it is not
  broken       \* the connection is lost, no further line comes

connVars ==
  <<connected, link, inbox, arrived, chatter, wire, mbox, updatesSet, updates,
    held, broken>>

Mails == 1..(InitialMails + MaxMails)
Status == [messages : Nat, recent : Nat]
Line == [kind : {"EXISTS", "RECENT", "OTHER"}, n : Nat]
Update == {"mailbox", "other"}

\* "none": no connection, or one whose reader goroutine has ended;
\* "selected": INBOX is selected and the connection in use;
\* "abandoned": LOGOUT failed, and nothing closed the connection;
\* "unselected": the same, before INBOX was selected.
Link == {"none", "selected", "abandoned", "unselected"}

ConnTypeOK ==
  /\ connected \in BOOLEAN
  /\ link \in Link
  /\ inbox \in SUBSET Mails
  /\ arrived \in 0..MaxMails
  /\ chatter \in 0..MaxChatter
  /\ wire \in Seq(Line)
  /\ mbox \in Status
  /\ updatesSet \in BOOLEAN
  /\ updates \in Seq(Update)
  /\ held \in Update \cup {"none"}
  /\ broken \in BOOLEAN

ConnInit ==
  /\ connected = FALSE
  /\ link = "none"
  /\ inbox = 1..InitialMails
  /\ arrived = 0
  /\ chatter = 0
  /\ wire = << >>
  /\ mbox = [messages |-> 0, recent |-> 0]
  /\ updatesSet = FALSE
  /\ updates = << >>
  /\ held = "none"
  /\ broken = FALSE

-----------------------------------------------------------------------------
(* The server. *)

\* It sends lines about INBOX, to a client that gave up the connection as well.
ServerSends == link \in {"selected", "abandoned"} /\ ~broken

NewMails == {m \in inbox : m > InitialMails}

MailAt(n) == {m \in inbox : Cardinality({k \in inbox : k <= m}) = n}

\* A mail is delivered to INBOX: an EXISTS line and a RECENT line.
MailArrives ==
  /\ ServerSends
  /\ arrived < MaxMails
  /\ arrived' = arrived + 1
  /\ inbox' = inbox \cup {InitialMails + arrived + 1}
  /\ wire' = wire \o <<[kind |-> "EXISTS", n |-> Cardinality(inbox) + 1],
                       [kind |-> "RECENT", n |-> Cardinality(NewMails) + 1]>>
  /\ UNCHANGED <<connected, link, chatter, mbox, updatesSet, updates, held,
                 broken>>

\* Another session deletes a mail: an EXPUNGE line, which changes no count the
\* client keeps.
MailExpunged ==
  /\ ServerSends
  /\ InitialMails + arrived - Cardinality(inbox) < MaxExpunged
  /\ \E m \in inbox : inbox' = inbox \ {m}
  /\ wire' = Append(wire, [kind |-> "OTHER", n |-> 0])
  /\ UNCHANGED <<connected, link, arrived, chatter, mbox, updatesSet, updates,
                 held, broken>>

\* A line without a change of INBOX: the counts announced once more, a flag
\* change made by another session, a keep-alive status.
ServerChatters ==
  /\ ServerSends
  /\ chatter < MaxChatter
  /\ chatter' = chatter + 1
  /\ \E line \in {[kind |-> "EXISTS", n |-> Cardinality(inbox)],
                  [kind |-> "RECENT", n |-> Cardinality(NewMails)],
                  [kind |-> "OTHER", n |-> 0]} : wire' = Append(wire, line)
  /\ UNCHANGED <<connected, link, inbox, arrived, mbox, updatesSet, updates,
                 held, broken>>

ConnectionBreaks ==
  /\ link # "none" /\ ~broken
  /\ broken' = TRUE
  /\ UNCHANGED <<connected, link, inbox, arrived, chatter, wire, mbox,
                 updatesSet, updates, held>>

-----------------------------------------------------------------------------
(* The reader goroutine of go-imap. *)

UpdateOf(line) == IF line.kind = "OTHER" THEN "other" ELSE "mailbox"

StatusAfter(line) ==
  [messages |-> IF line.kind = "EXISTS" THEN line.n ELSE mbox.messages,
   recent   |-> IF line.kind = "RECENT" THEN line.n ELSE mbox.recent]

ReadLine ==
  /\ held = "none"
  /\ wire # << >>
  /\ wire' = Tail(wire)
  /\ mbox' = StatusAfter(Head(wire))
  /\ \/ /\ ~updatesSet
        /\ UNCHANGED <<updates, held>>
     \/ /\ updatesSet
        /\ Len(updates) < UpdatesCap
        /\ updates' = Append(updates, UpdateOf(Head(wire)))
        /\ UNCHANGED held
     \/ /\ updatesSet
        /\ Len(updates) >= UpdatesCap
        /\ held' = UpdateOf(Head(wire))
        /\ UNCHANGED updates
  /\ UNCHANGED <<connected, link, inbox, arrived, chatter, updatesSet, broken>>

\* The blocked send goes through once the channel has room.
SendHeldUpdate ==
  /\ held # "none"
  /\ Len(updates) < UpdatesCap
  /\ updates' = Append(updates, held)
  /\ held' = "none"
  /\ UNCHANGED <<connected, link, inbox, arrived, chatter, wire, mbox,
                 updatesSet, broken>>

\* The reader has taken every earlier line and is not blocked: the next thing it
\* takes is the answer to the command in progress, or the end of a broken
\* connection, which ends the command with an error.
AnswerReadable == held = "none" /\ wire = << >>

\* The reader of a broken connection ends when it has taken every line.  A
\* command that is in progress then, or comes later, returns an error.
ReaderEnds ==
  /\ link # "none" /\ broken
  /\ AnswerReadable
  /\ link' = "none"
  /\ UNCHANGED <<connected, inbox, arrived, chatter, wire, mbox, updatesSet,
                 updates, held, broken>>

\* A command may return an error: the server's answer is NO, or the connection
\* is broken and the write fails (which needs no reader).
CommandMayFail == AnswerReadable \/ broken

ReaderBlocked == held # "none"

=============================================================================
