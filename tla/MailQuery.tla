------------------------------ MODULE MailQuery ------------------------------
(***************************************************************************)
(* A query for one mail: the latest of the inbox or of the junk folder, or *)
(* a mail by its id, over IMAP or Graph.  The request's goroutine gets a   *)
(* token (a request of TokenProvider: here it succeeds or fails), connects *)
(* or calls Graph, and answers; mails arrive and disappear meanwhile.      *)
(*                                                                         *)
(* Mails are numbered as they arrive.  The sequence numbers of an IMAP     *)
(* session are positions in the folder it selected: new mails come behind, *)
(* and the server announces no removal during SEARCH and FETCH.            *)
(***************************************************************************)
EXTENDS Naturals, Sequences, FiniteSets

CONSTANTS
  InitialMails,   \* the folders of the mails there at the start, as sequences
  Bare,           \* mails without a recipient, or one that cannot be parsed so
  NoMail,         \* an answer without a mail
  Error,          \* an answer with an error
  MaxMails,       \* bound: mails
  MaxExpunged     \* bound: mails removed

Folders == {"inbox", "junk"}
Mails == 1..MaxMails

ASSUME QueryAssumption ==
  /\ MaxMails \in Nat /\ MaxExpunged \in Nat
  /\ \A s \in InitialMails : s \in Seq(Folders) /\ Len(s) <= MaxMails
  /\ NoMail \notin Mails /\ Error \notin Mails \cup {NoMail}

VARIABLES
  folderOf,   \* the folder each mail came to
  expunged,   \* the mails removed
  query,      \* where the request is
  request,    \* what it asks for
  conn,       \* whether it has a connection to the IMAP server
  view,       \* the mails of the folder that connection has selected
  target,     \* the sequence number it fetches
  reply,      \* what the caller is answered
  stayed      \* the mails of its folder that were there all the time

boxVars == <<folderOf, expunged>>
queryVars == <<boxVars, query, request, conn, view, target, reply, stayed>>

\* A find has the id of a mail.  The latest mail may be asked for together
\* with a new refresh token.
QueryRequests ==
  {q \in [op : {"latest", "junk", "find"}, protocol : {"IMAP", "GRAPH"},
          mail : 0..MaxMails, both : BOOLEAN] :
     /\ q.op = "find" <=> q.mail \in Mails
     /\ q.op # "find" => q.mail = 0
     /\ q.both => q.op = "latest"}

\* "panicked" is a panic of the request's own goroutine, "killed" one of a
\* goroutine it started, which nothing can recover.
QueryPC == {"idle", "token", "dial", "login", "select", "search", "fetch",
            "http", "answered", "panicked", "killed"}

QueryTypeOK ==
  /\ folderOf \in Seq(Folders) /\ Len(folderOf) <= MaxMails
  /\ expunged \subseteq 1..Len(folderOf)
  /\ query \in QueryPC
  /\ request \in QueryRequests
  /\ conn \in {"none", "open"}
  /\ view \subseteq 1..Len(folderOf)
  /\ target \in Nat
  /\ query = "fetch" => target # 0   \* no sequence number is 0
  /\ reply \in Mails \cup {NoMail, Error}
  /\ stayed \subseteq 1..Len(folderOf)

InFolder(f) == {m \in 1..Len(folderOf) : folderOf[m] = f} \ expunged
FolderAsked(q) == IF q.op = "junk" THEN "junk" ELSE "inbox"

\* The sequence number of a mail in a folder that holds S.
NumberOf(S, m) == Cardinality({x \in S : x <= m})

QueryInit ==
  /\ folderOf \in InitialMails
  /\ expunged = {} /\ view = {} /\ stayed = {}
  /\ query = "idle" /\ conn = "none" /\ target = 0 /\ reply = NoMail
  /\ request = [op |-> "latest", protocol |-> "IMAP", mail |-> 0,
                both |-> FALSE]

QueryRuns == query \notin {"idle", "answered", "panicked", "killed"}

QueryMoves(from, to) == query = from /\ query' = to
Replies(from, answer) == QueryMoves(from, "answered") /\ reply' = answer

\* The answer with a mail, which is parsed or converted first: one without a
\* recipient makes that panic.
RepliesWith(from, m) ==
  IF m \in Bare THEN QueryMoves(from, "panicked") /\ UNCHANGED reply
  ELSE Replies(from, m)

\* The request comes in; one without MailInfo or with an unknown protocol is
\* answered at once.
QueryArrives ==
  /\ query = "idle"
  /\ \/ \E q \in QueryRequests :
          /\ request' = q
          /\ query' = "token"
          /\ stayed' = InFolder(FolderAsked(q))
          /\ UNCHANGED reply
     \/ Replies("idle", Error) /\ UNCHANGED <<request, stayed>>
  /\ UNCHANGED <<boxVars, conn, view, target>>

TokenArrives ==
  /\ QueryMoves("token", IF request.protocol = "IMAP" THEN "dial" ELSE "http")
  /\ UNCHANGED <<boxVars, request, conn, view, target, reply, stayed>>

TokenFails ==
  /\ Replies("token", Error)
  /\ UNCHANGED <<boxVars, request, conn, view, target, stayed>>

\* One of the two concurrent token requests of GetBothTokens fails.
TokenKills ==
  /\ request.both /\ request.protocol = "GRAPH"
  /\ QueryMoves("token", "killed")
  /\ UNCHANGED <<boxVars, request, conn, view, target, reply, stayed>>

-----------------------------------------------------------------------------
(* IMAP *)

Dials ==
  /\ QueryMoves("dial", "login")
  /\ conn' = "open"
  /\ UNCHANGED <<boxVars, request, view, target, reply, stayed>>

\* Authentication and the SELECT of INBOX that ends Connect.
LogsIn ==
  /\ QueryMoves("login", "select")
  /\ UNCHANGED <<boxVars, request, conn, view, target, reply, stayed>>

\* Connect logs out on an error.
ConnectFails ==
  /\ Replies("dial", Error) \/ Replies("login", Error)
  /\ conn' = "none"
  /\ UNCHANGED <<boxVars, request, view, target, stayed>>

\* A bug: the number counted from 0.
SelectsOffByOne ==
  LET S == InFolder(FolderAsked(request))
  IN  /\ query = "select"
      /\ view' = S
      /\ IF request.op = "find" THEN
           QueryMoves("select", "search") /\ UNCHANGED <<target, reply>>
         ELSE IF S = {} THEN
           Replies("select", NoMail) /\ UNCHANGED target
         ELSE
           /\ QueryMoves("select", "fetch")
           /\ target' = Cardinality(S) - 1
           /\ UNCHANGED reply
      /\ UNCHANGED <<boxVars, request, conn, stayed>>

\* A bug: no answer of its own for an empty folder.
SelectsEmptyToo ==
  LET S == InFolder(FolderAsked(request))
  IN  /\ query = "select"
      /\ view' = S
      /\ IF request.op = "find" THEN
           QueryMoves("select", "search") /\ UNCHANGED target
         ELSE
           QueryMoves("select", "fetch") /\ target' = Cardinality(S)
      /\ UNCHANGED <<boxVars, request, conn, reply, stayed>>

\* SELECT of the folder, whose last sequence number is its latest mail.
Selects ==
  LET S == InFolder(FolderAsked(request))
  IN  /\ query = "select"
      /\ view' = S
      /\ IF request.op = "find" THEN
           QueryMoves("select", "search") /\ UNCHANGED <<target, reply>>
         ELSE IF S = {} THEN
           Replies("select", NoMail) /\ UNCHANGED target
         ELSE
           /\ QueryMoves("select", "fetch")
           /\ target' = Cardinality(S)
           /\ UNCHANGED reply
      /\ UNCHANGED <<boxVars, request, conn, stayed>>

\* The folder as the server sees it for the next command: with what came.
ViewNow == view \cup InFolder(FolderAsked(request))

\* A bug: UID SEARCH, which answers no sequence number.
SearchesUid ==
  /\ request.mail \in ViewNow
  /\ QueryMoves("search", "fetch")
  /\ view' = ViewNow
  /\ target' = request.mail
  /\ UNCHANGED <<boxVars, request, conn, reply, stayed>>

\* SEARCH HEADER Message-ID answers the sequence number of the mail.
Searches ==
  /\ request.mail \in ViewNow
  /\ QueryMoves("search", "fetch")
  /\ view' = ViewNow
  /\ target' = NumberOf(ViewNow, request.mail)
  /\ UNCHANGED <<boxVars, request, conn, reply, stayed>>

\* A bug: a NOOP before FETCH, which lets the server announce removals.
FetchesRenumbered ==
  LET S == InFolder(FolderAsked(request))
  IN  /\ query = "fetch"
      /\ \E m \in S : NumberOf(S, m) = target /\ RepliesWith("fetch", m)
      /\ view' = S
      /\ UNCHANGED <<boxVars, request, conn, target, stayed>>

\* FETCH of one sequence number.
Fetches ==
  /\ query = "fetch"
  /\ \E m \in ViewNow :
       /\ NumberOf(ViewNow, m) = target
       /\ RepliesWith("fetch", m)
  /\ view' = ViewNow
  /\ UNCHANGED <<boxVars, request, conn, target, stayed>>

\* A command fails, finds nothing, or its mail cannot be parsed.  The
\* connection is left open.
CommandFails ==
  /\ \E from \in {"select", "search", "fetch"} : Replies(from, Error)
  /\ UNCHANGED <<boxVars, request, conn, view, target, stayed>>

-----------------------------------------------------------------------------
(* Graph *)

\* The first mail of a folder's list, which Graph sorts with the newest first;
\* an empty list is an answer without a mail.
ListAnswers ==
  LET S == InFolder(FolderAsked(request))
  IN  /\ query = "http" /\ request.op # "find"
      /\ IF S = {} THEN Replies("http", NoMail)
         ELSE \E m \in S : (\A x \in S : x <= m) /\ RepliesWith("http", m)
      /\ UNCHANGED <<boxVars, request, conn, view, target, stayed>>

\* The mail with the id, in any folder.  An answer with a string that is
\* exactly "value" is taken for an empty list.
FindAnswers ==
  /\ query = "http" /\ request.op = "find"
  /\ request.mail \in InFolder("inbox") \cup InFolder("junk")
  /\ RepliesWith("http", request.mail) \/ Replies("http", NoMail)
  /\ UNCHANGED <<boxVars, request, conn, view, target, stayed>>

GraphFails ==
  /\ Replies("http", Error)
  /\ UNCHANGED <<boxVars, request, conn, view, target, stayed>>

\* gin.Recovery answers a request that panicked.
QueryRecovers ==
  /\ Replies("panicked", Error)
  /\ UNCHANGED <<boxVars, request, conn, view, target, stayed>>

-----------------------------------------------------------------------------
(* The mail server; what happens while no query runs does not matter. *)

MailArrives ==
  /\ QueryRuns
  /\ Len(folderOf) < MaxMails
  /\ \E f \in Folders : folderOf' = Append(folderOf, f)
  /\ UNCHANGED <<expunged, query, request, conn, view, target, reply, stayed>>

MailExpunged ==
  /\ QueryRuns
  /\ Cardinality(expunged) < MaxExpunged
  /\ \E m \in 1..Len(folderOf) \ expunged :
       /\ expunged' = expunged \cup {m}
       /\ stayed' = stayed \ {m}
  /\ UNCHANGED <<folderOf, query, request, conn, view, target, reply>>

\* The server ends a connection that nobody uses any more.
ServerLogsOut ==
  /\ query = "answered" /\ conn = "open"
  /\ conn' = "none"
  /\ UNCHANGED <<boxVars, query, request, view, target, reply, stayed>>

QueryProgress ==
  \/ TokenArrives \/ TokenFails \/ TokenKills
  \/ Dials \/ LogsIn \/ ConnectFails
  \/ Selects \/ Searches \/ Fetches \/ CommandFails
  \/ ListAnswers \/ FindAnswers \/ GraphFails

MailServerStep == MailArrives \/ MailExpunged \/ ServerLogsOut

QueryStep ==
  QueryArrives \/ QueryProgress \/ QueryRecovers \/ MailServerStep

-----------------------------------------------------------------------------
RepliedMail == query = "answered" /\ reply \in Mails

\* The latest mail is the latest: a mail of the folder asked for, and none
\* that was there from the request to the answer is newer.  Mails arrive and
\* disappear between SELECT and FETCH, and Connect selects another folder
\* first.
NothingNewerMissed ==
  query = "answered" /\ request.op # "find" =>
    /\ reply \in Mails =>
         /\ folderOf[reply] = FolderAsked(request)
         /\ \A m \in stayed : m <= reply
    /\ reply = NoMail => stayed = {}

\* A find answers no other mail than the one asked for, though the mail found
\* by SEARCH is fetched by its sequence number.
FoundIsAsked ==
  RepliedMail /\ request.op = "find" => reply = request.mail

\* A query has looked when it has the sequence number to fetch, or when the
\* folder selected for a SEARCH has the mail already.
HasLooked == query = "fetch" \/ (query = "search" /\ request.mail \in view)

FoldersNow == [f \in Folders |-> InFolder(f)]

QueryPhase ==
  CASE query \in {"idle", "answered"} -> query
    [] query \in {"panicked", "killed"} -> "lost"
    [] HasLooked -> "seen"
    [] OTHER -> "asked"

QueryAnswers ==
  CASE query = "answered" -> {reply}
    [] HasLooked /\ request.op = "find" -> {request.mail}
    [] HasLooked /\ request.op # "find" ->
         {m \in view : \A x \in view : x <= m}
    [] OTHER -> {}

Atomic == INSTANCE AtomicQuery WITH
  inFolder <- FoldersNow, phase <- QueryPhase, answers <- QueryAnswers

\* A query is atomic, though it is a SELECT, a SEARCH and a FETCH while mails
\* come and go: its answer is what the mailbox held at one instant between the
\* request and the answer.  A mail answered was in its folder at that instant,
\* the last one if it is the latest; without a mail, the folder was empty.
QueryAtomic == Atomic!Spec

=============================================================================
