----------------------------- MODULE AtomicQuery -----------------------------
(***************************************************************************)
(* What a query for one mail promises its caller: the answer of a single   *)
(* look at the mailbox, at one instant between the request and the answer, *)
(* whatever comes and goes before and after; or an error; or, of a request *)
(* that was lost in a panic, nothing.  There are no connections here, no   *)
(* sequence numbers and no commands.                                       *)
(***************************************************************************)
EXTENDS Naturals

CONSTANTS Mails, Folders, NoMail, Error

VARIABLES
  inFolder,   \* the mails that are in each folder now
  request,    \* what is asked for
  phase,      \* "idle", "asked", "seen", "answered", "lost"
  answers     \* what the query may still answer, once it has looked

vars == <<inFolder, request, phase, answers>>

Init ==
  /\ inFolder \in [Folders -> SUBSET Mails]
  /\ phase = "idle"
  /\ answers = {}

\* A latest mail is the last that came of those there.
Latest(S) == IF S = {} THEN {NoMail} ELSE {m \in S : \A x \in S : x <= m}

\* The answers a look gives at this instant.  A find over IMAP looks into the
\* inbox; one over Graph looks everywhere, and may give up a mail for nothing.
LookUp(q) ==
  CASE q.op = "junk" -> Latest(inFolder["junk"])
    [] q.op = "latest" -> Latest(inFolder["inbox"])
    [] q.op = "find" /\ q.protocol = "IMAP" -> {q.mail} \cap inFolder["inbox"]
    [] q.op = "find" /\ q.protocol = "GRAPH" ->
         IF q.mail \in inFolder["inbox"] \cup inFolder["junk"]
         THEN {q.mail, NoMail} ELSE {}

Ask ==
  /\ phase = "idle" /\ phase' = "asked"
  /\ UNCHANGED <<inFolder, answers>>

\* The only look, and what it gave is what the query answers.
Look ==
  /\ phase = "asked" /\ phase' = "seen"
  /\ answers' = LookUp(request)
  /\ UNCHANGED <<inFolder, request>>

Answer ==
  /\ \/ phase = "asked" /\ \E a \in LookUp(request) : answers' = {a}
     \/ phase = "seen" /\ \E a \in answers : answers' = {a}
  /\ phase' = "answered"
  /\ UNCHANGED <<inFolder, request>>

Fail ==
  /\ phase # "answered" /\ phase' = "answered"
  /\ answers' = {Error}
  /\ UNCHANGED <<inFolder, request>>

Lose ==
  /\ phase \in {"asked", "seen"} /\ phase' = "lost"
  /\ answers' = {}
  /\ UNCHANGED <<inFolder, request>>

\* Mails come, go, and are moved.
MailboxChanges ==
  /\ inFolder' \in [Folders -> SUBSET Mails]
  /\ UNCHANGED <<request, phase, answers>>

Next == Ask \/ Look \/ Answer \/ Fail \/ Lose \/ MailboxChanges

Spec == Init /\ [][Next]_vars

=============================================================================
