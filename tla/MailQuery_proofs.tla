-------------------------- MODULE MailQuery_proofs --------------------------
(***************************************************************************)
(* What a query answers, for any folders, arrivals and removals.           *)
(*                                                                         *)
(* A sequence number stays the number of a mail while the session lasts:   *)
(* mails that arrive come behind, and none is seen to go.  So the mail     *)
(* that FETCH answers has the position that SELECT or SEARCH saw.          *)
(***************************************************************************)
EXTENDS MailQuery, FiniteSetTheorems, TLAPS

Asked == FolderAsked(request)

\* The session has seen mails of the folder it selected and no others.
ViewOK ==
  /\ \A m \in view : folderOf[m] = Asked
  /\ query = "idle" => view = {}

\* The mails that stayed are still in the folder.
StayedOK ==
  IF query = "idle" THEN stayed = {} ELSE stayed \subseteq InFolder(Asked)

\* The number to be fetched is the position of n: of the last mail, when the
\* latest is asked for, and else of the mail asked for; the session has seen
\* every mail up to n, and none behind it when the latest is asked for.
TargetOK ==
  query = "fetch" =>
    \E n \in 1..Len(folderOf) :
      /\ target = NumberOf(view, n)
      /\ \A m \in InFolder(Asked) : m <= n => m \in view
      /\ request.op = "find" => n = request.mail /\ n \in view
      /\ request.op # "find" => \A m \in view \cup stayed : m <= n

QueryInv ==
  /\ QueryTypeOK
  /\ ViewOK /\ StayedOK /\ TargetOK
  /\ NothingNewerMissed /\ FoundIsAsked

USE QueryAssumption

-----------------------------------------------------------------------------
(* Positions in a set of mails. *)

\* A set of mails is finite, and so are the numbers in it.
LEMMA NumberFinite ==
  ASSUME NEW k \in Nat, NEW S \in SUBSET (1..k), NEW n \in Nat
  PROVE  /\ IsFiniteSet(S) /\ IsFiniteSet({x \in S : x <= n})
         /\ NumberOf(S, n) \in Nat /\ Cardinality(S) \in Nat
<1> DEFINE T == {x \in S : x <= n}
<1>1. IsFiniteSet(1..k)
  BY FS_Interval
<1>2. IsFiniteSet(S)
  BY <1>1, FS_Subset
<1>3. T \in SUBSET S
  OBVIOUS
<1>4. IsFiniteSet(T)
  <2> HIDE DEF T
  <2> QED
    BY <1>2, <1>3, FS_Subset
<1> QED
  BY <1>2, <1>4, FS_CardinalityType DEF NumberOf

\* A mail of the set has a higher number than what comes before it.
LEMMA NumberGrows ==
  ASSUME NEW k \in Nat, NEW S \in SUBSET (1..k), NEW a \in Nat, NEW b \in S,
         a < b
  PROVE  NumberOf(S, a) < NumberOf(S, b)
<1> DEFINE A == {x \in S : x <= a}
           B == {x \in S : x <= b}
<1>1. b \in Nat /\ \A x \in S : x \in Nat
  OBVIOUS
<1>2. A \in SUBSET B /\ b \in B /\ b \notin A
  <2>1. \A x \in S : x <= a => x <= b
    BY <1>1
  <2>2. b <= b /\ ~(b <= a)
    BY <1>1
  <2> QED
    BY <2>1, <2>2
<1>3. IsFiniteSet(A) /\ IsFiniteSet(B)
  BY <1>1, NumberFinite
<1>4. Cardinality(A) <= Cardinality(B) /\ Cardinality(A) # Cardinality(B)
  BY <1>2, <1>3, FS_Subset
<1>5. Cardinality(A) \in Nat /\ Cardinality(B) \in Nat
  BY <1>3, FS_CardinalityType
<1> QED
  BY <1>4, <1>5 DEF NumberOf

\* What comes behind n does not change the position of n.
LEMMA NumberSame ==
  ASSUME NEW S, NEW T, NEW n, \A x \in S \cup T : x <= n => (x \in S <=> x \in T)
  PROVE  NumberOf(S, n) = NumberOf(T, n)
<1>1. {x \in S : x <= n} = {x \in T : x <= n}
  OBVIOUS
<1> QED
  BY <1>1 DEF NumberOf

\* Equal positions are those of one mail.
LEMMA NumberTells ==
  ASSUME NEW k \in Nat, NEW S \in SUBSET (1..k), NEW m \in S, NEW n \in Nat,
         NumberOf(S, m) = NumberOf(S, n)
  PROVE  /\ \A x \in S : x <= n => x <= m
         /\ n \in S => m = n
<1>1. m \in Nat /\ \A x \in S : x \in Nat
  OBVIOUS
<1>2. NumberOf(S, m) \in Nat /\ NumberOf(S, n) \in Nat
  BY <1>1, NumberFinite
<1>3. ASSUME NEW x \in S, x <= n, m < x PROVE FALSE
  <2>1. NumberOf(S, m) < NumberOf(S, x)
    BY <1>1, <1>3, NumberGrows
  <2>2. x = n \/ x < n
    BY <1>1, <1>3
  <2> DEFINE X == {y \in S : y <= x}
             N == {y \in S : y <= n}
  <2>3. X \in SUBSET N
    <3>1. \A y \in S : y <= x => y <= n
      BY <1>1, <1>3
    <3> QED
      BY <3>1
  <2>4. IsFiniteSet(N)
    BY NumberFinite
  <2>5. Cardinality(X) <= Cardinality(N)
    <3> HIDE DEF X, N
    <3> QED
      BY <2>3, <2>4, FS_Subset
  <2>6. NumberOf(S, x) \in Nat
    BY <1>1, NumberFinite
  <2> QED
    BY <1>2, <2>1, <2>5, <2>6 DEF NumberOf
<1>4. ASSUME n \in S, n < m PROVE FALSE
  <2>1. NumberOf(S, n) < NumberOf(S, m)
    BY <1>1, <1>4, NumberGrows
  <2> QED
    BY <1>2, <2>1
<1> QED
  BY <1>1, <1>3, <1>4

-----------------------------------------------------------------------------
(* The steps. *)

\* The session never sees less, and what it sees are mails of the folder.
LEMMA ViewNowOK ==
  ASSUME QueryInv
  PROVE  /\ ViewNow \in SUBSET (1..Len(folderOf)) /\ Len(folderOf) \in Nat
         /\ view \subseteq ViewNow /\ InFolder(Asked) \subseteq ViewNow
         /\ \A m \in ViewNow : folderOf[m] = Asked
<1>1. view \subseteq 1..Len(folderOf) /\ \A m \in view : folderOf[m] = Asked
  BY DEF QueryInv, QueryTypeOK, ViewOK
<1>2. Len(folderOf) \in Nat
  BY DEF QueryInv, QueryTypeOK
<1>3. \A m \in InFolder(Asked) : m \in 1..Len(folderOf) /\ folderOf[m] = Asked
  BY DEF InFolder
<1>4. ViewNow = view \cup InFolder(Asked)
  BY DEF ViewNow, Asked
<1> QED
  BY <1>1, <1>2, <1>3, <1>4

\* At the start nothing is asked and nothing seen.
LEMMA QueryStarts == QueryInit => QueryInv
<1> SUFFICES ASSUME QueryInit PROVE QueryInv
  OBVIOUS
<1>1. folderOf \in Seq(Folders) /\ Len(folderOf) <= MaxMails
  BY DEF QueryInit
<1>2. request \in QueryRequests
  BY DEF QueryInit, QueryRequests, Mails
<1>3. QueryTypeOK
  BY <1>1, <1>2 DEF QueryInit, QueryTypeOK, QueryPC
<1> QED
  BY <1>3 DEF QueryInit, QueryInv, ViewOK, StayedOK, TargetOK,
              NothingNewerMissed, FoundIsAsked, RepliedMail

\* A step that answers an error, or goes on towards FETCH, disturbs nothing.
LEMMA QueryQuiet ==
  ASSUME QueryInv, query # "idle",
         UNCHANGED <<boxVars, request, view, target, stayed>>,
         query' \in QueryPC \ {"idle", "fetch"}, conn' \in {"none", "open"},
         reply' \in {reply, Error}, query' = "answered" => reply' = Error
  PROVE  QueryInv'
<1> USE DEF QueryInv
<1>1. QueryTypeOK'
  BY DEF QueryTypeOK, boxVars
<1>2. ViewOK' /\ StayedOK' /\ TargetOK'
  BY DEF ViewOK, StayedOK, TargetOK, boxVars, Asked, InFolder, QueryPC
<1>3. query' = "answered" => reply' = Error /\ Error # NoMail /\ Error \notin Mails
  OBVIOUS
<1>4. NothingNewerMissed' /\ FoundIsAsked'
  BY <1>3 DEF NothingNewerMissed, FoundIsAsked, RepliedMail
<1> QED
  BY <1>1, <1>2, <1>4

\* An answer with a mail keeps the invariant when the mail is the right one,
\* and so does the panic of one without recipients.
LEMMA QueryRight ==
  ASSUME QueryInv, NEW from \in QueryPC \ {"idle"}, NEW m \in 1..Len(folderOf),
         RepliesWith(from, m),
         UNCHANGED <<boxVars, request, conn, target, stayed>>,
         view' \in SUBSET (1..Len(folderOf)), \A x \in view' : folderOf[x] = Asked,
         request.op # "find" =>
           folderOf[m] = Asked /\ \A x \in stayed : x <= m,
         request.op = "find" => m = request.mail
  PROVE  QueryInv'
<1> USE DEF QueryInv
<1>1. m \in Mails /\ m # NoMail
  BY DEF QueryTypeOK, Mails
<1>2. \/ query' = "answered" /\ reply' = m
      \/ query' = "panicked" /\ reply' = reply
  BY DEF RepliesWith, Replies, QueryMoves
<1>3. QueryTypeOK'
  BY <1>1, <1>2 DEF QueryTypeOK, boxVars, QueryPC
<1>4. query # "idle"
  BY DEF RepliesWith, Replies, QueryMoves
<1>5. ViewOK' /\ StayedOK' /\ TargetOK'
  BY <1>2, <1>4 DEF ViewOK, StayedOK, TargetOK, boxVars, Asked, InFolder
<1>6. NothingNewerMissed'
  BY <1>1, <1>2 DEF NothingNewerMissed, boxVars, Asked
<1>7. FoundIsAsked'
  BY <1>2 DEF FoundIsAsked, RepliedMail
<1> QED
  BY <1>3, <1>5, <1>6, <1>7

\* A request that comes in has nothing seen yet, and what is there stays.
LEMMA QueryArrivesKeeps == QueryInv /\ QueryArrives => QueryInv'
<1> SUFFICES ASSUME QueryInv, QueryArrives PROVE QueryInv'
  OBVIOUS
<1> USE DEF QueryInv
<1>1. /\ query = "idle" /\ view = {} /\ view' = {}
      /\ UNCHANGED <<folderOf, expunged, conn, target>>
  BY DEF QueryArrives, ViewOK, boxVars
<1>2. ASSUME NEW q \in QueryRequests, request' = q, query' = "token",
             stayed' = InFolder(FolderAsked(q)), UNCHANGED reply
      PROVE  QueryInv'
  <2>1. QueryTypeOK'
    BY <1>1, <1>2 DEF QueryTypeOK, QueryPC, InFolder
  <2> QED
    BY <1>1, <1>2, <2>1
    DEF ViewOK, StayedOK, TargetOK, NothingNewerMissed, FoundIsAsked,
        RepliedMail, InFolder, Asked
<1>3. ASSUME query' = "answered", reply' = Error, UNCHANGED <<request, stayed>>
      PROVE  QueryInv'
  <2>1. QueryTypeOK'
    BY <1>1, <1>3 DEF QueryTypeOK, QueryPC
  <2>2. Error # NoMail /\ Error \notin Mails
    OBVIOUS
  <2>3. stayed' \subseteq InFolder(Asked)'
    BY <1>1, <1>3 DEF QueryArrives, StayedOK
  <2> QED
    BY <1>1, <1>3, <2>1, <2>2, <2>3
    DEF ViewOK, StayedOK, TargetOK, NothingNewerMissed, FoundIsAsked, RepliedMail
<1> QED
  BY <1>2, <1>3 DEF QueryArrives, Replies, QueryMoves

\* SELECT sees the folder; its last number is that of the latest mail.
LEMMA SelectsKeeps == QueryInv /\ Selects => QueryInv'
<1> SUFFICES ASSUME QueryInv, Selects PROVE QueryInv'
  OBVIOUS
<1> USE DEF QueryInv
<1> DEFINE S == InFolder(Asked)
<1>1. /\ query = "select" /\ view' = S
      /\ UNCHANGED <<folderOf, expunged, request, conn, stayed>>
  BY DEF Selects, Asked, boxVars
<1>2. S \in SUBSET (1..Len(folderOf)) /\ \A m \in S : folderOf[m] = Asked
  BY DEF InFolder
<1>3. stayed \subseteq S
  BY <1>1 DEF StayedOK
<1>4. ViewOK' /\ (query' # "idle" => StayedOK')
  BY <1>1, <1>2, <1>3 DEF ViewOK, StayedOK, Asked, InFolder, Selects, Replies,
                          QueryMoves
<1>5. CASE request.op = "find"
  <2>1. query' = "search" /\ UNCHANGED <<target, reply>>
    BY <1>5 DEF Selects, QueryMoves
  <2>2. QueryTypeOK'
    BY <1>1, <1>2, <2>1 DEF QueryTypeOK, QueryPC
  <2> QED
    BY <1>4, <2>1, <2>2 DEF TargetOK, NothingNewerMissed, FoundIsAsked, RepliedMail
<1>6. CASE request.op # "find" /\ S = {}
  <2>1. query' = "answered" /\ reply' = NoMail /\ UNCHANGED target
    BY <1>6 DEF Selects, Replies, QueryMoves, Asked
  <2>2. QueryTypeOK'
    BY <1>1, <1>2, <2>1 DEF QueryTypeOK, QueryPC
  <2>3. stayed' = {} /\ NoMail \notin Mails
    BY <1>1, <1>3, <1>6
  <2> QED
    BY <1>4, <2>1, <2>2, <2>3
    DEF TargetOK, NothingNewerMissed, FoundIsAsked, RepliedMail
<1>7. CASE request.op # "find" /\ S # {}
  <2>1. query' = "fetch" /\ target' = Cardinality(S) /\ UNCHANGED reply
    BY <1>7 DEF Selects, QueryMoves, Asked
  <2>2. Len(folderOf) \in Nat
    BY DEF QueryTypeOK
  <2>3. IsFiniteSet(S) /\ Cardinality(S) \in Nat
    BY <1>2, <2>2, NumberFinite
  <2>4. Cardinality(S) # 0
    BY <1>7, <2>3, FS_EmptySet
  <2>5. QueryTypeOK'
    BY <1>1, <1>2, <2>1, <2>3, <2>4 DEF QueryTypeOK, QueryPC
  <2> DEFINE n == Len(folderOf)
  <2>6. n \in 1..Len(folderOf)
    BY <1>2, <1>7, <2>2
  <2>7. Cardinality(S) = NumberOf(S, n)
    <3>1. {x \in S : x <= n} = S
      BY <1>2, <2>2
    <3> QED
      BY <3>1 DEF NumberOf
  <2>8. /\ n \in 1..Len(folderOf')
        /\ target' = NumberOf(view', n)
        /\ \A m \in InFolder(Asked)' : m <= n => m \in view'
        /\ \A m \in view' \cup stayed' : m <= n
        /\ request'.op # "find"
    BY <1>1, <1>2, <1>3, <1>7, <2>1, <2>2, <2>6, <2>7 DEF InFolder, Asked
  <2>9. TargetOK'
    BY <2>8 DEF TargetOK
  <2> QED
    BY <1>4, <2>1, <2>5, <2>9 DEF NothingNewerMissed, FoundIsAsked, RepliedMail
<1> QED
  BY <1>5, <1>6, <1>7

\* SEARCH answers the position of the mail asked for.
LEMMA SearchesKeeps == QueryInv /\ Searches => QueryInv'
<1> SUFFICES ASSUME QueryInv, Searches PROVE QueryInv'
  OBVIOUS
<1> USE DEF QueryInv
<1> DEFINE n == request.mail
<1>1. /\ query = "search" /\ query' = "fetch"
      /\ n \in ViewNow /\ view' = ViewNow /\ target' = NumberOf(ViewNow, n)
      /\ UNCHANGED <<folderOf, expunged, request, conn, reply, stayed>>
  BY DEF Searches, QueryMoves, boxVars
<1>2. /\ ViewNow \in SUBSET (1..Len(folderOf)) /\ Len(folderOf) \in Nat
      /\ InFolder(Asked) \subseteq ViewNow
      /\ \A m \in ViewNow : folderOf[m] = Asked
  BY ViewNowOK
<1>3. n \in 1..Len(folderOf) /\ n \in Nat /\ n # 0
  <2>1. n \in 1..Len(folderOf)
    BY <1>1, <1>2
  <2> HIDE DEF n
  <2> QED
    BY <1>2, <2>1
<1>4. target' \in Nat
  BY <1>1, <1>2, <1>3, NumberFinite
<1>5. target' # 0
  <2> DEFINE T == {x \in ViewNow : x <= n}
  <2>1. IsFiniteSet(T)
    BY <1>2, <1>3, NumberFinite
  <2>2. n \in T
    BY <1>1, <1>3
  <2>3. Cardinality(T) # 0
    BY <2>1, <2>2, FS_EmptySet
  <2> QED
    BY <1>1, <2>3 DEF NumberOf
<1>6. QueryTypeOK'
  BY <1>1, <1>2, <1>4, <1>5 DEF QueryTypeOK, QueryPC
<1>7. request.op = "find"
  BY <1>3 DEF QueryTypeOK, QueryRequests
<1>8. TargetOK'
  BY <1>1, <1>2, <1>3, <1>7 DEF TargetOK, InFolder, Asked
<1>9. ViewOK' /\ StayedOK'
  BY <1>1, <1>2 DEF ViewOK, StayedOK, Asked, InFolder
<1> QED
  BY <1>1, <1>6, <1>8, <1>9 DEF NothingNewerMissed, FoundIsAsked, RepliedMail

\* FETCH answers the mail that has the position now, which is the mail that
\* had it.
LEMMA FetchesKeeps == QueryInv /\ Fetches => QueryInv'
<1> SUFFICES ASSUME QueryInv, Fetches PROVE QueryInv'
  OBVIOUS
<1> USE DEF QueryInv
<1>1. PICK m \in ViewNow :
        NumberOf(ViewNow, m) = target /\ RepliesWith("fetch", m)
  BY DEF Fetches
<1>2. /\ ViewNow \in SUBSET (1..Len(folderOf)) /\ Len(folderOf) \in Nat
      /\ view \subseteq ViewNow /\ InFolder(Asked) \subseteq ViewNow
      /\ \A x \in ViewNow : folderOf[x] = Asked
  BY ViewNowOK
<1>3. /\ query = "fetch" /\ view' = ViewNow
      /\ UNCHANGED <<boxVars, request, conn, target, stayed>>
  BY DEF Fetches
<1>4. PICK n \in 1..Len(folderOf) :
        /\ target = NumberOf(view, n)
        /\ \A x \in InFolder(Asked) : x <= n => x \in view
        /\ request.op = "find" => n = request.mail /\ n \in view
        /\ request.op # "find" => \A x \in view \cup stayed : x <= n
  BY <1>3 DEF TargetOK
<1>5. \A x \in view \cup ViewNow : x <= n => (x \in view <=> x \in ViewNow)
  BY <1>2, <1>4 DEF ViewNow, Asked
<1>6. NumberOf(ViewNow, m) = NumberOf(ViewNow, n)
  BY <1>1, <1>4, <1>5, NumberSame
<1>7. n \in Nat
  BY <1>2
<1>8. /\ \A x \in ViewNow : x <= n => x <= m
      /\ n \in ViewNow => m = n
  BY <1>2, <1>6, <1>7, NumberTells
<1>9. stayed \subseteq ViewNow
  BY <1>2, <1>3 DEF StayedOK
<1>10. /\ request.op # "find" =>
             folderOf[m] = Asked /\ \A x \in stayed : x <= m
       /\ request.op = "find" => m = request.mail
  BY <1>2, <1>4, <1>8, <1>9
<1>11. m \in 1..Len(folderOf) /\ "fetch" \in QueryPC \ {"idle"}
  BY <1>2 DEF QueryPC
<1>12. view' \in SUBSET (1..Len(folderOf)) /\ \A x \in view' : folderOf[x] = Asked
  BY <1>2, <1>3
<1> QED
  BY <1>1, <1>3, <1>10, <1>11, <1>12, QueryRight

\* Graph answers the newest mail of a list, or that there is none.
LEMMA ListAnswersKeeps == QueryInv /\ ListAnswers => QueryInv'
<1> SUFFICES ASSUME QueryInv, ListAnswers PROVE QueryInv'
  OBVIOUS
<1> USE DEF QueryInv
<1> DEFINE S == InFolder(Asked)
<1>1. /\ query = "http" /\ request.op # "find"
      /\ UNCHANGED <<boxVars, request, conn, view, target, stayed>>
      /\ IF S = {} THEN Replies("http", NoMail)
         ELSE \E m \in S : (\A x \in S : x <= m) /\ RepliesWith("http", m)
  BY DEF ListAnswers, Asked
<1>2. /\ stayed \subseteq S /\ S \in SUBSET (1..Len(folderOf))
      /\ \A m \in S : folderOf[m] = Asked
  BY <1>1 DEF StayedOK, InFolder
<1>3. /\ view \in SUBSET (1..Len(folderOf)) /\ \A x \in view : folderOf[x] = Asked
      /\ Len(folderOf) \in Nat
  BY DEF QueryTypeOK, ViewOK
<1>4. CASE S = {}
  <2>1. query' = "answered" /\ reply' = NoMail /\ NoMail \notin Mails
    BY <1>1, <1>4 DEF Replies, QueryMoves
  <2>2. stayed' = {}
    BY <1>1, <1>2, <1>4
  <2>3. QueryTypeOK'
    BY <1>1, <2>1 DEF QueryTypeOK, QueryPC, boxVars
  <2>4. ViewOK' /\ StayedOK' /\ TargetOK'
    BY <1>1, <2>1, <2>2 DEF ViewOK, StayedOK, TargetOK, Asked, boxVars
  <2> QED
    BY <2>1, <2>2, <2>3, <2>4 DEF NothingNewerMissed, FoundIsAsked, RepliedMail
<1>5. CASE S # {}
  <2>1. PICK m \in S : (\A x \in S : x <= m) /\ RepliesWith("http", m)
    BY <1>1, <1>5
  <2>2. m \in 1..Len(folderOf) /\ folderOf[m] = Asked /\ \A x \in stayed : x <= m
    BY <1>2, <2>1
  <2>3. "http" \in QueryPC \ {"idle"}
    BY DEF QueryPC
  <2> HIDE DEF S
  <2> QED
    BY <1>1, <1>3, <2>1, <2>2, <2>3, QueryRight
<1> QED
  BY <1>4, <1>5

\* A find over Graph answers the mail with the id, or that there is none.
LEMMA FindAnswersKeeps == QueryInv /\ FindAnswers => QueryInv'
<1> SUFFICES ASSUME QueryInv, FindAnswers PROVE QueryInv'
  OBVIOUS
<1> USE DEF QueryInv
<1>1. /\ query = "http" /\ request.op = "find"
      /\ request.mail \in 1..Len(folderOf)
      /\ UNCHANGED <<boxVars, request, conn, view, target, stayed>>
      /\ RepliesWith("http", request.mail) \/ Replies("http", NoMail)
  BY DEF FindAnswers, InFolder
<1>2. view \in SUBSET (1..Len(folderOf)) /\ \A x \in view : folderOf[x] = Asked
  BY DEF QueryTypeOK, ViewOK
<1>3. CASE RepliesWith("http", request.mail)
  <2>1. "http" \in QueryPC \ {"idle"}
    BY DEF QueryPC
  <2> QED
    BY <1>1, <1>2, <1>3, <2>1, QueryRight
<1>4. CASE Replies("http", NoMail)
  <2>1. query' = "answered" /\ reply' = NoMail /\ NoMail \notin Mails
    BY <1>4 DEF Replies, QueryMoves
  <2>2. QueryTypeOK'
    BY <1>1, <2>1 DEF QueryTypeOK, QueryPC, boxVars
  <2>3. ViewOK' /\ StayedOK' /\ TargetOK'
    BY <1>1, <2>1 DEF ViewOK, StayedOK, TargetOK, Asked, InFolder, boxVars
  <2> QED
    BY <1>1, <2>1, <2>2, <2>3 DEF NothingNewerMissed, FoundIsAsked, RepliedMail
<1> QED
  BY <1>1, <1>3, <1>4

\* A mail that arrives comes behind all others.
LEMMA MailArrivesKeeps == QueryInv /\ MailArrives => QueryInv'
<1> SUFFICES ASSUME QueryInv, MailArrives PROVE QueryInv'
  OBVIOUS
<1> USE DEF QueryInv
<1>1. /\ QueryRuns /\ Len(folderOf) < MaxMails
      /\ UNCHANGED <<expunged, query, request, conn, view, target, reply, stayed>>
  BY DEF MailArrives
<1>2. PICK f \in Folders : folderOf' = Append(folderOf, f)
  BY DEF MailArrives
<1>3. folderOf \in Seq(Folders) /\ Len(folderOf) \in Nat
  BY DEF QueryTypeOK
<1>4. /\ folderOf' \in Seq(Folders)
      /\ Len(folderOf') = Len(folderOf) + 1
      /\ \A m \in 1..Len(folderOf) :
           m \in 1..Len(folderOf') /\ folderOf'[m] = folderOf[m]
      /\ \A m \in 1..Len(folderOf') : m \in 1..Len(folderOf) \/ m > Len(folderOf)
  BY <1>2, <1>3
<1>5. QueryTypeOK'
  BY <1>1, <1>4 DEF QueryTypeOK
<1>6. view \subseteq 1..Len(folderOf) /\ InFolder(Asked) \subseteq InFolder(Asked)'
  BY <1>1, <1>4 DEF QueryTypeOK, InFolder, Asked
<1>7. ViewOK' /\ StayedOK'
  BY <1>1, <1>4, <1>6 DEF ViewOK, StayedOK, Asked
<1>8. TargetOK'
  <2>1. \A n \in 1..Len(folderOf) : \A m \in InFolder(Asked)' :
          m <= n => m \in InFolder(Asked)
    BY <1>1, <1>3, <1>4 DEF InFolder, Asked
  <2> QED
    BY <1>1, <1>4, <2>1 DEF TargetOK
<1> QED
  BY <1>1, <1>5, <1>7, <1>8
  DEF NothingNewerMissed, FoundIsAsked, RepliedMail, QueryRuns

\* A mail that goes is no longer one that stayed.
LEMMA MailExpungedKeeps == QueryInv /\ MailExpunged => QueryInv'
<1> SUFFICES ASSUME QueryInv, MailExpunged PROVE QueryInv'
  OBVIOUS
<1> USE DEF QueryInv
<1>1. /\ QueryRuns
      /\ UNCHANGED <<folderOf, query, request, conn, view, target, reply>>
  BY DEF MailExpunged
<1>2. PICK m \in 1..Len(folderOf) \ expunged :
        expunged' = expunged \cup {m} /\ stayed' = stayed \ {m}
  BY DEF MailExpunged
<1>3. QueryTypeOK'
  BY <1>1, <1>2 DEF QueryTypeOK
<1>4. ViewOK' /\ StayedOK' /\ TargetOK'
  BY <1>1, <1>2 DEF ViewOK, StayedOK, TargetOK, InFolder, Asked, QueryRuns
<1> QED
  BY <1>1, <1>3, <1>4
  DEF NothingNewerMissed, FoundIsAsked, RepliedMail, QueryRuns

\* Every step of a query or of the mail server keeps the invariant.
LEMMA QueryKeeps == QueryInv /\ [QueryStep]_queryVars => QueryInv'
<1> SUFFICES ASSUME QueryInv, [QueryStep]_queryVars PROVE QueryInv'
  OBVIOUS
<1>1. CASE TokenArrives
  BY <1>1, QueryQuiet DEF TokenArrives, QueryMoves, QueryPC, QueryInv, QueryTypeOK
<1>2. CASE TokenFails \/ GraphFails \/ QueryRecovers
  BY <1>2, QueryQuiet
  DEF TokenFails, GraphFails, QueryRecovers, Replies, QueryMoves, QueryPC,
      QueryInv, QueryTypeOK
<1>3. CASE TokenKills
  BY <1>3, QueryQuiet DEF TokenKills, QueryMoves, QueryPC, QueryInv, QueryTypeOK
<1>4. CASE Dials \/ LogsIn
  BY <1>4, QueryQuiet DEF Dials, LogsIn, QueryMoves, QueryPC, QueryInv, QueryTypeOK
<1>5. CASE ConnectFails
  BY <1>5, QueryQuiet DEF ConnectFails, Replies, QueryMoves, QueryPC
<1>6. CASE CommandFails
  BY <1>6, QueryQuiet
  DEF CommandFails, Replies, QueryMoves, QueryPC, QueryInv, QueryTypeOK
<1>7. CASE ServerLogsOut
  BY <1>7
  DEF ServerLogsOut, QueryInv, QueryTypeOK, ViewOK, StayedOK, TargetOK, boxVars,
      NothingNewerMissed, FoundIsAsked, RepliedMail, Asked, InFolder
<1>8. CASE UNCHANGED queryVars
  BY <1>8
  DEF queryVars, boxVars, QueryInv, QueryTypeOK, ViewOK, StayedOK, TargetOK,
      NothingNewerMissed, FoundIsAsked, RepliedMail, Asked, InFolder
<1> QED
  BY <1>1, <1>2, <1>3, <1>4, <1>5, <1>6, <1>7, <1>8, QueryArrivesKeeps,
     SelectsKeeps, SearchesKeeps, FetchesKeeps, ListAnswersKeeps,
     FindAnswersKeeps, MailArrivesKeeps, MailExpungedKeeps
  DEF QueryStep, QueryProgress, MailServerStep

-----------------------------------------------------------------------------
(* The steps of AtomicQuery behind those of a query. *)

\* The phase of a query, and what it may still answer.
PhaseFacts ==
  /\ query \in {"idle", "answered"} => QueryPhase = query
  /\ query \in {"panicked", "killed"} => QueryPhase = "lost"
  /\ QueryRuns => QueryPhase = IF HasLooked THEN "seen" ELSE "asked"
  /\ query = "answered" => QueryAnswers = {reply}
  /\ query # "answered" /\ ~HasLooked => QueryAnswers = {}
  /\ HasLooked => QueryRuns /\
       QueryAnswers = IF request.op = "find" THEN {request.mail}
                      ELSE {m \in view : \A x \in view : x <= m}

LEMMA PhaseTells == QueryInv => PhaseFacts
BY DEF PhaseFacts, QueryPhase, QueryAnswers, QueryRuns, HasLooked, QueryPC,
       QueryInv, QueryTypeOK

LEMMA PhaseTellsNext == QueryInv' => PhaseFacts'
BY PhaseTells, PTL

\* What a look gives is what is in the folder asked for.
LEMMA LookUpTells ==
  ASSUME QueryInv
  PROVE  /\ request.op # "find" =>
              Atomic!LookUp(request) =
                LET S == InFolder(Asked)
                IN  IF S = {} THEN {NoMail} ELSE {m \in S : \A x \in S : x <= m}
         /\ request.op = "find" /\ request.protocol = "IMAP" =>
              Atomic!LookUp(request) = {request.mail} \cap InFolder(Asked)
         /\ request.op = "find" /\ request.protocol = "GRAPH" =>
              Atomic!LookUp(request) =
                IF request.mail \in InFolder("inbox") \cup InFolder("junk")
                THEN {request.mail, NoMail} ELSE {}
<1>1. request.op \in {"latest", "junk", "find"}
      /\ request.protocol \in {"IMAP", "GRAPH"}
  BY DEF QueryInv, QueryTypeOK, QueryRequests
<1>2. FoldersNow["inbox"] = InFolder("inbox") /\ FoldersNow["junk"] = InFolder("junk")
  BY DEF FoldersNow, Folders
<1> QED
  BY <1>1, <1>2 DEF Atomic!LookUp, Atomic!Latest, Asked, FolderAsked

\* Without a mail that comes or goes, the folders stay as they are.
LEMMA FoldersStay ==
  ASSUME UNCHANGED boxVars
  PROVE  UNCHANGED FoldersNow
BY DEF boxVars, FoldersNow, InFolder

\* A query starts before it asked for anything.
LEMMA QueryStartsAtomic == QueryInit => Atomic!Init
<1> SUFFICES ASSUME QueryInit PROVE Atomic!Init
  OBVIOUS
<1>1. query = "idle"
  BY DEF QueryInit
<1>2. FoldersNow \in [Folders -> SUBSET Mails]
  BY DEF QueryInit, FoldersNow, InFolder, Mails
<1> QED
  BY <1>1, <1>2, QueryStarts, PhaseTells DEF Atomic!Init, PhaseFacts, HasLooked

\* The answer with an error is a failure.
LEMMA AtomicFails ==
  ASSUME QueryInv, QueryInv', UNCHANGED <<boxVars, request>>,
         query # "answered", query' = "answered", reply' = Error
  PROVE  Atomic!Fail
<1>1. QueryPhase # "answered"
  BY PhaseTells DEF PhaseFacts, QueryRuns
<1> QED
  BY <1>1, PhaseTellsNext, FoldersStay DEF Atomic!Fail, PhaseFacts

\* A panic of a query that was asked loses it.
LEMMA AtomicLoses ==
  ASSUME QueryInv, QueryInv', UNCHANGED <<boxVars, request>>,
         QueryRuns, query' \in {"panicked", "killed"}
  PROVE  Atomic!Lose
<1>1. QueryPhase \in {"asked", "seen"}
  BY PhaseTells DEF PhaseFacts
<1>2. QueryPhase' = "lost" /\ QueryAnswers' = {}
  BY PhaseTellsNext DEF PhaseFacts, HasLooked
<1> QED
  BY <1>1, <1>2, FoldersStay DEF Atomic!Lose

\* The answer with a mail is an answer of what was seen, or of a look.
LEMMA AtomicAnswers ==
  ASSUME QueryInv, QueryInv', UNCHANGED <<boxVars, request>>,
         NEW m, query' = "panicked" \/ (query' = "answered" /\ reply' = m),
         QueryRuns, IF HasLooked THEN m \in QueryAnswers
         ELSE m \in Atomic!LookUp(request)
  PROVE  Atomic!Next
<1>1. CASE query' = "panicked"
  BY <1>1, AtomicLoses DEF Atomic!Next
<1>2. CASE query' = "answered" /\ reply' = m
  <2>1. QueryPhase = IF HasLooked THEN "seen" ELSE "asked"
    BY PhaseTells DEF PhaseFacts
  <2>2. QueryPhase' = "answered" /\ QueryAnswers' = {m}
    BY <1>2, PhaseTellsNext DEF PhaseFacts
  <2> QED
    BY <2>1, <2>2, FoldersStay DEF Atomic!Answer, Atomic!Next
<1> QED
  BY <1>1, <1>2

\* A step between two commands, before the look or after it, changes nothing.
LEMMA AtomicWaits ==
  ASSUME QueryInv, QueryInv', UNCHANGED <<boxVars, request>>,
         QueryRuns, QueryRuns', ~HasLooked, ~HasLooked'
  PROVE  UNCHANGED Atomic!vars
BY PhaseTells, PhaseTellsNext, FoldersStay
DEF Atomic!vars, PhaseFacts, QueryRuns

\* An IMAP session is that of an IMAP request, a call of Graph that of a Graph
\* request.
WayOK ==
  /\ query \in {"dial", "login", "select", "search", "fetch"} =>
       request.protocol = "IMAP"
  /\ query = "http" => request.protocol = "GRAPH"
  /\ query = "search" => request.op = "find"

LEMMA WayKeeps == QueryInv /\ WayOK /\ [QueryStep]_queryVars => WayOK'
<1> SUFFICES ASSUME QueryInv, WayOK, [QueryStep]_queryVars PROVE WayOK'
  OBVIOUS
<1>1. request.protocol \in {"IMAP", "GRAPH"}
  BY DEF QueryInv, QueryTypeOK, QueryRequests
<1>2. CASE QueryArrives
  BY <1>2 DEF QueryArrives, WayOK, Replies, QueryMoves
<1>3. CASE QueryProgress \/ QueryRecovers
  BY <1>1, <1>3
  DEF QueryProgress, TokenArrives, TokenFails, TokenKills, Dials, LogsIn,
      ConnectFails, Selects, Searches, Fetches, CommandFails, ListAnswers,
      FindAnswers, GraphFails, QueryRecovers, RepliesWith, Replies, QueryMoves,
      WayOK
<1>4. CASE MailServerStep \/ UNCHANGED queryVars
  BY <1>4 DEF MailServerStep, MailArrives, MailExpunged, ServerLogsOut,
              queryVars, WayOK
<1> QED
  BY <1>2, <1>3, <1>4 DEF QueryStep

\* The request is asked, or answered at once.
LEMMA QueryArrivesAtomic ==
  QueryInv /\ QueryInv' /\ QueryArrives => Atomic!Next
<1> SUFFICES ASSUME QueryInv, QueryInv', QueryArrives PROVE Atomic!Next
  OBVIOUS
<1>1. query = "idle" /\ UNCHANGED boxVars
  BY DEF QueryArrives
<1>2. QueryPhase = "idle" /\ QueryAnswers = {}
  BY <1>1, PhaseTells DEF PhaseFacts, HasLooked
<1>3. CASE query' = "token"
  <2>1. QueryPhase' = "asked" /\ QueryAnswers' = {}
    BY <1>3, PhaseTellsNext DEF PhaseFacts, QueryRuns, HasLooked
  <2> QED
    BY <1>1, <1>2, <2>1, FoldersStay DEF Atomic!Ask, Atomic!Next
<1>4. CASE Replies("idle", Error) /\ UNCHANGED request
  BY <1>1, <1>4, AtomicFails DEF Replies, QueryMoves, Atomic!Next
<1> QED
  BY <1>3, <1>4 DEF QueryArrives

\* SELECT is the look for the latest mail, and for a mail already there.
LEMMA SelectsAtomic ==
  QueryInv /\ QueryInv' /\ WayOK /\ Selects => [Atomic!Next]_(Atomic!vars)
<1> SUFFICES ASSUME QueryInv, QueryInv', WayOK, Selects
             PROVE  [Atomic!Next]_(Atomic!vars)
  OBVIOUS
<1> DEFINE S == InFolder(Asked)
<1>1. /\ query = "select" /\ view' = S /\ UNCHANGED <<boxVars, request>>
      /\ QueryRuns /\ ~HasLooked /\ request.protocol = "IMAP"
  BY DEF Selects, Asked, QueryRuns, HasLooked, WayOK
<1>2. QueryPhase = "asked"
  BY <1>1, PhaseTells DEF PhaseFacts
<1>3. ASSUME HasLooked', QueryAnswers' = Atomic!LookUp(request)
      PROVE  Atomic!Next
  <2>1. QueryPhase' = "seen"
    BY <1>3, PhaseTellsNext DEF PhaseFacts
  <2> QED
    BY <1>1, <1>2, <1>3, <2>1, FoldersStay DEF Atomic!Look, Atomic!Next
<1>4. CASE request.op = "find"
  <2>1. query' = "search"
    BY <1>4 DEF Selects, QueryMoves
  <2>2. CASE request.mail \in S
    <3>1. HasLooked'
      BY <1>1, <2>1, <2>2 DEF HasLooked
    <3>2. QueryAnswers' = {request.mail}
      BY <1>1, <1>4, <3>1, PhaseTellsNext DEF PhaseFacts
    <3>3. Atomic!LookUp(request) = {request.mail}
      BY <1>1, <1>4, <2>2, LookUpTells
    <3> QED
      BY <1>3, <3>1, <3>2, <3>3
  <2>3. CASE request.mail \notin S
    BY <1>1, <2>1, <2>3, AtomicWaits DEF HasLooked, QueryRuns
  <2> QED
    BY <2>2, <2>3
<1>5. CASE request.op # "find" /\ S = {}
  <2>1. query' = "answered" /\ reply' = NoMail
    BY <1>5 DEF Selects, Replies, QueryMoves, Asked
  <2>2. NoMail \in Atomic!LookUp(request)
    BY <1>5, LookUpTells
  <2> QED
    BY <1>1, <2>1, <2>2, AtomicAnswers
<1>6. CASE request.op # "find" /\ S # {}
  <2>1. HasLooked'
    BY <1>6 DEF Selects, QueryMoves, Asked, HasLooked
  <2>2. QueryAnswers' = {m \in S : \A x \in S : x <= m}
    BY <1>1, <1>6, <2>1, PhaseTellsNext DEF PhaseFacts
  <2>3. Atomic!LookUp(request) = {m \in S : \A x \in S : x <= m}
    BY <1>6, LookUpTells
  <2> QED
    BY <1>3, <2>1, <2>2, <2>3
<1> QED
  BY <1>4, <1>5, <1>6

\* SEARCH is the look for a mail that was not there at SELECT.
LEMMA SearchesAtomic ==
  QueryInv /\ QueryInv' /\ WayOK /\ Searches => [Atomic!Next]_(Atomic!vars)
<1> SUFFICES ASSUME QueryInv, QueryInv', WayOK, Searches
             PROVE  [Atomic!Next]_(Atomic!vars)
  OBVIOUS
<1>1. /\ query = "search" /\ query' = "fetch" /\ request.mail \in ViewNow
      /\ UNCHANGED <<boxVars, request>>
      /\ QueryRuns /\ request.protocol = "IMAP" /\ request.op = "find"
  BY DEF Searches, QueryMoves, QueryRuns, WayOK
<1>2. QueryPhase' = "seen" /\ QueryAnswers' = {request.mail}
  BY <1>1, PhaseTellsNext DEF PhaseFacts, HasLooked
<1>3. CASE request.mail \in view
  <2>1. QueryPhase = "seen" /\ QueryAnswers = {request.mail}
    BY <1>1, <1>3, PhaseTells DEF PhaseFacts, HasLooked
  <2> QED
    BY <1>1, <1>2, <2>1, FoldersStay DEF Atomic!vars
<1>4. CASE request.mail \notin view
  <2>1. QueryPhase = "asked"
    BY <1>1, <1>4, PhaseTells DEF PhaseFacts, HasLooked
  <2>2. request.mail \in InFolder(Asked)
    BY <1>1, <1>4 DEF ViewNow, Asked
  <2>3. Atomic!LookUp(request) = {request.mail}
    BY <1>1, <2>2, LookUpTells
  <2> QED
    BY <1>1, <1>2, <2>1, <2>3, FoldersStay DEF Atomic!Look, Atomic!Next
<1> QED
  BY <1>3, <1>4

\* FETCH answers what was seen: the mail at the position of the last mail of
\* the view is still that mail.
LEMMA FetchesAtomic == QueryInv /\ QueryInv' /\ Fetches => Atomic!Next
<1> SUFFICES ASSUME QueryInv, QueryInv', Fetches PROVE Atomic!Next
  OBVIOUS
<1>1. PICK m \in ViewNow :
        NumberOf(ViewNow, m) = target /\ RepliesWith("fetch", m)
  BY DEF Fetches
<1>2. /\ query = "fetch" /\ UNCHANGED <<boxVars, request>>
      /\ QueryRuns /\ HasLooked
  BY DEF Fetches, QueryRuns, HasLooked
<1>3. /\ ViewNow \in SUBSET (1..Len(folderOf)) /\ Len(folderOf) \in Nat
      /\ view \subseteq ViewNow /\ InFolder(Asked) \subseteq ViewNow
  BY ViewNowOK
<1>4. PICK n \in 1..Len(folderOf) :
        /\ target = NumberOf(view, n)
        /\ \A x \in InFolder(Asked) : x <= n => x \in view
        /\ request.op = "find" => n = request.mail /\ n \in view
        /\ request.op # "find" => \A x \in view \cup stayed : x <= n
  BY <1>2 DEF TargetOK, QueryInv
<1>5. \A x \in view \cup ViewNow : x <= n => (x \in view <=> x \in ViewNow)
  BY <1>3, <1>4 DEF ViewNow, Asked
<1>6. NumberOf(ViewNow, m) = NumberOf(ViewNow, n)
  BY <1>1, <1>4, <1>5, NumberSame
<1>7. n \in Nat /\ m \in Nat
  BY <1>3
<1>8. /\ \A x \in ViewNow : x <= n => x <= m
      /\ n \in ViewNow => m = n
  BY <1>3, <1>6, <1>7, NumberTells
<1>9. m \in QueryAnswers
  <2>1. CASE request.op = "find"
    BY <1>2, <1>3, <1>4, <1>8, <2>1, PhaseTells DEF PhaseFacts
  <2>2. CASE request.op # "find"
    <3>1. m <= n
      <4>1. NumberOf(ViewNow, m) \in Nat
        BY <1>3, <1>7, NumberFinite
      <4>2. ASSUME n < m PROVE NumberOf(ViewNow, n) < NumberOf(ViewNow, m)
        BY <1>3, <1>7, <4>2, NumberGrows
      <4>3. n < m => FALSE
        <5> DEFINE num == NumberOf(ViewNow, m)
        <5>1. num \in Nat /\ (n < m => num < num)
          BY <1>6, <4>1, <4>2
        <5> HIDE DEF num
        <5> QED
          BY <5>1
      <4> QED
        BY <1>7, <4>3
    <3>2. m \in view
      BY <1>5, <3>1
    <3>3. \A x \in view : x <= m
      BY <1>3, <1>4, <1>8, <2>2
    <3> QED
      BY <1>2, <2>2, <3>2, <3>3, PhaseTells DEF PhaseFacts
  <2> QED
    BY <2>1, <2>2
<1>10. query' = "panicked" \/ (query' = "answered" /\ reply' = m)
  BY <1>1 DEF RepliesWith, Replies, QueryMoves
<1> QED
  BY <1>2, <1>9, <1>10, AtomicAnswers

\* The call of Graph is the look and the answer.
LEMMA GraphAnswersAtomic ==
  QueryInv /\ QueryInv' /\ WayOK /\ (ListAnswers \/ FindAnswers) => Atomic!Next
<1> SUFFICES ASSUME QueryInv, QueryInv', WayOK, ListAnswers \/ FindAnswers
             PROVE  Atomic!Next
  OBVIOUS
<1>1. /\ UNCHANGED <<boxVars, request>> /\ QueryRuns /\ ~HasLooked
      /\ request.protocol = "GRAPH"
  BY DEF ListAnswers, FindAnswers, QueryRuns, HasLooked, WayOK
<1>2. ASSUME NEW m \in Atomic!LookUp(request),
             RepliesWith("http", m) \/ Replies("http", m)
      PROVE  Atomic!Next
  <2>1. query' = "panicked" \/ (query' = "answered" /\ reply' = m)
    BY <1>2 DEF RepliesWith, Replies, QueryMoves
  <2> QED
    BY <1>1, <2>1, AtomicAnswers
<1>3. CASE ListAnswers
  <2> DEFINE S == InFolder(Asked)
  <2>1. /\ request.op # "find"
        /\ IF S = {} THEN Replies("http", NoMail)
           ELSE \E m \in S : (\A x \in S : x <= m) /\ RepliesWith("http", m)
    BY <1>3 DEF ListAnswers, Asked
  <2>2. Atomic!LookUp(request) =
          IF S = {} THEN {NoMail} ELSE {m \in S : \A x \in S : x <= m}
    BY <2>1, LookUpTells
  <2> HIDE DEF S
  <2> QED
    BY <1>2, <2>1, <2>2
<1>4. CASE FindAnswers
  <2>1. Atomic!LookUp(request) = {request.mail, NoMail}
    BY <1>1, <1>4, LookUpTells DEF FindAnswers
  <2> QED
    BY <1>2, <1>4, <2>1 DEF FindAnswers
<1> QED
  BY <1>3, <1>4

\* Mails come and go beside the query.
LEMMA MailboxAtomic ==
  QueryInv /\ QueryInv' /\ (MailArrives \/ MailExpunged) => Atomic!Next
<1> SUFFICES ASSUME QueryInv, QueryInv', MailArrives \/ MailExpunged
             PROVE  Atomic!Next
  OBVIOUS
<1>1. UNCHANGED <<query, request, view, reply>>
  BY DEF MailArrives, MailExpunged
<1>2. QueryPhase' = QueryPhase /\ QueryAnswers' = QueryAnswers
  BY <1>1 DEF QueryPhase, QueryAnswers, HasLooked
<1>3. FoldersNow' \in [Folders -> SUBSET Mails]
  <2>1. Len(folderOf') \in Nat /\ Len(folderOf') <= MaxMails
    BY DEF QueryInv, QueryTypeOK
  <2>2. \A f : InFolder(f)' \in SUBSET Mails
    BY <2>1 DEF InFolder, Mails
  <2> QED
    BY <2>2 DEF FoldersNow
<1> QED
  BY <1>1, <1>2, <1>3 DEF Atomic!MailboxChanges, Atomic!Next

\* Every step of a query or of the mail server is one of AtomicQuery, or
\* changes nothing there.
LEMMA QueryStepsAtomic ==
  QueryInv /\ QueryInv' /\ WayOK /\ [QueryStep]_queryVars =>
    [Atomic!Next]_(Atomic!vars)
<1> SUFFICES ASSUME QueryInv, QueryInv', WayOK, [QueryStep]_queryVars
             PROVE  [Atomic!Next]_(Atomic!vars)
  OBVIOUS
<1>1. CASE TokenArrives \/ Dials \/ LogsIn
  <2>1. UNCHANGED <<boxVars, request>> /\ QueryRuns /\ QueryRuns'
        /\ ~HasLooked /\ ~HasLooked'
    BY <1>1 DEF TokenArrives, Dials, LogsIn, QueryMoves, QueryRuns, HasLooked
  <2> QED
    BY <2>1, AtomicWaits
<1>2. CASE TokenFails \/ ConnectFails \/ CommandFails \/ GraphFails
           \/ QueryRecovers
  <2>1. UNCHANGED <<boxVars, request>> /\ query # "answered"
        /\ query' = "answered" /\ reply' = Error
    BY <1>2 DEF TokenFails, ConnectFails, CommandFails, GraphFails,
                QueryRecovers, Replies, QueryMoves
  <2> QED
    BY <2>1, AtomicFails DEF Atomic!Next
<1>3. CASE TokenKills
  <2>1. UNCHANGED <<boxVars, request>> /\ QueryRuns
        /\ query' \in {"panicked", "killed"}
    BY <1>3 DEF TokenKills, QueryMoves, QueryRuns
  <2> QED
    BY <2>1, AtomicLoses DEF Atomic!Next
<1>4. CASE ServerLogsOut \/ UNCHANGED queryVars
  <2>1. UNCHANGED <<boxVars, query, request, view, reply>>
    BY <1>4 DEF ServerLogsOut, queryVars
  <2>2. QueryPhase' = QueryPhase /\ QueryAnswers' = QueryAnswers
    BY <2>1 DEF QueryPhase, QueryAnswers, HasLooked
  <2> QED
    BY <2>1, <2>2, FoldersStay DEF Atomic!vars
<1> QED
  BY <1>1, <1>2, <1>3, <1>4, QueryArrivesAtomic, SelectsAtomic, SearchesAtomic,
     FetchesAtomic, GraphAnswersAtomic, MailboxAtomic
  DEF QueryStep, QueryProgress, MailServerStep

=============================================================================
