------------------------- MODULE NotificationManager -------------------------
(***************************************************************************)
(* NotificationManager: the map from subscription ids to notification      *)
(* channels of capacity 1.  Handlers register and remove channels, the     *)
(* webhook's goroutines look them up and send, and no lock protects the    *)
(* map.  A map write therefore takes two steps, its begin and its end.     *)
(* What happens when a second goroutine uses the map in between is up to   *)
(* the Go runtime.  It may notice and end the process ("concurrent map     *)
(* writes", "concurrent map read and map write").  If it does not, a read  *)
(* may miss any entry (a write that makes the map grow moves the others),  *)
(* and writes that overlap may damage the map: entries get lost, and an    *)
(* entry that was deleted stays.                                           *)
(***************************************************************************)
EXTENDS Naturals, FiniteSets

CONSTANTS
  Subs,       \* subscription ids
  MaxMails,   \* bound: mails that arrive
  NoMail,
  EmptyMail   \* what an "email" event carries when the fetch returned nil

\* <<s, n>> is the n-th mail, and it came to the mailbox of subscription s.
Mails == Subs \X (1..MaxMails)

ASSUME ManagerAssumption ==
  /\ MaxMails \in Nat
  /\ NoMail \notin Mails
  /\ EmptyMail \notin Mails \cup {NoMail}

VARIABLES
  channels,   \* ids in the map
  queue,      \* content of each channel
  closed,     \* ids whose channel is closed
  writers,    \* ids whose handler is in the middle of a map write
  raced,      \* two map writes have overlapped, and the process survived it
  missed,     \* ids RemoveChannel did not find while others wrote the map
  process     \* "up" or "crashed"

managerVars == <<channels, queue, closed, writers, raced, missed, process>>

ManagerTypeOK ==
  /\ channels \in SUBSET Subs
  /\ queue \in [Subs -> Mails \cup {NoMail}]
  /\ closed \in SUBSET Subs
  /\ writers \in SUBSET Subs
  /\ raced \in BOOLEAN
  /\ missed \in SUBSET Subs
  /\ process \in {"up", "crashed"}

ManagerInit ==
  /\ channels = {}
  /\ queue = [s \in Subs |-> NoMail]
  /\ closed = {}
  /\ writers = {}
  /\ raced = FALSE
  /\ missed = {}
  /\ process = "up"

-----------------------------------------------------------------------------

\* A map write of the handler of s begins.
BeginMapWrite(s) ==
  /\ writers' = writers \cup {s}
  /\ raced' = (raced \/ writers # {})
  /\ UNCHANGED <<channels, queue, closed, missed, process>>

\* It ends; result is what the map is to hold.  Once writes have overlapped,
\* what it holds may be less, or may still hold what was deleted.
EndMapWrite(s, result) ==
  /\ \/ channels' = result
     \/ raced /\ channels' \in SUBSET (channels \cup result)
  /\ writers' = writers \ {s}
  /\ UNCHANGED <<queue, closed, raced, missed, process>>

\* A lookup finds s only if it is there or just being written; it may not find
\* it if it is not there, or during a write, of s or of another id.
MayFind(s) == s \in channels \cup writers
MayMiss(s) == s \notin channels \/ writers # {}

\* The runtime notices that the map is used while it is written.
MapRaceNoticed ==
  /\ writers # {}
  /\ process' = "crashed"
  /\ UNCHANGED <<channels, queue, closed, writers, raced, missed>>

\* RegisterChannel.
RegisterBegins(s) == BeginMapWrite(s)
RegisterEnds(s) == EndMapWrite(s, channels \cup {s})

\* RemoveChannel: look up, close, and then delete the entry; or return if the
\* lookup finds none.
CloseChannel(s) ==
  /\ closed' = closed \cup {s}
  /\ UNCHANGED <<channels, queue, writers, raced, missed, process>>

MissChannel(s) ==
  /\ MayMiss(s)
  /\ missed' = IF writers = {} THEN missed ELSE missed \cup {s}
  /\ UNCHANGED <<channels, queue, closed, writers, raced, process>>

RemoveBegins(s) == BeginMapWrite(s)
RemoveEnds(s) == EndMapWrite(s, channels \ {s})

\* A bug: a channel that is full is taken for dead and removed.
SendNotificationOrRemove(s, m) ==
  /\ s \notin closed
  /\ IF queue[s] = NoMail
       THEN queue' = [queue EXCEPT ![s] = m] /\ UNCHANGED channels
       ELSE channels' = channels \ {s} /\ UNCHANGED queue
  /\ UNCHANGED <<closed, writers, raced, missed, process>>

\* SendNotification, after the lookup: the channel takes the mail's id, or it is
\* full and the id is dropped.
SendNotification(s, m) ==
  /\ s \notin closed
  /\ queue' = IF queue[s] = NoMail THEN [queue EXCEPT ![s] = m] ELSE queue
  /\ UNCHANGED <<channels, closed, writers, raced, missed, process>>

\* The receive from the channel, in the handler's select.
ReceiveNotification(s) ==
  /\ queue[s] # NoMail
  /\ queue' = [queue EXCEPT ![s] = NoMail]
  /\ UNCHANGED <<channels, closed, writers, raced, missed, process>>

=============================================================================
