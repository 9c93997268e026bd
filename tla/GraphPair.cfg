SPECIFICATION Spec
CONSTANTS
  Subs = {s1, s2}
  Grpc = {s2}
  Webhooks = {w1}
  NoMail = NoMail
  EmptyMail = EmptyMail
  MaxMails = 2
  MaxBatch = 2
  MaxRepeats = 0
  MaxBeats = 0
INVARIANTS
  OwnMailOnly
  ListenerReachable
  NothingLeftInProcess
PROPERTIES
  StreamsPromise
  HandlersPromise
CHECK_DEADLOCK FALSE
