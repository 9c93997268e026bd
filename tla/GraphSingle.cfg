SPECIFICATION Spec
CONSTANTS
  Subs = {s1}
  Grpc = {s1}
  Webhooks = {w1}
  NoMail = NoMail
  EmptyMail = EmptyMail
  MaxMails = 2
  MaxBatch = 2
  MaxRepeats = 1
  MaxBeats = 1
INVARIANTS
  TypeOK
PROPERTIES
  HandlersEnd
CHECK_DEADLOCK FALSE
