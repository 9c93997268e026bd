SPECIFICATION Spec
CONSTANTS
  Subs = {s1, s2}
  Grpc = {}
  Webhooks = {w1}
  NoMail = NoMail
  EmptyMail = EmptyMail
  MaxMails = 2
  MaxBatch = 2
  MaxRepeats = 0
  MaxBeats = 0
PROPERTIES
  EveryNoticeProcessed
CHECK_DEADLOCK FALSE
