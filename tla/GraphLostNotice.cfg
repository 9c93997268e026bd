SPECIFICATION Spec
CONSTANTS
  Subs = {s1}
  Grpc = {}
  Webhooks = {w1}
  NoMail = NoMail
  EmptyMail = EmptyMail
  MaxMails = 1
  MaxBatch = 1
  MaxRepeats = 0
  MaxBeats = 0
PROPERTIES
  NoticeNotThrownAway
CHECK_DEADLOCK FALSE
