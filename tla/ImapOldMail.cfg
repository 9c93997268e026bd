SPECIFICATION Spec
CONSTANTS
  UpdatesCap = 1
  InitialMails = 1
  MaxMails = 0
  MaxChatter = 1
  MaxExpunged = 0
  Transport = "grpc"
  MaxBeats = 0
INVARIANTS
  NewMailOnly
CHECK_DEADLOCK FALSE
