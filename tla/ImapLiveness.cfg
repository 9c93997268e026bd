SPECIFICATION Spec
CONSTANTS
  UpdatesCap = 1
  InitialMails = 1
  MaxMails = 1
  MaxChatter = 1
  MaxExpunged = 0
  Transport = "grpc"
  MaxBeats = 0
PROPERTIES
  CleanedUpUnlessBlocked
CHECK_DEADLOCK FALSE
