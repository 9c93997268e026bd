SPECIFICATION Spec
CONSTANTS
  UpdatesCap = 1
  InitialMails = 1
  MaxMails = 2
  MaxChatter = 0
  MaxExpunged = 0
  Transport = "grpc"
  MaxBeats = 0
PROPERTIES
  OnlyDuplicatesSkipped
CHECK_DEADLOCK FALSE
