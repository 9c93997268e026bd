SPECIFICATION Spec
CONSTANTS
  UpdatesCap = 1
  InitialMails = 1
  MaxMails = 2
  MaxChatter = 0
  MaxExpunged = 1
  Transport = "grpc"
  MaxBeats = 1
INVARIANTS
  TypeOK
  NoSendOnClosedChannel
  ClientAliveWhileUsed
  OneCommandAtATime
  OnlyReaderIsLeft
  OnlyMailThatArrived
  OnlyReaderBlocks
PROPERTIES
  StreamPromise
  HandlerPromise
CHECK_DEADLOCK FALSE
