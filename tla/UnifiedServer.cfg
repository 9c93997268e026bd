SPECIFICATION Spec
CONSTANTS
  i1 = i1
  i2 = i2
  i3 = i3
  Items = {i1, i2, i3}
  Batches <- BatchSizes
  MaxBatch = 2
  InitialMails <- ThreeMails
  Bare = {2}
  NoMail = NoMail
  Error = Error
  MaxMails = 4
  MaxExpunged = 1
  s1 = s1
  s2 = s2
  s3 = s3
  Streams = {s1, s2, s3}
  ImapStreams = {s1, s2}
  Loads <- Meetings
INVARIANTS
  TypeOK
  BatchAgrees
  NothingNewerMissed
  FoundIsAsked
  ExitAfterRequests
  WebhookOutlivesStreams
  CancelledUnlessRaced
  OnlyHungStreamsStall
PROPERTIES
  BatchAnswered
  ShutsDown
  QueryAtomic
CHECK_DEADLOCK FALSE
