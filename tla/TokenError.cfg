SPECIFICATION Spec
CONSTANTS
  Keys = {k1}
  GraphKeys = {k1}
  MixedKeys = {}
  Requests = {r1}
  NoEntry = NoEntry
  NoToken = NoToken
  TTL = 1
  Delay = 1
  LocalSize = 1
  MaxTime = 1
  MaxRequests = 1
  MaxRestarts = 0
INVARIANT
  ErrorsAreReturned
CHECK_DEADLOCK FALSE
