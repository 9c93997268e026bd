SPECIFICATION Spec
CONSTANTS
  Keys = {k1, k2}
  GraphKeys = {k1}
  MixedKeys = {k1}
  Requests = {r1, r2}
  NoEntry = NoEntry
  NoToken = NoToken
  TTL = 1
  Delay = 1
  LocalSize = 1
  MaxTime = 5
  MaxRequests = 3
  MaxRestarts = 1
INVARIANTS
  TypeOK
  ServedOwnToken
  ServedForProtocol
  ServedAge
PROPERTIES
  ServesTokens
SYMMETRY Symmetry
CHECK_DEADLOCK FALSE
