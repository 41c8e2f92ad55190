SPECIFICATION Spec
CONSTANTS
  Worker = {w1}
  Client = {c1}
  Connector = {k1}
  Msg = {1, 2}
  None = None
  MayRestart = FALSE
  MayExpire = TRUE
  RedisMayFail = FALSE
INVARIANT SetKeepsUndelivered
