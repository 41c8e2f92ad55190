SPECIFICATION FairSpec
CONSTANTS
  Connector = {k1}
  Client = {c1}
  Worker = {w1}
  Msg = {1}
  None = None
  MaxQueue = 2
  MayRestart = TRUE
  MayExpire = TRUE
  RedisMayFail = TRUE
PROPERTY ReachableSettled
