SPECIFICATION Spec
CONSTANTS
  Worker = {w1}
  Client = {c1}
  Connector = {k1}
  Msg = {1, 2}
  None = None
  MayRestart = TRUE
  MayExpire = TRUE
  RedisMayFail = FALSE
PROPERTY RestartRestoresPending
