SPECIFICATION Spec
CONSTANTS
  Worker = {w1}
  Client = {c1, c2}
  Connector = {k1, k2}
  Msg = {1}
  None = None
  MayRestart = TRUE
  MayExpire = TRUE
  RedisMayFail = TRUE
SYMMETRY Symmetry
INVARIANTS
  TypeOK
  UnackedKept
  OnlyAddressed
PROPERTY AckedNotResent
