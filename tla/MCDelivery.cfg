SPECIFICATION Spec
CONSTANTS
  Connector = {k1, k2}
  Client = {c1}
  Worker = {w1}
  Msg = {1}
  None = None
  MaxQueue = 1
  MayRestart = TRUE
  MayExpire = TRUE
  RedisMayFail = FALSE
SYMMETRY Symmetry
INVARIANTS
  TypeOK
  OnlyReceivedSettled
  AnswersAccepted
  RedisMirrorsPresence
PROPERTIES
  ImplementsDbWorker
  ImplementsPresence
  ImplementsService
