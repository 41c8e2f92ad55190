SPECIFICATION FairSpec
CONSTANTS
  Connector = {k1, k2}
  Client = {c1, c2}
  Worker = {w1}
  None = None
  MaxQueue = 2
INVARIANTS
  TypeOK
  NoStaleOnline
PROPERTIES
  StaleOnlineCleared
