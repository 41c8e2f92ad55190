SPECIFICATION FairSpec
CONSTANTS
  Server = {s1, k1}
  Proxy = {p1, p2}
  Connector = {k1}
  Zero = Zero
  MaxFailures = 1
INVARIANTS
  TypeOK
  OneLinkEach
  NoneMissed
PROPERTIES
  AllLinked
ACTION_CONSTRAINT OneServer
CHECK_DEADLOCK FALSE
