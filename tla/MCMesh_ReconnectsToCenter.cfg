SPECIFICATION FairSpec
CONSTANTS
  Server = {s1}
  Proxy = {p1}
  Connector = {}
  Zero = Zero
  MaxFailures = 1
PROPERTIES
  ReconnectsToCenter
CHECK_DEADLOCK FALSE
