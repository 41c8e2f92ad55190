SPECIFICATION FairSpec
CONSTANTS
  Server = {k1}
  Proxy = {p1}
  Connector = {k1}
  Zero = Zero
  MaxFailures = 0
PROPERTIES
  ServersHearOfProxies
CHECK_DEADLOCK FALSE
