SPECIFICATION Spec
CONSTANTS
  Connector = {k1, k2}
  Client = {c1}
  Worker = {w1}
  None = None
  MaxQueue = 3
INVARIANT ConnectedIsKnown
