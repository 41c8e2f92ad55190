SPECIFICATION FairSpec
CONSTANTS
  Key = {k1, k2, k3}
  First = First
  MaxEarly = 2
  MaxInFlight = 5
INVARIANTS
  TypeOK
  ClientUnderstands
  AcksUnderstood
  LoginOnce
PROPERTY LoginAnswered
