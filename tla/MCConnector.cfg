SPECIFICATION Spec
CONSTANTS
  Fd = {1, 2, 3}
  ClientId = {c1, c2}
  Msg = {m1, m2}
  NoId = NoId
  Closed = Closed
  Timeout = 2
SYMMETRY Symmetry
INVARIANTS
  TypeOK
  PlayerBound
  NoMisdelivery
  AckReachable
  OnlineReachable
  SilenceBounded
PROPERTY SessionPromise
