SPECIFICATION Spec
CONSTANTS
  n1 = n1
  n2 = n2
  own1 = own1
  own2 = own2
  shared1 = shared1
  None = None
  Nodes = {n1, n2}
  Async = {n2}
  Clients = {own1, own2, shared1}
  Own <- OwnOf
  Asks <- OwnAsks
  Remotes <- Together
  MaxConnects = 2
  MaxDrops = 1
INVARIANTS MirroringIsTrue  OwnClientCloses
CHECK_DEADLOCK FALSE
