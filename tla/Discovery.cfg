SPECIFICATION DSpec
CONSTANTS
  NTargets = 1
  Ids = {0}
  Kinds <- MCKinds
  KindOrder <- MCKindOrder
  Shape <- MCShape
  Devices <- MCDevices
  Old = {}
  Query = TRUE
  Timeout = TRUE
  OutMax = 3
  InboxMax = 3
  Lossy = FALSE
  TxMax = 1
  MaxConnects = 1
INVARIANTS WellAssembled
PROPERTIES Discovered ClosedIsLeft
