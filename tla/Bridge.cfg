SPECIFICATION BSpec
CONSTANTS
  Peers = {p1, p2, p3}
  Bridges = {"callbacks", "sync", "async"}
  None = None
  MaxSize = 2
  MaxMessages = 2
INVARIANT ForwardsInOrder
PROPERTY CallbacksForward
CHECK_DEADLOCK FALSE
