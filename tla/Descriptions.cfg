SPECIFICATION Spec
CONSTANTS
  NTargets = 2
  Ids = {0}
  Kinds <- MCKinds
  Shape <- MCShape
  Old <- MCOld
  Query = TRUE
  Timeout = TRUE
  OutMax = 1
INVARIANTS ConnectedComplete CallbacksBalance LastCallIsTrue
PROPERTY NodeLifecycle
