SPECIFICATION Spec
CONSTANTS
  Vars = {"speed", "target"}
  Mirrored = {"speed"}
  Synced = {"target"}
  Written = {"target"}
  Lists = {"target"}
  Values = {0, 1}
  None = None
  Empty = Empty
  Whole = Whole
  Program <- Sequential
  Controller = FALSE
  RecordsPrev = TRUE
  Timeouts = TRUE
  MaxOps = 4
  MaxEvents = 1
INVARIANTS Agreement MirrorsFollow
PROPERTIES SureIsForwarded
CHECK_DEADLOCK FALSE
