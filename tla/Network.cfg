SPECIFICATION Spec
CONSTANTS
  Clients = {c1, c2}
  Async = {c2}
  Styles = {"event", "function", "variable"}
  Modes = {"start", "spin_async"}
  None = None
PROPERTIES EveryOpenIsSettled BallComesBack
CHECK_DEADLOCK FALSE
