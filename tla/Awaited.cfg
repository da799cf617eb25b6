SPECIFICATION Spec
CONSTANTS
  Waits = {w1, w2}
  Events = {e1, e2}
  NoEvent = NoEvent
  w1 = w1
  w2 = w2
  e1 = e1
  e2 = e2
  Kinds = {"single", "nodes", "variables"}
  Want <- WantSome
  Need <- NeedSome
  Timed <- TimedSome
  Called <- CalledSome
  MaxChecks = 2
  MaxCancels = 1
INVARIANTS CalledOnce ResultIsHeard AnswersAreLostToOthers
PROPERTIES WaitsReturn
CHECK_DEADLOCK FALSE
