SPECIFICATION Spec
CONSTANTS
  c1 = c1
  c2 = c2
  Calls = {c1, c2}
  Callable <- Beside
  Parts = 2
  MaxCancels = 1
  MaxCloses = 1
INVARIANTS AnswerBeatsTimeout ResolvedOnce
PROPERTIES CoroutinesReturn
CHECK_DEADLOCK FALSE
