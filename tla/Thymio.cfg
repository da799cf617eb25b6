SPECIFICATION Spec
CONSTANTS
  Layout <- Small
  Config <- Averaged
  Functions <- Sounds
  NodeIds = {1, 32767, 32768, 65535}
  Values = {0, 20000}
  Start = 5
  Prox = "prox"
  Comm = "prox.comm"
  Rx = "rx"
  MaxSenses = 2
  MaxEvents = 4
  MaxStarts = 1
  MaxUpdates = 1
  MaxRecords = 1
INVARIANTS ReadsTheAverage CallsReach RoundIsWhole
PROPERTIES ProxShowsItsRound ChangesKeepAgreement
CHECK_DEADLOCK FALSE
