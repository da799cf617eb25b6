SPECIFICATION QSpec
CONSTANTS
  MaxSize = 2
  MaxPuts = 3
  MaxNexts = 3
  MaxStarts = 2
  MaxStops = 2
  SettledStop = TRUE
INVARIANTS NoLostWakeup StopDrainsAtMostOne
PROPERTIES FifoSpec MessagesAreTaken StopReturns
