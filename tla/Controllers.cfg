SPECIFICATION Spec
CONSTANTS
  Programs = {"controller_sync", "controller_async", "wait_sync", "wait_async", "callbacks_sync", "callbacks_async", "behavior", "shell", "event_sync", "event_async", "script_sync", "script_async", "variables_sync", "variables_async"}
  QueueMax = 2
  MaxMoves = 2
  MaxCommands = 3
INVARIANT StandsAtTheEnd
PROPERTY StopsAtObstacle
CHECK_DEADLOCK FALSE
