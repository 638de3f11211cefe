SPECIFICATION ListenersSpec
CONSTANTS
  MaxTurns = 2
  MaxPrompts = 1
  MaxRequests = 2
  None = None
  Watcher = {w1}
  Polled = {p}
  Watched = {f}
  Faulty = {b}
  MaxInstances = 2
  MaxVersion = 2
  Gone = Gone
INVARIANTS InterruptedIsSilent WatchersFollowRows
PROPERTIES MicReopens ReportsAreNews ChangeIsReported
CHECK_DEADLOCK FALSE
