SPECIFICATION Spec
CONSTANTS
  None = None
  Run = {r1}
  Circumstances = {{"requests"}}
  StreamCap = 2
  MaxWatch = 2
  MaxRestarts = 1
INVARIANTS
  SyncIsAnswered
\* Every run is over and reported: the system may stop.
CHECK_DEADLOCK FALSE
