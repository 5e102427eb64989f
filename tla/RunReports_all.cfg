SPECIFICATION FairSpec
CONSTANTS
  None = None
  Run = {r1}
  Circumstances = {{}, {"requests", "loss"}}
  StreamCap = 1
  MaxWatch = 2
  MaxRestarts = 1
PROPERTIES
  FailureIsKept
  FinishedIsRecorded
\* Every run is over and reported: the system may stop.
CHECK_DEADLOCK FALSE
