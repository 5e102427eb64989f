SPECIFICATION FairSpec
CONSTANTS
  None = None
  File = {f1}
  Circumstances = {{"race"}}
  MaxEdits = 4
  MaxCrashes = 0
PROPERTIES
  PickedUp
\* GitOps is never enabled, or disabled at the end: nothing is left to do.
CHECK_DEADLOCK FALSE
