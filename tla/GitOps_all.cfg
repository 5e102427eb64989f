SPECIFICATION FairSpec
CONSTANTS
  None = None
  File = {f1, f2}
  Circumstances = {{}, {"race", "overlap", "conflict", "duplicate", "reuse", "fault", "push", "disable"}, {"overlap", "conflict", "fault", "push", "crash", "disable"}, {"race", "push", "crash"}}
  MaxEdits = 4
  MaxCrashes = 1
INVARIANTS
  TypeOK
  InStep
  StoredBeforeAnswered
PROPERTIES
  ForwardOnly
  CatchesUp
\* GitOps is never enabled, or disabled at the end: nothing is left to do.
CHECK_DEADLOCK FALSE
