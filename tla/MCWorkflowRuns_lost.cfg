SPECIFICATION Spec
CONSTANTS
  h1 = h1
  h2 = h2
  u1 = u1
  u2 = u2
  Run = {r1, r2}
  Handler = {h1}
  User = {u1}
  Overlap = {TRUE}
  MaxEntries = 3
  MaxStarted = 2
INVARIANTS
  AcceptedIsRecorded
