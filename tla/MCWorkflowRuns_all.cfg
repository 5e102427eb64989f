SPECIFICATION Spec
CONSTANTS
  h1 = h1
  h2 = h2
  u1 = u1
  u2 = u2
  Run = {r1, r2}
  Handler = {h1, h2}
  User = {u1, u2}
  Overlap = {TRUE, FALSE}
  MaxEntries = 3
  MaxStarted = 1
SYMMETRY Interchangeable
INVARIANTS
  CompletedForAReason
PROPERTIES
  ReportsKeepCompleted
  ImplementsLedger
