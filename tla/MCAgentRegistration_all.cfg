SPECIFICATION FairSpec
CONSTANTS
  a1 = a1
  p1 = p1
  p2 = p2
  None = None
  Agent = {a1}
  Pod = {p1, p2}
  AgentOf <- MCAgentOf
  Call = {q1, q2}
  Circumstances = {{"deletion"}, {"faults"}}
  MaxKey = 3
  MaxManifests = 2
  MaxRequests = 2
INVARIANTS
  ServerKnowsFirst
  RestartSafe
PROPERTIES
  LockedOutForGood
  RegistrationCompletes
  CleanUpCompletes
\* Every manifest is applied, every pod has settled: the system may stop.
CHECK_DEADLOCK FALSE
