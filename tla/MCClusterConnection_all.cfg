SPECIFICATION FairSpec
CONSTANTS
  c1 = c1
  k1 = k1
  k2 = k2
  None = None
  Cluster = {c1}
  Conn = {k1, k2}
  ClusterOf <- MCClusterOf
  Observer = {o1}
  Caller = {r1}
INVARIANTS
  TypeOK
  EntryHasCleanUp
  SendsToTheEntry
PROPERTIES
  ConnectedAgentKeepsEntry
  FrozenUntilRestart
  LiveSendEnds
  MutexReleased
  DeadEntryRemoved
