SPECIFICATION Spec
CONSTANTS
  q1 = q1
  q2 = q2
  u1 = u1
  u2 = u2
  Owner = Owner
  User = {u1, u2}
  Few = {Owner, u1}
  Request = {q1, q2}
  Circumstances = {{}, {"faults"}, {"faults", "others"},
                   {"overlap", "faults"}, {"overlap", "faults", "others"}}
SYMMETRY Interchangeable
INVARIANTS
  TypeOK
  OwnerStays
  ProjectFollowsOwner
PROPERTIES
  ImplementsInvitations
