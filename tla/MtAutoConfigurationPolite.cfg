SPECIFICATION Spec
CONSTANTS
  u1 = u1
  u2 = u2
  Users <- MCUsers
  NoOne = NoOne
  Loop = Loop
  UsersLeaveBeforeStop = TRUE
INVARIANTS
  NoRepeatedReport
  ResourceStable
