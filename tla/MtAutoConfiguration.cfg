SPECIFICATION Spec
CONSTANTS
  u1 = u1
  u2 = u2
  Users <- MCUsers
  NoOne = NoOne
  Loop = Loop
  UsersLeaveBeforeStop = FALSE
INVARIANTS
  TypeOK
  LockExcludesLoop
  OkMeansConfigured
  ConfigureOnClean
  NoNullHeartbeat
  AtMostOneLateAttempt
  FunctionsExclusive
  StoppedIsClean
PROPERTIES
  StopReturns
  Reconfigures
  HeartbeatsComeRound
