SPECIFICATION Spec
CONSTANTS
  p1 = p1
  p2 = p2
  Producers <- MCProducers
  MaxPushes = 3
CHECK_DEADLOCK FALSE
INVARIANTS
  TypeOK
  EachOnceInOrder
  NothingLost
  NoLostWakeup
  WorkerReady
PROPERTIES
  DataIsProcessed
  StopReturns
