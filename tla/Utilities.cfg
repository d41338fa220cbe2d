SPECIFICATION Spec
CONSTANTS
  Threads = {t1, t2, t3}
  NoThread = NoThread
  Samples <- MCSamples
  SpeedThreshold = 3
  Elapsed = {0, 1, 2}
  EventUsers = {u1, u2, u3}
  DataUsers = {d1, d2, d3}
  DataValues = {v1, v2}
  NoData = NoData
  CarefulMove = TRUE
  FileValues <- MCFileValues
  DefaultValue <- MCDefault
  FileClasses = {"persistent", "value", "json"}
  MaxFile = 4
  NoFile = NoFile
CHECK_DEADLOCK FALSE
INVARIANTS
  TypeOK
  OwnerIsRight
  CallbacksAreTrue
  FilesAreSafe
PROPERTIES
  WaitsEnd
