CONSTANTS
  Width = 8
  M = 256
  PoolBase = 16
  PoolSize = 40
  Tops = {16, 18, 48}
  PtrSize = 4
  EValueSize = 16
  Methods <- AnyMethod
  Files <- AnyFiles
SPECIFICATION Spec
CHECK_DEADLOCK FALSE
INVARIANTS
  MismatchReported
