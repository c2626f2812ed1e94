CONSTANTS
  Width = 8
  M = 256
  Align = 4
  PoolBase = 16
  PoolSize = 24
  DdrBase = 64
  DdrSize = 38
  RegionEnd = 112
  SizeLists <- Lists
SPECIFICATION Spec
CHECK_DEADLOCK FALSE
INVARIANTS
  SpansInDdrPool
