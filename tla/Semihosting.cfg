CONSTANTS
  Width = 8
  M = 256
  PoolBase = 16
  PoolSize = 40
  Tops = {16, 18, 48}
  PtrSize = 4
  EValueSize = 16
  Methods <- AnyMethod
  Files <- AnyFiles
  ArgvLists <- CommandLines
  Disks <- SomeDisks
  FileBase = 100
  FileSize = 14
SPECIFICATION FSpec
CHECK_DEADLOCK FALSE
INVARIANTS
  OnesWhenNoFiles
  FilesMatch
  LastMismatchReported
  FilesAsNamed
