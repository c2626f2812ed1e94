CONSTANTS
  Width = 6
  M = 64
  Base = 16
  PoolSize = 20
  Sizes = {4, 8}
  Aligns = {4, 8}
  Counts = {2, 9}
  MaxBlocks = 3
SPECIFICATION Spec
INVARIANTS
  UsedInSync
