SPECIFICATION HeadersSpec
CONSTANTS
  Width = 6
  M = 64
  Base = 16
  PoolSize = 20
  Sizes = {0, 3, 4, 50, 63}
  Aligns = {0, 3, 4, 8}
  Counts = {2, 9}
  MaxBlocks = 3
  Shapes <- MCShapes
  Strides <- MCStrides
  MaxOps = 3
  MaxOperands = 3
  Instruction = {i1, i2}
  Unset = Unset
  MaxEntries = 2
  MaxDepth = 3
  Key = {"a", "b"}
  Maps <- MCMaps
  Place = {p1, p2, p3}
  MaxLoads = 2
INVARIANTS
  TypeOK
  BlocksInPool
  BlocksDisjoint
  UsedBrackets
  LayoutBijective
  IndexingAgrees
  ChecksAgree
  PromotionIsJoin
  SwitchesHandle
  EventsAttributed
  EntriesPaired
  FreedOnce
  MergedFinds
PROPERTIES
  IsArena
  ElementsKept
SYMMETRY Interchangeable
CHECK_DEADLOCK FALSE
