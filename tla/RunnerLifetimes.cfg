CONSTANTS
  NumInferences = 2
  TempPool = 3
  TempNeeds = {0, 3, 4}
  Jobs = 2
  Bundled = {TRUE, FALSE}
SPECIFICATION Spec
INVARIANTS
  MethodOutlived
