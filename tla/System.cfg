CONSTANTS
  NumInferences = 2
  TempPool = 3
  TempNeeds = {0, 3, 4}
  Jobs = 2
  Bundled = {TRUE, FALSE}
  PoolSize = 14
  Amounts = {0, 1}
  EtDump = {"off", "events", "outputs"}
  DebugSize = 4
  EventLens = {0, 2, 5}
SPECIFICATION SSpec
INVARIANTS
  TypeOK
  OnlyLoadedMethodRuns
  ScratchIsFresh
  CompletionIsOurs
  ReportIsTrue
  FiguresAddUp
  DumpFits
PROPERTIES
  IsSession
  SInferenceEnds
