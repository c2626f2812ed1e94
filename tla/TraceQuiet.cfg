CONSTANTS
  a = a
  b = b
  i = i
  abort = abort
  usage = usage
  bus = bus
  hard = hard
  NUL = NUL
  Size = 8
  Region = 11
  LogBuf = 4
  MainMsgs = {a, b}
  AbortMsg = abort
  IrqMsgs = {}
  FaultMsgs = {usage, bus}
  HardMsg = hard
  FmtLen <- Lengths
  Words <- StackWords
  WordLen = 2
  Margin = 3
SPECIFICATION Spec
INVARIANTS
  TypeOK
  TextUnbroken
  NoStaleAtBoot
  WordsWhole
PROPERTIES
  TextOnlyGrows
  IsTraceLog
