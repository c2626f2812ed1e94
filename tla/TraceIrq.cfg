CONSTANTS
  a = a
  b = b
  i = i
  abort = abort
  usage = usage
  bus = bus
  hard = hard
  NUL = NUL
  Size = 6
  Region = 9
  LogBuf = 4
  MainMsgs = {b}
  AbortMsg = abort
  IrqMsgs = {i}
  FaultMsgs = {usage}
  HardMsg = hard
  FmtLen <- Lengths
  Words <- StackWords
  WordLen = 2
  Margin = 3
SPECIFICATION Spec
INVARIANTS
  StoresInRegion
  EndsAtIndex
