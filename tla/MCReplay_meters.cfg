\* Any host; the Vm may execute twice before the replay.
CONSTANTS
  c1 = c1  c2 = c2  t1 = t1  tKey = tKey  tInt = tInt  tDeep = tDeep
  b1 = b1  b5 = b5
  NoBytes = NoBytes  EmptyBytes = EmptyBytes  NoTable = NoTable
  Calls = {c1, c2}
  Tables = {t1, tKey, tInt, tDeep}
  Bytes = {b1, b5}
  Messages = {"", "denied"}
  ArgBytes <- MCArgBytes
  Canon <- MCCanon
  Decode <- MCDecode
  Size <- MCSize
  WorkCosts = {0}
  GasLimit = 6  MaxToolCalls = 2  MaxToolBytesIn = 1  MaxToolBytesOut = 1
  BaseInstruction = 1  ToolCallBase = 1  PcallUnwind = 1
  HostAnswers <- AllAnswers
  Strictness = {TRUE}
  Changes = {FALSE}
  LegacyTapes = {FALSE}
  MaxRuns = 2
SPECIFICATION Spec
INVARIANTS CallsAccounted ServedIsPaid RunIsBounded
CHECK_DEADLOCK FALSE
