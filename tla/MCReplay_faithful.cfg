\* A host whose answers the tape can carry; the same program is replayed.
CONSTANTS
  c1 = c1  c2 = c2  t1 = t1  tKey = tKey  tInt = tInt  tDeep = tDeep
  b1 = b1  b5 = b5
  NoBytes = NoBytes  EmptyBytes = EmptyBytes  NoTable = NoTable
  Calls = {c1, c2}
  Tables = {t1, tKey, tInt, tDeep}
  Bytes = {b1, b5}
  Messages = {"", "denied"}
  ArgBytes <- MCArgBytes
  Canon <- MCCanon
  Decode <- MCDecode
  Size <- MCSize
  WorkCosts = {1}
  GasLimit = 7  MaxToolCalls = 2  MaxToolBytesIn = 1  MaxToolBytesOut = 1
  BaseInstruction = 1  ToolCallBase = 1  PcallUnwind = 1
  HostAnswers <- FaithfulAnswers
  Strictness = {TRUE, FALSE}
  Changes = {FALSE}
  LegacyTapes = {FALSE}
  MaxRuns = 1
SPECIFICATION FairSpec
PROPERTIES ImplementsPlayback
CHECK_DEADLOCK FALSE
