\* A comparator that sorts with itself, under pcall.
CONSTANTS
  Compiled <- Compile  MeaningOf <- Meaning
  Sources <- SortingSources  Endless <- NoEndless
  MaxLocals = 12  MaxPool = 12  MaxCallDepth = 4  MaxDepth = 4
  ToolAnswers <- Tools
  GasLimits = {600}
  MemLimit = 1100  MaxEntries = 9  UsizeModulus = 0  MaxStringLen = 8
  Pieces <- SomePieces  IntMin <- Lowest
SPECIFICATION FairSpec
INVARIANTS DepthBounded
