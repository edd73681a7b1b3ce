\* Every body in every context, with gas for part of it, most and all of it.
CONSTANTS
  Compiled <- Compile  MeaningOf <- Meaning
  Sources <- MCSources  Endless <- EndlessNames
  MaxLocals = 12  MaxPool = 12  MaxCallDepth = 4  MaxDepth = 4
  ToolAnswers <- Tools
  GasLimits = {60, 150, 600}
  MemLimit = 1100  MaxEntries = 9  UsizeModulus = 0  MaxStringLen = 8
  Pieces <- SomePieces  IntMin <- Lowest
SPECIFICATION FairSpec
INVARIANTS ProgramVerified TypeOK SameMeaning LimitsOnlyCut DepthsAsVerified DepthLimited
PROPERTIES PcallReturns RunEnds
