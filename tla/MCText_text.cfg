\* Short texts over each small alphabet, trees, values and JSON texts.
CONSTANTS
  Pieces <- SomePieces  IntMin <- Lowest  MaxStringLen = 12
  SourceTexts <- MCSourceTexts  Separators <- MCSeparators
  TokenTexts <- MCTokenTexts  Trees <- MCTrees
  MaxEntries = 9  UsizeModulus = 0  MemLimit = 400  MaxTableDepth = 2
  Numerals <- MCNumerals  OtherNumbers <- Beyond  HighBytes <- High
  WideLow <- Wide  Surrogates = {"d861"}
  SentValues <- MCSent  WireTexts <- MCWire
  WireGas = {9, 40}  WireMemory = {0, 260}
SPECIFICATION FairSpec
INVARIANTS LinesAreRight BlanksAreFree TreesSurvive NothingIsLost RoundTrip DecodersAgree DecodeIsPaid
PROPERTIES TextEnds
