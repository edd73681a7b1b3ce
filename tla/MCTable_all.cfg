\* Every operation on a table, and loops over it, up to the limits of entries, gas and memory.
CONSTANTS
  Pieces <- Letters
  MaxStringLen = 9
  Keys <- SomeKeys
  Values <- OneTwo
  Operations <- Everything
  MaxEntries = 3  UsizeModulus = 0
  IntMin <- Lowest
  GasLimit = 22
  MemLimit = 250
SPECIFICATION FairSpec
INVARIANTS TypeOK LayoutFollowsContents HashIsCovered LimitStops EachKeyOnce
PROPERTIES ImplementsContents StoresArePaid LoopIsComplete LoopEnds
CHECK_DEADLOCK FALSE
