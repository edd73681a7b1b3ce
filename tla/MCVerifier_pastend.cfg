\* The code the compiler emits for a function that ends with an early return.
CONSTANTS
  Codes <- EarlyReturn
  ConstLen = 1  ProtoCount = 1  UpvalueCount = 1
  MaxStackDepth = 4
SPECIFICATION Spec
INVARIANT LandingPastEndIsOk
CHECK_DEADLOCK FALSE
