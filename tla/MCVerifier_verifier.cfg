\* Every code of up to three instructions, and of five that branch and iterate.
CONSTANTS
  Codes <- AllCodes
  ConstLen = 1  ProtoCount = 1  UpvalueCount = 1
  MaxStackDepth = 3
SPECIFICATION FairSpec
INVARIANTS TypeOK AcceptedIsSafe RejectionIsReal
PROPERTIES VerifyEnds
CHECK_DEADLOCK FALSE
