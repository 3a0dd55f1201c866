CONSTANTS
  Lanes = 4
  CtrBits = 8
  Lens <- MCLens
  MaxCalls = 4
  CallerLimit <- MCCallerLimit
  CallerAligned = TRUE

SPECIFICATION Spec

INVARIANT TypeOK
 
PROPERTY GcmStreamSpec

CHECK_DEADLOCK FALSE
