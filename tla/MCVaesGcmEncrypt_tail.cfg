CONSTANTS
  Lanes = 4
  CtrBits = 8
  Lens <- MCLens
  MaxCalls = 4
  CallerLimit <- MCCallerLimit
  CallerAligned = FALSE

SPECIFICATION Spec

INVARIANT KeystreamNeverReused

CHECK_DEADLOCK FALSE
