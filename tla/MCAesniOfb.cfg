CONSTANTS
  Lens <- MCLens
  MaxCalls = 6
  MultiUpdate = TRUE
  Experimental = FALSE
  CallerAligned = TRUE

SPECIFICATION Spec

INVARIANT TypeOK
INVARIANT KeystreamContinuous

CHECK_DEADLOCK FALSE
