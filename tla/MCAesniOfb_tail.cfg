CONSTANTS
  Lens <- MCLens
  MaxCalls = 6
  MultiUpdate = TRUE
  Experimental = FALSE
  CallerAligned = TRUE

SPECIFICATION Spec

INVARIANT OutputIsKeystreamXor


CHECK_DEADLOCK FALSE
