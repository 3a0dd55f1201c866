CONSTANTS
  d1 = d1
  d2 = d2
  Ctxs <- MCCtxs
  Lens <- MCLens
  MaxChunks = 11
SPECIFICATION Spec
INVARIANT TypeOK
INVARIANT HashIsSequential
CHECK_DEADLOCK FALSE
