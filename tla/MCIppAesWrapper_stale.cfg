CONSTANTS
  mCBC = mCBC
  mXTS = mXTS
  iv1 = iv1
  iv2 = iv2
  blk1 = blk1
  blk2 = blk2
  Modes <- MCModes
  Ivs <- MCIvs
  Blocks <- MCBlocks
  EncCanFail = TRUE
  ReqCanFail = TRUE
  CcmReinit = FALSE
SPECIFICATION Spec
INVARIANT CallSeesOwnParams
