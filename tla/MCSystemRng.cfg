CONSTANTS
  t1 = t1
  t2 = t2
  Threads <- MCThreads
  Lengths <- MCLengths
  SizeBits = 3
  Tries = 10
  CanFail = TRUE
  Engines = {"devrandom", "getrandom", "cryptgenrandom"}
SPECIFICATION Spec
INVARIANT TypeOK
INVARIANT SuccessFillsBuffer
PROPERTY EveryCallReturns
