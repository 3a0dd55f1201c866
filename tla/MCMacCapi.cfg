CONSTANTS
  h1 = h1
  h2 = h2
  c = c
  Handles <- MCHandles
  Client = c
  KeyOk = {TRUE}
  ClientKeys = {TRUE, FALSE}
  MaxObjs = 3
SPECIFICATION SysSpec
INVARIANT ClientTypeOK
INVARIANT ExclusiveOwnership
INVARIANT ReturnedHoldings
PROPERTY AppsMacHandleSpec
