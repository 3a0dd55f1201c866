CONSTANTS
  p1 = p1
  p2 = p2
  Objs <- MCObjs
  Features <- MCFeatures
SPECIFICATION Spec
INVARIANT NoNullDeref
