SPECIFICATION Spec
CONSTANTS
  Keys = {k1, k2}
  Values = {v1, v2}
  MaxLag = 3
INVARIANTS
  CacheMirrorsTree ClosedIsDurable
