CONSTANTS
  Keys = {k1, k2}
  Values = {v1, v2, v3}
  Cells = {c1, c2}
  Readers = {r1}
  NULL = NULL
  ExpireTime = 1
  Setups <- PassSetups
SPECIFICATION Spec
SYMMETRY Symmetric
CHECK_DEADLOCK FALSE
INVARIANTS
  LookupsSafe
  MapsAgree
