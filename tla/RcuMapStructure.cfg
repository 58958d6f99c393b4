CONSTANTS
  Keys = {k1, k2}
  Values = {"v1", "v2", "v3"}
  Cells = {"c1", "c2", "c3"}
  Readers = {r1, r2}
  NULL = NULL
  Grace = 0
  MaxStall = 0
  MaxTime = 1
SPECIFICATION BoundedSpec
SYMMETRY Symmetric
CHECK_DEADLOCK FALSE
INVARIANTS
  MemoryLive
  MapsAgree
  OwnershipExact
PROPERTY LookupIsLinearizable
