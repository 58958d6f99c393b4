CONSTANTS
  Keys = {k1}
  Values = {v1, v2}
  Cells = {c1, c2}
  Readers = {r1}
  NULL = NULL
  Grace = 2
  MaxStall = 1
  MaxTime = 4
SPECIFICATION Spec
SYMMETRY Symmetric
CHECK_DEADLOCK FALSE
INVARIANTS
  NoFreedValueRead
