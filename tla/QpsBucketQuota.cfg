SPECIFICATION Spec
CONSTANTS
  Callers = {c1, c2}
  Setups <- PassSetups
SYMMETRY CallerSymmetry
INVARIANTS
  GrantedWithinLimit
  UsageExact
CHECK_DEADLOCK FALSE
