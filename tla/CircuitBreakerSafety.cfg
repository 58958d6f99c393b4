CONSTANTS
  Instances = {i1}
  Callers = {c1, c2}
  None = None
  RequestAfterHalfOpen = 2
  SuccessAfterHalfOpen = 1
  RatePercent = 50
  Setups <- SafetySetups
SPECIFICATION Spec
SYMMETRY CallerSymmetry
INVARIANTS BreakerFollowsChain RegistryIsCurrent
PROPERTIES RulesKept
