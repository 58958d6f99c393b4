SPECIFICATION AllSpec
CONSTANTS
  NULL = NULL
  MaxWindows = 3
  BalancerSetups <- MCBalancerSetups
  QuotaSetups <- MCQuotaSetups
  SetSetups <- MCSetSetups
  MonitorSetups <- MCMonitorSetups
INVARIANTS
  CacheIsFresh
  PrefersHealthy
  HalfOpenBudget
  ChoicesFair
  TreeSound
  SlowStartKept
  WindowCacheSound
  OneLoop
  
  OneTimerPerReport
  CallbacksSafe
  DecodedAsSent
PROPERTIES
  RecoveryTakesItsTime
  ClosedIsSilent
CHECK_DEADLOCK FALSE
