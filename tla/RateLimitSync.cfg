SPECIFICATION Spec
CONSTANTS
  Windows = {"w1", "w2"}
  Servers = {"s1", "s2"}
  Targets = {"t1", "t2"}
  NULL = NULL
  MaxConn = 5
  Setups <- SyncSetups
INVARIANTS
  ScheduledOnce
  WindowsSafe
