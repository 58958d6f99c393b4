SPECIFICATION FairSpec
CONSTANTS
  Users = {"u1", "u2"}
  Revisions = {"r1", "r2"}
  NULL = NULL
  Setups <- AllSetups
INVARIANTS
  HandlersSafe
  HandlersMatch
PROPERTIES
  AskersAreServed
