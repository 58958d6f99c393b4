SPECIFICATION Spec
CONSTANTS
  NULL = NULL
  Setups <- TwoMessages
INVARIANT HandedMessagesLive
CHECK_DEADLOCK FALSE
