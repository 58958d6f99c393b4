SPECIFICATION DiscoverySpec
CONSTANTS
  Services = {"d", "a"}
  Revisions = {"r1", "r2"}
  NULL = NULL
  Setups <- AllSetups
INVARIANTS
  ListenersServed
  WatcherSound
  RequestsSound
PROPERTIES
  ServerSwitches
  ConnectorConverges
  CalledOnce
CHECK_DEADLOCK FALSE
