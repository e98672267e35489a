SPECIFICATION Spec
CONSTANTS
  relay = relay
  config = config
  pools = pools
  anyPath = anyPath
  Clients = {client}
  Paths = {relay, config, pools}
  Limited = {relay}
  Rest = anyPath
  Rate <- MCRate
  Burst <- MCBurst
  Unit = 2
  IdleTime = 4
  None = None
  MaxTime = 9
CHECK_DEADLOCK FALSE
INVARIANTS WindowBound
PROPERTIES ImplementsIdeal
