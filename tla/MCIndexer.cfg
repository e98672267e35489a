SPECIFICATION FairSpec
CONSTANTS
  Mints = {sol, tok}
  Relays = {r1}
  None = None
  MaxTx = 3
  MaxCrashes = 1
  MaxErrors = 1
  NullAnswers = 1
CHECK_DEADLOCK FALSE
INVARIANTS StoreIsPrefix CursorIsSafe PollFindsNoGap
PROPERTIES EveryLeafIndexed
