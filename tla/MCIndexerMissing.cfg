SPECIFICATION Spec
CONSTANTS
  Mints = {sol}
  Relays = {r1}
  None = None
  MaxTx = 2
  MaxCrashes = 0
  MaxErrors = 0
  NullAnswers = 0
INVARIANTS
  MissingMeansNoHistory
CHECK_DEADLOCK FALSE
