SPECIFICATION Spec
CONSTANTS
  Mints = {sol}
  Relays = {r1}
  None = None
  MaxTx = 2
  MaxCrashes = 0
  MaxErrors = 0
  NullAnswers = 1
INVARIANTS
  AnsweredIsIndexed
CHECK_DEADLOCK FALSE
