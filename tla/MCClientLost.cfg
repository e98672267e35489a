SPECIFICATION Spec
CONSTANTS
  c1 = c1
  c2 = c2
  Calls = {c1}
  Payments = {"pay"}
  Incoming = {2}
  Needs = {2}
  Fee = 1
  Rounds = 2
  Serial = TRUE
  Warm = FALSE
  Paced = FALSE
  ReadFailures = TRUE
  MaxLeaves = 4
  Bounds <- OneError
CHECK_DEADLOCK FALSE
INVARIANTS NothingLost
