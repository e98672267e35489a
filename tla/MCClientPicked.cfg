SPECIFICATION Spec
CONSTANTS
  c1 = c1
  c2 = c2
  Calls = {c1, c2}
  Payments = {"pay"}
  Incoming = {2}
  Needs = {2}
  Fee = 1
  Rounds = 2
  Serial = FALSE
  Warm = TRUE
  Paced = FALSE
  ReadFailures = FALSE
  MaxLeaves = 6
  Bounds <- Overlap
CHECK_DEADLOCK FALSE
INVARIANTS ReservedExclusive
