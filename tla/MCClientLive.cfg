SPECIFICATION FairSpec
CONSTANTS
  c1 = c1
  c2 = c2
  Calls = {c1}
  Payments = {"pay", "prepare"}
  Incoming = {2}
  Needs = {5}
  Fee = 1
  Rounds = 2
  Serial = TRUE
  Warm = FALSE
  Paced = TRUE
  ReadFailures = FALSE
  MaxLeaves = 8
  Bounds <- Live
CHECK_DEADLOCK FALSE
PROPERTIES BalanceConverges CallsEnd
