SPECIFICATION Spec
CONSTANTS
  c1 = c1
  c2 = c2
  Calls = {c1, c2}
  Payments = {"pay", "prepare"}
  Incoming = {2}
  Needs = {2, 5}
  Fee = 1
  Rounds = 2
  Serial = TRUE
  Warm = FALSE
  Paced = TRUE
  ReadFailures = FALSE
  MaxLeaves = 8
  Bounds <- OneByOne
CHECK_DEADLOCK FALSE
SYMMETRY CallSymmetry
INVARIANTS ReservedExclusive ReservedIsHeld NotesOK NothingLost MarksAreRechecked PaysWithLiveNotes
