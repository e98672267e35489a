SPECIFICATION FairSpec
CONSTANTS
  r1 = r1
  r2 = r2
  n1 = n1
  n2 = n2
  Requests = {r1, r2}
  NotesOf <- MCNotesOf
  Validity = 1
  Attempts = 2
  Version = 1
CHECK_DEADLOCK FALSE
INVARIANTS NeverTwoLive OneAnswerPerNote
PROPERTIES ImplementsContract EveryRequestEnds
