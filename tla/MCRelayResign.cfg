SPECIFICATION Spec
CONSTANTS
  r1 = r1
  r2 = r2
  n1 = n1
  n2 = n2
  Requests = {r1}
  NotesOf <- OneNote
  Validity = 1
  Attempts = 3
  Version = 1
CHECK_DEADLOCK FALSE
INVARIANTS ResignsOnlyExpired
