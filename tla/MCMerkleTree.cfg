SPECIFICATION Spec
CONSTANTS
  Height = 3
  RootHistorySize = 3
  Leaf = {a, b}
  NoRoot = NoRoot
INVARIANTS ProgramRoots AppendProofVerifies MirrorFollows
CHECK_DEADLOCK FALSE
