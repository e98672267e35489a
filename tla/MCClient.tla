------------------------------ MODULE MCClient ------------------------------
(* The client's instances: what each allows to happen how often. *)
EXTENDS Client, TLC

CONSTANTS c1, c2

Often(pays, errors, others, drops, unlocks, again) ==
  [h \in Happens |-> CASE h = "pays" -> pays [] h = "errors" -> errors
                       [] h = "others" -> others [] h = "drops" -> drops
                       [] h = "unlocks" -> unlocks [] OTHER -> again]

OneByOne == Often(2, 1, 1, 1, 0, 0)
Live == Often(1, 1, 1, 1, 1, 1)
Shared == Often(1, 1, 0, 0, 0, 1)
Overlap == Often(2, 0, 0, 0, 0, 0)
OneError == Often(0, 1, 0, 0, 0, 0)
OneDrop == Often(1, 0, 0, 1, 0, 0)
OneUnlock == Often(1, 0, 0, 0, 1, 0)
OneAgain == Often(2, 0, 0, 0, 0, 1)

\* Calls differ in nothing.
CallSymmetry == Permutations({c1, c2})
=============================================================================
