------------------------------- MODULE MCFees -------------------------------
(* Prices at the edges of the tolerance: 9 to 8 is an eighth. *)
EXTENDS Fees

CONSTANT tok

UsdPrices == [m \in Pools |-> IF m = SOL THEN {0, 100} ELSE {0, 7, 8, 9}]
ConfigValues == {[rate |-> 50, recipient |-> "a"], [rate |-> 3000, recipient |-> "a"],
                 [rate |-> 50, recipient |-> "b"]}
\* Around the flat fees, where the percentage is small and rounds.
TwoNotes == {90, 97, 98, 110, 139, 140, 150, 197, 240}
=============================================================================
