---------------------------- MODULE MCShieldPool ----------------------------
EXTENDS ShieldPool

CONSTANTS admin, alice

\* alice brings some of every mint; admin can just pay the rent.
MCFunds == [x \in Parties |-> IF x = alice THEN 3 ELSE Rent]
TwoUnits == [x \in Parties |-> IF x = alice THEN 2 ELSE Rent]

NoTransferFee == [m \in Tokens |-> [bps |-> 0, max |-> 0]]

\* Half of it, rounded up, and two units at most.
HalfFee == [m \in Tokens |-> [bps |-> 5000, max |-> 2]]

PoolExtAmounts == {-2, -1, 0, 2}
ConfigExtAmounts == {-1, 1, 2}
=============================================================================
