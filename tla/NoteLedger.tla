----------------------------- MODULE NoteLedger -----------------------------
(***************************************************************************)
(* What a shielded pool promises, without trees, proofs or nullifiers: a   *)
(* pot of each mint and the notes it owes.  A payment takes at most two    *)
(* unspent notes, never the same one again, issues two new ones, and moves *)
(* the difference into or out of the pot.                                  *)
(***************************************************************************)
EXTENDS Integers, FiniteSets, Functions

CONSTANTS Mints, Amounts

VARIABLES
  issued,    \* how many notes of each mint have been issued
  unspent,   \* the notes owed: [id, amount]
  pot        \* what backs them

Worth(ns) == SumFunction([n \in ns |-> n.amount])

Init ==
  /\ issued = [m \in Mints |-> 0]
  /\ unspent = [m \in Mints |-> {}]
  /\ pot = [m \in Mints |-> 0]

Pay(m) ==
  \E spent \in SUBSET unspent[m], c, d \in Amounts :
    LET new == {[id |-> issued[m], amount |-> c], [id |-> issued[m] + 1, amount |-> d]}
    IN /\ Cardinality(spent) <= 2
       /\ issued' = [issued EXCEPT ![m] = @ + 2]
       /\ unspent' = [unspent EXCEPT ![m] = (@ \ spent) \cup new]
       /\ pot' = [pot EXCEPT ![m] = @ + Worth(new) - Worth(spent)]
       /\ pot'[m] >= 0

Spec == Init /\ [][\E m \in Mints : Pay(m)]_<<issued, unspent, pot>>
=============================================================================
