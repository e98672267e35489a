------------------------------ MODULE RootRing ------------------------------
(***************************************************************************)
(* The ring of recent roots kept in a MerkleTreeAccount: `root_index` is   *)
(* the slot of the newest root and `root_history` the slots.               *)
(*                                                                         *)
(* A tree account is any record with these two fields.  What a root is is  *)
(* left to the module that uses the ring: MerkleTree stores hashes,        *)
(* ShieldPool stores the number of leaves the root commits to.  NoRoot is  *)
(* the 32 zero bytes an unwritten slot holds.                              *)
(***************************************************************************)
EXTENDS Integers

CONSTANTS RootHistorySize, NoRoot

ASSUME RingAssumption == RootHistorySize \in Nat \ {0}

Slots == 0 .. RootHistorySize - 1

\* The account is zeroed when it is created; initialize writes slot 0 only.
EmptyRing(root) == [i \in Slots |-> IF i = 0 THEN root ELSE NoRoot]

\* The slot after root_index, where the next root goes.
NextSlot(t) == (t.root_index + 1) % RootHistorySize

\* The end of MerkleTree::append: advance root_index round the ring and
\* overwrite the slot it lands on.
PushRoot(t, root) ==
  [t EXCEPT !.root_index = NextSlot(t),
            !.root_history = [@ EXCEPT ![NextSlot(t)] = root]]

\* Mutant: the search stops at slot 0 where it should wrap.
VisitedNoWrap(t, k) == IF k <= t.root_index THEN t.root_index - k ELSE 0

\* The slot the search of is_known_root looks at after k steps: it starts at
\* root_index, moves down, and wraps from slot 0 to the last one.
Visited(t, k) ==
  IF k <= t.root_index THEN t.root_index - k
                       ELSE t.root_index + RootHistorySize - k

\* The search ends when it is back at root_index, after RootHistorySize
\* slots.  All-zero bytes are never a root.
IsKnownRoot(t, root) ==
  /\ root # NoRoot
  /\ \E k \in 0 .. RootHistorySize - 1 : t.root_history[Visited(t, k)] = root
=============================================================================
