----------------------------- MODULE MerkleTree -----------------------------
(***************************************************************************)
(* The two implementations of the pool's Merkle tree, side by side:        *)
(*                                                                         *)
(*  - the program's, merkle_tree.rs, which keeps one filled subtree per    *)
(*    level, the current root and a ring of recent roots;                  *)
(*  - the mirror the SDK and the relayer keep, sdk/src/merkle.ts, which    *)
(*    stores every layer and recomputes only what an insertion touches.    *)
(*                                                                         *)
(* The program appends; the mirror learns of the leaves later, one at a    *)
(* time (insert) or several at once (bulkInsert).  Both must agree with    *)
(* the definition of a Merkle root over the leaves padded with zeros, and  *)
(* a path the mirror hands out must satisfy the circuit's MerkleProof      *)
(* against a root the program still knows.                                 *)
(*                                                                         *)
(* Poseidon is modelled as the collision-free pairing <<left, right>>, and *)
(* NoRoot, the 32 zero bytes of RootRing, is also the zero leaf.           *)
(***************************************************************************)
EXTENDS RootRing, Integers, Sequences, SequencesExt

CONSTANTS
  Height,   \* levels of the tree: MERKLE_TREE_HEIGHT, TREE_LEVELS
  Leaf      \* the commitments that may be appended

ASSUME HeightAssumption == Height \in Nat \ {0}
ASSUME LeafAssumption == NoRoot \notin Leaf

VARIABLES
  tree,     \* the MerkleTreeAccount
  proof,    \* what the last append returned: [leaf, index, path]
  mirror,   \* the layers of merkle.ts: level -> sequence of nodes
  leaves    \* history: every leaf the program appended

vars == <<tree, proof, mirror, leaves>>

Levels == 0 .. Height - 1

\* How many leaves are below a node of each level.
PowerOf2[level \in 0 .. Height] ==
  IF level = 0 THEN 1 ELSE 2 * PowerOf2[level - 1]

Capacity == PowerOf2[Height]

Hash(left, right) == <<left, right>>

\* H::zero_bytes(): the root of an all-zero subtree of each height.
Zeros[level \in 0 .. Height] ==
  IF level = 0 THEN NoRoot ELSE Hash(Zeros[level - 1], Zeros[level - 1])

-----------------------------------------------------------------------------
(* merkle_tree.rs *)

InitialTree ==
  [next_index |-> 0,
   subtrees |-> [i \in Levels |-> Zeros[i]],
   root |-> Zeros[Height],
   root_index |-> 0,
   root_history |-> EmptyRing(Zeros[Height])]

\* The index of the node above leaf `index` at a level (current_index).
Above(index, level) == index \div PowerOf2[level]

IsLeft(index, level) == Above(index, level) % 2 = 0

\* current_level_hash on its way up: a left child is paired with the zero
\* subtree, a right one with the filled subtree stored on its level.
Climb(t, leaf) ==
  LET node[level \in 0 .. Height] ==
        IF level = 0 THEN leaf
        ELSE IF IsLeft(t.next_index, level - 1)
             THEN Hash(node[level - 1], Zeros[level - 1])
             ELSE Hash(t.subtrees[level - 1], node[level - 1])
  IN node

\* Mutant: zero subtree and filled subtree exchanged.
SiblingsExchanged(t) ==
  [level \in Levels |-> IF IsLeft(t.next_index, level) THEN t.subtrees[level]
                                                       ELSE Zeros[level]]

\* The proof append returns: the other operand on each level.
Siblings(t) ==
  [level \in Levels |-> IF IsLeft(t.next_index, level) THEN Zeros[level]
                                                       ELSE t.subtrees[level]]

\* Only a left child becomes the filled subtree of its level.
Filled(t, leaf) ==
  [level \in Levels |-> IF IsLeft(t.next_index, level) THEN Climb(t, leaf)[level]
                                                       ELSE t.subtrees[level]]

Appended(t, leaf) ==
  LET root == Climb(t, leaf)[Height]
  IN PushRoot([t EXCEPT !.subtrees = Filled(t, leaf),
                        !.root = root,
                        !.next_index = @ + 1], root)

-----------------------------------------------------------------------------
(* merkle.ts; layers are 1-based sequences here *)

\* How many nodes cover n nodes of the layer below: ceil(n / 2).
HalfUp(n) == (n + 1) \div 2

\* Mutant: the first node to recompute is taken one too far to the right.
RebuildShort(layers, from) ==
  LET new[level \in 0 .. Height] ==
        IF level = 0 THEN layers[0]
        ELSE LET below == new[level - 1]
                 start == HalfUp(Above(from, level - 1))
                 right(i) == IF 2 * i <= Len(below) THEN below[2 * i] ELSE Zeros[level - 1]
             IN [i \in 1 .. HalfUp(Len(below)) |->
                   IF i <= start /\ i <= Len(layers[level]) THEN layers[level][i]
                   ELSE Hash(below[2 * i - 1], right(i))]
  IN new

\* rebuild(from): nodes left of from / 2^level are kept, the others are
\* hashed again from the layer below, a missing right child being zero.
Rebuild(layers, from) ==
  LET new[level \in 0 .. Height] ==
        IF level = 0 THEN layers[0]
        ELSE LET below == new[level - 1]
                 start == Above(from, level)
                 right(i) == IF 2 * i <= Len(below) THEN below[2 * i] ELSE Zeros[level - 1]
             IN [i \in 1 .. HalfUp(Len(below)) |->
                   IF i <= start THEN layers[level][i]
                   ELSE Hash(below[2 * i - 1], right(i))]
  IN new

EmptyMirror == [level \in 0 .. Height |-> <<>>]

MirrorSize == Len(mirror[0])

MirrorRoot == IF mirror[Height] = <<>> THEN Zeros[Height] ELSE mirror[Height][1]

MirrorPath(index) ==
  [level \in Levels |->
     LET i == Above(index, level)
         sibling == IF i % 2 = 0 THEN i + 1 ELSE i - 1
     IN IF sibling < Len(mirror[level]) THEN mirror[level][sibling + 1]
                                        ELSE Zeros[level]]

-----------------------------------------------------------------------------
(* merkleProof.circom: the root a leaf and its path hash to *)

MerkleProof(leaf, path, index) ==
  LET node[level \in 0 .. Height] ==
        IF level = 0 THEN leaf
        ELSE IF IsLeft(index, level - 1) THEN Hash(node[level - 1], path[level - 1])
                                         ELSE Hash(path[level - 1], node[level - 1])
  IN node[Height]

-----------------------------------------------------------------------------
Init ==
  /\ tree = InitialTree
  /\ proof = [leaf |-> NoRoot, index |-> 0, path |-> [i \in Levels |-> Zeros[i]]]
  /\ mirror = Rebuild(EmptyMirror, 0)
  /\ leaves = <<>>

\* MerkleTree::append; a full tree refuses.
AppendLeaf(leaf) ==
  /\ tree.next_index < Capacity
  /\ tree' = Appended(tree, leaf)
  /\ proof' = [leaf |-> leaf, index |-> tree.next_index, path |-> Siblings(tree)]
  /\ leaves' = Append(leaves, leaf)
  /\ UNCHANGED mirror

\* insert: the next leaf the mirror does not have yet.
Insert ==
  /\ MirrorSize < Len(leaves)
  /\ mirror' = Rebuild([mirror EXCEPT ![0] = Append(@, leaves[MirrorSize + 1])], MirrorSize)
  /\ UNCHANGED <<tree, proof, leaves>>

\* bulkInsert: several leaves, one rebuild from the first of them.
BulkInsert ==
  /\ \E n \in MirrorSize + 2 .. Len(leaves) :
       mirror' = Rebuild([mirror EXCEPT ![0] = SubSeq(leaves, 1, n)], MirrorSize)
  /\ UNCHANGED <<tree, proof, leaves>>

Next == (\E leaf \in Leaf : AppendLeaf(leaf)) \/ Insert \/ BulkInsert

Spec == Init /\ [][Next]_vars

-----------------------------------------------------------------------------
(* The reference: the Merkle root of a sequence of leaves padded with zero *)
(* leaves to the capacity of the tree.                                     *)

ReferenceNodes(s) ==
  LET node[level \in 0 .. Height] ==
        [i \in 0 .. PowerOf2[Height - level] - 1 |->
           IF level = 0 THEN IF i < Len(s) THEN s[i + 1] ELSE NoRoot
           ELSE Hash(node[level - 1][2 * i], node[level - 1][2 * i + 1])]
  IN node

ReferenceRoot(s) == ReferenceNodes(s)[Height][0]

\* The 32 zero bytes are the root of no tree.
ASSUME RootAssumption == \A s \in BoundedSeq(Leaf, Capacity) : ReferenceRoot(s) # NoRoot

Prefix(n) == SubSeq(leaves, 1, n)

\* Shapes only: the counters are in range and every layer of the mirror has
\* the length its level calls for.
TypeOK ==
  /\ tree.next_index \in 0 .. Capacity
  /\ tree.root_index \in Slots
  /\ DOMAIN tree.root_history = Slots
  /\ leaves \in Seq(Leaf)
  /\ MirrorSize <= Len(leaves)
  /\ \A level \in 1 .. Height : Len(mirror[level]) = HalfUp(Len(mirror[level - 1]))

\* The program's root, computed from filled subtrees alone, is the Merkle
\* root of all leaves appended so far (append's loop).
RootIsReference == tree.root = ReferenceRoot(leaves)

\* The path append returns leads, in the circuit, from the new leaf to the
\* new root.
AppendProofVerifies ==
  leaves # <<>> => MerkleProof(proof.leaf, proof.path, proof.index) = tree.root

\* is_known_root accepts exactly the roots after the last RootHistorySize
\* appends (the empty tree counting as one), and never an unwritten slot.
KnownRootsAreTheLatest ==
  LET n == Len(leaves)
      Recent == {k \in 0 .. n : k > n - RootHistorySize}
  IN /\ \A k \in 0 .. n : IsKnownRoot(tree, ReferenceRoot(Prefix(k))) <=> k \in Recent
     /\ ~IsKnownRoot(tree, NoRoot)

\* The program keeps a root and a ring of roots without the leaves: both are
\* those of the leaves appended, at every number of them (merkle_tree.rs:36-103).
ProgramRoots == TypeOK /\ RootIsReference /\ KnownRootsAreTheLatest

\* The mirror's incremental rebuild ends in the root of the leaves it has,
\* however they came in batches.
MirrorRootIsReference == MirrorRoot = ReferenceRoot(Prefix(MirrorSize))

\* Every path the mirror hands out verifies in the circuit against the root
\* of the mirror, and that root is one the program accepts as long as the
\* mirror is fewer than RootHistorySize leaves behind.
MirrorPathsVerify ==
  /\ \A i \in 0 .. MirrorSize - 1 :
       MerkleProof(leaves[i + 1], MirrorPath(i), i) = MirrorRoot
  /\ Len(leaves) - MirrorSize < RootHistorySize => IsKnownRoot(tree, MirrorRoot)

\* However its leaves came in batches, what the mirror of the relayer and of the
\* SDK answers is what the program and the circuit compute (merkle.ts:23-60).
MirrorFollows == MirrorRootIsReference /\ MirrorPathsVerify
=============================================================================
