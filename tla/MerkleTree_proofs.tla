-------------------------- MODULE MerkleTree_proofs --------------------------
(***************************************************************************)
(* Proofs about MerkleTree, for any height, any size of the ring and any   *)
(* leaves: the program's append and the mirror's rebuild both compute the  *)
(* reference tree, and what they hand out verifies in the circuit.         *)
(*                                                                         *)
(* The trees are recursive functions of the level.  Each has first its     *)
(* recursion proved, that a function satisfying it exists; after that      *)
(* everything goes by induction on the level.                              *)
(***************************************************************************)
EXTENDS MerkleTree, FiniteSetTheorems, TLAPS

-----------------------------------------------------------------------------
(* Induction *)

\* A set of numbers that holds 0 and with each number the next holds them all.
LEMMA InductionOverNat ==
  ASSUME NEW T, 0 \in T, \A n \in Nat : n \in T => n + 1 \in T
  PROVE  Nat \subseteq T
<1> DEFINE Less == OpToRel(<, Nat)
           D == Nat \ T
<1>1. IsWellFoundedOn(Less, Nat)
  BY NatLessThanWellFounded, Zenon
<1>2. ASSUME NEW x \in Nat, NEW y \in Nat, x < y
      PROVE  <<x, y>> \in Less
  BY <1>2, Zenon DEF OpToRel
<1> HIDE DEF Less
<1> SUFFICES ASSUME D # {} PROVE FALSE
  OBVIOUS
<1>3. PICK x \in D : \A y \in D : ~ (<<y, x>> \in Less)
  <2>1. D \subseteq Nat
    OBVIOUS
  <2> HIDE DEF D
  <2> QED BY <1>1, <2>1, WFMin, Zenon
<1>4. x - 1 \in Nat /\ x - 1 < x
  OBVIOUS
<1>5. x - 1 \in T
  BY <1>2, <1>3, <1>4
<1> QED BY <1>4, <1>5

-----------------------------------------------------------------------------
(* The recursive functions of the model have their equations *)

\* The recursion of PowerOf2.
LEMMA PowerDef ==
  PowerOf2 = [level \in 0 .. Height |-> IF level = 0 THEN 1 ELSE 2 * PowerOf2[level - 1]]
<1> DEFINE Body(f, level) == IF level = 0 THEN 1 ELSE 2 * f[level - 1]
           T == {n \in Nat : \E f : f = [level \in 0 .. n |-> Body(f, level)]}
<1>1. 0 \in T
  <2> DEFINE f == [level \in 0 .. 0 |-> Body(0, 0)]
  <2>1. f = [level \in 0 .. 0 |-> Body(f, level)]
    OBVIOUS
  <2> QED BY <2>1
<1>2. ASSUME NEW n \in Nat, n \in T
      PROVE  n + 1 \in T
  <2>1. PICK f : f = [level \in 0 .. n |-> Body(f, level)]
    BY <1>2
  <2> DEFINE g == [level \in 0 .. n + 1 |-> Body(f, level)]
  <2>2. \A level \in 0 .. n : g[level] = f[level]
    <3> HIDE DEF Body
    <3> QED BY <2>1
  <2>3. ASSUME NEW level \in 0 .. n + 1
        PROVE  Body(g, level) = Body(f, level)
    <3>1. CASE level = 0
      BY <3>1
    <3>2. CASE level # 0
      <4>1. level - 1 \in 0 .. n
        BY <3>2
      <4>2. g[level - 1] = f[level - 1]
        BY <2>2, <4>1
      <4> HIDE DEF g
      <4> QED BY <4>2
    <3> QED BY <3>1, <3>2
  <2>4. g = [level \in 0 .. n + 1 |-> Body(g, level)]
    BY <2>3
  <2> HIDE DEF g, Body
  <2> QED BY <2>4
<1>3. \E f : f = [level \in 0 .. Height |-> Body(f, level)]
  <2>1. Height \in T
    <3> HIDE DEF T
    <3> QED BY <1>1, <1>2, InductionOverNat, HeightAssumption
  <2> QED BY <2>1
<1> QED BY <1>3 DEF PowerOf2

\* The recursion of the zero subtrees.
LEMMA ZerosDef ==
  Zeros = [level \in 0 .. Height |->
             IF level = 0 THEN NoRoot ELSE Hash(Zeros[level - 1], Zeros[level - 1])]
<1> DEFINE Body(f, level) == IF level = 0 THEN NoRoot ELSE Hash(f[level - 1], f[level - 1])
           T == {n \in Nat : \E f : f = [level \in 0 .. n |-> Body(f, level)]}
<1>1. 0 \in T
  <2> DEFINE f == [level \in 0 .. 0 |-> Body(0, 0)]
  <2>1. f = [level \in 0 .. 0 |-> Body(f, level)]
    OBVIOUS
  <2> QED BY <2>1
<1>2. ASSUME NEW n \in Nat, n \in T
      PROVE  n + 1 \in T
  <2>1. PICK f : f = [level \in 0 .. n |-> Body(f, level)]
    BY <1>2
  <2> DEFINE g == [level \in 0 .. n + 1 |-> Body(f, level)]
  <2>2. \A level \in 0 .. n : g[level] = f[level]
    <3> HIDE DEF Body
    <3> QED BY <2>1
  <2>3. ASSUME NEW level \in 0 .. n + 1
        PROVE  Body(g, level) = Body(f, level)
    <3>1. CASE level = 0
      BY <3>1
    <3>2. CASE level # 0
      <4>1. level - 1 \in 0 .. n
        BY <3>2
      <4>2. g[level - 1] = f[level - 1]
        BY <2>2, <4>1
      <4> HIDE DEF g
      <4> QED BY <4>2
    <3> QED BY <3>1, <3>2
  <2>4. g = [level \in 0 .. n + 1 |-> Body(g, level)]
    BY <2>3
  <2> HIDE DEF g, Body
  <2> QED BY <2>4
<1>3. \E f : f = [level \in 0 .. Height |-> Body(f, level)]
  <2>1. Height \in T
    <3> HIDE DEF T
    <3> QED BY <1>1, <1>2, InductionOverNat, HeightAssumption
  <2> QED BY <2>1
<1> QED BY <1>3 DEF Zeros

\* The recursion of the loop of append.
LEMMA ClimbDef ==
  ASSUME NEW t, NEW leaf
  PROVE  Climb(t, leaf) =
           [level \in 0 .. Height |->
              IF level = 0 THEN leaf
              ELSE IF IsLeft(t.next_index, level - 1)
                   THEN Hash(Climb(t, leaf)[level - 1], Zeros[level - 1])
                   ELSE Hash(t.subtrees[level - 1], Climb(t, leaf)[level - 1])]
<1> DEFINE Body(f, level) == IF level = 0 THEN leaf
                              ELSE IF IsLeft(t.next_index, level - 1)
                                   THEN Hash(f[level - 1], Zeros[level - 1])
                                   ELSE Hash(t.subtrees[level - 1], f[level - 1])
           T == {n \in Nat : \E f : f = [level \in 0 .. n |-> Body(f, level)]}
<1>1. 0 \in T
  <2> DEFINE f == [level \in 0 .. 0 |-> Body(0, 0)]
  <2>1. f = [level \in 0 .. 0 |-> Body(f, level)]
    OBVIOUS
  <2> QED BY <2>1
<1>2. ASSUME NEW n \in Nat, n \in T
      PROVE  n + 1 \in T
  <2>1. PICK f : f = [level \in 0 .. n |-> Body(f, level)]
    BY <1>2
  <2> DEFINE g == [level \in 0 .. n + 1 |-> Body(f, level)]
  <2>2. \A level \in 0 .. n : g[level] = f[level]
    <3> HIDE DEF Body
    <3> QED BY <2>1
  <2>3. ASSUME NEW level \in 0 .. n + 1
        PROVE  Body(g, level) = Body(f, level)
    <3>1. CASE level = 0
      BY <3>1
    <3>2. CASE level # 0
      <4>1. level - 1 \in 0 .. n
        BY <3>2
      <4>2. g[level - 1] = f[level - 1]
        BY <2>2, <4>1
      <4> HIDE DEF g
      <4> QED BY <4>2
    <3> QED BY <3>1, <3>2
  <2>4. g = [level \in 0 .. n + 1 |-> Body(g, level)]
    BY <2>3
  <2> HIDE DEF g, Body
  <2> QED BY <2>4
<1>3. \E f : f = [level \in 0 .. Height |-> Body(f, level)]
  <2>1. Height \in T
    <3> HIDE DEF T
    <3> QED BY <1>1, <1>2, InductionOverNat, HeightAssumption
  <2> QED BY <2>1
<1> QED BY <1>3 DEF Climb

\* The recursion of the reference tree.
LEMMA ReferenceDef ==
  ASSUME NEW s
  PROVE  ReferenceNodes(s) =
           [level \in 0 .. Height |->
              [i \in 0 .. PowerOf2[Height - level] - 1 |->
                 IF level = 0 THEN IF i < Len(s) THEN s[i + 1] ELSE NoRoot
                 ELSE Hash(ReferenceNodes(s)[level - 1][2 * i],
                           ReferenceNodes(s)[level - 1][2 * i + 1])]]
<1> DEFINE Body(f, level) == [i \in 0 .. PowerOf2[Height - level] - 1 |->
                                IF level = 0 THEN IF i < Len(s) THEN s[i + 1] ELSE NoRoot
                                ELSE Hash(f[level - 1][2 * i], f[level - 1][2 * i + 1])]
           T == {n \in Nat : \E f : f = [level \in 0 .. n |-> Body(f, level)]}
<1>1. 0 \in T
  <2> DEFINE f == [level \in 0 .. 0 |-> Body(0, 0)]
  <2>1. f = [level \in 0 .. 0 |-> Body(f, level)]
    OBVIOUS
  <2> QED BY <2>1
<1>2. ASSUME NEW n \in Nat, n \in T
      PROVE  n + 1 \in T
  <2>1. PICK f : f = [level \in 0 .. n |-> Body(f, level)]
    BY <1>2
  <2> DEFINE g == [level \in 0 .. n + 1 |-> Body(f, level)]
  <2>2. \A level \in 0 .. n : g[level] = f[level]
    <3> HIDE DEF Body
    <3> QED BY <2>1
  <2>3. ASSUME NEW level \in 0 .. n + 1
        PROVE  Body(g, level) = Body(f, level)
    <3>1. CASE level = 0
      BY <3>1
    <3>2. CASE level # 0
      <4>1. level - 1 \in 0 .. n
        BY <3>2
      <4>2. g[level - 1] = f[level - 1]
        BY <2>2, <4>1
      <4> HIDE DEF g
      <4> QED BY <4>2
    <3> QED BY <3>1, <3>2
  <2>4. g = [level \in 0 .. n + 1 |-> Body(g, level)]
    BY <2>3
  <2> HIDE DEF g, Body
  <2> QED BY <2>4
<1>3. \E f : f = [level \in 0 .. Height |-> Body(f, level)]
  <2>1. Height \in T
    <3> HIDE DEF T
    <3> QED BY <1>1, <1>2, InductionOverNat, HeightAssumption
  <2> QED BY <2>1
<1> QED BY <1>3 DEF ReferenceNodes

\* The recursion of the circuit.
LEMMA ProofDef ==
  ASSUME NEW leaf, NEW path, NEW index
  PROVE  \E node :
           /\ MerkleProof(leaf, path, index) = node[Height]
           /\ node = [level \in 0 .. Height |->
                        IF level = 0 THEN leaf
                        ELSE IF IsLeft(index, level - 1)
                             THEN Hash(node[level - 1], path[level - 1])
                             ELSE Hash(path[level - 1], node[level - 1])]
<1> DEFINE Body(f, level) == IF level = 0 THEN leaf
                              ELSE IF IsLeft(index, level - 1)
                                   THEN Hash(f[level - 1], path[level - 1])
                                   ELSE Hash(path[level - 1], f[level - 1])
           T == {n \in Nat : \E f : f = [level \in 0 .. n |-> Body(f, level)]}
<1>1. 0 \in T
  <2> DEFINE f == [level \in 0 .. 0 |-> Body(0, 0)]
  <2>1. f = [level \in 0 .. 0 |-> Body(f, level)]
    OBVIOUS
  <2> QED BY <2>1
<1>2. ASSUME NEW n \in Nat, n \in T
      PROVE  n + 1 \in T
  <2>1. PICK f : f = [level \in 0 .. n |-> Body(f, level)]
    BY <1>2
  <2> DEFINE g == [level \in 0 .. n + 1 |-> Body(f, level)]
  <2>2. \A level \in 0 .. n : g[level] = f[level]
    <3> HIDE DEF Body
    <3> QED BY <2>1
  <2>3. ASSUME NEW level \in 0 .. n + 1
        PROVE  Body(g, level) = Body(f, level)
    <3>1. CASE level = 0
      BY <3>1
    <3>2. CASE level # 0
      <4>1. level - 1 \in 0 .. n
        BY <3>2
      <4>2. g[level - 1] = f[level - 1]
        BY <2>2, <4>1
      <4> HIDE DEF g
      <4> QED BY <4>2
    <3> QED BY <3>1, <3>2
  <2>4. g = [level \in 0 .. n + 1 |-> Body(g, level)]
    BY <2>3
  <2> HIDE DEF g, Body
  <2> QED BY <2>4
<1>3. \E f : f = [level \in 0 .. Height |-> Body(f, level)]
  <2>1. Height \in T
    <3> HIDE DEF T
    <3> QED BY <1>1, <1>2, InductionOverNat, HeightAssumption
  <2> QED BY <2>1
<1> QED BY <1>3 DEF MerkleProof

\* The recursion of rebuild.
LEMMA RebuildDef ==
  ASSUME NEW layers, NEW from
  PROVE  Rebuild(layers, from) =
           [level \in 0 .. Height |->
              IF level = 0 THEN layers[0]
              ELSE [i \in 1 .. HalfUp(Len(Rebuild(layers, from)[level - 1])) |->
                      IF i <= Above(from, level) THEN layers[level][i]
                      ELSE Hash(Rebuild(layers, from)[level - 1][2 * i - 1],
                                IF 2 * i <= Len(Rebuild(layers, from)[level - 1])
                                THEN Rebuild(layers, from)[level - 1][2 * i]
                                ELSE Zeros[level - 1])]]
<1> DEFINE Body(f, level) == IF level = 0 THEN layers[0]
                              ELSE [i \in 1 .. HalfUp(Len(f[level - 1])) |->
                                      IF i <= Above(from, level) THEN layers[level][i]
                                      ELSE Hash(f[level - 1][2 * i - 1],
                                                IF 2 * i <= Len(f[level - 1])
                                                THEN f[level - 1][2 * i] ELSE Zeros[level - 1])]
           T == {n \in Nat : \E f : f = [level \in 0 .. n |-> Body(f, level)]}
<1>1. 0 \in T
  <2> DEFINE f == [level \in 0 .. 0 |-> Body(0, 0)]
  <2>1. f = [level \in 0 .. 0 |-> Body(f, level)]
    OBVIOUS
  <2> QED BY <2>1
<1>2. ASSUME NEW n \in Nat, n \in T
      PROVE  n + 1 \in T
  <2>1. PICK f : f = [level \in 0 .. n |-> Body(f, level)]
    BY <1>2
  <2> DEFINE g == [level \in 0 .. n + 1 |-> Body(f, level)]
  <2>2. \A level \in 0 .. n : g[level] = f[level]
    <3> HIDE DEF Body
    <3> QED BY <2>1
  <2>3. ASSUME NEW level \in 0 .. n + 1
        PROVE  Body(g, level) = Body(f, level)
    <3>1. CASE level = 0
      BY <3>1
    <3>2. CASE level # 0
      <4>1. level - 1 \in 0 .. n
        BY <3>2
      <4>2. g[level - 1] = f[level - 1]
        BY <2>2, <4>1
      <4> HIDE DEF g
      <4> QED BY <4>2
    <3> QED BY <3>1, <3>2
  <2>4. g = [level \in 0 .. n + 1 |-> Body(g, level)]
    BY <2>3
  <2> HIDE DEF g, Body
  <2> QED BY <2>4
<1>3. \E f : f = [level \in 0 .. Height |-> Body(f, level)]
  <2>1. Height \in T
    <3> HIDE DEF T
    <3> QED BY <1>1, <1>2, InductionOverNat, HeightAssumption
  <2> QED BY <2>1
<1> QED BY <1>3 DEF Rebuild

-----------------------------------------------------------------------------
(* Powers of two and the nodes above a leaf *)

\* The first power, the next, and that none is zero.
LEMMA PowerStep ==
  /\ PowerOf2[0] = 1
  /\ \A level \in Levels : PowerOf2[level + 1] = 2 * PowerOf2[level]
  /\ \A level \in 0 .. Height : PowerOf2[level] \in Nat \ {0}
<1>1. PowerOf2[0] = 1
  BY PowerDef, HeightAssumption
<1>2. ASSUME NEW level \in Levels
      PROVE  PowerOf2[level + 1] = 2 * PowerOf2[level]
  <2>1. level + 1 \in 0 .. Height /\ level + 1 # 0 /\ (level + 1) - 1 = level
    BY HeightAssumption DEF Levels
  <2> QED BY <2>1, PowerDef
<1> DEFINE T == {n \in Nat : n <= Height => PowerOf2[n] \in Nat \ {0}}
<1>3. 0 \in T
  BY <1>1
<1>4. ASSUME NEW n \in Nat, n \in T
      PROVE  n + 1 \in T
  <2> SUFFICES ASSUME n + 1 <= Height
               PROVE  PowerOf2[n + 1] \in Nat \ {0}
    OBVIOUS
  <2>1. n \in Levels /\ PowerOf2[n] \in Nat \ {0}
    BY <1>4, HeightAssumption DEF Levels
  <2> QED BY <1>2, <2>1
<1>5. Nat \subseteq T
  <2> HIDE DEF T
  <2> QED BY <1>3, <1>4, InductionOverNat
<1> QED BY <1>1, <1>2, <1>5, HeightAssumption

\* What dividing by a power means.
LEMMA AboveBounds ==
  ASSUME NEW index \in Nat, NEW level \in 0 .. Height
  PROVE  /\ Above(index, level) \in Nat
         /\ Above(index, level) * PowerOf2[level] <= index
         /\ index < (Above(index, level) + 1) * PowerOf2[level]
<1>1. PICK p \in Nat \ {0} : p = PowerOf2[level]
  BY PowerStep
<1>2. PICK q : q = index \div p
  OBVIOUS
<1>3. q \in Int /\ q * p <= index /\ index < q * p + p
  BY <1>2, SMT
<1>4. q >= 0
  <2>1. CASE q < 0
    <3>1. (q + 1) * p <= 0
      BY <1>3, <2>1, SMT
    <3> QED BY <1>3, <3>1, SMT
  <2> QED BY <1>3, <2>1
<1>5. (q + 1) * p = q * p + p
  BY <1>3, SMT
<1> QED BY <1>1, <1>2, <1>3, <1>4, <1>5 DEF Above

\* One level up an index is halved.
LEMMA AboveStep ==
  ASSUME NEW index \in Nat
  PROVE  /\ Above(index, 0) = index
         /\ \A level \in Levels : Above(index, level + 1) = Above(index, level) \div 2
<1>1. Above(index, 0) = index
  BY PowerStep DEF Above
<1>2. ASSUME NEW level \in Levels
      PROVE  Above(index, level + 1) = Above(index, level) \div 2
  <2>1. level \in 0 .. Height /\ level + 1 \in 0 .. Height
    BY HeightAssumption DEF Levels
  <2>2. PICK p \in Nat \ {0} : p = PowerOf2[level] /\ PowerOf2[level + 1] = 2 * p
    BY <2>1, PowerStep
  <2>3. PICK q \in Nat : q = Above(index, level) /\ q * p <= index /\ index < (q + 1) * p
    BY <2>1, <2>2, AboveBounds
  <2>4. PICK r \in Nat : /\ r = Above(index, level + 1)
                         /\ r * (2 * p) <= index /\ index < (r + 1) * (2 * p)
    BY <2>1, <2>2, AboveBounds
  <2>5. 2 * r <= q
    <3>1. CASE 2 * r >= q + 1
      <4>1. (2 * r) * p >= (q + 1) * p
        BY <3>1, SMT
      <4>2. (2 * r) * p = r * (2 * p)
        BY SMT
      <4> QED BY <2>3, <2>4, <4>1, <4>2, SMT
    <3> QED BY <3>1
  <2>6. q <= 2 * r + 1
    <3>1. CASE q >= 2 * r + 2
      <4>1. q * p >= (2 * r + 2) * p
        BY <3>1, SMT
      <4>2. (2 * r + 2) * p = (r + 1) * (2 * p)
        BY SMT
      <4> QED BY <2>3, <2>4, <4>1, <4>2, SMT
    <3> QED BY <3>1
  <2>7. r = q \div 2
    BY <2>5, <2>6
  <2> QED BY <2>3, <2>4, <2>7
<1> QED BY <1>1, <1>2

\* A leaf of the tree is below a node of every level.
LEMMA AboveInTree ==
  ASSUME NEW index \in 0 .. Capacity - 1, NEW level \in 0 .. Height
  PROVE  Above(index, level) \in 0 .. PowerOf2[Height - level] - 1
<1> DEFINE T == {n \in Nat : n <= Height => Above(index, n) \in 0 .. PowerOf2[Height - n] - 1}
<1>1. Capacity \in Nat /\ index \in Nat
  BY PowerStep, HeightAssumption DEF Capacity
<1>2. 0 \in T
  BY <1>1, AboveStep, HeightAssumption DEF Capacity
<1>3. ASSUME NEW n \in Nat, n \in T
      PROVE  n + 1 \in T
  <2> SUFFICES ASSUME n + 1 <= Height
               PROVE  Above(index, n + 1) \in 0 .. PowerOf2[Height - (n + 1)] - 1
    OBVIOUS
  <2>1. /\ n \in Levels /\ Height - (n + 1) \in Levels /\ Height - (n + 1) \in 0 .. Height
        /\ (Height - (n + 1)) + 1 = Height - n
    BY HeightAssumption DEF Levels
  <2>2. PICK p \in Nat \ {0} : p = PowerOf2[Height - (n + 1)] /\ PowerOf2[Height - n] = 2 * p
    BY <2>1, PowerStep
  <2>3. PICK q \in Nat : q = Above(index, n) /\ q < 2 * p
    BY <1>3, <2>2, HeightAssumption
  <2>4. Above(index, n + 1) = q \div 2
    BY <1>1, <2>1, <2>3, AboveStep
  <2> QED BY <2>2, <2>3, <2>4
<1>4. Nat \subseteq T
  <2> HIDE DEF T
  <2> QED BY <1>2, <1>3, InductionOverNat
<1> QED BY <1>4, HeightAssumption

-----------------------------------------------------------------------------
(* The nodes of the reference tree *)

\* The positions of a level.
Nodes(level) == 0 .. PowerOf2[Height - level] - 1

\* The nodes of a level, from those below.
LEMMA NodeStep ==
  ASSUME NEW s
  PROVE  /\ \A i \in Nodes(0) : ReferenceNodes(s)[0][i] = IF i < Len(s) THEN s[i + 1] ELSE NoRoot
         /\ \A level \in Levels : \A i \in Nodes(level + 1) :
              /\ 2 * i \in Nodes(level) /\ 2 * i + 1 \in Nodes(level)
              /\ ReferenceNodes(s)[level + 1][i]
                   = Hash(ReferenceNodes(s)[level][2 * i], ReferenceNodes(s)[level][2 * i + 1])
         /\ \A level \in 0 .. Height : DOMAIN ReferenceNodes(s)[level] = Nodes(level)
<1> DEFINE Node(level, i) == IF level = 0 THEN IF i < Len(s) THEN s[i + 1] ELSE NoRoot
                             ELSE Hash(ReferenceNodes(s)[level - 1][2 * i],
                                       ReferenceNodes(s)[level - 1][2 * i + 1])
           Layer(level) == [i \in Nodes(level) |-> Node(level, i)]
<1>1. ReferenceNodes(s) = [level \in 0 .. Height |-> Layer(level)]
  BY ReferenceDef DEF Nodes
<1>2. \A level \in 0 .. Height : ReferenceNodes(s)[level] = Layer(level)
  <2> HIDE DEF Layer
  <2> QED BY <1>1
<1>3. \A level \in 0 .. Height : \A i \in Nodes(level) : Layer(level)[i] = Node(level, i)
  <2> HIDE DEF Node
  <2> QED OBVIOUS
<1>4. \A level \in 0 .. Height : DOMAIN ReferenceNodes(s)[level] = Nodes(level)
  <2> HIDE DEF Node
  <2> QED BY <1>2
<1>5. \A i \in Nodes(0) : ReferenceNodes(s)[0][i] = IF i < Len(s) THEN s[i + 1] ELSE NoRoot
  <2>1. 0 \in 0 .. Height /\ \A i : Node(0, i) = IF i < Len(s) THEN s[i + 1] ELSE NoRoot
    BY HeightAssumption
  <2> HIDE DEF Node, Layer
  <2> QED BY <1>2, <1>3, <2>1
<1>6. ASSUME NEW level \in Levels, NEW i \in Nodes(level + 1)
      PROVE  /\ 2 * i \in Nodes(level) /\ 2 * i + 1 \in Nodes(level)
             /\ ReferenceNodes(s)[level + 1][i]
                  = Hash(ReferenceNodes(s)[level][2 * i], ReferenceNodes(s)[level][2 * i + 1])
  <2>1. /\ level \in Nat /\ level + 1 \in 0 .. Height /\ level + 1 # 0 /\ (level + 1) - 1 = level
        /\ Height - (level + 1) \in Levels /\ Height - (level + 1) \in 0 .. Height
        /\ (Height - (level + 1)) + 1 = Height - level
    BY HeightAssumption DEF Levels
  <2>2. PICK p \in Nat \ {0} : /\ p = PowerOf2[Height - (level + 1)]
                               /\ PowerOf2[Height - level] = 2 * p
    BY <2>1, PowerStep
  <2>3. 2 * i \in Nodes(level) /\ 2 * i + 1 \in Nodes(level)
    BY <2>2 DEF Nodes
  <2>4. Node(level + 1, i)
          = Hash(ReferenceNodes(s)[level][2 * i], ReferenceNodes(s)[level][2 * i + 1])
    BY <2>1
  <2>5. ReferenceNodes(s)[level + 1][i] = Node(level + 1, i)
    <3> HIDE DEF Node, Layer
    <3> QED BY <1>2, <1>3, <2>1
  <2> QED BY <2>3, <2>4, <2>5
<1> QED BY <1>4, <1>5, <1>6

\* The root is the one node of the top level.
LEMMA TopLevel == Nodes(Height) = {0}
BY PowerStep, HeightAssumption DEF Nodes

\* A node without leaves below is the zero subtree of its level.
LEMMA EmptyNode ==
  ASSUME NEW s, Len(s) \in Nat,
         NEW level \in 0 .. Height, NEW i \in Nodes(level), i * PowerOf2[level] >= Len(s)
  PROVE  ReferenceNodes(s)[level][i] = Zeros[level]
<1> DEFINE T == {n \in Nat : n <= Height =>
                   \A j \in Nodes(n) :
                     j * PowerOf2[n] >= Len(s) => ReferenceNodes(s)[n][j] = Zeros[n]}
<1>1. 0 \in T
  <2> SUFFICES ASSUME NEW j \in Nodes(0), j * PowerOf2[0] >= Len(s)
               PROVE  ReferenceNodes(s)[0][j] = Zeros[0]
    BY DEF T
  <2>1. Zeros[0] = NoRoot
    BY ZerosDef, HeightAssumption
  <2>2. j >= Len(s)
    BY PowerStep DEF Nodes
  <2>3. j \in Int
    BY DEF Nodes
  <2>4. ~(j < Len(s))
    BY <2>2, <2>3
  <2> QED BY <2>1, <2>4, NodeStep
<1>2. ASSUME NEW n \in Nat, n \in T
      PROVE  n + 1 \in T
  <2> SUFFICES ASSUME n + 1 <= Height, NEW j \in Nodes(n + 1), j * PowerOf2[n + 1] >= Len(s)
               PROVE  ReferenceNodes(s)[n + 1][j] = Zeros[n + 1]
    BY DEF T
  <2>1. n \in Levels /\ n <= Height /\ j \in Int /\ n \in 0 .. Height
    BY HeightAssumption DEF Levels, Nodes
  <2>2. /\ 2 * j \in Nodes(n) /\ 2 * j + 1 \in Nodes(n)
        /\ ReferenceNodes(s)[n + 1][j]
             = Hash(ReferenceNodes(s)[n][2 * j], ReferenceNodes(s)[n][2 * j + 1])
    BY <2>1, NodeStep
  <2>3. PICK p \in Nat \ {0} : p = PowerOf2[n] /\ PowerOf2[n + 1] = 2 * p
    BY <2>1, PowerStep
  <2>4. (2 * j) * p = j * (2 * p) /\ (2 * j + 1) * p = j * (2 * p) + p
    BY <2>1, SMT
  <2>5. (2 * j) * p >= Len(s) /\ (2 * j + 1) * p >= Len(s)
    <3> DEFINE x == j * (2 * p)
    <3>1. x \in Int /\ x >= Len(s) /\ x + p >= Len(s)
      BY <2>1, <2>3
    <3> HIDE DEF x
    <3> QED BY <2>4, <3>1 DEF x
  <2>6. ReferenceNodes(s)[n][2 * j] = Zeros[n] /\ ReferenceNodes(s)[n][2 * j + 1] = Zeros[n]
    BY <1>2, <2>1, <2>2, <2>3, <2>5
  <2>7. Zeros[n + 1] = Hash(Zeros[n], Zeros[n])
    <3>1. n + 1 \in 0 .. Height /\ n + 1 # 0 /\ (n + 1) - 1 = n
      BY HeightAssumption
    <3> QED BY <3>1, ZerosDef
  <2> QED BY <2>2, <2>6, <2>7
<1>3. Nat \subseteq T
  <2> HIDE DEF T
  <2> QED BY <1>1, <1>2, InductionOverNat
<1> QED BY <1>3, HeightAssumption

\* A node whose leaves are all there is not changed by what comes after them.
LEMMA FullNode ==
  ASSUME NEW s, NEW u, Len(s) \in Nat, Len(u) \in Nat, Len(s) <= Len(u),
         \A k \in 1 .. Len(s) : u[k] = s[k],
         NEW level \in 0 .. Height, NEW i \in Nodes(level), i < Above(Len(s), level)
  PROVE  ReferenceNodes(u)[level][i] = ReferenceNodes(s)[level][i]
<1> DEFINE T == {n \in Nat : n <= Height =>
                   \A j \in Nodes(n) :
                     j < Above(Len(s), n) => ReferenceNodes(u)[n][j] = ReferenceNodes(s)[n][j]}
<1>1. 0 \in T
  <2> SUFFICES ASSUME NEW j \in Nodes(0), j < Above(Len(s), 0)
               PROVE  ReferenceNodes(u)[0][j] = ReferenceNodes(s)[0][j]
    BY DEF T
  <2>1. j \in Nat /\ j < Len(s)
    BY AboveStep DEF Nodes
  <2>2. j < Len(u) /\ j + 1 \in 1 .. Len(s)
    BY <2>1
  <2> QED BY <2>1, <2>2, NodeStep
<1>2. ASSUME NEW n \in Nat, n \in T
      PROVE  n + 1 \in T
  <2> SUFFICES ASSUME n + 1 <= Height, NEW j \in Nodes(n + 1), j < Above(Len(s), n + 1)
               PROVE  ReferenceNodes(u)[n + 1][j] = ReferenceNodes(s)[n + 1][j]
    BY DEF T
  <2>1. n \in Levels /\ n <= Height /\ j \in Int /\ n \in 0 .. Height
    BY HeightAssumption DEF Levels, Nodes
  <2>2. PICK q \in Nat : q = Above(Len(s), n) /\ Above(Len(s), n + 1) = q \div 2
    BY <2>1, AboveStep, AboveBounds
  <2>3. 2 * j < q /\ 2 * j + 1 < q
    BY <2>1, <2>2
  <2>4. 2 * j \in Nodes(n) /\ 2 * j + 1 \in Nodes(n)
    BY <2>1, NodeStep
  <2>5. /\ ReferenceNodes(u)[n][2 * j] = ReferenceNodes(s)[n][2 * j]
        /\ ReferenceNodes(u)[n][2 * j + 1] = ReferenceNodes(s)[n][2 * j + 1]
    BY <1>2, <2>1, <2>2, <2>3, <2>4
  <2> QED BY <2>1, <2>5, NodeStep
<1>3. Nat \subseteq T
  <2> HIDE DEF T
  <2> QED BY <1>1, <1>2, InductionOverNat
<1> QED BY <1>3, HeightAssumption

\* A root stands for its leaves: poseidon is collision-free.
LEMMA RootDetermines ==
  ASSUME NEW s, NEW u, ReferenceRoot(s) = ReferenceRoot(u)
  PROVE  \A i \in Nodes(0) : ReferenceNodes(s)[0][i] = ReferenceNodes(u)[0][i]
<1> DEFINE Same(level) == \A i \in Nodes(level) :
                            ReferenceNodes(s)[level][i] = ReferenceNodes(u)[level][i]
           T == {n \in Nat : n <= Height => Same(Height - n)}
<1>1. 0 \in T
  BY TopLevel, HeightAssumption DEF ReferenceRoot
<1>2. ASSUME NEW n \in Nat, n \in T
      PROVE  n + 1 \in T
  <2> SUFFICES ASSUME n + 1 <= Height
               PROVE  Same(Height - (n + 1))
    OBVIOUS
  <2> PICK level \in Levels : level = Height - (n + 1) /\ level + 1 = Height - n
    BY HeightAssumption DEF Levels
  <2> SUFFICES ASSUME NEW i \in Nodes(level)
               PROVE  ReferenceNodes(s)[level][i] = ReferenceNodes(u)[level][i]
    OBVIOUS
  <2>1. Same(level + 1)
    BY <1>2, HeightAssumption
  <2>2. PICK j : j = i \div 2
    OBVIOUS
  <2>3. j \in Nodes(level + 1) /\ (i = 2 * j \/ i = 2 * j + 1)
    <3>1. /\ Height - (level + 1) \in Levels /\ Height - (level + 1) \in 0 .. Height
          /\ (Height - (level + 1)) + 1 = Height - level
      BY HeightAssumption DEF Levels
    <3>2. PICK p \in Nat \ {0} : /\ p = PowerOf2[Height - (level + 1)]
                                 /\ PowerOf2[Height - level] = 2 * p
      BY <3>1, PowerStep
    <3> QED BY <2>2, <3>2 DEF Nodes
  <2>4. /\ ReferenceNodes(s)[level][2 * j] = ReferenceNodes(u)[level][2 * j]
        /\ ReferenceNodes(s)[level][2 * j + 1] = ReferenceNodes(u)[level][2 * j + 1]
    <3>1. Hash(ReferenceNodes(s)[level][2 * j], ReferenceNodes(s)[level][2 * j + 1])
            = Hash(ReferenceNodes(u)[level][2 * j], ReferenceNodes(u)[level][2 * j + 1])
      <4>1. ReferenceNodes(s)[level + 1][j] = ReferenceNodes(u)[level + 1][j]
        BY <2>1, <2>3
      <4>2. /\ ReferenceNodes(s)[level + 1][j]
                 = Hash(ReferenceNodes(s)[level][2 * j], ReferenceNodes(s)[level][2 * j + 1])
            /\ ReferenceNodes(u)[level + 1][j]
                 = Hash(ReferenceNodes(u)[level][2 * j], ReferenceNodes(u)[level][2 * j + 1])
        BY <2>3, NodeStep
      <4> QED BY <4>1, <4>2
    <3> QED BY <3>1 DEF Hash
  <2> QED BY <2>3, <2>4
<1>3. Nat \subseteq T
  <2> HIDE DEF T
  <2> QED BY <1>1, <1>2, InductionOverNat
<1>4. Same(0)
  BY <1>3, HeightAssumption
<1> QED BY <1>4

-----------------------------------------------------------------------------
(* Sequences of leaves *)

\* The first leaves of a sequence.
LEMMA PrefixFacts ==
  ASSUME NEW s \in Seq(Leaf), NEW k \in 0 .. Len(s)
  PROVE  /\ SubSeq(s, 1, k) \in Seq(Leaf) /\ Len(SubSeq(s, 1, k)) = k
         /\ \A i \in 1 .. k : SubSeq(s, 1, k)[i] = s[i]
         /\ SubSeq(s, 1, Len(s)) = s
OBVIOUS

\* A sequence with one leaf more.
LEMMA AppendFacts ==
  ASSUME NEW s \in Seq(Leaf), NEW leaf \in Leaf
  PROVE  /\ Append(s, leaf) \in Seq(Leaf) /\ Len(Append(s, leaf)) = Len(s) + 1
         /\ \A i \in 1 .. Len(s) : Append(s, leaf)[i] = s[i]
         /\ Append(s, leaf)[Len(s) + 1] = leaf
         /\ \A k \in 0 .. Len(s) : SubSeq(Append(s, leaf), 1, k) = SubSeq(s, 1, k)
<1> PICK u : u = Append(s, leaf)
  OBVIOUS
<1>1. /\ u \in Seq(Leaf) /\ Len(u) = Len(s) + 1 /\ u[Len(s) + 1] = leaf
      /\ \A i \in 1 .. Len(s) : u[i] = s[i]
  OBVIOUS
<1>2. ASSUME NEW k \in 0 .. Len(s)
      PROVE  SubSeq(u, 1, k) = SubSeq(s, 1, k)
  <2>1. k \in 0 .. Len(u)
    BY <1>1
  <2>2. /\ SubSeq(u, 1, k) \in Seq(Leaf) /\ Len(SubSeq(u, 1, k)) = k
        /\ SubSeq(s, 1, k) \in Seq(Leaf) /\ Len(SubSeq(s, 1, k)) = k
        /\ \A i \in 1 .. k : SubSeq(u, 1, k)[i] = u[i] /\ SubSeq(s, 1, k)[i] = s[i]
    BY <1>1, <2>1, PrefixFacts
  <2>3. \A i \in 1 .. k : SubSeq(u, 1, k)[i] = SubSeq(s, 1, k)[i]
    BY <1>1, <2>2
  <2> QED BY <2>2, <2>3
<1> QED BY <1>1, <1>2

-----------------------------------------------------------------------------
(* The program's append *)

\* A subtree is stored wherever the next leaf is on the right of one.
SubtreesOk(t, s) ==
  \A level \in Levels : ~IsLeft(t.next_index, level) =>
    t.subtrees[level] = ReferenceNodes(s)[level][Above(t.next_index, level) - 1]

\* u is s and one leaf more.
Longer(s, u, leaf) ==
  /\ Len(s) \in Nat /\ Len(s) < Capacity /\ Len(u) = Len(s) + 1
  /\ u[Len(s) + 1] = leaf /\ \A k \in 1 .. Len(s) : u[k] = s[k]

\* One step of the loop of append.
LEMMA ClimbStep ==
  ASSUME NEW t, NEW leaf
  PROVE  /\ Climb(t, leaf)[0] = leaf
         /\ \A level \in Levels :
              Climb(t, leaf)[level + 1]
                = IF IsLeft(t.next_index, level)
                  THEN Hash(Climb(t, leaf)[level], Zeros[level])
                  ELSE Hash(t.subtrees[level], Climb(t, leaf)[level])
<1> DEFINE Body(level) == IF level = 0 THEN leaf
                          ELSE IF IsLeft(t.next_index, level - 1)
                               THEN Hash(Climb(t, leaf)[level - 1], Zeros[level - 1])
                               ELSE Hash(t.subtrees[level - 1], Climb(t, leaf)[level - 1])
<1>1. Climb(t, leaf) = [level \in 0 .. Height |-> Body(level)]
  BY ClimbDef
<1>2. \A level \in 0 .. Height : Climb(t, leaf)[level] = Body(level)
  <2> PICK f : f = Climb(t, leaf)
    OBVIOUS
  <2>1. f = [level \in 0 .. Height |-> Body(level)]
    BY <1>1
  <2> HIDE DEF Body
  <2>2. \A level \in 0 .. Height : f[level] = Body(level)
    BY <2>1
  <2> QED BY <2>2
<1>3. Climb(t, leaf)[0] = leaf
  <2>1. 0 \in 0 .. Height /\ Body(0) = leaf
    BY HeightAssumption
  <2> HIDE DEF Body
  <2> QED BY <1>2, <2>1
<1>4. ASSUME NEW level \in Levels
      PROVE  Climb(t, leaf)[level + 1]
               = IF IsLeft(t.next_index, level)
                 THEN Hash(Climb(t, leaf)[level], Zeros[level])
                 ELSE Hash(t.subtrees[level], Climb(t, leaf)[level])
  <2>1. level + 1 \in 0 .. Height /\ level + 1 # 0 /\ (level + 1) - 1 = level
    BY HeightAssumption DEF Levels
  <2>2. Body(level + 1) = IF IsLeft(t.next_index, level)
                          THEN Hash(Climb(t, leaf)[level], Zeros[level])
                          ELSE Hash(t.subtrees[level], Climb(t, leaf)[level])
    BY <2>1
  <2> HIDE DEF Body
  <2>3. Climb(t, leaf)[level + 1] = Body(level + 1)
    BY <1>2, <2>1
  <2> QED BY <2>2, <2>3
<1> QED BY <1>3, <1>4

\* The node above a leaf, one level up.
LEMMA AboveFacts ==
  ASSUME NEW n \in 0 .. Capacity - 1, NEW level \in 0 .. Height
  PROVE  /\ n \in Nat /\ Above(n, level) \in Nat /\ Above(n, level) \in Nodes(level)
         /\ level # Height => Above(n, level + 1) = Above(n, level) \div 2
<1>1. n \in Nat
  OBVIOUS
<1>2. Above(n, level) \in Nat
  BY <1>1, AboveBounds
<1>3. Above(n, level) \in Nodes(level)
  BY AboveInTree DEF Nodes
<1>4. level # Height => Above(n, level + 1) = Above(n, level) \div 2
  BY <1>1, AboveStep, HeightAssumption DEF Levels
<1> QED BY <1>1, <1>2, <1>3, <1>4

\* What the loop of append has computed at each level is the node above the
\* new leaf.
LEMMA ClimbIsReference ==
  ASSUME NEW t, NEW s, NEW u, NEW leaf, Longer(s, u, leaf),
         t.next_index = Len(s), SubtreesOk(t, s)
  PROVE  \A level \in 0 .. Height :
           Climb(t, leaf)[level] = ReferenceNodes(u)[level][Above(Len(s), level)]
<1> PICK n \in Nat : n = Len(s)
  BY DEF Longer
<1> DEFINE T == {l \in Nat : l <= Height =>
                   Climb(t, leaf)[l] = ReferenceNodes(u)[l][Above(n, l)]}
<1>1. n \in 0 .. Capacity - 1 /\ Len(u) = n + 1 /\ t.next_index = n
  BY PowerStep, HeightAssumption DEF Longer, Capacity
<1>2. 0 \in T
  <2>1. Climb(t, leaf)[0] = leaf
    BY ClimbStep
  <2>2. Above(n, 0) = n /\ n \in Nodes(0)
    BY <1>1, AboveStep, AboveInTree, HeightAssumption DEF Nodes
  <2>3. ReferenceNodes(u)[0][n] = leaf
    BY <1>1, <2>2, NodeStep DEF Longer
  <2> QED BY <2>1, <2>2, <2>3
<1>3. ASSUME NEW l \in Nat, l \in T
      PROVE  l + 1 \in T
  <2> SUFFICES ASSUME l + 1 <= Height
               PROVE  Climb(t, leaf)[l + 1] = ReferenceNodes(u)[l + 1][Above(n, l + 1)]
    OBVIOUS
  <2>1. l \in Levels /\ l \in 0 .. Height /\ l + 1 \in 0 .. Height
    BY HeightAssumption DEF Levels
  <2>2. PICK a \in Nat : a = Above(n, l) /\ a \in Nodes(l)
    BY <1>1, <2>1, AboveFacts
  <2>3. PICK j \in Nat : /\ j = Above(n, l + 1) /\ j = a \div 2 /\ j \in Nodes(l + 1)
    <3>1. l # Height
      BY <2>1, HeightAssumption DEF Levels
    <3>2. /\ Above(n, l + 1) = a \div 2
          /\ Above(n, l + 1) \in Nat /\ Above(n, l + 1) \in Nodes(l + 1)
      BY <1>1, <2>1, <2>2, <3>1, AboveFacts
    <3> QED BY <3>2
  <2>4. /\ 2 * j \in Nodes(l) /\ 2 * j + 1 \in Nodes(l)
        /\ ReferenceNodes(u)[l + 1][j]
             = Hash(ReferenceNodes(u)[l][2 * j], ReferenceNodes(u)[l][2 * j + 1])
    BY <2>1, <2>3, NodeStep
  <2>5. Climb(t, leaf)[l] = ReferenceNodes(u)[l][a]
    BY <1>3, <2>1, <2>2
  <2>6. Climb(t, leaf)[l + 1]
          = IF IsLeft(n, l) THEN Hash(Climb(t, leaf)[l], Zeros[l])
                            ELSE Hash(t.subtrees[l], Climb(t, leaf)[l])
    BY <1>1, <2>1, ClimbStep
  <2>7. CASE IsLeft(n, l)
    <3>1. a = 2 * j
      BY <2>2, <2>3, <2>7 DEF IsLeft
    <3>2. ReferenceNodes(u)[l][a + 1] = Zeros[l]
      <4>1. n < (a + 1) * PowerOf2[l]
        BY <2>1, <2>2, AboveBounds
      <4>2. (a + 1) * PowerOf2[l] \in Int
        BY <2>1, PowerStep
      <4>3. (a + 1) * PowerOf2[l] >= Len(u)
        BY <1>1, <4>1, <4>2
      <4>4. a + 1 \in Nodes(l) /\ Len(u) \in Nat
        BY <1>1, <2>4, <3>1
      <4> QED BY <2>1, <4>3, <4>4, EmptyNode
    <3> QED BY <2>3, <2>4, <2>5, <2>6, <2>7, <3>1, <3>2
  <2>8. CASE ~IsLeft(n, l)
    <3>1. a = 2 * j + 1
      BY <2>2, <2>3, <2>8 DEF IsLeft
    <3>2. t.subtrees[l] = ReferenceNodes(s)[l][a - 1]
      BY <1>1, <2>1, <2>2, <2>8 DEF SubtreesOk
    <3>3. ReferenceNodes(u)[l][a - 1] = ReferenceNodes(s)[l][a - 1]
      <4>1. a - 1 \in Nodes(l) /\ a - 1 < a
        BY <2>4, <3>1
      <4>2. Len(s) \in Nat /\ Len(u) \in Nat /\ Len(s) <= Len(u) /\ a - 1 < Above(Len(s), l)
        BY <1>1, <2>2, <4>1
      <4> QED BY <2>1, <4>1, <4>2, FullNode DEF Longer
    <3>4. a - 1 = 2 * j
      BY <3>1
    <3> QED BY <2>3, <2>4, <2>5, <2>6, <2>8, <3>1, <3>2, <3>3, <3>4
  <2> QED BY <2>7, <2>8
<1>4. Nat \subseteq T
  <2> HIDE DEF T
  <2> QED BY <1>2, <1>3, InductionOverNat
<1> QED BY <1>4, HeightAssumption

\* The next leaf is below the same node or the one after.
LEMMA AboveNext ==
  ASSUME NEW index \in Nat, NEW level \in 0 .. Height
  PROVE  Above(index + 1, level) \in {Above(index, level), Above(index, level) + 1}
<1> DEFINE T == {n \in Nat : n <= Height =>
                   Above(index + 1, n) \in {Above(index, n), Above(index, n) + 1}}
<1>1. 0 \in T
  BY AboveStep
<1>2. ASSUME NEW n \in Nat, n \in T
      PROVE  n + 1 \in T
  <2> SUFFICES ASSUME n + 1 <= Height
               PROVE  Above(index + 1, n + 1) \in {Above(index, n + 1), Above(index, n + 1) + 1}
    OBVIOUS
  <2>1. n \in Levels /\ n \in 0 .. Height /\ index + 1 \in Nat
    BY HeightAssumption DEF Levels
  <2>2. PICK q \in Nat : q = Above(index, n) /\ Above(index, n + 1) = q \div 2
    BY <2>1, AboveStep, AboveBounds
  <2>3. PICK r \in Nat : r = Above(index + 1, n) /\ Above(index + 1, n + 1) = r \div 2
    BY <2>1, AboveStep, AboveBounds
  <2>4. r = q \/ r = q + 1
    BY <1>2, <2>1, <2>2, <2>3
  <2> QED BY <2>2, <2>3, <2>4
<1>3. Nat \subseteq T
  <2> HIDE DEF T
  <2> QED BY <1>1, <1>2, InductionOverNat
<1> QED BY <1>3, HeightAssumption

\* The subtrees append stores are those the next one needs.
LEMMA FilledOk ==
  ASSUME NEW t, NEW s, NEW u, NEW leaf, Longer(s, u, leaf),
         t.next_index = Len(s), SubtreesOk(t, s),
         NEW v, v.next_index = Len(u), v.subtrees = Filled(t, leaf)
  PROVE  SubtreesOk(v, u)
<1> PICK n \in Nat : n = Len(s)
  BY DEF Longer
<1>1. /\ n \in 0 .. Capacity - 1 /\ Len(u) = n + 1 /\ t.next_index = n /\ v.next_index = n + 1
      /\ n + 1 \in Nat
  BY PowerStep, HeightAssumption DEF Longer, Capacity
<1> SUFFICES ASSUME NEW level \in Levels, ~IsLeft(n + 1, level)
             PROVE  v.subtrees[level] = ReferenceNodes(u)[level][Above(n + 1, level) - 1]
  BY <1>1 DEF SubtreesOk
<1>2. level \in 0 .. Height
  BY HeightAssumption DEF Levels
<1>3. PICK a \in Nat : a = Above(n, level) /\ a \in Nodes(level)
  BY <1>1, <1>2, AboveFacts
<1>4. PICK b \in Nat : b = Above(n + 1, level) /\ b % 2 # 0 /\ (b = a \/ b = a + 1)
  BY <1>1, <1>2, <1>3, AboveNext, AboveBounds DEF IsLeft
<1>5. v.subtrees[level] = IF IsLeft(n, level) THEN Climb(t, leaf)[level] ELSE t.subtrees[level]
  BY <1>1 DEF Filled
<1>6. CASE b = a
  <2>1. ~IsLeft(n, level)
    BY <1>3, <1>4, <1>6 DEF IsLeft
  <2>2. v.subtrees[level] = ReferenceNodes(s)[level][a - 1]
    BY <1>1, <1>3, <1>5, <2>1 DEF SubtreesOk
  <2>3. a - 1 \in Nodes(level) /\ a - 1 < a
    <3>1. a >= 1
      BY <1>4, <1>6
    <3>2. Height - level \in 0 .. Height
      BY <1>2, HeightAssumption
    <3>3. PICK p \in Nat \ {0} : p = PowerOf2[Height - level]
      BY <3>2, PowerStep
    <3>4. a \in 0 .. p - 1
      BY <1>3, <3>3 DEF Nodes
    <3>5. a - 1 \in 0 .. p - 1
      BY <3>1, <3>3, <3>4
    <3> QED BY <3>3, <3>5 DEF Nodes
  <2>4. Len(s) \in Nat /\ Len(u) \in Nat /\ Len(s) <= Len(u) /\ a - 1 < Above(Len(s), level)
    BY <1>1, <1>3, <2>3
  <2>5. ReferenceNodes(u)[level][a - 1] = ReferenceNodes(s)[level][a - 1]
    BY <1>2, <2>3, <2>4, FullNode DEF Longer
  <2> QED BY <1>4, <1>6, <2>2, <2>5
<1>7. CASE b = a + 1
  <2>1. IsLeft(n, level)
    BY <1>3, <1>4, <1>7 DEF IsLeft
  <2>2. Climb(t, leaf)[level] = ReferenceNodes(u)[level][a]
    BY <1>1, <1>2, <1>3, ClimbIsReference
  <2>3. b - 1 = a
    BY <1>7
  <2> QED BY <1>4, <1>5, <2>1, <2>2, <2>3
<1> QED BY <1>4, <1>6, <1>7

\* The circuit climbs as append does.
LEMMA PathClimbs ==
  ASSUME NEW t, NEW leaf
  PROVE  MerkleProof(leaf, Siblings(t), t.next_index) = Climb(t, leaf)[Height]
<1> PICK path : path = Siblings(t)
  OBVIOUS
<1>1. PICK node :
        /\ MerkleProof(leaf, path, t.next_index) = node[Height]
        /\ node = [level \in 0 .. Height |->
                     IF level = 0 THEN leaf
                     ELSE IF IsLeft(t.next_index, level - 1)
                          THEN Hash(node[level - 1], path[level - 1])
                          ELSE Hash(path[level - 1], node[level - 1])]
  BY ProofDef
<1> DEFINE T == {l \in Nat : l <= Height => node[l] = Climb(t, leaf)[l]}
<1>2. 0 \in T
  <2>1. 0 \in 0 .. Height
    BY HeightAssumption
  <2> QED BY <1>1, <2>1, ClimbStep
<1>3. ASSUME NEW l \in Nat, l \in T
      PROVE  l + 1 \in T
  <2> SUFFICES ASSUME l + 1 <= Height
               PROVE  node[l + 1] = Climb(t, leaf)[l + 1]
    OBVIOUS
  <2>1. l \in Levels /\ l + 1 \in 0 .. Height /\ l + 1 # 0 /\ (l + 1) - 1 = l
    BY HeightAssumption DEF Levels
  <2>2. node[l] = Climb(t, leaf)[l]
    BY <1>3, HeightAssumption
  <2>3. node[l + 1] = IF IsLeft(t.next_index, l) THEN Hash(node[l], path[l])
                                                 ELSE Hash(path[l], node[l])
    BY <1>1, <2>1
  <2>4. Climb(t, leaf)[l + 1]
          = IF IsLeft(t.next_index, l) THEN Hash(Climb(t, leaf)[l], Zeros[l])
                                       ELSE Hash(t.subtrees[l], Climb(t, leaf)[l])
    BY <2>1, ClimbStep
  <2>5. path[l] = IF IsLeft(t.next_index, l) THEN Zeros[l] ELSE t.subtrees[l]
    BY <2>1 DEF Siblings
  <2> QED BY <2>2, <2>3, <2>4, <2>5
<1>4. Nat \subseteq T
  <2> HIDE DEF T
  <2> QED BY <1>2, <1>3, InductionOverNat
<1> QED BY <1>1, <1>4, HeightAssumption


-----------------------------------------------------------------------------
(* The account of the program *)

\* A MerkleTreeAccount.
TreeShape(t) ==
  /\ t = [next_index |-> t.next_index, subtrees |-> t.subtrees, root |-> t.root,
          root_index |-> t.root_index, root_history |-> t.root_history]
  /\ t.root_index \in Slots
  /\ DOMAIN t.root_history = Slots

\* Every field append leaves behind.
LEMMA AppendedFields ==
  ASSUME NEW t, TreeShape(t), t.next_index \in Nat, NEW leaf
  PROVE  /\ Appended(t, leaf).next_index = t.next_index + 1
         /\ Appended(t, leaf).subtrees = Filled(t, leaf)
         /\ Appended(t, leaf).root = Climb(t, leaf)[Height]
         /\ Appended(t, leaf).root_index = NextSlot(t)
         /\ \A i \in Slots : Appended(t, leaf).root_history[i]
                               = IF i = NextSlot(t) THEN Climb(t, leaf)[Height]
                                                    ELSE t.root_history[i]
         /\ TreeShape(Appended(t, leaf))
<1> PICK root : root = Climb(t, leaf)[Height]
  OBVIOUS
<1> PICK filled : filled = Filled(t, leaf)
  OBVIOUS
<1> PICK index, history, slot, old :
      index = t.next_index /\ history = t.root_history /\ slot = t.root_index /\ old = t.root
  OBVIOUS
<1> PICK next : next = NextSlot(t)
  OBVIOUS
<1>1. next \in Slots
  BY RingAssumption DEF NextSlot, Slots, TreeShape
<1> PICK v : v = [t EXCEPT !.subtrees = filled, !.root = root, !.next_index = @ + 1]
  OBVIOUS
<1>2. v = [next_index |-> index + 1, subtrees |-> filled, root |-> root,
           root_index |-> slot, root_history |-> history]
  BY DEF TreeShape
<1>3. NextSlot(v) = next
  BY <1>2 DEF NextSlot
<1>4. Appended(t, leaf) = PushRoot(v, root)
  BY DEF Appended
<1> PICK pushed : pushed = [history EXCEPT ![next] = root]
  OBVIOUS
<1>5. Appended(t, leaf) = [v EXCEPT !.root_index = next, !.root_history = pushed]
  BY <1>2, <1>3, <1>4 DEF PushRoot
<1>6. Appended(t, leaf) = [next_index |-> index + 1, subtrees |-> filled, root |-> root,
                           root_index |-> next, root_history |-> pushed]
  BY <1>2, <1>5
<1>7. /\ DOMAIN pushed = Slots
      /\ \A i \in Slots : pushed[i] = IF i = next THEN root ELSE history[i]
  BY DEF TreeShape
<1> QED BY <1>1, <1>6, <1>7 DEF TreeShape

-----------------------------------------------------------------------------
(* The ring of roots *)

\* How many appends ago a slot was written, were the ring never empty.
Age(t, i) == IF i <= t.root_index THEN t.root_index - i
                                  ELSE t.root_index + RootHistorySize - i

RootOf(s, k) == ReferenceRoot(SubSeq(s, 1, k))

\* Each slot holds the root of its age, or nothing when the tree is younger.
RingOk(t, s) ==
  \A i \in Slots :
    t.root_history[i] = IF Age(t, i) <= Len(s) THEN RootOf(s, Len(s) - Age(t, i)) ELSE NoRoot

\* The index arithmetic of append: one step round the ring.
LEMMA NextSlotLemma ==
  ASSUME NEW i \in Slots
  PROVE  (i + 1) % RootHistorySize = IF i + 1 = RootHistorySize THEN 0 ELSE i + 1
  BY RingAssumption DEF Slots

\* w's ring is t's with one more root.
Pushed(t, w, root) ==
  /\ w.root_index = NextSlot(t)
  /\ \A i \in Slots :
       w.root_history[i] = IF i = NextSlot(t) THEN root ELSE t.root_history[i]

\* Pushing the root of one more leaf keeps the ring in order.
LEMMA PushKeepsRing ==
  ASSUME NEW t, NEW s \in Seq(Leaf), NEW leaf \in Leaf, RingOk(t, s), t.root_index \in Slots,
         NEW w, NEW u, u = Append(s, leaf), Pushed(t, w, ReferenceRoot(u))
  PROVE  RingOk(w, u)
<1> PICK next : next = NextSlot(t)
  OBVIOUS
<1> PICK slot \in Slots : slot = t.root_index
  OBVIOUS
<1>0. /\ w.root_index = next
      /\ \A i \in Slots : w.root_history[i] = IF i = next THEN ReferenceRoot(u)
                                                          ELSE t.root_history[i]
  BY DEF Pushed
<1>1. next = (IF slot + 1 = RootHistorySize THEN 0 ELSE slot + 1) /\ next \in Slots
  <2>1. next = IF slot + 1 = RootHistorySize THEN 0 ELSE slot + 1
    BY NextSlotLemma DEF NextSlot
  <2> QED BY <2>1, RingAssumption DEF Slots
<1>2. Len(s) \in Nat /\ Len(u) = Len(s) + 1 /\ u \in Seq(Leaf)
  BY AppendFacts
<1> SUFFICES ASSUME NEW i \in Slots
             PROVE  w.root_history[i] = IF Age(w, i) <= Len(u) THEN RootOf(u, Len(u) - Age(w, i))
                                                               ELSE NoRoot
  BY DEF RingOk
<1>3. CASE i = next
  <2>1. Age(w, i) = 0
    BY <1>0, <1>1, <1>3 DEF Age, Slots
  <2>2. RootOf(u, Len(u)) = ReferenceRoot(u)
    <3>1. SubSeq(u, 1, Len(u)) = u
      <4>1. Len(u) \in 0 .. Len(u)
        BY <1>2
      <4> QED BY <1>2, <4>1, PrefixFacts
    <3> QED BY <3>1 DEF RootOf
  <2>3. Len(u) - 0 = Len(u) /\ 0 <= Len(u)
    BY <1>2
  <2> QED BY <1>0, <1>3, <2>1, <2>2, <2>3
<1>4. CASE i # next
  <2>1. PICK a \in Nat : a = Age(t, i) /\ Age(w, i) = a + 1
    <3>1. Age(t, i) \in Nat
      BY RingAssumption DEF Age, Slots
    <3>2. Age(w, i) = Age(t, i) + 1
      <4>1. /\ Age(t, i) = IF i <= slot THEN slot - i ELSE slot + RootHistorySize - i
            /\ Age(w, i) = IF i <= next THEN next - i ELSE next + RootHistorySize - i
        BY <1>0 DEF Age
      <4>2. CASE slot + 1 = RootHistorySize
        BY <1>1, <1>4, <4>1, <4>2, RingAssumption DEF Slots
      <4>3. CASE slot + 1 # RootHistorySize
        BY <1>1, <1>4, <4>1, <4>3, RingAssumption DEF Slots
      <4> QED BY <4>2, <4>3
    <3> QED BY <3>1, <3>2
  <2>2. w.root_history[i] = IF a <= Len(s) THEN RootOf(s, Len(s) - a) ELSE NoRoot
    BY <1>0, <1>4, <2>1 DEF RingOk
  <2>3. CASE a <= Len(s)
    <3>1. Len(s) - a \in 0 .. Len(s) /\ Len(u) - (a + 1) = Len(s) - a /\ a + 1 <= Len(u)
      BY <1>2, <2>3
    <3>2. RootOf(u, Len(s) - a) = RootOf(s, Len(s) - a)
      BY <3>1, AppendFacts DEF RootOf
    <3> QED BY <2>1, <2>2, <2>3, <3>1, <3>2
  <2>4. CASE ~(a <= Len(s))
    <3>1. ~(a + 1 <= Len(u))
      BY <1>2, <2>4
    <3> QED BY <2>1, <2>2, <2>4, <3>1
  <2> QED BY <2>3, <2>4
<1> QED BY <1>3, <1>4

\* No two numbers of leaves have the same root, and none has an unwritten
\* slot's.
LEMMA RootsDiffer ==
  ASSUME NEW s \in Seq(Leaf), Len(s) <= Capacity
  PROVE  /\ \A k \in 0 .. Len(s) : RootOf(s, k) # NoRoot
         /\ \A j, k \in 0 .. Len(s) : RootOf(s, j) = RootOf(s, k) => j = k
<1>1. Capacity \in Nat /\ Len(s) \in Nat
  BY PowerStep, HeightAssumption DEF Capacity
<1>2. ASSUME NEW k \in 0 .. Len(s)
      PROVE  RootOf(s, k) # NoRoot
  <2>1. PICK u \in Seq(Leaf) : u = SubSeq(s, 1, k) /\ Len(u) = k
    BY PrefixFacts
  <2>2. u \in [1 .. k -> Leaf] /\ k \in 0 .. Capacity
    <3>1. u \in [1 .. Len(u) -> Leaf]
      OBVIOUS
    <3>2. k \in Int /\ k >= 0 /\ k <= Capacity
      BY <1>1
    <3> QED BY <1>1, <2>1, <3>1, <3>2
  <2>3. u \in BoundedSeq(Leaf, Capacity)
    BY <2>2 DEF BoundedSeq, SeqOf
  <2> QED BY <2>1, <2>3, RootAssumption DEF RootOf
<1>3. ASSUME NEW j \in 0 .. Len(s), NEW k \in 0 .. Len(s), j < k
      PROVE  RootOf(s, j) # RootOf(s, k)
  <2> SUFFICES ASSUME RootOf(s, j) = RootOf(s, k)
               PROVE  FALSE
    OBVIOUS
  <2>1. PICK u \in Seq(Leaf) : u = SubSeq(s, 1, j) /\ Len(u) = j
    BY PrefixFacts
  <2>2. PICK v \in Seq(Leaf) : v = SubSeq(s, 1, k) /\ Len(v) = k
    BY PrefixFacts
  <2>3. j \in Nat /\ j \in Nodes(0) /\ ~(j < Len(u)) /\ j < Len(v)
    <3>1. j \in 0 .. Capacity - 1
      BY <1>1, <1>3
    <3>2. Nodes(0) = 0 .. Capacity - 1
      BY HeightAssumption DEF Nodes, Capacity
    <3>3. j \in Nat /\ ~(j < j) /\ j < k
      BY <1>3
    <3> QED BY <2>1, <2>2, <3>1, <3>2, <3>3
  <2>4. ReferenceNodes(u)[0][j] = NoRoot
    BY <2>3, NodeStep
  <2>5. ReferenceNodes(v)[0][j] = v[j + 1]
    BY <2>3, NodeStep
  <2>6. v[j + 1] \in Leaf
    <3>1. j + 1 \in 1 .. Len(v)
      BY <2>3
    <3> QED BY <2>2, <3>1
  <2>7. ReferenceRoot(u) = ReferenceRoot(v)
    BY <2>1, <2>2 DEF RootOf
  <2>8. ReferenceNodes(u)[0][j] = ReferenceNodes(v)[0][j]
    BY <2>3, <2>7, RootDetermines
  <2> QED BY <2>4, <2>5, <2>6, <2>8, LeafAssumption
<1>4. ASSUME NEW j \in 0 .. Len(s), NEW k \in 0 .. Len(s), RootOf(s, j) = RootOf(s, k)
      PROVE  j = k
  <2>1. j < k \/ k < j \/ j = k
    OBVIOUS
  <2> QED BY <1>3, <1>4, <2>1
<1> QED BY <1>2, <1>4

\* What a ring in order accepts.
LEMMA RingWindow ==
  ASSUME NEW t, NEW s \in Seq(Leaf), Len(s) <= Capacity, RingOk(t, s), t.root_index \in Slots
  PROVE  /\ \A k \in 0 .. Len(s) :
              IsKnownRoot(t, RootOf(s, k)) <=> k > Len(s) - RootHistorySize
         /\ ~IsKnownRoot(t, NoRoot)
<1> PICK n \in Nat : n = Len(s)
  OBVIOUS
<1>1. ASSUME NEW k \in 0 .. RootHistorySize - 1
      PROVE  Visited(t, k) \in Slots /\ Age(t, Visited(t, k)) = k
  BY RingAssumption DEF Visited, Age, Slots
<1>2. ASSUME NEW k \in 0 .. RootHistorySize - 1
      PROVE  t.root_history[Visited(t, k)] = IF k <= n THEN RootOf(s, n - k) ELSE NoRoot
  BY <1>1 DEF RingOk
<1>3. ASSUME NEW k \in 0 .. n
      PROVE  IsKnownRoot(t, RootOf(s, k)) <=> k > n - RootHistorySize
  <2>1. RootOf(s, k) # NoRoot
    BY RootsDiffer
  <2>2. ASSUME k > n - RootHistorySize
        PROVE  \E a \in 0 .. RootHistorySize - 1 :
                 t.root_history[Visited(t, a)] = RootOf(s, k)
    <3>1. n - k \in 0 .. RootHistorySize - 1 /\ n - k <= n /\ n - (n - k) = k
      BY <2>2, RingAssumption
    <3>2. t.root_history[Visited(t, n - k)] = RootOf(s, k)
      BY <1>2, <3>1
    <3> QED BY <3>1, <3>2
  <2>3. ASSUME NEW a \in 0 .. RootHistorySize - 1,
               t.root_history[Visited(t, a)] = RootOf(s, k)
        PROVE  k > n - RootHistorySize
    <3>1. a <= n /\ RootOf(s, n - a) = RootOf(s, k)
      BY <1>2, <2>1, <2>3
    <3>2. n - a \in 0 .. n
      BY <3>1, RingAssumption
    <3>3. n - a = k
      BY <3>1, <3>2, RootsDiffer
    <3> QED BY <3>2, <3>3, RingAssumption
  <2> QED BY <2>1, <2>2, <2>3 DEF IsKnownRoot
<1> QED BY <1>3 DEF IsKnownRoot

-----------------------------------------------------------------------------
(* The layers of the mirror *)

\* A layer holds nodes of the reference tree, all those with leaves below.
LayerOk(layers, s, level) ==
  /\ Len(layers[level]) \in Nat
  /\ layers[level] = [i \in 1 .. Len(layers[level]) |-> ReferenceNodes(s)[level][i - 1]]
  /\ Len(layers[level]) <= PowerOf2[Height - level]
  /\ Len(layers[level]) * PowerOf2[level] >= Len(s)
  /\ Above(Len(s), level) <= Len(layers[level])

LayersOk(layers, s) ==
  /\ DOMAIN layers = 0 .. Height
  /\ layers[0] = s
  /\ \A level \in 0 .. Height : LayerOk(layers, s, level)

\* A node is in its layer, or it is the zero subtree.
LEMMA NodeOrZero ==
  ASSUME NEW layers, NEW s, Len(s) \in Nat, NEW level \in 0 .. Height,
         LayerOk(layers, s, level), NEW b \in Nodes(level)
  PROVE  (IF b < Len(layers[level]) THEN layers[level][b + 1] ELSE Zeros[level])
           = ReferenceNodes(s)[level][b]
<1>1. PICK w \in Nat : w = Len(layers[level])
  BY DEF LayerOk
<1>2. \A i \in 1 .. w : layers[level][i] = ReferenceNodes(s)[level][i - 1]
  BY <1>1 DEF LayerOk
<1>3. b \in Nat
  BY DEF Nodes
<1>4. CASE b < w
  <2>1. b + 1 \in 1 .. w /\ (b + 1) - 1 = b
    BY <1>3, <1>4
  <2> QED BY <1>1, <1>2, <1>4, <2>1
<1>5. CASE ~(b < w)
  <2>1. PICK p \in Nat \ {0} : p = PowerOf2[level]
    BY PowerStep
  <2>2. w * p >= Len(s)
    BY <1>1, <2>1 DEF LayerOk
  <2>3. b >= w
    BY <1>3, <1>5
  <2>4. b * p >= w * p
    BY <1>3, <2>3, SMT
  <2>5. b * p \in Int /\ w * p \in Int
    BY <1>3, SMT
  <2>6. b * PowerOf2[level] >= Len(s)
    BY <2>1, <2>2, <2>4, <2>5
  <2>7. ReferenceNodes(s)[level][b] = Zeros[level]
    BY <2>6, EmptyNode
  <2> QED BY <1>1, <1>5, <2>7
<1> QED BY <1>4, <1>5

\* One layer of rebuild.
LEMMA RebuildStep ==
  ASSUME NEW layers, NEW from
  PROVE  /\ DOMAIN Rebuild(layers, from) = 0 .. Height
         /\ Rebuild(layers, from)[0] = layers[0]
         /\ \A level \in Levels :
              Rebuild(layers, from)[level + 1]
                = [i \in 1 .. HalfUp(Len(Rebuild(layers, from)[level])) |->
                     IF i <= Above(from, level + 1) THEN layers[level + 1][i]
                     ELSE Hash(Rebuild(layers, from)[level][2 * i - 1],
                               IF 2 * i <= Len(Rebuild(layers, from)[level])
                               THEN Rebuild(layers, from)[level][2 * i] ELSE Zeros[level])]
<1> PICK new : new = Rebuild(layers, from)
  OBVIOUS
<1> DEFINE Layer(level, b) == [i \in 1 .. HalfUp(Len(new[b])) |->
                                 IF i <= Above(from, level) THEN layers[level][i]
                                 ELSE Hash(new[b][2 * i - 1],
                                           IF 2 * i <= Len(new[b]) THEN new[b][2 * i] ELSE Zeros[b])]
           Body(level) == IF level = 0 THEN layers[0] ELSE Layer(level, level - 1)
<1>1. new = [level \in 0 .. Height |-> Body(level)]
  BY RebuildDef
<1>2. DOMAIN new = 0 .. Height /\ \A level \in 0 .. Height : new[level] = Body(level)
  <2> HIDE DEF Body
  <2> QED BY <1>1
<1>3. new[0] = layers[0]
  <2>1. 0 \in 0 .. Height /\ Body(0) = layers[0]
    BY HeightAssumption
  <2> HIDE DEF Body
  <2> QED BY <1>2, <2>1
<1>4. ASSUME NEW level \in Levels
      PROVE  new[level + 1] = Layer(level + 1, level)
  <2>1. level + 1 \in 0 .. Height /\ level + 1 # 0 /\ (level + 1) - 1 = level
    BY HeightAssumption DEF Levels
  <2> HIDE DEF Layer
  <2>2. Body(level + 1) = Layer(level + 1, level)
    BY <2>1
  <2> HIDE DEF Body
  <2> QED BY <1>2, <2>1, <2>2
<1> QED BY <1>2, <1>3, <1>4

\* The width of a layer that covers the one below.
LEMMA WidthStep ==
  ASSUME NEW n \in Nat, NEW level \in Levels, NEW w \in Nat,
         w <= PowerOf2[Height - level], w * PowerOf2[level] >= n, Above(n, level) <= w
  PROVE  /\ HalfUp(w) \in Nat /\ w <= 2 * HalfUp(w) /\ 2 * HalfUp(w) <= w + 1
         /\ HalfUp(w) <= PowerOf2[Height - (level + 1)]
         /\ HalfUp(w) * PowerOf2[level + 1] >= n
         /\ Above(n, level + 1) <= HalfUp(w)
<1>1. PICK h \in Nat : h = HalfUp(w) /\ w <= 2 * h /\ 2 * h <= w + 1
  BY DEF HalfUp
<1>2. /\ level \in 0 .. Height /\ Height - (level + 1) \in Levels
      /\ Height - (level + 1) \in 0 .. Height
      /\ (Height - (level + 1)) + 1 = Height - level
  BY HeightAssumption DEF Levels
<1>3. h <= PowerOf2[Height - (level + 1)]
  <2>1. PICK p \in Nat \ {0} : p = PowerOf2[Height - (level + 1)] /\ PowerOf2[Height - level] = 2 * p
    BY <1>2, PowerStep
  <2>2. w <= 2 * p
    BY <2>1
  <2> QED BY <1>1, <2>1, <2>2
<1>4. h * PowerOf2[level + 1] >= n
  <2>1. PICK p \in Nat \ {0} : p = PowerOf2[level] /\ PowerOf2[level + 1] = 2 * p
    BY <1>2, PowerStep
  <2>2. (2 * h) * p >= w * p
    BY <1>1, SMT
  <2>3. (2 * h) * p = h * (2 * p)
    BY SMT
  <2>4. w * p \in Int /\ h * (2 * p) \in Int
    BY SMT
  <2>5. w * p >= n
    BY <2>1
  <2>6. h * (2 * p) >= n
    BY <2>2, <2>3, <2>4, <2>5
  <2> QED BY <2>1, <2>6
<1>5. Above(n, level + 1) <= h
  <2>1. PICK q \in Nat : q = Above(n, level) /\ Above(n, level + 1) = q \div 2
    BY <1>2, AboveStep, AboveBounds
  <2>2. q <= w
    BY <2>1
  <2>3. q \div 2 <= h
    BY <1>1, <2>2
  <2> QED BY <2>1, <2>3
<1> QED BY <1>1, <1>3, <1>4, <1>5

\* u begins with s.
Extends(s, u) ==
  /\ Len(s) \in Nat /\ Len(u) \in Nat /\ Len(s) <= Len(u) /\ Len(u) <= Capacity
  /\ u = [i \in 1 .. Len(u) |-> u[i]]
  /\ \A k \in 1 .. Len(s) : u[k] = s[k]

\* Every layer but the lowest is the nodes over s.
OldLayers(layers, s) ==
  \E old : /\ \A level \in 0 .. Height : LayerOk(old, s, level)
           /\ \A level \in 1 .. Height : layers[level] = old[level]

\* The widths of the layers.
Halved(layers) == \A level \in Levels : Len(layers[level + 1]) = HalfUp(Len(layers[level]))

\* Rebuilding from the first new leaf turns the layers of s into those of u.
LEMMA RebuildOk ==
  ASSUME NEW s, NEW u, Extends(s, u),
         NEW layers, layers[0] = u, OldLayers(layers, s),
         NEW new, new = Rebuild(layers, Len(s))
  PROVE  LayersOk(new, u) /\ Halved(new)
<1> PICK old : /\ \A level \in 0 .. Height : LayerOk(old, s, level)
               /\ \A level \in 1 .. Height : layers[level] = old[level]
  BY DEF OldLayers
<1>0. /\ Len(s) \in Nat /\ Len(u) \in Nat /\ Len(s) <= Len(u) /\ Len(u) <= Capacity
      /\ u = [i \in 1 .. Len(u) |-> u[i]] /\ \A k \in 1 .. Len(s) : u[k] = s[k]
  BY DEF Extends
<1> PICK m \in Nat, n \in Nat : m = Len(s) /\ n = Len(u)
  BY <1>0
<1>1. /\ DOMAIN new = 0 .. Height /\ new[0] = u
      /\ \A level \in Levels :
           new[level + 1] = [i \in 1 .. HalfUp(Len(new[level])) |->
                               IF i <= Above(m, level + 1) THEN layers[level + 1][i]
                               ELSE Hash(new[level][2 * i - 1],
                                         IF 2 * i <= Len(new[level])
                                         THEN new[level][2 * i] ELSE Zeros[level])]
  BY RebuildStep
<1> DEFINE T == {l \in Nat : l <= Height => LayerOk(new, u, l)}
<1>2. 0 \in T
  <2>1. /\ Capacity \in Nat /\ PowerOf2[0] = 1 /\ Above(n, 0) = n
        /\ PowerOf2[Height - 0] = Capacity
    BY PowerStep, AboveStep, HeightAssumption DEF Capacity
  <2>2. \A i \in 1 .. n : ReferenceNodes(u)[0][i - 1] = u[i]
    <3> SUFFICES ASSUME NEW i \in 1 .. n
                 PROVE  ReferenceNodes(u)[0][i - 1] = u[i]
      OBVIOUS
    <3>1. i - 1 \in 0 .. Capacity - 1 /\ i - 1 < n /\ (i - 1) + 1 = i
      BY <1>0, <2>1
    <3>2. Nodes(0) = 0 .. Capacity - 1
      BY HeightAssumption DEF Nodes, Capacity
    <3> QED BY <3>1, <3>2, NodeStep
  <2>3. u = [i \in 1 .. n |-> ReferenceNodes(u)[0][i - 1]]
    BY <1>0, <2>2
  <2>4. n * 1 >= n /\ n <= Capacity /\ n <= n
    BY <1>0
  <2> QED BY <1>1, <2>1, <2>3, <2>4 DEF LayerOk
<1>3. ASSUME NEW l \in Levels, LayerOk(new, u, l)
      PROVE  LayerOk(new, u, l + 1) /\ Len(new[l + 1]) = HalfUp(Len(new[l]))
  <2>1. l \in Nat /\ l \in 0 .. Height /\ l + 1 \in 0 .. Height /\ l + 1 \in 1 .. Height
    BY HeightAssumption DEF Levels
  <2>2. PICK w \in Nat : /\ w = Len(new[l]) /\ w <= PowerOf2[Height - l]
                         /\ w * PowerOf2[l] >= n /\ Above(n, l) <= w
    BY <1>3 DEF LayerOk
  <2>3. PICK h \in Nat : /\ h = HalfUp(w) /\ w <= 2 * h /\ 2 * h <= w + 1
                         /\ h <= PowerOf2[Height - (l + 1)]
                         /\ h * PowerOf2[l + 1] >= n /\ Above(n, l + 1) <= h
    BY <2>2, WidthStep
  <2> DEFINE Entry(i) == IF i <= Above(m, l + 1) THEN layers[l + 1][i]
                         ELSE Hash(new[l][2 * i - 1],
                                   IF 2 * i <= Len(new[l]) THEN new[l][2 * i] ELSE Zeros[l])
  <2>4. new[l + 1] = [i \in 1 .. h |-> Entry(i)]
    BY <1>1, <2>2, <2>3
  <2>5. Len(new[l + 1]) = h
    <3> HIDE DEF Entry
    <3> QED BY <2>4
  <2>6. ASSUME NEW i \in 1 .. h
        PROVE  Entry(i) = ReferenceNodes(u)[l + 1][i - 1]
    <3>1. PICK j \in Nat : j = i - 1 /\ i = j + 1 /\ j \in Nodes(l + 1) /\ i \in Nat
      <4>1. PICK p \in Nat \ {0} : p = PowerOf2[Height - (l + 1)]
        <5>1. Height - (l + 1) \in 0 .. Height
          BY <2>1, HeightAssumption
        <5> QED BY <5>1, PowerStep
      <4>2. i - 1 \in 0 .. p - 1
        BY <2>3, <4>1
      <4>3. i - 1 \in Nodes(l + 1)
        BY <4>1, <4>2 DEF Nodes
      <4> QED BY <4>2, <4>3
    <3>2. CASE i <= Above(m, l + 1)
      <4>1. PICK a \in Nat : a = Above(m, l + 1)
        BY <2>1, AboveBounds
      <4>2. PICK v \in Nat : /\ v = Len(old[l + 1]) /\ a <= v
                             /\ \A k \in 1 .. v : old[l + 1][k] = ReferenceNodes(s)[l + 1][k - 1]
        <5>1. LayerOk(old, s, l + 1)
          BY <2>1
        <5> QED BY <4>1, <5>1 DEF LayerOk
      <4>3. i \in 1 .. v /\ j < a
        BY <3>1, <3>2, <4>1, <4>2
      <4>4. layers[l + 1][i] = ReferenceNodes(s)[l + 1][j]
        BY <2>1, <3>1, <4>2, <4>3
      <4>5. ReferenceNodes(u)[l + 1][j] = ReferenceNodes(s)[l + 1][j]
        <5>1. PICK level \in 0 .. Height : level = l + 1
          BY <2>1
        <5>2. j \in Nodes(level) /\ j < Above(Len(s), level)
          BY <3>1, <4>1, <4>3, <5>1
        <5>3. ReferenceNodes(u)[level][j] = ReferenceNodes(s)[level][j]
          BY <1>0, <5>2, FullNode
        <5> QED BY <5>1, <5>3
      <4> QED BY <3>1, <3>2, <4>4, <4>5
    <3>3. CASE ~(i <= Above(m, l + 1))
      <4>1. /\ 2 * j \in Nodes(l) /\ 2 * j + 1 \in Nodes(l)
            /\ ReferenceNodes(u)[l + 1][j]
                 = Hash(ReferenceNodes(u)[l][2 * j], ReferenceNodes(u)[l][2 * j + 1])
        BY <3>1, NodeStep
      <4>2. new[l][2 * j + 1] = ReferenceNodes(u)[l][2 * j]
        <5>1. 2 * j < w
          BY <2>3, <3>1
        <5> QED BY <1>0, <1>3, <2>1, <2>2, <4>1, <5>1, NodeOrZero
      <4>3. (IF 2 * j + 1 < w THEN new[l][(2 * j + 1) + 1] ELSE Zeros[l])
              = ReferenceNodes(u)[l][2 * j + 1]
        BY <1>0, <1>3, <2>1, <2>2, <4>1, NodeOrZero
      <4>4. /\ 2 * i - 1 = 2 * j + 1 /\ 2 * i = (2 * j + 1) + 1
            /\ 2 * i <= w <=> 2 * j + 1 < w
        BY <3>1
      <4>5. Entry(i) = Hash(new[l][2 * j + 1],
                            IF 2 * j + 1 < w THEN new[l][(2 * j + 1) + 1] ELSE Zeros[l])
        BY <2>2, <3>3, <4>4
      <4> HIDE DEF Entry
      <4> QED BY <3>1, <4>1, <4>2, <4>3, <4>5
    <3> QED BY <3>2, <3>3
  <2>7. new[l + 1] = [i \in 1 .. h |-> ReferenceNodes(u)[l + 1][i - 1]]
    <3> HIDE DEF Entry
    <3> QED BY <2>4, <2>6
  <2> HIDE DEF Entry
  <2> QED BY <2>2, <2>3, <2>5, <2>7 DEF LayerOk
<1>4. ASSUME NEW l \in Nat, l \in T
      PROVE  l + 1 \in T
  <2> SUFFICES ASSUME l + 1 <= Height
               PROVE  LayerOk(new, u, l + 1)
    OBVIOUS
  <2>1. l \in Levels /\ l <= Height
    BY HeightAssumption DEF Levels
  <2> QED BY <1>3, <1>4, <2>1
<1>5. Nat \subseteq T
  <2> HIDE DEF T
  <2> QED BY <1>2, <1>4, InductionOverNat
<1>6. \A level \in 0 .. Height : LayerOk(new, u, level)
  BY <1>5, HeightAssumption
<1>7. \A level \in Levels : Len(new[level + 1]) = HalfUp(Len(new[level]))
  BY <1>3, <1>6, HeightAssumption DEF Levels
<1> QED BY <1>1, <1>6, <1>7 DEF LayersOk, Halved

\* The root of the layers.
LEMMA LayersRoot ==
  ASSUME NEW layers, NEW s, Len(s) \in Nat, LayersOk(layers, s)
  PROVE  (IF layers[Height] = <<>> THEN Zeros[Height] ELSE layers[Height][1]) = ReferenceRoot(s)
<1>1. Height \in 0 .. Height /\ Height - Height = 0 /\ PowerOf2[0] = 1
  BY PowerStep, HeightAssumption
<1>2. LayerOk(layers, s, Height)
  BY <1>1 DEF LayersOk
<1>3. PICK w \in Nat : w = Len(layers[Height]) /\ w <= 1
  BY <1>1, <1>2 DEF LayerOk
<1>4. 0 \in Nodes(Height)
  BY TopLevel
<1>5. (IF 0 < w THEN layers[Height][0 + 1] ELSE Zeros[Height]) = ReferenceRoot(s)
  BY <1>1, <1>2, <1>3, <1>4, NodeOrZero DEF ReferenceRoot
<1>6. layers[Height] = <<>> <=> ~(0 < w)
  <2>1. CASE w = 0
    <3>1. layers[Height] = [i \in 1 .. 0 |-> ReferenceNodes(s)[Height][i - 1]]
      BY <1>2, <1>3, <2>1 DEF LayerOk
    <3> QED BY <2>1, <3>1
  <2>2. CASE w # 0
    <3>1. Len(<<>>) = 0
      OBVIOUS
    <3> QED BY <1>3, <2>2, <3>1
  <2> QED BY <2>1, <2>2
<1> QED BY <1>5, <1>6

\* The path the layers give for a leaf leads to their root.
LEMMA LayersPath ==
  ASSUME NEW s, Len(s) \in Nat, Len(s) <= Capacity, LayersOk(mirror, s),
         NEW index \in 0 .. Len(s) - 1
  PROVE  MerkleProof(s[index + 1], MirrorPath(index), index) = ReferenceRoot(s)
<1> PICK n \in Nat : n = Len(s)
  OBVIOUS
<1> PICK path : path = MirrorPath(index)
  OBVIOUS
<1> PICK leaf : leaf = s[index + 1]
  OBVIOUS
<1>1. PICK node :
        /\ MerkleProof(leaf, path, index) = node[Height]
        /\ node = [level \in 0 .. Height |->
                     IF level = 0 THEN leaf
                     ELSE IF IsLeft(index, level - 1)
                          THEN Hash(node[level - 1], path[level - 1])
                          ELSE Hash(path[level - 1], node[level - 1])]
  BY ProofDef
<1>2. index \in 0 .. Capacity - 1 /\ index \in Nat
  <2>1. Capacity \in Nat
    BY PowerStep, HeightAssumption DEF Capacity
  <2> QED BY <2>1
<1> DEFINE T == {l \in Nat : l <= Height => node[l] = ReferenceNodes(s)[l][Above(index, l)]}
<1>3. 0 \in T
  <2>1. 0 \in 0 .. Height
    BY HeightAssumption
  <2>2. Above(index, 0) = index /\ index \in Nodes(0) /\ index < Len(s)
    <3>1. Above(index, 0) = index
      BY <1>2, AboveStep
    <3>2. Above(index, 0) \in Nodes(0)
      BY <1>2, <2>1, AboveFacts
    <3> QED BY <3>1, <3>2
  <2>3. ReferenceNodes(s)[0][index] = leaf
    BY <2>2, NodeStep
  <2> QED BY <1>1, <2>1, <2>2, <2>3
<1>4. ASSUME NEW l \in Nat, l \in T
      PROVE  l + 1 \in T
  <2> SUFFICES ASSUME l + 1 <= Height
               PROVE  node[l + 1] = ReferenceNodes(s)[l + 1][Above(index, l + 1)]
    OBVIOUS
  <2>1. /\ l \in Levels /\ l \in 0 .. Height /\ l # Height
        /\ l + 1 \in 0 .. Height /\ l + 1 # 0 /\ (l + 1) - 1 = l
    BY HeightAssumption DEF Levels
  <2>2. PICK a \in Nat : a = Above(index, l) /\ a \in Nodes(l)
    BY <1>2, <2>1, AboveFacts
  <2>3. PICK j \in Nat : j = Above(index, l + 1) /\ j = a \div 2 /\ j \in Nodes(l + 1)
    <3>1. Above(index, l + 1) = a \div 2
      BY <1>2, <2>1, <2>2, AboveFacts
    <3>2. Above(index, l + 1) \in Nat /\ Above(index, l + 1) \in Nodes(l + 1)
      BY <1>2, <2>1, AboveFacts
    <3> QED BY <3>1, <3>2
  <2>4. /\ 2 * j \in Nodes(l) /\ 2 * j + 1 \in Nodes(l)
        /\ ReferenceNodes(s)[l + 1][j]
             = Hash(ReferenceNodes(s)[l][2 * j], ReferenceNodes(s)[l][2 * j + 1])
    BY <2>1, <2>3, NodeStep
  <2>5. node[l] = ReferenceNodes(s)[l][a]
    BY <1>4, <2>1, <2>2, HeightAssumption
  <2>6. node[l + 1] = IF IsLeft(index, l) THEN Hash(node[l], path[l]) ELSE Hash(path[l], node[l])
    BY <1>1, <2>1
  <2>7. PICK b : b = IF a % 2 = 0 THEN a + 1 ELSE a - 1
    OBVIOUS
  <2>8. path[l] = IF b < Len(mirror[l]) THEN mirror[l][b + 1] ELSE Zeros[l]
    BY <2>1, <2>2, <2>7 DEF MirrorPath
  <2>9. IsLeft(index, l) <=> a % 2 = 0
    BY <2>2 DEF IsLeft
  <2>10. (a % 2 = 0 /\ a = 2 * j /\ b = 2 * j + 1) \/ (a % 2 # 0 /\ a = 2 * j + 1 /\ b = 2 * j)
    BY <2>3, <2>7
  <2>11. path[l] = ReferenceNodes(s)[l][b]
    <3>1. b \in Nodes(l)
      BY <2>4, <2>10
    <3>2. LayerOk(mirror, s, l)
      BY <2>1 DEF LayersOk
    <3> QED BY <2>1, <2>8, <3>1, <3>2, NodeOrZero
  <2> QED BY <2>3, <2>4, <2>5, <2>6, <2>9, <2>10, <2>11
<1>5. Nat \subseteq T
  <2> HIDE DEF T
  <2> QED BY <1>3, <1>4, InductionOverNat
<1>6. node[Height] = ReferenceNodes(s)[Height][Above(index, Height)]
  BY <1>5, HeightAssumption
<1>7. Above(index, Height) = 0
  <2>1. Height \in 0 .. Height
    BY HeightAssumption
  <2>2. Above(index, Height) \in Nodes(Height)
    BY <1>2, <2>1, AboveFacts
  <2> QED BY <2>2, TopLevel
<1> QED BY <1>1, <1>6, <1>7 DEF ReferenceRoot

-----------------------------------------------------------------------------
(* The inductive invariant *)

\* The account: its root and its ring are those of the leaves, and its
\* subtrees those the next append needs.
TreeInv ==
  /\ TreeShape(tree)
  /\ leaves \in Seq(Leaf)
  /\ Len(leaves) <= Capacity
  /\ tree.next_index = Len(leaves)
  /\ RootIsReference
  /\ SubtreesOk(tree, leaves)
  /\ RingOk(tree, leaves)

\* The mirror: its layers are nodes of the reference tree over its leaves.
MirrorInv ==
  /\ MirrorSize \in 0 .. Len(leaves)
  /\ LayersOk(mirror, Prefix(MirrorSize))
  /\ Halved(mirror)

IInv == TreeInv /\ AppendProofVerifies /\ MirrorInv

\* An empty account.
LEMMA InitTree == Init => TreeInv /\ AppendProofVerifies
<1> SUFFICES ASSUME Init
             PROVE  TreeInv /\ AppendProofVerifies
  OBVIOUS
<1>1. leaves = <<>> /\ leaves \in Seq(Leaf) /\ Len(leaves) = 0
  BY DEF Init
<1>2. /\ TreeShape(tree) /\ tree.next_index = 0 /\ tree.root_index = 0
      /\ tree.root = Zeros[Height]
      /\ \A i \in Slots : tree.root_history[i] = IF i = 0 THEN Zeros[Height] ELSE NoRoot
  <2>1. tree = InitialTree
    BY DEF Init
  <2>2. 0 \in Slots
    BY RingAssumption DEF Slots
  <2> QED BY <2>1, <2>2 DEF InitialTree, TreeShape, EmptyRing
<1>3. Capacity \in Nat /\ 0 <= Capacity
  BY PowerStep, HeightAssumption DEF Capacity
<1>4. ReferenceRoot(leaves) = Zeros[Height]
  <2>1. Height \in 0 .. Height /\ 0 \in Nodes(Height)
    BY TopLevel, HeightAssumption
  <2>2. 0 * PowerOf2[Height] >= Len(leaves)
    BY <1>1, <2>1, PowerStep
  <2>3. Len(leaves) \in Nat
    BY <1>1
  <2> QED BY <2>1, <2>2, <2>3, EmptyNode DEF ReferenceRoot
<1>5. SubtreesOk(tree, leaves)
  <2> SUFFICES ASSUME NEW level \in Levels
               PROVE  IsLeft(0, level)
    BY <1>2 DEF SubtreesOk
  <2>1. level \in 0 .. Height
    BY HeightAssumption DEF Levels
  <2>2. PICK p \in Nat \ {0} : p = PowerOf2[level]
    BY <2>1, PowerStep
  <2>3. 0 \div p = 0
    OBVIOUS
  <2> QED BY <2>2, <2>3 DEF IsLeft, Above
<1>6. RingOk(tree, leaves)
  <2> SUFFICES ASSUME NEW i \in Slots
               PROVE  tree.root_history[i] = IF Age(tree, i) <= Len(leaves)
                                             THEN RootOf(leaves, Len(leaves) - Age(tree, i))
                                             ELSE NoRoot
    BY DEF RingOk
  <2>1. CASE i = 0
    <3>1. Age(tree, i) = 0 /\ Age(tree, i) <= Len(leaves)
          /\ Len(leaves) - Age(tree, i) = Len(leaves)
      BY <1>1, <1>2, <2>1 DEF Age
    <3>2. SubSeq(leaves, 1, Len(leaves)) = leaves
      BY <1>1
    <3> QED BY <1>2, <1>4, <2>1, <3>1, <3>2 DEF RootOf
  <2>2. CASE i # 0
    <3>1. ~(Age(tree, i) <= Len(leaves))
      BY <1>1, <1>2, <2>2, RingAssumption DEF Age, Slots
    <3> QED BY <1>2, <2>2, <3>1
  <2> QED BY <2>1, <2>2
<1> QED BY <1>1, <1>2, <1>3, <1>4, <1>5, <1>6
     DEF TreeInv, RootIsReference, AppendProofVerifies

\* An empty mirror.
LEMMA InitMirror == Init => MirrorInv
<1> SUFFICES ASSUME Init
             PROVE  MirrorInv
  OBVIOUS
<1> PICK s : s = <<>>
  OBVIOUS
<1>1. /\ Len(s) = 0 /\ leaves = s /\ SubSeq(leaves, 1, 0) = s
      /\ s = [i \in 1 .. Len(s) |-> s[i]]
  BY DEF Init
<1>2. ASSUME NEW level \in 0 .. Height
      PROVE  LayerOk(EmptyMirror, s, level)
  <2>1. EmptyMirror[level] = s
    BY DEF EmptyMirror
  <2>2. s = [i \in 1 .. 0 |-> ReferenceNodes(s)[level][i - 1]]
    OBVIOUS
  <2>3. PowerOf2[Height - level] >= 0 /\ 0 * PowerOf2[level] >= 0
    <3>1. Height - level \in 0 .. Height
      BY HeightAssumption
    <3> QED BY <3>1, PowerStep
  <2>4. Above(0, level) = 0
    <3>1. PICK p \in Nat \ {0} : p = PowerOf2[level]
      BY PowerStep
    <3>2. 0 \div p = 0
      OBVIOUS
    <3> QED BY <3>1, <3>2 DEF Above
  <2> QED BY <1>1, <2>1, <2>2, <2>3, <2>4 DEF LayerOk
<1>3. EmptyMirror[0] = s
  BY HeightAssumption DEF EmptyMirror
<1>4. Len(s) \in Nat /\ Len(s) <= Len(s) /\ Len(s) <= Capacity
  BY <1>1, PowerStep, HeightAssumption DEF Capacity
<1>5. mirror = Rebuild(EmptyMirror, Len(s))
  BY <1>1 DEF Init
<1>6. LayersOk(mirror, s) /\ Halved(mirror)
  <2> PICK empty : empty = EmptyMirror
    OBVIOUS
  <2>1. empty[0] = s /\ mirror = Rebuild(empty, Len(s)) /\ OldLayers(empty, s)
    BY <1>2, <1>3, <1>5 DEF OldLayers
  <2>2. Extends(s, s)
    BY <1>1, <1>4 DEF Extends
  <2> QED BY <2>1, <2>2, RebuildOk
<1>7. MirrorSize = 0
  BY <1>1, <1>6 DEF LayersOk, MirrorSize
<1>8. Prefix(MirrorSize) = s /\ MirrorSize \in 0 .. Len(leaves)
  BY <1>1, <1>7 DEF Prefix
<1> QED BY <1>6, <1>8 DEF MirrorInv

\* append keeps the invariant.
LEMMA AppendKeeps ==
  ASSUME IInv, NEW leaf \in Leaf, AppendLeaf(leaf)
  PROVE  IInv'
<1>1. /\ TreeShape(tree) /\ leaves \in Seq(Leaf) /\ Len(leaves) <= Capacity
      /\ tree.next_index = Len(leaves) /\ SubtreesOk(tree, leaves) /\ RingOk(tree, leaves)
  BY DEF IInv, TreeInv
<1>2. /\ tree.next_index < Capacity /\ tree' = Appended(tree, leaf)
      /\ proof' = [leaf |-> leaf, index |-> tree.next_index, path |-> Siblings(tree)]
      /\ leaves' = Append(leaves, leaf) /\ mirror' = mirror
  BY DEF AppendLeaf
<1> PICK n \in Nat : n = Len(leaves)
  BY <1>1
<1>3. /\ leaves' \in Seq(Leaf) /\ Len(leaves') = n + 1
      /\ \A i \in 1 .. n : leaves'[i] = leaves[i]
      /\ leaves'[n + 1] = leaf
      /\ \A k \in 0 .. n : SubSeq(leaves', 1, k) = SubSeq(leaves, 1, k)
  BY <1>1, <1>2, AppendFacts
<1>4. Capacity \in Nat
  BY PowerStep, HeightAssumption DEF Capacity
<1>5. Longer(leaves, leaves', leaf)
  BY <1>1, <1>2, <1>3, <1>4 DEF Longer
<1>6. /\ tree'.next_index = n + 1
      /\ tree'.subtrees = Filled(tree, leaf)
      /\ tree'.root = Climb(tree, leaf)[Height]
      /\ tree'.root_index = NextSlot(tree)
      /\ \A i \in Slots : tree'.root_history[i] = IF i = NextSlot(tree) THEN Climb(tree, leaf)[Height]
                                                  ELSE tree.root_history[i]
      /\ TreeShape(tree')
  BY <1>1, <1>2, AppendedFields
<1>7. Climb(tree, leaf)[Height] = ReferenceRoot(leaves')
  <2>1. Height \in 0 .. Height /\ n \in 0 .. Capacity - 1
    BY <1>1, <1>2, <1>4, HeightAssumption
  <2>2. Climb(tree, leaf)[Height] = ReferenceNodes(leaves')[Height][Above(n, Height)]
    BY <1>1, <1>5, <2>1, ClimbIsReference
  <2>3. Above(n, Height) = 0
    BY <2>1, AboveFacts, TopLevel
  <2> QED BY <2>2, <2>3 DEF ReferenceRoot
<1>8. SubtreesOk(tree', leaves')
  BY <1>1, <1>3, <1>5, <1>6, FilledOk
<1>9. RingOk(tree', leaves')
  <2>1. tree.root_index \in Slots
    BY <1>1 DEF TreeShape
  <2> PICK w, u : w = tree' /\ u = leaves'
    OBVIOUS
  <2>2. u = Append(leaves, leaf)
    BY <1>2
  <2>3. Pushed(tree, w, ReferenceRoot(u))
    BY <1>6, <1>7 DEF Pushed
  <2>4. RingOk(tree, leaves) /\ leaves \in Seq(Leaf)
    BY <1>1
  <2>5. RingOk(w, u)
    BY <2>1, <2>2, <2>3, <2>4, PushKeepsRing
  <2> QED BY <2>5
<1>10. TreeInv'
  <2>1. Len(leaves') <= Capacity
    BY <1>1, <1>2, <1>3, <1>4
  <2>2. tree'.root = ReferenceRoot(leaves')
    BY <1>6, <1>7
  <2>3. RootIsReference'
    BY <2>2 DEF RootIsReference, ReferenceRoot, ReferenceNodes
  <2>4. SubtreesOk(tree, leaves)' /\ RingOk(tree, leaves)' /\ TreeShape(tree)'
    BY <1>6, <1>8, <1>9 DEF SubtreesOk, RingOk, TreeShape
  <2> QED BY <1>3, <1>6, <2>1, <2>3, <2>4 DEF TreeInv
<1>11. AppendProofVerifies'
  <2>1. MerkleProof(leaf, Siblings(tree), tree.next_index) = Climb(tree, leaf)[Height]
    BY PathClimbs
  <2>2. MerkleProof(proof'.leaf, proof'.path, proof'.index) = tree'.root
    BY <1>2, <1>6, <2>1
  <2> QED BY <2>2 DEF AppendProofVerifies, MerkleProof
<1>12. MirrorInv'
  <2>1. PICK k \in 0 .. n : k = MirrorSize
    BY DEF IInv, MirrorInv
  <2>2. MirrorSize' = MirrorSize
    BY <1>2 DEF MirrorSize
  <2>3. Prefix(MirrorSize)' = Prefix(MirrorSize)
    BY <1>3, <2>1, <2>2 DEF Prefix
  <2>4. MirrorSize' \in 0 .. Len(leaves')
    BY <1>3, <2>1, <2>2
  <2>5. LayersOk(mirror, Prefix(MirrorSize))'
    BY <1>2, <2>3 DEF IInv, MirrorInv, LayersOk, LayerOk
  <2> QED BY <1>2, <2>4, <2>5 DEF IInv, MirrorInv, Halved
<1> QED BY <1>10, <1>11, <1>12 DEF IInv

\* What Insert and BulkInsert have in common: the mirror takes the leaves up
\* to the n-th and is rebuilt from the first it did not have.
LEMMA RebuildKeeps ==
  ASSUME TreeInv, MirrorInv, NEW n \in MirrorSize .. Len(leaves), NEW layers,
         layers = [mirror EXCEPT ![0] = SubSeq(leaves, 1, n)],
         mirror' = Rebuild(layers, MirrorSize), leaves' = leaves
  PROVE  MirrorInv'
<1> PICK m : m = MirrorSize
  OBVIOUS
<1> PICK s, u : s = Prefix(m) /\ u = SubSeq(leaves, 1, n)
  OBVIOUS
<1>1. /\ leaves \in Seq(Leaf) /\ Len(leaves) <= Capacity /\ Capacity \in Nat
      /\ m \in 0 .. Len(leaves) /\ n \in 0 .. Len(leaves) /\ m <= n
      /\ LayersOk(mirror, s)
  BY PowerStep, HeightAssumption DEF TreeInv, MirrorInv, Capacity
<1>2. /\ s \in Seq(Leaf) /\ Len(s) = m /\ \A i \in 1 .. m : s[i] = leaves[i]
      /\ u \in Seq(Leaf) /\ Len(u) = n /\ \A i \in 1 .. n : u[i] = leaves[i]
  BY <1>1, PrefixFacts DEF Prefix
<1>3. /\ Len(s) \in Nat /\ Len(u) \in Nat /\ Len(s) <= Len(u) /\ Len(u) <= Capacity
      /\ \A k \in 1 .. Len(s) : u[k] = s[k]
  <2>1. \A k \in 1 .. m : k \in 1 .. n
    BY <1>1
  <2> QED BY <1>1, <1>2, <2>1
<1>4. u = [i \in 1 .. Len(u) |-> u[i]]
  BY <1>2
<1>5. layers[0] = u /\ \A level \in 1 .. Height : layers[level] = mirror[level]
  BY <1>1, HeightAssumption DEF LayersOk
<1>6. \A level \in 0 .. Height : LayerOk(mirror, s, level)
  BY <1>1 DEF LayersOk
<1> PICK new : new = Rebuild(layers, Len(s))
  OBVIOUS
<1>7. LayersOk(new, u) /\ Halved(new)
  <2>1. Extends(s, u) /\ OldLayers(layers, s)
    BY <1>3, <1>4, <1>5, <1>6 DEF Extends, OldLayers
  <2> QED BY <1>5, <2>1, RebuildOk
<1>8. mirror' = new
  BY <1>2
<1>9. MirrorSize' = n
  BY <1>2, <1>7, <1>8 DEF MirrorSize, LayersOk
<1>10. Prefix(MirrorSize)' = u
  BY <1>9 DEF Prefix
<1>11. LayersOk(mirror, Prefix(MirrorSize))'
  BY <1>7, <1>8, <1>10 DEF LayersOk, LayerOk
<1> QED BY <1>1, <1>7, <1>8, <1>9, <1>11 DEF MirrorInv, Halved

\* insert takes the next leaf.
LEMMA InsertKeeps ==
  ASSUME IInv, Insert
  PROVE  MirrorInv'
<1>1. /\ leaves \in Seq(Leaf) /\ MirrorSize \in 0 .. Len(leaves) /\ MirrorSize < Len(leaves)
      /\ DOMAIN mirror = 0 .. Height /\ mirror[0] = SubSeq(leaves, 1, MirrorSize)
  BY DEF IInv, TreeInv, MirrorInv, Insert, LayersOk, Prefix
<1> PICK m \in Nat : m = MirrorSize /\ m < Len(leaves)
  BY <1>1
<1>2. Append(mirror[0], leaves[m + 1]) = SubSeq(leaves, 1, m + 1)
  <2>1. /\ mirror[0] \in Seq(Leaf) /\ Len(mirror[0]) = m
        /\ \A i \in 1 .. m : mirror[0][i] = leaves[i]
    BY <1>1, PrefixFacts
  <2>2. m + 1 \in 0 .. Len(leaves) /\ m + 1 \in 1 .. Len(leaves)
    BY <1>1
  <2>3. leaves[m + 1] \in Leaf
    BY <1>1, <2>2
  <2> PICK u, v : u = Append(mirror[0], leaves[m + 1]) /\ v = SubSeq(leaves, 1, m + 1)
    OBVIOUS
  <2>4. /\ u \in Seq(Leaf) /\ Len(u) = m + 1
        /\ \A i \in 1 .. m : u[i] = leaves[i]
        /\ u[m + 1] = leaves[m + 1]
    BY <2>1, <2>3, AppendFacts
  <2>5. /\ v \in Seq(Leaf) /\ Len(v) = m + 1 /\ \A i \in 1 .. m + 1 : v[i] = leaves[i]
    BY <1>1, <2>2, PrefixFacts
  <2>6. \A i \in 1 .. m + 1 : u[i] = v[i]
    BY <2>4, <2>5
  <2> QED BY <2>4, <2>5, <2>6
<1> PICK layers : layers = [mirror EXCEPT ![0] = SubSeq(leaves, 1, m + 1)]
  OBVIOUS
<1>3. mirror' = Rebuild(layers, MirrorSize) /\ leaves' = leaves
  BY <1>1, <1>2, HeightAssumption DEF Insert
<1>4. m + 1 \in MirrorSize .. Len(leaves)
  BY <1>1
<1> QED BY <1>3, <1>4, RebuildKeeps DEF IInv

\* bulkInsert takes several.
LEMMA BulkInsertKeeps ==
  ASSUME IInv, BulkInsert
  PROVE  MirrorInv'
<1>1. PICK n \in MirrorSize + 2 .. Len(leaves) :
        mirror' = Rebuild([mirror EXCEPT ![0] = SubSeq(leaves, 1, n)], MirrorSize)
  BY DEF BulkInsert
<1>2. n \in MirrorSize .. Len(leaves) /\ leaves' = leaves
  BY <1>1 DEF BulkInsert, IInv, MirrorInv
<1> QED BY <1>1, <1>2, RebuildKeeps DEF IInv

\* Nothing but append touches the account, the leaves and the last path.
LEMMA TreeUnchanged ==
  ASSUME TreeInv, AppendProofVerifies, UNCHANGED <<tree, proof, leaves>>
  PROVE  TreeInv' /\ AppendProofVerifies'
BY DEF TreeInv, AppendProofVerifies, RootIsReference

\* The account and the mirror hold what belongs to the leaves appended, in
\* every reachable state.
THEOREM MerkleInvariant == Spec => []IInv
<1>1. Init => IInv
  BY InitTree, InitMirror DEF IInv
<1>2. IInv /\ [Next]_vars => IInv'
  <2> SUFFICES ASSUME IInv, [Next]_vars
               PROVE  IInv'
    OBVIOUS
  <2>1. ASSUME NEW leaf \in Leaf, AppendLeaf(leaf)
        PROVE  IInv'
    BY <2>1, AppendKeeps
  <2>2. CASE Insert
    <3>1. MirrorInv'
      BY <2>2, InsertKeeps
    <3>2. TreeInv' /\ AppendProofVerifies'
      BY <2>2, TreeUnchanged DEF IInv, Insert
    <3> QED BY <3>1, <3>2 DEF IInv
  <2>3. CASE BulkInsert
    <3>1. MirrorInv'
      BY <2>3, BulkInsertKeeps
    <3>2. TreeInv' /\ AppendProofVerifies'
      BY <2>3, TreeUnchanged DEF IInv, BulkInsert
    <3> QED BY <3>1, <3>2 DEF IInv
  <2>4. CASE UNCHANGED vars
    <3>1. UNCHANGED <<tree, proof, leaves>> /\ UNCHANGED mirror
      BY <2>4 DEF vars
    <3>2. TreeInv' /\ AppendProofVerifies'
      BY <3>1, TreeUnchanged DEF IInv
    <3>3. MirrorInv'
      BY <3>1 DEF IInv, MirrorInv, MirrorSize, Prefix, LayersOk, LayerOk, Halved
    <3> QED BY <3>2, <3>3 DEF IInv
  <2> QED BY <2>1, <2>2, <2>3, <2>4 DEF Next
<1> QED BY <1>1, <1>2, PTL DEF Spec

-----------------------------------------------------------------------------
(* The properties *)

\* The part of the ring is_known_root accepts.
LEMMA KnownRoots ==
  ASSUME IInv
  PROVE  KnownRootsAreTheLatest
<1>1. /\ leaves \in Seq(Leaf) /\ Len(leaves) <= Capacity /\ RingOk(tree, leaves)
      /\ tree.root_index \in Slots
  BY DEF IInv, TreeInv, TreeShape
<1>2. /\ \A k \in 0 .. Len(leaves) :
           IsKnownRoot(tree, RootOf(leaves, k)) <=> k > Len(leaves) - RootHistorySize
      /\ ~IsKnownRoot(tree, NoRoot)
  BY <1>1, RingWindow
<1> QED BY <1>2 DEF KnownRootsAreTheLatest, RootOf, Prefix

\* What the mirror answers.
LEMMA MirrorFollowsFromIInv ==
  ASSUME IInv
  PROVE  MirrorFollows
<1> PICK m : m = MirrorSize
  OBVIOUS
<1> PICK s : s = Prefix(m)
  OBVIOUS
<1>1. /\ leaves \in Seq(Leaf) /\ Len(leaves) <= Capacity /\ Capacity \in Nat
      /\ m \in 0 .. Len(leaves) /\ LayersOk(mirror, s)
      /\ RingOk(tree, leaves) /\ tree.root_index \in Slots
  BY PowerStep, HeightAssumption DEF IInv, TreeInv, TreeShape, MirrorInv, Capacity
<1>2. s \in Seq(Leaf) /\ Len(s) = m /\ \A i \in 1 .. m : s[i] = leaves[i]
  BY <1>1, PrefixFacts DEF Prefix
<1>3. Len(s) \in Nat /\ Len(s) <= Capacity
  BY <1>1, <1>2
<1>4. MirrorRoot = ReferenceRoot(s)
  BY <1>1, <1>3, LayersRoot DEF MirrorRoot
<1>5. MirrorRootIsReference
  BY <1>4 DEF MirrorRootIsReference
<1>6. ASSUME NEW i \in 0 .. MirrorSize - 1
      PROVE  MerkleProof(leaves[i + 1], MirrorPath(i), i) = MirrorRoot
  <2>1. i \in 0 .. Len(s) - 1 /\ i + 1 \in 1 .. m
    BY <1>1, <1>2
  <2>2. s[i + 1] = leaves[i + 1]
    BY <1>2, <2>1
  <2>3. MerkleProof(s[i + 1], MirrorPath(i), i) = ReferenceRoot(s)
    BY <1>1, <1>3, <2>1, LayersPath
  <2> QED BY <1>4, <2>2, <2>3
<1>7. ASSUME Len(leaves) - MirrorSize < RootHistorySize
      PROVE  IsKnownRoot(tree, MirrorRoot)
  <2>1. MirrorRoot = RootOf(leaves, m)
    BY <1>4 DEF RootOf, Prefix
  <2>2. m > Len(leaves) - RootHistorySize
    BY <1>1, <1>7, RingAssumption
  <2> QED BY <1>1, <2>1, <2>2, RingWindow
<1> QED BY <1>5, <1>6, <1>7 DEF MirrorFollows, MirrorPathsVerify

\* The root of the program is that of the leaves appended and the ring accepts
\* those of the last RootHistorySize appends, at every height and ring size
\* (merkle_tree.rs:36-103).
THEOREM ProgramRootsHolds == Spec => []ProgramRoots
<1>1. IInv => ProgramRoots
  <2> SUFFICES ASSUME IInv
               PROVE  ProgramRoots
    OBVIOUS
  <2>1. Capacity \in Nat
    BY PowerStep, HeightAssumption DEF Capacity
  <2>2. /\ tree.next_index \in 0 .. Capacity
        /\ tree.root_index \in Slots /\ DOMAIN tree.root_history = Slots
        /\ leaves \in Seq(Leaf) /\ MirrorSize <= Len(leaves)
    BY <2>1 DEF IInv, TreeInv, TreeShape, MirrorInv
  <2>3. \A level \in 1 .. Height : Len(mirror[level]) = HalfUp(Len(mirror[level - 1]))
    <3> SUFFICES ASSUME NEW level \in 1 .. Height
                 PROVE  Len(mirror[level]) = HalfUp(Len(mirror[level - 1]))
      OBVIOUS
    <3>1. level - 1 \in Levels /\ (level - 1) + 1 = level
      BY HeightAssumption DEF Levels
    <3> QED BY <3>1 DEF IInv, MirrorInv, Halved
  <2>4. TypeOK
    BY <2>2, <2>3 DEF TypeOK
  <2>5. RootIsReference /\ KnownRootsAreTheLatest
    BY KnownRoots DEF IInv, TreeInv
  <2> QED BY <2>4, <2>5 DEF ProgramRoots
<1> QED BY <1>1, MerkleInvariant, PTL

\* The path append returns leads the circuit from the leaf to the new root, at
\* every height (merkle_tree.rs:36-74).
THEOREM AppendProofVerifiesHolds == Spec => []AppendProofVerifies
<1>1. IInv => AppendProofVerifies
  BY DEF IInv
<1> QED BY <1>1, MerkleInvariant, PTL

\* The mirror answers with the program's roots and with paths the circuit
\* accepts, however its leaves came in batches (merkle.ts:23-60).
THEOREM MirrorFollowsHolds == Spec => []MirrorFollows
<1>1. IInv => MirrorFollows
  BY MirrorFollowsFromIInv
<1> QED BY <1>1, MerkleInvariant, PTL
=============================================================================
