-------------------------- MODULE ShieldPool_proofs --------------------------
(***************************************************************************)
(* Proofs about ShieldPool, for any number of mints, wallets and           *)
(* transactions, any height, ring size, fee and rate.                      *)
(***************************************************************************)
EXTENDS ShieldPool, FiniteSetTheorems, TLAPS

-----------------------------------------------------------------------------
(* Induction *)

\* A set of numbers that holds 0 and with each number the next holds them all.
LEMMA InductionOverNat ==
  ASSUME NEW T, 0 \in T, \A n \in Nat : n \in T => n + 1 \in T
  PROVE  Nat \subseteq T
<1> DEFINE Less == OpToRel(<, Nat)
           D == Nat \ T
<1>1. IsWellFoundedOn(Less, Nat)
  BY NatLessThanWellFounded, Zenon
<1>2. ASSUME NEW x \in Nat, NEW y \in Nat, x < y
      PROVE  <<x, y>> \in Less
  BY <1>2, Zenon DEF OpToRel
<1> HIDE DEF Less
<1> SUFFICES ASSUME D # {} PROVE FALSE
  OBVIOUS
<1>3. PICK x \in D : \A y \in D : ~ (<<y, x>> \in Less)
  <2>1. D \subseteq Nat
    OBVIOUS
  <2> HIDE DEF D
  <2> QED BY <1>1, <2>1, WFMin, Zenon
<1>4. x - 1 \in Nat /\ x - 1 < x
  OBVIOUS
<1>5. x - 1 \in T
  BY <1>2, <1>3, <1>4
<1> QED BY <1>4, <1>5

-----------------------------------------------------------------------------
(* Sums.  SumFunction and SumFunctionOnSet of the community modules are    *)
(* recursive: each fact, for functions with finite domains, is proved by   *)
(* induction on the size of the domain.                                    *)

\* The element a sum takes next.
Pick(s) == CHOOSE x \in s : TRUE

\* g gives the sum of f over each subset of S.
Summed(f, S, g) ==
  g = [s \in SUBSET S |-> IF s = {} THEN 0 ELSE f[Pick(s)] + g[s \ {Pick(s)}]]

\* The definition of the sum, without the operators it is a case of.
LEMMA SumUnfold ==
  ASSUME NEW f, NEW S
  PROVE  SumFunctionOnSet(f, S) = (CHOOSE g : Summed(f, S, g))[S]
  BY DEF SumFunctionOnSet, FoldFunctionOnSet, MapThenFoldSet, Summed, Pick

\* The recursion has a solution: one for subsets of up to n elements extends
\* to those of n + 1.
LEMMA SummedExists ==
  ASSUME NEW f, NEW S, IsFiniteSet(S)
  PROVE  \E g : Summed(f, S, g)
<1> DEFINE Small(n) == {s \in SUBSET S : Cardinality(s) <= n}
           Body(g, s) == IF s = {} THEN 0 ELSE f[Pick(s)] + g[s \ {Pick(s)}]
           T == {n \in Nat : \E g : g = [s \in Small(n) |-> Body(g, s)]}
<1>1. \A s \in SUBSET S :
        IsFiniteSet(s) /\ Cardinality(s) \in Nat /\ Cardinality(s) <= Cardinality(S)
  BY FS_Subset, FS_CardinalityType
<1>2. ASSUME NEW n \in Nat, NEW s \in Small(n + 1), s # {}
      PROVE  s \ {Pick(s)} \in Small(n)
  <2>1. Pick(s) \in s
    BY <1>2 DEF Pick
  <2>2. Cardinality(s \ {Pick(s)}) = Cardinality(s) - 1
    BY <1>1, <2>1, FS_RemoveElement
  <2> QED BY <1>1, <2>2
<1>3. 0 \in T
  <2> DEFINE g == [s \in Small(0) |-> 0]
  <2>1. \A s \in Small(0) : s = {}
    BY <1>1, FS_EmptySet
  <2>2. g = [s \in Small(0) |-> Body(g, s)]
    BY <2>1
  <2> QED BY <2>2
<1>4. ASSUME NEW n \in Nat, n \in T
      PROVE  n + 1 \in T
  <2>1. PICK g : g = [s \in Small(n) |-> Body(g, s)]
    BY <1>4
  <2> DEFINE h == [s \in Small(n + 1) |-> Body(g, s)]
  <2>2. Small(n) \subseteq Small(n + 1)
    BY <1>1
  <2>3. \A s \in Small(n) : h[s] = g[s]
    BY <2>1, <2>2
  <2>4. ASSUME NEW s \in Small(n + 1)
        PROVE  Body(h, s) = Body(g, s)
    <3>1. CASE s = {}
      BY <3>1
    <3>2. CASE s # {}
      <4>1. s \ {Pick(s)} \in Small(n)
        BY <1>2, <3>2
      <4>2. h[s \ {Pick(s)}] = g[s \ {Pick(s)}]
        BY <2>3, <4>1
      <4> QED BY <4>2
    <3> QED BY <3>1, <3>2
  <2>5. h = [s \in Small(n + 1) |-> Body(h, s)]
    BY <2>4
  <2> HIDE DEF h, Small, Body
  <2> QED BY <2>5
<1> HIDE DEF T
<1>5. Cardinality(S) \in Nat
  BY FS_CardinalityType
<1>6. Cardinality(S) \in T
  BY <1>3, <1>4, <1>5, InductionOverNat
<1>7. PICK g : g = [s \in Small(Cardinality(S)) |-> Body(g, s)]
  BY <1>6 DEF T
<1>8. Small(Cardinality(S)) = SUBSET S
  BY <1>1
<1> QED BY <1>7, <1>8 DEF Summed

\* Two functions that satisfy the recursion agree where both are defined.
LEMMA SummedUnique ==
  ASSUME NEW f, NEW h, NEW S, NEW U, IsFiniteSet(S), IsFiniteSet(U),
         NEW g, Summed(f, S, g), NEW k, Summed(h, U, k),
         \A x \in S \cap U : f[x] = h[x]
  PROVE  \A s \in SUBSET (S \cap U) : g[s] = k[s]
<1> DEFINE W == S \cap U
           T == {n \in Nat : \A s \in SUBSET W : Cardinality(s) = n => g[s] = k[s]}
<1>0. IsFiniteSet(W)
  BY FS_Intersection
<1>1. \A s \in SUBSET W : IsFiniteSet(s) /\ Cardinality(s) \in Nat
  BY <1>0, FS_Subset, FS_CardinalityType
<1>2. ASSUME NEW s \in SUBSET W, s = {}
      PROVE  g[s] = 0 /\ k[s] = 0
  BY <1>2 DEF Summed
<1>3. ASSUME NEW s \in SUBSET W, s # {}
      PROVE  /\ Pick(s) \in s
             /\ g[s] = f[Pick(s)] + g[s \ {Pick(s)}]
             /\ k[s] = f[Pick(s)] + k[s \ {Pick(s)}]
  <2>1. Pick(s) \in s
    BY <1>3 DEF Pick
  <2>2. s \in SUBSET S /\ s \in SUBSET U
    OBVIOUS
  <2>3. g[s] = f[Pick(s)] + g[s \ {Pick(s)}]
    BY <1>3, <2>2 DEF Summed
  <2>4. k[s] = h[Pick(s)] + k[s \ {Pick(s)}]
    BY <1>3, <2>2 DEF Summed
  <2>5. h[Pick(s)] = f[Pick(s)]
    BY <2>1
  <2> QED BY <2>1, <2>3, <2>4, <2>5
<1>4. 0 \in T
  <2>1. \A s \in SUBSET W : Cardinality(s) = 0 => s = {}
    BY <1>1, FS_EmptySet
  <2> QED BY <1>2, <2>1
<1>5. ASSUME NEW n \in Nat, n \in T
      PROVE  n + 1 \in T
  <2> SUFFICES ASSUME NEW s \in SUBSET W, Cardinality(s) = n + 1
               PROVE  g[s] = k[s]
    OBVIOUS
  <2>1. s # {}
    BY FS_EmptySet
  <2>2. Cardinality(s \ {Pick(s)}) = n
    <3>1. IsFiniteSet(s) /\ Pick(s) \in s
      BY <1>1, <1>3, <2>1
    <3>2. Cardinality(s \ {Pick(s)}) = Cardinality(s) - 1
      BY <3>1, FS_RemoveElement
    <3> QED BY <3>2
  <2>3. g[s \ {Pick(s)}] = k[s \ {Pick(s)}]
    BY <1>5, <2>2
  <2> QED BY <1>3, <2>1, <2>3
<1>6. Nat \subseteq T
  <2> HIDE DEF T
  <2> QED BY <1>4, <1>5, InductionOverNat
<1> QED BY <1>1, <1>6

\* The recursion equation of the sum, and that only the terms matter.
LEMMA SumFacts ==
  ASSUME NEW f, NEW S, IsFiniteSet(S)
  PROVE  /\ SumFunctionOnSet(f, {}) = 0
         /\ S # {} => SumFunctionOnSet(f, S) = f[Pick(S)] + SumFunctionOnSet(f, S \ {Pick(S)})
         /\ \A h : (\A x \in S : f[x] = h[x]) => SumFunctionOnSet(f, S) = SumFunctionOnSet(h, S)
<1> DEFINE It(h, U) == CHOOSE g : Summed(h, U, g)
<1>1. ASSUME NEW h, NEW U, IsFiniteSet(U)
      PROVE  Summed(h, U, It(h, U))
  BY <1>1, SummedExists
<1>2. ASSUME NEW h, NEW U
      PROVE  SumFunctionOnSet(h, U) = It(h, U)[U]
  BY SumUnfold
<1> HIDE DEF It
<1>3. SumFunctionOnSet(f, {}) = 0
  <2>1. Summed(f, {}, It(f, {}))
    BY <1>1, FS_EmptySet
  <2> QED BY <1>2, <2>1 DEF Summed
<1>4. ASSUME S # {}
      PROVE  SumFunctionOnSet(f, S) = f[Pick(S)] + SumFunctionOnSet(f, S \ {Pick(S)})
  <2> DEFINE U == S \ {Pick(S)}
  <2>1. IsFiniteSet(U)
    BY FS_RemoveElement
  <2>2. Summed(f, S, It(f, S)) /\ Summed(f, U, It(f, U))
    BY <1>1, <2>1
  <2>3. It(f, S)[S] = f[Pick(S)] + It(f, S)[U]
    BY <1>4, <2>2 DEF Summed
  <2>4. It(f, S)[U] = It(f, U)[U]
    <3>1. U \in SUBSET (S \cap U)
      OBVIOUS
    <3> HIDE DEF U
    <3>2. \A s \in SUBSET (S \cap U) : It(f, S)[s] = It(f, U)[s]
      BY <2>1, <2>2, SummedUnique
    <3> QED BY <3>1, <3>2
  <2> QED BY <1>2, <2>3, <2>4
<1>5. ASSUME NEW h, \A x \in S : f[x] = h[x]
      PROVE  SumFunctionOnSet(f, S) = SumFunctionOnSet(h, S)
  <2>1. Summed(f, S, It(f, S)) /\ Summed(h, S, It(h, S))
    BY <1>1
  <2>2. \A s \in SUBSET (S \cap S) : It(f, S)[s] = It(h, S)[s]
    BY <1>5, <2>1, SummedUnique
  <2> QED BY <1>2, <2>2
<1> QED BY <1>3, <1>4, <1>5

\* Any element may be taken first.
LEMMA SumRemove ==
  ASSUME NEW f, NEW S, IsFiniteSet(S), \A x \in S : f[x] \in Int
  PROVE  /\ SumFunctionOnSet(f, S) \in Int
         /\ \A x \in S : SumFunctionOnSet(f, S) = f[x] + SumFunctionOnSet(f, S \ {x})
<1> DEFINE Good(U) == /\ SumFunctionOnSet(f, U) \in Int
                      /\ \A x \in U :
                           SumFunctionOnSet(f, U) = f[x] + SumFunctionOnSet(f, U \ {x})
           T == {n \in Nat : \A U \in SUBSET S : Cardinality(U) <= n => Good(U)}
<1>1. \A U \in SUBSET S : IsFiniteSet(U) /\ Cardinality(U) \in Nat
  BY FS_Subset, FS_CardinalityType
<1>2. ASSUME NEW U \in SUBSET S, NEW x \in U
      PROVE  U \ {x} \in SUBSET S /\ Cardinality(U \ {x}) = Cardinality(U) - 1
  <2>1. IsFiniteSet(U)
    BY <1>1
  <2> QED BY <2>1, FS_RemoveElement
<1>3. 0 \in T
  <2>1. \A U \in SUBSET S : Cardinality(U) <= 0 => U = {}
    BY <1>1, FS_EmptySet
  <2>2. Good({})
    <3>1. SumFunctionOnSet(f, {}) = 0
      BY SumFacts
    <3> QED BY <3>1
  <2> HIDE DEF Good
  <2> QED BY <2>1, <2>2
<1>4. ASSUME NEW n \in Nat, n \in T
      PROVE  n + 1 \in T
  <2> SUFFICES ASSUME NEW U \in SUBSET S, Cardinality(U) <= n + 1
               PROVE  Good(U)
    <3> HIDE DEF Good
    <3> QED OBVIOUS
  <2>1. CASE U = {}
    <3>1. Cardinality(U) <= 0
      BY <2>1, FS_EmptySet
    <3> HIDE DEF Good
    <3> QED BY <1>3, <3>1
  <2>2. CASE U # {}
    <3> DEFINE y == Pick(U)
               V == U \ {y}
    <3>1. y \in U
      BY <2>2 DEF Pick
    <3>2. ASSUME NEW W \in SUBSET S, Cardinality(W) <= n
          PROVE  /\ SumFunctionOnSet(f, W) \in Int
                 /\ \A x \in W : SumFunctionOnSet(f, W) = f[x] + SumFunctionOnSet(f, W \ {x})
      BY <1>4, <3>2
    <3> HIDE DEF T
    <3>3. \A x \in U : U \ {x} \in SUBSET S /\ Cardinality(U \ {x}) <= n
      BY <1>1, <1>2
    <3>4. SumFunctionOnSet(f, U) = f[y] + SumFunctionOnSet(f, V)
      BY <1>1, <2>2, SumFacts
    <3>5. f[y] \in Int /\ SumFunctionOnSet(f, V) \in Int
      BY <3>1, <3>2, <3>3
    <3>6. ASSUME NEW x \in U, x # y
          PROVE  SumFunctionOnSet(f, U) = f[x] + SumFunctionOnSet(f, U \ {x})
      <4>1. V \ {x} = (U \ {x}) \ {y} /\ x \in V /\ y \in U \ {x}
        BY <3>1, <3>6
      <4>2. V \in SUBSET S /\ Cardinality(V) <= n
        BY <3>1, <3>3
      <4>3. V \ {x} \in SUBSET S /\ Cardinality(V \ {x}) <= n
        <5>1. V \ {x} \in SUBSET S /\ Cardinality(V \ {x}) = Cardinality(V) - 1
          BY <1>2, <4>1, <4>2
        <5>2. Cardinality(V) \in Nat
          BY <1>1, <4>2
        <5> HIDE DEF V
        <5> QED BY <4>2, <5>1, <5>2
      <4> HIDE DEF y, V
      <4>4. SumFunctionOnSet(f, V) = f[x] + SumFunctionOnSet(f, V \ {x})
        BY <3>2, <4>1, <4>2
      <4>5. SumFunctionOnSet(f, U \ {x}) = f[y] + SumFunctionOnSet(f, V \ {x})
        BY <3>2, <3>3, <4>1
      <4>6. f[x] \in Int /\ SumFunctionOnSet(f, V \ {x}) \in Int
        BY <3>2, <4>3
      <4> QED BY <3>4, <3>5, <4>4, <4>5, <4>6
    <3> HIDE DEF y, V
    <3>7. \A x \in U : SumFunctionOnSet(f, U) = f[x] + SumFunctionOnSet(f, U \ {x})
      BY <3>4, <3>6 DEF V
    <3> QED BY <3>4, <3>5, <3>7
  <2> HIDE DEF Good
  <2> QED BY <2>1, <2>2
<1>5. Nat \subseteq T
  <2> HIDE DEF T
  <2> QED BY <1>3, <1>4, InductionOverNat
<1> QED BY <1>1, <1>5

\* The sum of a function over all of its domain.
LEMMA SumOverDomain ==
  ASSUME NEW S, NEW f, DOMAIN f = S
  PROVE  SumFunction(f) = SumFunctionOnSet(f, S)
  BY DEF SumFunction

-----------------------------------------------------------------------------
(* What the proofs cite *)

\* The sum over nothing.
LEMMA SumOverNothing ==
  ASSUME NEW f, DOMAIN f = {}
  PROVE  SumFunction(f) = 0
<1>1. IsFiniteSet({})
  BY FS_EmptySet
<1> QED BY <1>1, SumFacts, SumOverDomain

\* The sum less one of its terms.
LEMMA SumLess ==
  ASSUME NEW S, IsFiniteSet(S), NEW f \in [S -> Int], NEW x \in S
  PROVE  /\ SumFunction(f) \in Int
         /\ SumFunction([s \in S \ {x} |-> f[s]]) \in Int
         /\ SumFunction(f) = f[x] + SumFunction([s \in S \ {x} |-> f[s]])
<1> DEFINE U == S \ {x}
           g == [s \in U |-> f[s]]
<1>1. DOMAIN f = S /\ DOMAIN g = U
  OBVIOUS
<1>2. IsFiniteSet(U)
  BY FS_RemoveElement
<1>3. SumFunction(f) = SumFunctionOnSet(f, S) /\ SumFunction(g) = SumFunctionOnSet(g, U)
  <2> HIDE DEF g, U
  <2> QED BY <1>1, SumOverDomain
<1>4. SumFunctionOnSet(g, U) = SumFunctionOnSet(f, U)
  <2>1. \A y \in U : g[y] = f[y]
    OBVIOUS
  <2> HIDE DEF g
  <2> QED BY <1>2, <2>1, SumFacts
<1>5. SumFunctionOnSet(f, S) \in Int /\ SumFunctionOnSet(f, S) = f[x] + SumFunctionOnSet(f, U)
  BY SumRemove
<1>6. SumFunctionOnSet(f, U) \in Int
  <2>1. \A y \in U : f[y] \in Int
    OBVIOUS
  <2> HIDE DEF U
  <2> QED BY <1>2, <2>1, SumRemove
<1> QED BY <1>3, <1>4, <1>5, <1>6

\* The sum with one of its terms changed.
LEMMA SumExcept ==
  ASSUME NEW S, IsFiniteSet(S), NEW f \in [S -> Int], NEW x \in S, NEW v \in Int
  PROVE  SumFunction([f EXCEPT ![x] = v]) = SumFunction(f) - f[x] + v
<1> DEFINE g == [f EXCEPT ![x] = v]
           F == [s \in S \ {x} |-> f[s]]
           G == [s \in S \ {x} |-> g[s]]
<1>1. g \in [S -> Int] /\ g[x] = v /\ F = G
  OBVIOUS
<1>2. SumFunction(f) = f[x] + SumFunction(F) /\ SumFunction(F) \in Int
  BY SumLess
<1>3. SumFunction(g) = g[x] + SumFunction(G)
  <2>1. \A h \in [S -> Int] : SumFunction(h) = h[x] + SumFunction([s \in S \ {x} |-> h[s]])
    BY SumLess
  <2> QED BY <1>1, <2>1
<1> HIDE DEF g, F, G
<1> QED BY <1>1, <1>2, <1>3 DEF g

\* The sum with a term more.
LEMMA SumMore ==
  ASSUME NEW S, IsFiniteSet(S), NEW x, x \notin S, NEW f \in [S \cup {x} -> Int]
  PROVE  /\ SumFunction([s \in S |-> f[s]]) \in Int
         /\ SumFunction(f) = f[x] + SumFunction([s \in S |-> f[s]])
<1>1. IsFiniteSet(S \cup {x})
  BY FS_AddElement
<1>2. (S \cup {x}) \ {x} = S
  OBVIOUS
<1> QED BY <1>1, <1>2, SumLess

\* A sum of natural numbers is one, and none of them is larger.
LEMMA SumBounds ==
  ASSUME NEW S, IsFiniteSet(S), NEW f \in [S -> Nat]
  PROVE  SumFunction(f) \in Nat /\ \A x \in S : f[x] <= SumFunction(f)
<1> DEFINE T == {n \in Nat : \A U \in SUBSET S : Cardinality(U) = n =>
                                  SumFunction([s \in U |-> f[s]]) \in Nat}
<1>1. \A U \in SUBSET S : IsFiniteSet(U) /\ Cardinality(U) \in Nat
  BY FS_Subset, FS_CardinalityType
<1>2. 0 \in T
  <2> SUFFICES ASSUME NEW U \in SUBSET S, Cardinality(U) = 0
               PROVE  SumFunction([s \in U |-> f[s]]) = 0
    OBVIOUS
  <2>1. U = {}
    BY <1>1, FS_EmptySet
  <2> QED BY <2>1, SumOverNothing
<1>3. ASSUME NEW n \in Nat, n \in T
      PROVE  n + 1 \in T
  <2> SUFFICES ASSUME NEW U \in SUBSET S, Cardinality(U) = n + 1
               PROVE  SumFunction([s \in U |-> f[s]]) \in Nat
    OBVIOUS
  <2> DEFINE g == [s \in U |-> f[s]]
  <2>0. IsFiniteSet(U) /\ U # {}
    BY <1>1, FS_EmptySet
  <2>1. PICK x \in U : TRUE
    BY <2>0
  <2>2. Cardinality(U \ {x}) = Cardinality(U) - 1
    BY <2>0, FS_RemoveElement
  <2>3. SumFunction([s \in U \ {x} |-> f[s]]) \in Nat
    BY <1>3, <2>2
  <2>4. g \in [U -> Int] /\ g[x] \in Nat /\ [s \in U \ {x} |-> g[s]] = [s \in U \ {x} |-> f[s]]
    OBVIOUS
  <2> HIDE DEF g
  <2>5. SumFunction(g) = g[x] + SumFunction([s \in U \ {x} |-> g[s]])
    BY <2>0, <2>4, SumLess
  <2>6. SumFunction(g) \in Nat
    BY <2>3, <2>4, <2>5
  <2> QED BY <2>6 DEF g
<1>4. Nat \subseteq T
  <2> HIDE DEF T
  <2> QED BY <1>2, <1>3, InductionOverNat
<1>5. \A U \in SUBSET S : SumFunction([s \in U |-> f[s]]) \in Nat
  BY <1>1, <1>4
<1>6. f = [s \in S |-> f[s]] /\ f \in [S -> Int]
  OBVIOUS
<1>7. SumFunction(f) \in Nat
  BY <1>5, <1>6
<1>8. ASSUME NEW x \in S
      PROVE  f[x] <= SumFunction(f)
  <2>1. SumFunction(f) = f[x] + SumFunction([s \in S \ {x} |-> f[s]])
    BY <1>6, SumLess
  <2>2. SumFunction([s \in S \ {x} |-> f[s]]) \in Nat
    BY <1>5
  <2> QED BY <2>1, <2>2
<1> QED BY <1>7, <1>8

\* The sum of the values f has on S.
LEMMA SumRestricted ==
  ASSUME NEW S, IsFiniteSet(S), NEW f
  PROVE  SumFunction([s \in S |-> f[s]]) = SumFunctionOnSet(f, S)
<1> DEFINE g == [s \in S |-> f[s]]
<1>1. SumFunction(g) = SumFunctionOnSet(g, S)
  <2>1. DOMAIN g = S
    OBVIOUS
  <2> HIDE DEF g
  <2> QED BY <2>1, SumOverDomain
<1>2. \A s \in S : g[s] = f[s]
  OBVIOUS
<1> HIDE DEF g
<1> QED BY <1>1, <1>2, SumFacts DEF g

\* The sum over a set with an element more.
LEMMA SumAdd ==
  ASSUME NEW S, IsFiniteSet(S), NEW x, x \notin S, NEW f,
         \A s \in S \cup {x} : f[s] \in Int
  PROVE  SumFunctionOnSet(f, S \cup {x}) = SumFunctionOnSet(f, S) + f[x]
<1>1. IsFiniteSet(S \cup {x})
  BY FS_AddElement
<1>2. (S \cup {x}) \ {x} = S
  OBVIOUS
<1>3. SumFunctionOnSet(f, S \cup {x}) = f[x] + SumFunctionOnSet(f, S)
  BY <1>1, <1>2, SumRemove
<1>4. SumFunctionOnSet(f, S) \in Int
  BY SumRemove
<1> QED BY <1>3, <1>4

\* The sums of one and of two terms.
LEMMA SumOfOne ==
  ASSUME NEW x, NEW f \in [{x} -> Int]
  PROVE  SumFunction(f) = f[x]
<1>1. IsFiniteSet({x}) /\ {x} \ {x} = {}
  BY FS_Singleton
<1>2. SumFunctionOnSet(f, {x}) = f[x] + SumFunctionOnSet(f, {})
  BY <1>1, SumRemove
<1>3. SumFunctionOnSet(f, {}) = 0
  BY <1>1, SumFacts
<1> QED BY <1>2, <1>3, SumOverDomain

\* A sum of two terms.
LEMMA SumOfTwo ==
  ASSUME NEW x, NEW y, x # y, NEW f \in [{x, y} -> Int]
  PROVE  SumFunction(f) = f[x] + f[y]
<1>1. IsFiniteSet({x}) /\ {x} \cup {y} = {x, y} /\ y \notin {x}
  BY FS_Singleton
<1>2. SumFunction([s \in {x} |-> f[s]]) = f[x]
  <2>1. \A g \in [{x} -> Int] : SumFunction(g) = g[x]
    BY SumOfOne
  <2> QED BY <2>1
<1>3. SumFunction(f) = f[y] + SumFunction([s \in {x} |-> f[s]])
  BY <1>1, SumMore
<1> QED BY <1>2, <1>3

-----------------------------------------------------------------------------
(* The ring of roots *)

\* The index arithmetic of append: one step round the ring.
LEMMA NextSlotLemma ==
  ASSUME NEW i \in Slots
  PROVE  (i + 1) % RootHistorySize = IF i + 1 = RootHistorySize THEN 0 ELSE i + 1
  BY RingAssumption DEF Slots

\* How many appends ago a slot was written, were the ring never empty.
Age(t, i) == IF i <= t.root_index THEN t.root_index - i
                                  ELSE t.root_index + RootHistorySize - i

\* Each slot holds the root of its age, or nothing when the tree is younger.
RingOk(t) ==
  \A i \in Slots :
    t.root_history[i] = IF Age(t, i) <= t.next_index THEN t.next_index - Age(t, i) ELSE NoRoot

\* A new account's ring is in order.
LEMMA NewTreeOk ==
  ASSUME NEW x \in Parties
  PROVE  NewTree(x) \in Tree /\ RingOk(NewTree(x)) /\ NewTree(x).next_index = 0
  BY RingAssumption, NumbersAssumption
     DEF NewTree, Tree, RingOk, Age, EmptyRing, Slots

\* Pushing the root of one more leaf keeps the ring in order.
LEMMA PushKeepsRing ==
  ASSUME NEW t \in Tree, RingOk(t), NEW u,
         u = PushRoot([t EXCEPT !.next_index = @ + 1], t.next_index + 1)
  PROVE  u \in Tree /\ RingOk(u) /\ u.next_index = t.next_index + 1
<1> DEFINE s == [t EXCEPT !.next_index = @ + 1]
           next == IF t.root_index + 1 = RootHistorySize THEN 0 ELSE t.root_index + 1
<1>1. t.root_index \in Slots /\ t.next_index \in Nat
  BY DEF Tree
<1>2. s \in Tree /\ s.root_index = t.root_index /\ s.root_history = t.root_history
      /\ s.next_index = t.next_index + 1
  BY <1>1 DEF Tree
<1>3. NextSlot(s) = next /\ next \in Slots
  BY <1>1, <1>2, NextSlotLemma, RingAssumption DEF NextSlot, Slots
<1>4. u = [s EXCEPT !.root_index = next, !.root_history = [@ EXCEPT ![next] = t.next_index + 1]]
  BY <1>2, <1>3 DEF PushRoot
<1> HIDE DEF s, next
<1>5. /\ u \in Tree
      /\ u.next_index = t.next_index + 1
      /\ u.root_index = next
      /\ \A i \in Slots : u.root_history[i] = IF i = next THEN t.next_index + 1
                                                          ELSE t.root_history[i]
  <2> DEFINE h == [s.root_history EXCEPT ![next] = t.next_index + 1]
  <2>1. h \in [Slots -> Nat \cup {NoRoot}]
    BY <1>1, <1>2, <1>3 DEF Tree
  <2>2. \A i \in Slots : h[i] = IF i = next THEN t.next_index + 1 ELSE t.root_history[i]
    BY <1>1, <1>2, <1>3 DEF Tree
  <2>3. u = [s EXCEPT !.root_index = next, !.root_history = h]
    BY <1>4
  <2> HIDE DEF h
  <2> QED BY <1>2, <1>3, <2>1, <2>2, <2>3 DEF Tree
<1>6. ASSUME NEW i \in Slots
      PROVE  u.root_history[i] = IF Age(u, i) <= u.next_index THEN u.next_index - Age(u, i)
                                                              ELSE NoRoot
  <2>1. CASE i = next
    BY <1>1, <1>3, <1>5, <2>1 DEF Age, Slots
  <2>2. CASE i # next
    <3>1. Age(u, i) = Age(t, i) + 1
      BY <1>1, <1>3, <1>5, <2>2, RingAssumption DEF Age, Slots, next
    <3>2. Age(t, i) \in Nat
      BY <1>1, RingAssumption DEF Age, Slots
    <3> QED BY <1>1, <1>5, <2>2, <3>1, <3>2 DEF RingOk
  <2> QED BY <2>1, <2>2
<1> QED BY <1>5, <1>6 DEF RingOk

\* Both appends of a transaction.
LEMMA InsertOutputsOk ==
  ASSUME NEW t \in Tree, RingOk(t)
  PROVE  /\ InsertOutputs(t) \in Tree
         /\ RingOk(InsertOutputs(t))
         /\ InsertOutputs(t).next_index = t.next_index + 2
<1> DEFINE first == PushRoot([t EXCEPT !.next_index = @ + 1], t.next_index + 1)
<1>1. first \in Tree /\ RingOk(first) /\ first.next_index = t.next_index + 1
  BY PushKeepsRing
<1>2. t.next_index \in Nat
  BY DEF Tree
<1>3. InsertOutputs(t) = PushRoot([first EXCEPT !.next_index = @ + 1], first.next_index + 1)
  BY <1>1, <1>2 DEF InsertOutputs
<1> HIDE DEF first
<1> QED BY <1>1, <1>2, <1>3, PushKeepsRing

\* What a ring in order accepts.
LEMMA RingWindow ==
  ASSUME NEW t \in Tree, RingOk(t), NEW r \in 0 .. t.next_index
  PROVE  IsKnownRoot(t, r) <=> r > t.next_index - RootHistorySize
<1>1. t.root_index \in Slots /\ t.next_index \in Nat
  BY DEF Tree
<1>2. ASSUME NEW k \in 0 .. RootHistorySize - 1
      PROVE  Visited(t, k) \in Slots /\ Age(t, Visited(t, k)) = k
  BY <1>1, RingAssumption DEF Visited, Age, Slots
<1>3. ASSUME NEW k \in 0 .. RootHistorySize - 1
      PROVE  t.root_history[Visited(t, k)]
               = IF k <= t.next_index THEN t.next_index - k ELSE NoRoot
  BY <1>2 DEF RingOk
<1>4. r # NoRoot
  BY <1>1, NoneAssumption
<1>5. ASSUME r > t.next_index - RootHistorySize
      PROVE  \E k \in 0 .. RootHistorySize - 1 : t.root_history[Visited(t, k)] = r
  <2>1. t.next_index - r \in 0 .. RootHistorySize - 1
    BY <1>1, <1>5, RingAssumption
  <2>2. t.root_history[Visited(t, t.next_index - r)] = r
    BY <1>1, <1>3, <2>1
  <2> QED BY <2>1, <2>2
<1>6. ASSUME NEW k \in 0 .. RootHistorySize - 1, t.root_history[Visited(t, k)] = r
      PROVE  r > t.next_index - RootHistorySize
  BY <1>1, <1>3, <1>4, <1>6, RingAssumption
<1> QED BY <1>4, <1>5, <1>6 DEF IsKnownRoot

-----------------------------------------------------------------------------
(* What a token withholds *)

\* A division that rounds up.
LEMMA CeilDivBounds ==
  ASSUME NEW a \in Nat, NEW b \in Nat \ {0}
  PROVE  Token!CeilDiv(a, b) \in Nat /\ Token!CeilDiv(a, b) * b < a + b
<1>1. PICK x, q : x = a + b - 1 /\ q = x \div b /\ x \in Nat
  OBVIOUS
<1>2. q \in Nat /\ q * b <= x
  BY <1>1, SMT
<1>3. Token!CeilDiv(a, b) = q
  BY <1>1 DEF Token!CeilDiv
<1>4. q * b \in Nat
  BY <1>2, SMT
<1> QED BY <1>1, <1>2, <1>3, <1>4

\* A share of up to a whole, rounded up, is no more than the whole.
LEMMA ShareBounds ==
  ASSUME NEW b \in Nat, b <= 10000, NEW n \in Nat
  PROVE  /\ Token!CeilDiv(n * b, 10000) \in Nat
         /\ Token!CeilDiv(n * b, 10000) <= n
         /\ b = 0 => Token!CeilDiv(n * b, 10000) = 0
<1>1. PICK x \in Nat : x = n * b /\ x <= n * 10000 /\ (b = 0 => x = 0)
  <2>1. n * b \in Nat /\ n * b <= n * 10000 /\ (b = 0 => n * b = 0)
    BY SMT
  <2> QED BY <2>1
<1>2. PICK c : c = Token!CeilDiv(x, 10000)
  OBVIOUS
<1>3. c \in Nat /\ c * 10000 < x + 10000
  <2>1. 10000 \in Nat \ {0}
    OBVIOUS
  <2> QED BY <1>2, <2>1, CeilDivBounds
<1>4. c <= n /\ (b = 0 => c = 0)
  BY <1>1, <1>3
<1> QED BY <1>1, <1>2, <1>3, <1>4

BasisPoints == 0 .. 10000

\* The schedule of a mint, its rate as a number of basis points.
LEMMA ScheduleIs ==
  ASSUME NEW m \in Tokens
  PROVE  /\ TransferFee[m].bps \in Nat /\ TransferFee[m].bps <= 10000
         /\ TransferFee[m].max \in Nat
<1>1. TransferFee \in [Tokens -> [bps : BasisPoints, max : Nat]]
  BY FundsAssumption DEF BasisPoints
<1>2. TransferFee[m].bps \in BasisPoints /\ TransferFee[m].max \in Nat
  BY <1>1
<1>3. \A b \in BasisPoints : b \in Nat /\ b <= 10000
  BY DEF BasisPoints
<1> QED BY <1>2, <1>3

\* What arrives of n, and what has to be sent for n to arrive.
LEMMA NetBounds ==
  ASSUME NEW m \in Mints, NEW n \in Nat
  PROVE  /\ Net(m, n) \in Nat /\ Net(m, n) <= n
         /\ m = SOL \/ TransferFee[m].bps = 0 => Net(m, n) = n
<1>1. CASE m = SOL
  BY <1>1 DEF Net
<1>2. CASE m # SOL
  <2>1. m \in Tokens
    BY <1>2 DEF Mints
  <2>2. PICK b, cap, c : /\ b = TransferFee[m].bps /\ cap = TransferFee[m].max
                         /\ c = Token!CeilDiv(n * b, 10000)
    OBVIOUS
  <2>3. b \in Nat /\ b <= 10000 /\ cap \in Nat
    BY <2>1, <2>2, ScheduleIs
  <2>4. c \in Nat /\ c <= n /\ (b = 0 => c = 0)
    BY <2>2, <2>3, ShareBounds
  <2>5. Net(m, n) = n - (IF c > cap THEN cap ELSE c)
    BY <1>2, <2>2 DEF Net, Token!Withheld
  <2> QED BY <1>2, <2>2, <2>3, <2>4, <2>5
<1> QED BY <1>1, <1>2

LEMMA GrossBounds ==
  ASSUME NEW m \in Mints, NEW n \in Nat
  PROVE  /\ GrossForNet(m, n) \in Nat
         /\ m = SOL \/ TransferFee[m].bps = 0 => GrossForNet(m, n) = n
         /\ n = 0 => GrossForNet(m, n) = 0
<1>1. CASE m = SOL
  BY <1>1 DEF GrossForNet
<1>2. CASE m # SOL
  <2>1. m \in Tokens
    BY <1>2 DEF Mints
  <2>2. PICK s, b, cap : s = TransferFee[m] /\ b = s.bps /\ cap = s.max
    OBVIOUS
  <2>3. b \in Nat /\ b <= 10000 /\ cap \in Nat
    BY <2>1, <2>2, ScheduleIs
  <2>4. GrossForNet(m, n) = Token!ProgramGross(s, n)
    BY <1>2, <2>2 DEF GrossForNet
  <2>5. CASE b = 0 \/ n = 0
    <3>1. Token!ProgramGross(s, n) = n
      BY <2>2, <2>5 DEF Token!ProgramGross
    <3> QED BY <2>4, <3>1
  <2>6. CASE b # 0 /\ n # 0 /\ b = 10000
    <3>1. Token!ProgramGross(s, n) = n + cap
      BY <2>2, <2>6 DEF Token!ProgramGross
    <3> QED BY <1>2, <2>2, <2>3, <2>4, <2>6, <3>1
  <2>7. CASE b # 0 /\ n # 0 /\ b # 10000
    <3>1. PICK raw, left : left = 10000 - b /\ raw = Token!CeilDiv(n * 10000, left)
      OBVIOUS
    <3>2. left \in Nat \ {0} /\ n * 10000 \in Nat
      BY <2>3, <2>7, <3>1
    <3>3. raw \in Nat
      <4>1. PICK y \in Nat : y = n * 10000
        BY <3>2
      <4>2. Token!CeilDiv(y, left) \in Nat
        BY <3>2, CeilDivBounds
      <4> QED BY <3>1, <4>1, <4>2
    <3>4. Token!ProgramGross(s, n) = IF raw - n >= cap THEN n + cap ELSE raw
      BY <2>2, <2>7, <3>1 DEF Token!ProgramGross, Token!Raised
    <3> QED BY <1>2, <2>2, <2>3, <2>4, <2>7, <3>3, <3>4
  <2> QED BY <2>5, <2>6, <2>7
<1> QED BY <1>1, <1>2

-----------------------------------------------------------------------------
(* The inductive invariant *)

\* Every account's ring is in order and counts the pool's leaves; a pool that
\* is not open has none.
RingInv ==
  \A m \in Mints :
    /\ RingOk(trees[m])
    /\ trees[m].next_index = Len(notes[m])
    /\ m \notin opened => Len(notes[m]) = 0

\* A leaf is spent at most once, and only if its nullifier is recorded.
SpentInv ==
  \A m \in Mints : \A i \in 1 .. Len(notes[m]) :
    /\ notes[m][i].spent <= 1
    /\ notes[m][i].spent > 0 => Spent(m, i - 1)

IInv == TypeOK /\ RingInv /\ SpentInv /\ OnePrefixPerNullifier

\* The proofs clients submit, by their types.
Input == [nullifier : Nullifier, amount : Nat]

ExtData ==
  [recipient : Parties \cup {Vault}, fee_recipient : Parties, ext_amount : Int, fee : Nat]

ProofType ==
  [mint : Mints, root : Nat, inputs : Input \X Input, outputs : Nat \X Nat,
   public_amount : Int, ext_data : ExtData]

\* What the clients' proofs are made of: leaves of the pool, inputs of amount
\* 0 whose nullifiers no later leaf has, and outputs they may choose.
LeafInput(m, input) ==
  \E i \in 0 .. Len(notes[m]) - 1 :
    input = [nullifier |-> <<"note", m, i>>, amount |-> notes[m][i + 1].amount]

DummyInput(m, input) ==
  \E n \in 0 .. Len(notes[m]) + 1 :
    input = [nullifier |-> <<"dummy", m, n>>, amount |-> 0]

ClientProof(p) ==
  /\ \A j \in {1, 2} : LeafInput(p.mint, p.inputs[j]) \/ DummyInput(p.mint, p.inputs[j])
  /\ p.outputs[1] \in Amounts /\ p.outputs[2] \in Amounts

LEMMA InitIInv == Init => IInv
<1> SUFFICES ASSUME Init PROVE IInv
  OBVIOUS
<1>1. Anyone \in Parties
  BY FundsAssumption DEF Anyone
<1>2. TypeOK
  <2>1. trees \in [Mints -> Tree]
    BY <1>1, NewTreeOk DEF Init
  <2>2. notes \in [Mints -> Seq(Note)]
    BY DEF Init
  <2>3. /\ wallet \in [Parties -> [Mints -> Nat]] /\ vault \in [Mints -> Nat]
        /\ surplus \in [Mints -> Nat]
    BY FundsAssumption DEF Init
  <2>4. global_config \in GlobalConfig
    BY <1>1 DEF Init, GlobalConfig, MaxRate
  <2> QED BY <2>1, <2>2, <2>3, <2>4 DEF Init, TypeOK
<1>3. RingInv
  BY <1>1, NewTreeOk DEF Init, RingInv
<1>4. SpentInv /\ OnePrefixPerNullifier
  BY DEF Init, SpentInv, OnePrefixPerNullifier
<1> QED BY <1>2, <1>3, <1>4 DEF IInv

\* What a client submits is a proof of the right type for that pool.
LEMMA SubmitIsTyped ==
  ASSUME IInv, NEW m \in opened, Submit(m)
  PROVE  \E p \in ProofType, signer \in Parties : \E ext_data :
           /\ p.mint = m
           /\ p.ext_data.recipient \in Users \cup {Vault}
           /\ ClientProof(p)
           /\ Transact(p, ext_data, signer) \/ TransactSpl(p, ext_data, signer)
<1>1. m \in Mints /\ trees[m] \in Tree /\ notes[m] \in Seq(Note)
      /\ trees[m].next_index = Len(notes[m]) /\ trees[m].next_index \in Nat
  BY DEF IInv, TypeOK, RingInv, Tree
<1>2. ASSUME NEW root \in 0 .. trees[m].next_index, NEW slot \in {0, 1},
             NEW a \in Inputs(m, root, slot)
      PROVE  a \in Input /\ (LeafInput(m, a) \/ DummyInput(m, a))
  <2>1. CASE \E i \in 0 .. root - 1 :
               a = [nullifier |-> <<"note", m, i>>, amount |-> notes[m][i + 1].amount]
    <3>1. PICK i \in 0 .. root - 1 :
            a = [nullifier |-> <<"note", m, i>>, amount |-> notes[m][i + 1].amount]
      BY <2>1
    <3>2. i \in Nat /\ i + 1 \in 1 .. Len(notes[m]) /\ i \in 0 .. Len(notes[m]) - 1
      BY <1>1
    <3>3. notes[m][i + 1] \in Note
      BY <1>1, <3>2
    <3>4. LeafInput(m, a)
      BY <3>1, <3>2 DEF LeafInput
    <3> QED BY <1>1, <3>1, <3>2, <3>3, <3>4 DEF Input, Nullifier, Note
  <2>2. CASE \E n \in {0, 1, trees[m].next_index + slot} :
               a = [nullifier |-> <<"dummy", m, n>>, amount |-> 0]
    <3>1. PICK n \in {0, 1, trees[m].next_index + slot} :
            a = [nullifier |-> <<"dummy", m, n>>, amount |-> 0]
      BY <2>2
    <3>2. n \in 0 .. Len(notes[m]) + 1 /\ n \in Nat
      BY <1>1
    <3>3. DummyInput(m, a)
      BY <3>1, <3>2 DEF DummyInput
    <3> QED BY <1>1, <3>1, <3>2, <3>3 DEF Input, Nullifier
  <2> QED BY <1>2, <2>1, <2>2 DEF Inputs
<1> DEFINE Q(a, b, ext_amount, fee, c, d, recipient, payee, root) ==
             Proof(m, root, <<a, b>>, <<c, d>>, c + d - a.amount - b.amount,
                   recipient, payee, ext_amount, fee)
           Executed(q, cached, user) ==
             \/ Transact(q, [q.ext_data EXCEPT !.fee_recipient = cached], user)
             \/ TransactSpl(q, [q.ext_data EXCEPT !.fee_recipient = cached], user)
<1>3. PICK root \in 0 .. trees[m].next_index :
        \E a \in Inputs(m, root, 0), b \in Inputs(m, root, 1) :
        \E ext_amount \in ExtAmounts, fee \in Fees, c, d \in Amounts, user \in Users :
          /\ c + d - a.amount - b.amount - PublicAmount(ext_amount, fee) \in {0, 1}
          /\ \E payee, cached \in Parties, recipient \in Recipients(user, ext_amount) :
               Executed(Q(a, b, ext_amount, fee, c, d, recipient, payee, root), cached, user)
  BY Zenon DEF Submit
<1> HIDE DEF Q, Executed
<1>4. PICK a \in Inputs(m, root, 0), b \in Inputs(m, root, 1) :
        \E ext_amount \in ExtAmounts, fee \in Fees, c, d \in Amounts, user \in Users :
          /\ c + d - a.amount - b.amount - PublicAmount(ext_amount, fee) \in {0, 1}
          /\ \E payee, cached \in Parties, recipient \in Recipients(user, ext_amount) :
               Executed(Q(a, b, ext_amount, fee, c, d, recipient, payee, root), cached, user)
  BY <1>3
<1>5. PICK ext_amount \in ExtAmounts, fee \in Fees, c \in Amounts, d \in Amounts,
           user \in Users :
        \E payee, cached \in Parties, recipient \in Recipients(user, ext_amount) :
          Executed(Q(a, b, ext_amount, fee, c, d, recipient, payee, root), cached, user)
  BY <1>4
<1>9. PICK payee \in Parties, cached \in Parties, recipient \in Recipients(user, ext_amount) :
        Executed(Q(a, b, ext_amount, fee, c, d, recipient, payee, root), cached, user)
  BY <1>5
<1> DEFINE p == Q(a, b, ext_amount, fee, c, d, recipient, payee, root)
<1>6. p \in ProofType /\ p.mint = m /\ p.ext_data.recipient \in Users \cup {Vault}
  <2>1. a \in Input /\ b \in Input
    BY <1>2
  <2>2. a.amount \in Nat /\ b.amount \in Nat
    BY <2>1 DEF Input
  <2>3. c \in Nat /\ d \in Nat /\ ext_amount \in Int /\ fee \in Nat /\ root \in Nat
    BY <1>1, NumbersAssumption
  <2>4. recipient \in Users \cup {Vault} /\ recipient \in Parties \cup {Vault}
    BY FundsAssumption DEF Recipients
  <2>5. p.ext_data \in ExtData
    BY <2>3, <2>4 DEF Q, Proof, ExtData
  <2> QED BY <1>1, <2>1, <2>2, <2>3, <2>4, <2>5 DEF Q, Proof, ProofType
<1>7. user \in Parties /\ ClientProof(p)
  <2>1. /\ p.mint = m /\ p.inputs[1] = a /\ p.inputs[2] = b
        /\ p.outputs[1] = c /\ p.outputs[2] = d
    BY DEF Q, Proof
  <2>2. \A j \in {1, 2} : LeafInput(m, p.inputs[j]) \/ DummyInput(m, p.inputs[j])
    BY <1>2, <2>1
  <2> HIDE DEF p
  <2> QED BY <2>1, <2>2, FundsAssumption DEF ClientProof
<1>8. \E ext_data : Transact(p, ext_data, user) \/ TransactSpl(p, ext_data, user)
  BY <1>9, Zenon DEF Executed
<1> HIDE DEF p
<1> QED BY <1>6, <1>7, <1>8

-----------------------------------------------------------------------------
(* One lemma per instruction *)

\* What the checks of an executed proof say of its nullifiers: different, new
\* under both prefixes, and hence of no leaf that was spent before.
LEMMA UsesOnce ==
  ASSUME IInv, NEW p \in ProofType, NEW ext_data, Checks(p, ext_data),
         NEW m \in Mints, NEW i \in 1 .. Len(notes[m])
  PROVE  /\ Uses(p, m, i - 1) \in {0, 1}
         /\ Uses(p, m, i - 1) = 1 =>
              /\ notes[m][i].spent = 0
              /\ <<"note", m, i - 1>> \in {p.inputs[1].nullifier, p.inputs[2].nullifier}
<1>1. /\ p.inputs[1].nullifier # p.inputs[2].nullifier
      /\ p.inputs[1].nullifier \notin nullifier0 \cup nullifier1
      /\ p.inputs[2].nullifier \notin nullifier0 \cup nullifier1
  BY DEF Checks, Circuit, NullifiersFresh
<1>2. notes[m][i].spent \in Nat /\ (notes[m][i].spent > 0 => Spent(m, i - 1))
  <2>1. notes[m] \in Seq(Note)
    BY DEF IInv, TypeOK
  <2>2. notes[m][i] \in Note
    BY <2>1
  <2> QED BY <2>2 DEF IInv, SpentInv, Note
<1>3. CASE <<"note", m, i - 1>> \in {p.inputs[1].nullifier, p.inputs[2].nullifier}
  BY <1>1, <1>2, <1>3 DEF Uses, Spent
<1>4. CASE <<"note", m, i - 1>> \notin {p.inputs[1].nullifier, p.inputs[2].nullifier}
  BY <1>4 DEF Uses
<1> QED BY <1>3, <1>4

\* The leaves after a proof is executed.
LEMMA NotesAfterLemma ==
  ASSUME IInv, NEW p \in ProofType, NEW ext_data, Checks(p, ext_data)
  PROVE  LET old == notes[p.mint]
             new == NotesAfter(p)
         IN /\ new \in Seq(Note)
            /\ Len(new) = Len(old) + 2
            /\ \A i \in 1 .. Len(old) :
                 /\ new[i].spent = old[i].spent + Uses(p, p.mint, i - 1)
                 /\ new[i].amount = old[i].amount
            /\ \A i \in Len(old) + 1 .. Len(old) + 2 :
                 new[i].spent = 0 /\ new[i].amount = p.outputs[i - Len(old)]
<1> DEFINE old == notes[p.mint]
           n == Len(old)
           new == NotesAfter(p)
<1>1. p.mint \in Mints /\ p.outputs[1] \in Nat /\ p.outputs[2] \in Nat
  BY DEF ProofType
<1>2. old \in Seq(Note) /\ n \in Nat
  BY <1>1 DEF IInv, TypeOK
<1>3. new = [i \in 1 .. n + 2 |->
               IF i <= n THEN [old[i] EXCEPT !.spent = @ + Uses(p, p.mint, i - 1)]
               ELSE [amount |-> p.outputs[i - n], spent |-> 0]]
  BY DEF NotesAfter
<1>4. ASSUME NEW i \in 1 .. n
      PROVE  /\ new[i] \in Note
             /\ new[i].spent = old[i].spent + Uses(p, p.mint, i - 1)
             /\ new[i].amount = old[i].amount
  <2>1. new[i] = [old[i] EXCEPT !.spent = @ + Uses(p, p.mint, i - 1)]
    BY <1>2, <1>3
  <2>2. old[i] \in Note
    BY <1>2
  <2>3. Uses(p, p.mint, i - 1) \in Nat
    BY <1>1, UsesOnce
  <2> QED BY <2>1, <2>2, <2>3 DEF Note
<1>5. ASSUME NEW i \in n + 1 .. n + 2
      PROVE  new[i] \in Note /\ new[i].spent = 0 /\ new[i].amount = p.outputs[i - n]
  <2>1. new[i] = [amount |-> p.outputs[i - n], spent |-> 0]
    BY <1>2, <1>3
  <2>2. i - n \in {1, 2}
    BY <1>2
  <2> QED BY <1>1, <2>1, <2>2 DEF Note
<1> HIDE DEF new
<1>6. \A i \in 1 .. n + 2 : new[i] \in Note
  BY <1>2, <1>4, <1>5
<1>7. new \in Seq(Note) /\ Len(new) = n + 2
  <2>1. new \in [1 .. n + 2 -> Note]
    BY <1>3, <1>6
  <2>2. n + 2 \in Nat
    BY <1>2
  <2> QED BY <2>1, <2>2
<1> QED BY <1>4, <1>5, <1>7 DEF new

\* What a transaction moves: the vault gains what was asked for, less the fee,
\* and keeps what it pays to itself.
LEMMA Moved ==
  ASSUME IInv, NEW p \in ProofType, NEW ext_data, Checks(p, ext_data),
         NEW m, m = p.mint, NEW e, e = p.ext_data
  PROVE  /\ m \in Mints /\ e.ext_amount \in Int /\ e.fee \in Nat /\ vault[m] \in Nat
         /\ e.recipient \in Parties \cup {Vault} /\ e.fee_recipient \in Parties
         /\ Gross(m, e) \in Nat /\ Positive(-e.ext_amount) \in Nat /\ Kept(e) \in Nat
         /\ VaultAfter(m, e) = vault[m] + e.ext_amount - e.fee + Kept(e)
         /\ VaultAfter(m, e) \in Nat
<1>1. /\ m \in Mints /\ e.ext_amount \in Int /\ e.fee \in Nat /\ vault[m] \in Nat
      /\ e.recipient \in Parties \cup {Vault} /\ e.fee_recipient \in Parties
  BY DEF ProofType, ExtData, IInv, TypeOK
<1>2. PICK x, up, down, kept, paid : /\ x = e.ext_amount /\ kept = Kept(e) /\ paid = PaidOut(e)
                                     /\ up = Positive(x) /\ down = Positive(-x)
  OBVIOUS
<1>3. /\ x \in Int /\ up \in Nat /\ down \in Nat /\ up - down = x
      /\ (x <= 0 => up = 0) /\ (x > 0 => up = x) /\ (x >= 0 => down = 0)
  BY <1>1, <1>2 DEF Positive
<1>4. kept \in Nat /\ paid \in Nat /\ kept + paid = down /\ (x >= 0 => paid = 0)
  BY <1>2, <1>3 DEF Kept, PaidOut
<1>5. Gross(m, e) = GrossForNet(m, up) /\ Gross(m, e) \in Nat
  BY <1>1, <1>2, <1>3, GrossBounds DEF Gross
<1>6. Received(m, e) = up
  <2>1. CASE x > 0
    BY <1>2, <1>3, <2>1 DEF Checks
  <2>2. CASE x <= 0
    <3>1. Gross(m, e) = 0
      BY <1>1, <1>3, <1>5, <2>2, GrossBounds
    <3>2. Received(m, e) = Net(m, 0)
      BY <3>1 DEF Received
    <3>3. Net(m, 0) \in Nat /\ Net(m, 0) <= 0
      BY <1>1, NetBounds
    <3> QED BY <1>3, <2>2, <3>2, <3>3
  <2> QED BY <1>3, <2>1, <2>2
<1>7. VaultAfter(m, e) = vault[m] + up - paid - e.fee
  BY <1>2, <1>6 DEF VaultAfter
<1>8. VaultAfter(m, e) = vault[m] + x - e.fee + kept
  <2>1. PICK v \in Nat, fee \in Nat : v = vault[m] /\ fee = e.fee
    BY <1>1
  <2>2. up - paid = x + kept
    BY <1>3, <1>4
  <2>3. v + up - paid - fee = v + x - fee + kept
    BY <1>3, <1>4, <2>2
  <2> QED BY <1>7, <2>1, <2>3, Zenon
<1>9. VaultAfter(m, e) \in Nat
  <2>1. RentOf(m) \in Nat
    BY NumbersAssumption DEF RentOf
  <2>2. x < 0 \/ e.fee > 0 => VaultAfter(m, e) >= RentOf(m)
    BY <1>2 DEF Checks
  <2>3. VaultAfter(m, e) \in Int
    BY <1>1, <1>3, <1>4, <1>7
  <2>4. CASE x < 0 \/ e.fee > 0
    BY <2>1, <2>2, <2>3, <2>4
  <2>5. CASE ~(x < 0 \/ e.fee > 0)
    BY <1>1, <1>3, <1>4, <1>7, <2>5
  <2> QED BY <2>4, <2>5
<1> QED BY <1>1, <1>2, <1>3, <1>4, <1>5, <1>8, <1>9

\* Everything a transaction changes but the wallets.
LEMMA SettleKeeps ==
  ASSUME IInv, NEW p \in ProofType, NEW ext_data, Checks(p, ext_data), Settle(p),
         wallet' \in [Parties -> [Mints -> Nat]]
  PROVE  IInv'
<1> DEFINE m == p.mint
           a == p.inputs[1].nullifier
           b == p.inputs[2].nullifier
<1>1. m \in Mints /\ a \in Nullifier /\ b \in Nullifier /\ m \in opened
      /\ p.ext_data \in ExtData
  BY DEF ProofType, Input, Checks
<1>2. /\ trees[m] \in Tree /\ RingOk(trees[m])
      /\ trees[m].next_index = Len(notes[m])
  BY <1>1 DEF IInv, TypeOK, RingInv
<1>3. /\ trees' = [trees EXCEPT ![m] = InsertOutputs(trees[m])]
      /\ notes' = [notes EXCEPT ![m] = NotesAfter(p)]
      /\ vault' = [vault EXCEPT ![m] = VaultAfter(m, p.ext_data)]
      /\ surplus' = [surplus EXCEPT ![m] = surplus[m] + Kept(p.ext_data)]
      /\ nullifier0' = nullifier0 \cup {a}
      /\ nullifier1' = nullifier1 \cup {b}
      /\ UNCHANGED <<global_config, opened>>
  BY <1>1 DEF Settle
<1>4. /\ InsertOutputs(trees[m]) \in Tree
      /\ RingOk(InsertOutputs(trees[m]))
      /\ InsertOutputs(trees[m]).next_index = Len(notes[m]) + 2
  BY <1>2, InsertOutputsOk
<1>5. NotesAfter(p) \in Seq(Note) /\ Len(NotesAfter(p)) = Len(notes[m]) + 2
  BY NotesAfterLemma
<1>6. VaultAfter(m, p.ext_data) \in Nat /\ Kept(p.ext_data) \in Nat
  BY Moved
<1>7. TypeOK'
  <2>1. trees' \in [Mints -> Tree]
    BY <1>3, <1>4 DEF IInv, TypeOK
  <2>2. notes' \in [Mints -> Seq(Note)]
    BY <1>3, <1>5 DEF IInv, TypeOK
  <2>3. vault' \in [Mints -> Nat] /\ surplus' \in [Mints -> Nat]
    BY <1>1, <1>3, <1>6 DEF IInv, TypeOK
  <2>4. nullifier0' \subseteq Nullifier /\ nullifier1' \subseteq Nullifier
    BY <1>1, <1>3 DEF IInv, TypeOK
  <2> QED BY <1>3, <2>1, <2>2, <2>3, <2>4 DEF IInv, TypeOK
<1>8. RingInv'
  <2> SUFFICES ASSUME NEW x \in Mints
               PROVE  /\ RingOk(trees'[x])
                      /\ trees'[x].next_index = Len(notes'[x])
                      /\ x \notin opened' => Len(notes'[x]) = 0
    BY DEF RingInv, RingOk, Age
  <2>1. CASE x = m
    BY <1>1, <1>3, <1>4, <1>5, <2>1 DEF IInv, TypeOK
  <2>2. CASE x # m
    BY <1>3, <2>2 DEF IInv, TypeOK, RingInv
  <2> QED BY <2>1, <2>2
<1>9. SpentInv'
  <2> SUFFICES ASSUME NEW x \in Mints, NEW i \in 1 .. Len(notes'[x])
               PROVE  /\ notes'[x][i].spent <= 1
                      /\ notes'[x][i].spent > 0 =>
                           <<"note", x, i - 1>> \in nullifier0' \cup nullifier1'
    BY DEF SpentInv, Spent
  <2>1. CASE x # m
    <3>1. notes'[x] = notes[x]
      BY <1>3, <2>1 DEF IInv, TypeOK
    <3> QED BY <1>3, <3>1 DEF IInv, SpentInv, Spent
  <2>2. CASE x = m
    <3>1. notes'[x] = NotesAfter(p) /\ notes[m] \in Seq(Note) /\ Len(notes[m]) \in Nat
      BY <1>1, <1>3, <2>2 DEF IInv, TypeOK
    <3>2. CASE i \in 1 .. Len(notes[m])
      <4>1. notes'[x][i].spent = notes[m][i].spent + Uses(p, m, i - 1)
        BY <3>1, <3>2, NotesAfterLemma
      <4>2. /\ notes[m][i].spent \in Nat /\ notes[m][i].spent <= 1
            /\ notes[m][i].spent > 0 => Spent(m, i - 1)
        <5>1. notes[m][i] \in Note
          BY <3>1, <3>2
        <5> QED BY <1>1, <3>2, <5>1 DEF IInv, SpentInv, Note
      <4>3. /\ Uses(p, m, i - 1) \in {0, 1}
            /\ Uses(p, m, i - 1) = 1 =>
                 notes[m][i].spent = 0 /\ <<"note", m, i - 1>> \in {a, b}
        BY <1>1, <3>2, UsesOnce
      <4> QED BY <1>3, <2>2, <4>1, <4>2, <4>3 DEF Spent
    <3>3. CASE i \notin 1 .. Len(notes[m])
      <4>1. i \in Len(notes[m]) + 1 .. Len(notes[m]) + 2
        BY <1>5, <3>1, <3>3
      <4> QED BY <3>1, <4>1, NotesAfterLemma
    <3> QED BY <3>2, <3>3
  <2> QED BY <2>1, <2>2
<1>10. OnePrefixPerNullifier'
  BY <1>3 DEF IInv, OnePrefixPerNullifier, Checks, Circuit, NullifiersFresh
<1> QED BY <1>7, <1>8, <1>9, <1>10 DEF IInv

\* A credit changes one entry of one wallet.
LEMMA CreditLemma ==
  ASSUME NEW w \in [Parties -> [Mints -> Nat]], NEW x \in Parties, NEW m \in Mints,
         NEW n \in Int, w[x][m] + n \in Nat, NEW v, v = Credit(w, x, m, n)
  PROVE  /\ v \in [Parties -> [Mints -> Nat]]
         /\ \A y \in Parties, q \in Mints :
              v[y][q] = IF y = x /\ q = m THEN w[x][m] + n ELSE w[y][q]
<1> DEFINE row == [w[x] EXCEPT ![m] = w[x][m] + n]
<1>1. row \in [Mints -> Nat] /\ row[m] = w[x][m] + n
      /\ \A q \in Mints : q # m => row[q] = w[x][q]
  BY DEF row
<1>2. v = [w EXCEPT ![x] = row]
  BY DEF Credit
<1> HIDE DEF row
<1> QED BY <1>1, <1>2

\* The wallets of a transaction and what each gets: `got` and `charged`.
Moves(m, signer, e, paid, got, charged) ==
  /\ paid = Gross(m, e) /\ paid \in Nat /\ paid <= wallet[signer][m]
  /\ got = Net(m, Positive(-e.ext_amount)) /\ got \in Nat
  /\ charged = Net(m, e.fee) /\ charged \in Nat /\ charged <= e.fee
  /\ e.fee \in Nat /\ e.recipient \in Parties \cup {Vault} /\ e.fee_recipient \in Parties
  /\ wallet' = Move(m, signer, e)

\* The wallets of a transaction: none goes below zero, and only the two
\* credited ones can grow.
LEMMA MoveLemma ==
  ASSUME IInv, NEW m \in Mints, NEW signer \in Parties, NEW e,
         NEW paid, NEW got, NEW charged, Moves(m, signer, e, paid, got, charged)
  PROVE  /\ wallet' \in [Parties -> [Mints -> Nat]]
         /\ \A x \in Parties, q \in Mints :
              wallet'[x][q] > wallet[x][q] =>
                \/ x = e.recipient
                \/ x = e.fee_recipient /\ e.fee > 0
<1> USE DEF Moves
<1>1. wallet \in [Parties -> [Mints -> Nat]]
  BY DEF IInv, TypeOK
<1>0. PICK n : n = -paid
  OBVIOUS
<1>2. PICK w1 : w1 = Credit(wallet, signer, m, n)
  OBVIOUS
<1>3. PICK w2 : w2 = IF e.recipient = Vault THEN w1 ELSE Credit(w1, e.recipient, m, got)
  OBVIOUS
<1>4. wallet' = Credit(w2, e.fee_recipient, m, charged)
  BY <1>0, <1>2, <1>3 DEF Move
<1>5. /\ w1 \in [Parties -> [Mints -> Nat]]
      /\ \A x \in Parties, q \in Mints : w1[x][q] <= wallet[x][q]
  <2>1. n \in Int /\ n <= 0 /\ wallet[signer][m] + n \in Nat
    BY <1>0, <1>1
  <2>2. /\ w1 \in [Parties -> [Mints -> Nat]]
        /\ \A x \in Parties, q \in Mints :
             w1[x][q] = IF x = signer /\ q = m THEN wallet[signer][m] + n ELSE wallet[x][q]
    BY <1>1, <1>2, <2>1, CreditLemma
  <2>3. \A x \in Parties, q \in Mints : wallet[x][q] \in Nat
    BY <1>1
  <2> QED BY <2>1, <2>2, <2>3
<1>6. /\ w2 \in [Parties -> [Mints -> Nat]]
      /\ \A x \in Parties, q \in Mints : w2[x][q] > w1[x][q] => x = e.recipient
  <2>1. CASE e.recipient = Vault
    <3>1. w2 = w1 /\ \A x \in Parties, q \in Mints : w1[x][q] \in Nat
      BY <1>3, <1>5, <2>1
    <3> QED BY <1>5, <3>1
  <2>2. CASE e.recipient # Vault
    <3> PICK r \in Parties : r = e.recipient
      BY <2>2
    <3>1. w1[r][m] + got \in Nat /\ got \in Int
      BY <1>5
    <3>2. /\ w2 \in [Parties -> [Mints -> Nat]]
          /\ \A x \in Parties, q \in Mints :
               w2[x][q] = IF x = r /\ q = m THEN w1[r][m] + got ELSE w1[x][q]
      <4>1. w2 = Credit(w1, r, m, got)
        BY <1>3, <2>2
      <4> QED BY <1>5, <3>1, <4>1, CreditLemma
    <3>3. \A x \in Parties, q \in Mints : w1[x][q] \in Nat
      BY <1>5
    <3> QED BY <3>2, <3>3
  <2> QED BY <2>1, <2>2
<1>7. /\ wallet' \in [Parties -> [Mints -> Nat]]
      /\ \A x \in Parties, q \in Mints :
           wallet'[x][q] > w2[x][q] => x = e.fee_recipient /\ e.fee > 0
  <2> PICK r \in Parties : r = e.fee_recipient
    OBVIOUS
  <2>1. w2[r][m] + charged \in Nat /\ charged \in Int
    BY <1>6
  <2>2. /\ wallet' \in [Parties -> [Mints -> Nat]]
        /\ \A x \in Parties, q \in Mints :
             wallet'[x][q] = IF x = r /\ q = m THEN w2[r][m] + charged ELSE w2[x][q]
    <3>1. PICK w3 : w3 = wallet'
      OBVIOUS
    <3>2. w3 = Credit(w2, r, m, charged)
      BY <1>4, <3>1
    <3> QED BY <1>6, <2>1, <3>1, <3>2, CreditLemma
  <2>3. \A x \in Parties, q \in Mints : w2[x][q] \in Nat
    BY <1>6
  <2> QED BY <2>2, <2>3
<1>8. ASSUME NEW x \in Parties, NEW q \in Mints, wallet'[x][q] > wallet[x][q]
      PROVE  x = e.recipient \/ (x = e.fee_recipient /\ e.fee > 0)
  <2>1. wallet[x][q] \in Nat /\ w1[x][q] \in Nat /\ w2[x][q] \in Nat /\ wallet'[x][q] \in Nat
    BY <1>1, <1>5, <1>6, <1>7
  <2> QED BY <1>5, <1>6, <1>7, <1>8, <2>1
<1> QED BY <1>7, <1>8

\* A transaction moves what its checks allow.
LEMMA TransactionMoves ==
  ASSUME IInv, NEW p \in ProofType, NEW ext_data, NEW signer \in Parties,
         Transact(p, ext_data, signer) \/ TransactSpl(p, ext_data, signer),
         NEW m, m = p.mint, NEW e, e = p.ext_data, NEW paid, paid = Gross(m, e),
         NEW got, got = Net(m, Positive(-e.ext_amount)), NEW charged, charged = Net(m, e.fee)
  PROVE  m \in Mints /\ Moves(m, signer, e, paid, got, charged)
<1>1. Checks(p, ext_data)
  BY DEF Transact, TransactSpl
<1>2. /\ m \in Mints /\ e.fee \in Nat /\ paid \in Nat /\ Positive(-e.ext_amount) \in Nat
      /\ e.recipient \in Parties \cup {Vault} /\ e.fee_recipient \in Parties
  BY <1>1, Moved
<1>3. got \in Nat /\ charged \in Nat /\ charged <= e.fee
  BY <1>2, NetBounds
<1>4. paid <= wallet[signer][m] /\ wallet' = Move(m, signer, e)
  BY DEF Transact, TransactSpl
<1> QED BY <1>2, <1>3, <1>4 DEF Moves

\* Hence the wallets stay what they are, and only those paid grow.
LEMMA TransactionWallets ==
  ASSUME IInv, NEW p \in ProofType, NEW ext_data, NEW signer \in Parties,
         Transact(p, ext_data, signer) \/ TransactSpl(p, ext_data, signer)
  PROVE  /\ wallet' \in [Parties -> [Mints -> Nat]]
         /\ \A x \in Parties, m \in Mints :
              wallet'[x][m] > wallet[x][m] =>
                \/ x = p.ext_data.recipient
                \/ x = p.ext_data.fee_recipient /\ p.ext_data.fee > 0
<1>1. PICK m, e, paid, got, charged :
        /\ m = p.mint /\ e = p.ext_data /\ paid = Gross(m, e)
        /\ got = Net(m, Positive(-e.ext_amount)) /\ charged = Net(m, e.fee)
  OBVIOUS
<1>2. m \in Mints /\ Moves(m, signer, e, paid, got, charged)
  BY <1>1, TransactionMoves
<1> QED BY <1>1, <1>2, MoveLemma

LEMMA InitializeKeeps ==
  ASSUME IInv, NEW caller \in Parties, NEW rate \in Rates, Initialize(caller, rate)
  PROVE  IInv'
<1>1. /\ SOL \in Mints /\ SOL \notin opened /\ rate \in 0 .. MaxRate
      /\ Len(notes[SOL]) = 0 /\ Rent \in Nat
  <2>1. rate \in Nat /\ rate <= MaxRate /\ MaxRate \in Nat
    BY NumbersAssumption DEF Initialize, MaxRate
  <2>2. SOL \in Mints /\ SOL \notin opened
    BY DEF Initialize, Mints
  <2> QED BY <2>1, <2>2, NumbersAssumption DEF IInv, RingInv
<1>2. NewTree(caller) \in Tree /\ RingOk(NewTree(caller)) /\ NewTree(caller).next_index = 0
  BY NewTreeOk
<1>3. TypeOK'
  <2>1. global_config' \in GlobalConfig
    BY <1>1 DEF Initialize, GlobalConfig, MaxRate
  <2>2. trees' \in [Mints -> Tree] /\ opened' \subseteq Mints
    BY <1>1, <1>2 DEF Initialize, IInv, TypeOK
  <2>3. vault' \in [Mints -> Nat]
    BY <1>1 DEF Initialize, IInv, TypeOK
  <2>4. wallet' \in [Parties -> [Mints -> Nat]]
    BY <1>1 DEF Initialize, IInv, TypeOK
  <2> QED BY <2>1, <2>2, <2>3, <2>4 DEF Initialize, IInv, TypeOK
<1>4. RingInv'
  <2> SUFFICES ASSUME NEW x \in Mints
               PROVE  /\ RingOk(trees'[x])
                      /\ trees'[x].next_index = Len(notes'[x])
                      /\ x \notin opened' => Len(notes'[x]) = 0
    BY DEF RingInv, RingOk, Age
  <2>1. CASE x = SOL
    BY <1>1, <1>2, <2>1 DEF Initialize, IInv, TypeOK
  <2>2. CASE x # SOL
    BY <2>2 DEF Initialize, IInv, TypeOK, RingInv
  <2> QED BY <2>1, <2>2
<1>5. SpentInv' /\ OnePrefixPerNullifier'
  BY DEF Initialize, IInv, SpentInv, Spent, OnePrefixPerNullifier
<1> QED BY <1>3, <1>4, <1>5 DEF IInv

LEMMA UpdateGlobalConfigKeeps ==
  ASSUME IInv, NEW caller \in Parties,
         NEW d \in Rates \cup {None}, NEW w \in Rates \cup {None},
         NEW e \in Margins \cup {None}, NEW r \in Parties \cup {None},
         UpdateGlobalConfig(caller, d, w, e, r)
  PROVE  IInv'
<1>0. /\ d \in Nat \cup {None} /\ w \in Nat \cup {None} /\ e \in Nat \cup {None}
      /\ RateOk(d) /\ RateOk(w) /\ RateOk(e)
  BY NumbersAssumption DEF UpdateGlobalConfig
<1>1. ASSUME NEW o \in Nat \cup {None}, RateOk(o), NEW old \in 0 .. MaxRate
      PROVE  Given(o, old) \in 0 .. MaxRate
  BY <1>1 DEF RateOk, Given, MaxRate
<1>2. Given(r, global_config.fee_recipient) \in Parties
  BY DEF Given, IInv, TypeOK, GlobalConfig
<1>3. global_config' \in GlobalConfig
  BY <1>0, <1>1, <1>2 DEF UpdateGlobalConfig, IInv, TypeOK, GlobalConfig
<1>4. UNCHANGED <<opened, trees, nullifier0, nullifier1, vault, wallet, notes, surplus>>
  BY DEF UpdateGlobalConfig
<1> QED BY <1>3, <1>4
     DEF IInv, TypeOK, RingInv, RingOk, Age, SpentInv, Spent, OnePrefixPerNullifier

LEMMA UpdateDepositLimitKeeps ==
  ASSUME IInv, NEW caller \in Parties, NEW m \in Mints, NEW limit \in Limits,
         UpdateDepositLimit(caller, m, limit)
  PROVE  IInv'
<1>1. limit \in Nat
  BY NumbersAssumption
<1>2. trees' = [trees EXCEPT ![m] = [trees[m] EXCEPT !.max_deposit_amount = limit]]
      /\ UNCHANGED <<global_config, opened, nullifier0, nullifier1, vault, wallet, notes, surplus>>
  BY DEF UpdateDepositLimit
<1>3. trees' \in [Mints -> Tree]
  BY <1>1, <1>2 DEF IInv, TypeOK, Tree
<1>4. ASSUME NEW x \in Mints
      PROVE  /\ trees'[x].next_index = trees[x].next_index
             /\ trees'[x].root_index = trees[x].root_index
             /\ trees'[x].root_history = trees[x].root_history
  BY <1>2 DEF IInv, TypeOK, Tree
<1>5. RingInv'
  BY <1>2, <1>4 DEF IInv, RingInv, RingOk, Age
<1> QED BY <1>2, <1>3, <1>5 DEF IInv, TypeOK, SpentInv, Spent, OnePrefixPerNullifier

LEMMA CreatePoolKeeps ==
  ASSUME IInv, NEW m \in Tokens, CreatePool(m)
  PROVE  IInv'
<1> DEFINE new == NewTree(global_config.authority)
<1>1. m \in Mints /\ m \notin opened /\ Len(notes[m]) = 0
  BY DEF CreatePool, Mints, IInv, RingInv
<1>2. new \in Tree /\ RingOk(new) /\ new.next_index = 0
  BY NewTreeOk DEF IInv, TypeOK, GlobalConfig
<1>3. /\ trees' = [trees EXCEPT ![m] = new] /\ opened' = opened \cup {m}
      /\ UNCHANGED <<global_config, nullifier0, nullifier1, vault, wallet, notes, surplus>>
  BY DEF CreatePool
<1> HIDE DEF new
<1>4. TypeOK'
  BY <1>1, <1>2, <1>3 DEF IInv, TypeOK
<1>5. RingInv'
  <2> SUFFICES ASSUME NEW x \in Mints
               PROVE  /\ RingOk(trees'[x])
                      /\ trees'[x].next_index = Len(notes'[x])
                      /\ x \notin opened' => Len(notes'[x]) = 0
    BY DEF RingInv, RingOk, Age
  <2>1. CASE x = m
    BY <1>1, <1>2, <1>3, <2>1 DEF IInv, TypeOK
  <2>2. CASE x # m
    BY <1>3, <2>2 DEF IInv, TypeOK, RingInv
  <2> QED BY <2>1, <2>2
<1>6. SpentInv' /\ OnePrefixPerNullifier'
  BY <1>3 DEF IInv, SpentInv, Spent, OnePrefixPerNullifier
<1> QED BY <1>4, <1>5, <1>6 DEF IInv

\* What somebody gives a vault leaves his wallet, and what arrives is surplus.
LEMMA Donated ==
  ASSUME IInv, NEW x \in Users, NEW m \in Mints, NEW amount \in Gifts, Donate(x, m, amount),
         NEW net, net = Net(m, amount), NEW loss, loss = -amount
  PROVE  /\ x \in Parties /\ amount \in Nat /\ net \in Nat /\ loss \in Int
         /\ wallet[x][m] + loss \in Nat /\ wallet' = Credit(wallet, x, m, loss)
         /\ vault' = [vault EXCEPT ![m] = vault[m] + net]
         /\ surplus' = [surplus EXCEPT ![m] = surplus[m] + net]
         /\ UNCHANGED <<global_config, opened, trees, nullifier0, nullifier1, notes>>
<1>1. x \in Parties /\ amount \in Nat /\ loss \in Int
  BY FundsAssumption, NumbersAssumption
<1>2. net \in Nat
  BY <1>1, NetBounds
<1>3. wallet[x][m] + loss \in Nat
  BY <1>1 DEF Donate, IInv, TypeOK
<1> QED BY <1>1, <1>2, <1>3 DEF Donate

LEMMA DonateKeeps ==
  ASSUME IInv, NEW x \in Users, NEW m \in Mints, NEW amount \in Gifts, Donate(x, m, amount)
  PROVE  IInv'
<1>1. PICK net, loss, w : net = Net(m, amount) /\ loss = -amount /\ w = wallet'
  OBVIOUS
<1>2. /\ x \in Parties /\ net \in Nat /\ loss \in Int
      /\ wallet[x][m] + loss \in Nat /\ w = Credit(wallet, x, m, loss)
      /\ vault' = [vault EXCEPT ![m] = vault[m] + net]
      /\ surplus' = [surplus EXCEPT ![m] = surplus[m] + net]
      /\ UNCHANGED <<global_config, opened, trees, nullifier0, nullifier1, notes>>
  BY <1>1, Donated
<1>3. w \in [Parties -> [Mints -> Nat]]
  BY <1>2, CreditLemma DEF IInv, TypeOK
<1>4. vault' \in [Mints -> Nat] /\ surplus' \in [Mints -> Nat]
  BY <1>2 DEF IInv, TypeOK
<1>5. TypeOK'
  BY <1>1, <1>2, <1>3, <1>4 DEF IInv, TypeOK
<1>6. RingInv'
  BY <1>2 DEF IInv, RingInv, RingOk, Age
<1> QED BY <1>2, <1>5, <1>6 DEF IInv, SpentInv, Spent, OnePrefixPerNullifier

-----------------------------------------------------------------------------
(* The specification *)

\* Every transaction lands on the settled state its wallets allow.
LEMMA SubmitKeeps ==
  ASSUME IInv, NEW m \in opened, Submit(m)
  PROVE  IInv'
<1>1. PICK p \in ProofType, signer \in Parties : \E ext_data :
        Transact(p, ext_data, signer) \/ TransactSpl(p, ext_data, signer)
  BY SubmitIsTyped
<1>2. PICK ext_data : Transact(p, ext_data, signer) \/ TransactSpl(p, ext_data, signer)
  BY <1>1
<1>3. Checks(p, ext_data) /\ Settle(p)
  BY <1>2 DEF Transact, TransactSpl
<1>4. wallet' \in [Parties -> [Mints -> Nat]]
  BY <1>2, TransactionWallets
<1> QED BY <1>3, <1>4, SettleKeeps

\* IInv is inductive: one step of the proof per instruction.
LEMMA StepKeepsIInv == IInv /\ [Next]_vars => IInv'
<1> SUFFICES ASSUME IInv, [Next]_vars PROVE IInv'
  OBVIOUS
<1>1. ASSUME NEW x \in Parties, NEW rate \in Rates, Initialize(x, rate)
      PROVE  IInv'
  BY <1>1, InitializeKeeps
<1>2. ASSUME NEW x \in Parties, NEW d \in Rates \cup {None}, NEW w \in Rates \cup {None},
             NEW e \in Margins \cup {None}, NEW r \in Parties \cup {None},
             UpdateGlobalConfig(x, d, w, e, r)
      PROVE  IInv'
  BY <1>2, UpdateGlobalConfigKeeps
<1>3. ASSUME NEW x \in Parties, NEW m \in Mints, NEW limit \in Limits,
             UpdateDepositLimit(x, m, limit)
      PROVE  IInv'
  BY <1>3, UpdateDepositLimitKeeps
<1>4. ASSUME NEW m \in Tokens, CreatePool(m)
      PROVE  IInv'
  BY <1>4, CreatePoolKeeps
<1>5. ASSUME NEW m \in opened, Submit(m)
      PROVE  IInv'
  BY <1>5, SubmitKeeps
<1>6. ASSUME NEW x \in Users, NEW m \in Mints, NEW amount \in Gifts, Donate(x, m, amount)
      PROVE  IInv'
  BY <1>6, DonateKeeps
<1>7. ASSUME UNCHANGED vars
      PROVE  IInv'
  BY <1>7 DEF vars, IInv, TypeOK, RingInv, RingOk, Age, SpentInv, Spent, OnePrefixPerNullifier
<1> QED BY <1>1, <1>2, <1>3, <1>4, <1>5, <1>6, <1>7 DEF Next

\* The strengthened invariant holds in every reachable state.
THEOREM Invariant == Spec => []IInv
BY InitIInv, StepKeepsIInv, PTL DEF Spec

\* The program's accounts keep their types: in particular no vault and no
\* wallet is ever drawn below zero by the lamport and token arithmetic of
\* transact and transact_spl.
THEOREM TypeCorrect == Spec => []TypeOK
<1>1. IInv => TypeOK
  BY DEF IInv
<1> QED BY <1>1, Invariant, PTL

\* No leaf of any pool is consumed twice by any sequence of transactions,
\* whichever of the two input slots, the two prefixes and the recent roots
\* each of them used.
THEOREM NoDoubleSpendHolds == Spec => []NoDoubleSpend
<1>1. IInv => NoDoubleSpend
  BY DEF IInv, SpentInv, NoDoubleSpend
<1> QED BY <1>1, Invariant, PTL

\* No nullifier ever has an account under both prefixes, so looking at four
\* accounts is enough to see whether either input was spent.
THEOREM OnePrefixHolds == Spec => []OnePrefixPerNullifier
<1>1. IInv => OnePrefixPerNullifier
  BY DEF IInv
<1> QED BY <1>1, Invariant, PTL

\* The ring search of is_known_root accepts exactly the RootHistorySize
\* latest roots of every pool, for every ring size.
THEOREM RootWindowHolds == Spec => []RootWindow
<1>1. IInv => RootWindow
  <2> SUFFICES ASSUME IInv, NEW m \in opened
               PROVE  /\ trees[m].next_index = Len(notes[m])
                      /\ \A r \in 0 .. trees[m].next_index :
                           IsKnownRoot(trees[m], r)
                             <=> r > trees[m].next_index - RootHistorySize
    BY DEF RootWindow
  <2>1. trees[m] \in Tree /\ RingOk(trees[m]) /\ trees[m].next_index = Len(notes[m])
    BY DEF IInv, TypeOK, RingInv
  <2> QED BY <2>1, RingWindow
<1> QED BY <1>1, Invariant, PTL

\* Whatever the age of the configuration a payment was proved and submitted
\* under, its fee reaches the recipient configured when it executes: no other
\* wallet outside Users ever grows.
THEOREM FeesOnlyToConfiguredHolds == Spec => FeesOnlyToConfigured
<1> DEFINE Fair == \A x \in Parties \ Users, m \in Mints :
                     wallet'[x][m] > wallet[x][m] => x = global_config.fee_recipient
<1>1. IInv /\ [Next]_vars => [Fair]_vars
  <2> SUFFICES ASSUME IInv, Next, NEW x \in Parties \ Users, NEW m \in Mints,
                      wallet'[x][m] > wallet[x][m]
               PROVE  x = global_config.fee_recipient
    OBVIOUS
  <2>0. wallet \in [Parties -> [Mints -> Nat]] /\ ~(wallet[x][m] > wallet[x][m])
    BY DEF IInv, TypeOK
  <2>1. ASSUME NEW y \in Parties, NEW rate \in Rates, Initialize(y, rate)
        PROVE  FALSE
    <3>1. /\ wallet' = [wallet EXCEPT ![y] = [wallet[y] EXCEPT ![SOL] = wallet[y][SOL] - Rent]]
          /\ SOL \in Mints /\ Rent \in Nat
      BY <2>1, NumbersAssumption DEF Initialize, Mints
    <3>2. wallet'[x][m] <= wallet[x][m]
      BY <2>0, <3>1
    <3>3. wallet[x][m] \in Nat /\ wallet'[x][m] \in Int
      BY <2>0, <3>1
    <3> QED BY <3>2, <3>3
  <2>2. ASSUME NEW n \in opened, Submit(n)
        PROVE  x = global_config.fee_recipient
    <3>1. PICK p \in ProofType, signer \in Parties : \E ext_data :
            /\ p.ext_data.recipient \in Users \cup {Vault}
            /\ Transact(p, ext_data, signer) \/ TransactSpl(p, ext_data, signer)
      BY <2>2, SubmitIsTyped
    <3>2. PICK ext_data :
            /\ p.ext_data.recipient \in Users \cup {Vault}
            /\ Transact(p, ext_data, signer) \/ TransactSpl(p, ext_data, signer)
      BY <3>1
    <3>3. FeeRecipientOk(p.ext_data)
      BY <3>2 DEF Transact, TransactSpl, Checks
    <3>4. x = p.ext_data.recipient \/ (x = p.ext_data.fee_recipient /\ p.ext_data.fee > 0)
      BY <3>2, TransactionWallets
    <3>5. x # Vault
      BY FundsAssumption
    <3> QED BY <3>2, <3>3, <3>4, <3>5 DEF FeeRecipientOk
  <2>3. ASSUME NEW y \in Users, NEW n \in Mints, NEW amount \in Gifts, Donate(y, n, amount)
        PROVE  FALSE
    <3>1. PICK net, loss, w : net = Net(n, amount) /\ loss = -amount /\ w = wallet'
      OBVIOUS
    <3>2. /\ y \in Parties /\ amount \in Nat /\ loss \in Int /\ loss <= 0
          /\ wallet[y][n] + loss \in Nat /\ w = Credit(wallet, y, n, loss)
      BY <2>3, <3>1, Donated
    <3>3. w[x][m] = IF x = y /\ m = n THEN wallet[y][n] + loss ELSE wallet[x][m]
      BY <2>0, <3>2, CreditLemma
    <3>4. wallet[x][m] \in Nat
      BY <2>0
    <3> QED BY <3>1, <3>2, <3>3, <3>4
  <2> QED BY <2>0, <2>1, <2>2, <2>3
       DEF Next, UpdateGlobalConfig, UpdateDepositLimit, CreatePool
<1> QED BY <1>1, Invariant, PTL DEF Spec, FeesOnlyToConfigured

-----------------------------------------------------------------------------
(* What the notes are worth *)

\* Only a leaf that exists and a dummy of an earlier transaction have a
\* nullifier account.
RecordedInv == \A x \in nullifier0 \cup nullifier1 : x[3] < Len(notes[x[2]])

\* What a pool owes.
Owed(m) == SumFunction([i \in Unspent(m) |-> notes[m][i + 1].amount])

\* A vault holds that, its rent if the pool is open, and what it was given.
BackedInv ==
  \A m \in Mints :
    vault[m] = (IF m \in opened THEN RentOf(m) ELSE 0) + Owed(m) + surplus[m]

ValueInv == RecordedInv /\ BackedInv /\ ValueConserved

\* The amounts owed are natural numbers, finitely many.
LEMMA AmountsOwed ==
  ASSUME TypeOK, NEW m \in Mints, NEW f, f = [i \in Unspent(m) |-> notes[m][i + 1].amount]
  PROVE  IsFiniteSet(Unspent(m)) /\ f \in [Unspent(m) -> Nat]
<1>1. PICK n \in Nat : n = Len(notes[m]) /\ notes[m] \in Seq(Note)
  BY DEF TypeOK
<1>2. Unspent(m) \subseteq 0 .. n - 1
  BY <1>1 DEF Unspent
<1>3. IsFiniteSet(Unspent(m))
  <2>1. 0 \in Int /\ n - 1 \in Int
    BY <1>1
  <2>2. IsFiniteSet(0 .. n - 1)
    BY <2>1, FS_Interval
  <2> QED BY <1>2, <2>2, FS_Subset
<1>4. \A i \in Unspent(m) : notes[m][i + 1].amount \in Nat
  <2>1. \A i \in 0 .. n - 1 : notes[m][i + 1] \in Note
    BY <1>1
  <2> QED BY <1>2, <2>1 DEF Note
<1> QED BY <1>3, <1>4

\* So is their sum, and it covers each of them.
LEMMA OwedCovers ==
  ASSUME TypeOK, NEW m \in Mints
  PROVE  /\ Owed(m) \in Nat
         /\ \A i \in Unspent(m) : /\ notes[m][i + 1].amount \in Nat
                                 /\ notes[m][i + 1].amount <= Owed(m)
<1>1. PICK f : f = [i \in Unspent(m) |-> notes[m][i + 1].amount]
  OBVIOUS
<1>2. IsFiniteSet(Unspent(m)) /\ f \in [Unspent(m) -> Nat]
  BY <1>1, AmountsOwed
<1>3. SumFunction(f) \in Nat /\ \A i \in Unspent(m) : f[i] <= SumFunction(f)
  BY <1>2, SumBounds
<1>4. Owed(m) = SumFunction(f)
  BY <1>1 DEF Owed
<1>5. \A i \in Unspent(m) : f[i] = notes[m][i + 1].amount /\ f[i] \in Nat
  BY <1>1, <1>2
<1> QED BY <1>3, <1>4, <1>5

\* The leaves a proof consumes.
Used(p) ==
  {i \in Nat : <<"note", p.mint, i>> \in {p.inputs[1].nullifier, p.inputs[2].nullifier}}

\* An input is an unspent leaf or worth nothing.
LEMMA InputsAreUnspent ==
  ASSUME IInv, NEW p \in ProofType, NEW ext_data, Checks(p, ext_data), ClientProof(p),
         NEW j \in {1, 2}
  PROVE  \/ \E i \in Unspent(p.mint) :
              p.inputs[j] = [nullifier |-> <<"note", p.mint, i>>,
                             amount |-> notes[p.mint][i + 1].amount]
         \/ DummyInput(p.mint, p.inputs[j])
<1>1. p.inputs[j].nullifier \notin nullifier0 \cup nullifier1
  BY DEF Checks, NullifiersFresh
<1>2. CASE LeafInput(p.mint, p.inputs[j])
  <2>1. PICK i \in 0 .. Len(notes[p.mint]) - 1 :
          p.inputs[j] = [nullifier |-> <<"note", p.mint, i>>,
                         amount |-> notes[p.mint][i + 1].amount]
    BY <1>2 DEF LeafInput
  <2>2. ~Spent(p.mint, i)
    BY <1>1, <2>1 DEF Spent
  <2> QED BY <2>1, <2>2 DEF Unspent
<1> QED BY <1>2 DEF ClientProof

\* The leaves a transaction leaves unspent.
LEMMA UnspentAfter ==
  ASSUME IInv, RecordedInv, NEW p \in ProofType, NEW ext_data, Checks(p, ext_data),
         ClientProof(p), Settle(p), NEW n, n = Len(notes[p.mint])
  PROVE  /\ Used(p) \subseteq Unspent(p.mint)
         /\ Unspent(p.mint)' = (Unspent(p.mint) \ Used(p)) \cup {n, n + 1}
         /\ \A x \in Mints \ {p.mint} : notes'[x] = notes[x] /\ Unspent(x)' = Unspent(x)
<1> DEFINE m == p.mint
           a == p.inputs[1]
           b == p.inputs[2]
<1>1. /\ m \in Mints /\ n \in Nat
      /\ notes' = [notes EXCEPT ![m] = NotesAfter(p)]
      /\ Len(NotesAfter(p)) = n + 2
  <2>1. m \in Mints /\ notes[m] \in Seq(Note)
    BY DEF ProofType, IInv, TypeOK
  <2> QED BY <2>1, NotesAfterLemma DEF Settle
<1>2. /\ nullifier0' = nullifier0 \cup {a.nullifier}
      /\ nullifier1' = nullifier1 \cup {b.nullifier}
  BY DEF Settle
<1>3. \A x \in Mints, i \in Nat :
        Spent(x, i)' <=> Spent(x, i) \/ <<"note", x, i>> \in {a.nullifier, b.nullifier}
  BY <1>2 DEF Spent
<1>4. \A x \in Mints, i \in Nat :
        <<"note", x, i>> \in {a.nullifier, b.nullifier} => x = m /\ i \in Unspent(m)
  <2>1. ASSUME NEW j \in {1, 2}, NEW x \in Mints, NEW i \in Nat,
               <<"note", x, i>> = p.inputs[j].nullifier
        PROVE  x = m /\ i \in Unspent(m)
    <3>1. ~DummyInput(m, p.inputs[j])
      <4> SUFFICES ASSUME NEW k \in 0 .. Len(notes[m]) + 1,
                          p.inputs[j] = [nullifier |-> <<"dummy", m, k>>, amount |-> 0]
                   PROVE  FALSE
        BY DEF DummyInput
      <4>1. <<"note", x, i>> = <<"dummy", m, k>>
        BY <2>1
      <4> QED BY <4>1
    <3>2. PICK k \in Unspent(m) :
            p.inputs[j] = [nullifier |-> <<"note", m, k>>, amount |-> notes[m][k + 1].amount]
      BY <3>1, InputsAreUnspent
    <3>3. <<"note", x, i>> = <<"note", m, k>>
      BY <2>1, <3>2
    <3> QED BY <3>2, <3>3
  <2> QED BY <2>1
<1>5. Used(p) \subseteq Unspent(m)
  BY <1>1, <1>4 DEF Used
<1>6. \A i \in Nat : Spent(m, i) => i < n
  BY <1>1 DEF Spent, RecordedInv
<1>7. notes'[m] = NotesAfter(p) /\ Len(notes'[m]) = n + 2
  BY <1>1 DEF IInv, TypeOK
<1>8. Unspent(m)' = (Unspent(m) \ Used(p)) \cup {n, n + 1}
  <2>1. Unspent(m)' = {i \in 0 .. n + 1 : ~Spent(m, i)'}
    BY <1>1, <1>7 DEF Unspent
  <2>2. Unspent(m) = {i \in 0 .. n - 1 : ~Spent(m, i)} /\ Unspent(m) \subseteq 0 .. n - 1
    BY DEF Unspent
  <2>3. \A i \in Nat : Spent(m, i)' <=> Spent(m, i) \/ i \in Used(p)
    BY <1>1, <1>3 DEF Used
  <2>4. \A i \in 0 .. n + 1 : i \in 0 .. n - 1 \/ i \in {n, n + 1}
    BY <1>1
  <2>5. 0 .. n - 1 \subseteq 0 .. n + 1 /\ {n, n + 1} \subseteq 0 .. n + 1
        /\ n \notin 0 .. n - 1 /\ n + 1 \notin 0 .. n - 1 /\ 0 .. n + 1 \subseteq Nat
    BY <1>1
  <2>6. ~Spent(m, n) /\ ~Spent(m, n + 1)
    BY <1>1, <1>6
  <2> HIDE DEF m
  <2> QED BY <1>5, <2>1, <2>2, <2>3, <2>4, <2>5, <2>6
<1>9. ASSUME NEW x \in Mints \ {m}
      PROVE  notes'[x] = notes[x] /\ Unspent(x)' = Unspent(x)
  <2>1. notes'[x] = notes[x]
    BY <1>1 DEF IInv, TypeOK
  <2>2. Len(notes[x]) \in Nat
    BY DEF IInv, TypeOK
  <2>3. \A i \in 0 .. Len(notes[x]) - 1 : Spent(x, i)' <=> Spent(x, i)
    BY <1>3, <1>4, <2>2
  <2> QED BY <2>1, <2>3 DEF Unspent
<1> QED BY <1>5, <1>8, <1>9

\* An input leaves the sum of the leaves S: it is one of them and worth what
\* that leaf is, or none of them and worth nothing.
LEMMA InputLeavesSum ==
  ASSUME NEW S, IsFiniteSet(S), NEW f, \A i \in S : f[i] \in Int, NEW rest, NEW worth,
         \/ \E i \in S : rest = S \ {i} /\ worth = f[i]
         \/ rest = S /\ worth = 0
  PROVE  SumFunctionOnSet(f, rest) = SumFunctionOnSet(f, S) - worth
<1>1. SumFunctionOnSet(f, S) \in Int
  BY SumRemove
<1>2. ASSUME NEW i \in S, rest = S \ {i}, worth = f[i]
      PROVE  SumFunctionOnSet(f, rest) = SumFunctionOnSet(f, S) - worth
  <2>1. SumFunctionOnSet(f, S) = f[i] + SumFunctionOnSet(f, S \ {i})
    BY SumRemove
  <2>2. IsFiniteSet(S \ {i})
    BY FS_RemoveElement
  <2>3. SumFunctionOnSet(f, S \ {i}) \in Int
    BY <2>2, SumRemove
  <2> QED BY <1>2, <2>1, <2>3
<1> QED BY <1>1, <1>2

\* A transaction changes what its pool owes by what it takes in or gives out,
\* and nothing else.
LEMMA OwedAfter ==
  ASSUME IInv, RecordedInv, NEW p \in ProofType, NEW ext_data, Checks(p, ext_data),
         ClientProof(p), Settle(p)
  PROVE  /\ Owed(p.mint) \in Nat
         /\ Owed(p.mint)' = Owed(p.mint) + p.ext_data.ext_amount - p.ext_data.fee
         /\ \A x \in Mints \ {p.mint} : Owed(x)' = Owed(x)
<1>1. PICK m, n, a, b, after : /\ m = p.mint /\ n = Len(notes[m])
                               /\ a = p.inputs[1] /\ b = p.inputs[2]
                               /\ after = NotesAfter(p)
  OBVIOUS
<1> DEFINE f == [i \in 0 .. n + 1 |-> after[i + 1].amount]
           U == Unspent(m)
           V == {i \in U : <<"note", m, i>> # a.nullifier}
           W == {i \in V : <<"note", m, i>> # b.nullifier}
<1>2. /\ m \in Mints /\ n \in Nat /\ notes[m] \in Seq(Note)
      /\ a.amount \in Nat /\ b.amount \in Nat
      /\ p.outputs[1] \in Nat /\ p.outputs[2] \in Nat
      /\ p.ext_data.ext_amount \in Int /\ p.ext_data.fee \in Nat
  BY <1>1 DEF ProofType, ExtData, Input, IInv, TypeOK
<1>3. /\ a.nullifier # b.nullifier
      /\ a.amount + b.amount + (p.ext_data.ext_amount - p.ext_data.fee)
           = p.outputs[1] + p.outputs[2]
  BY <1>1 DEF Checks, Circuit, CheckPublicAmount, PublicAmount
<1>4. /\ after \in Seq(Note) /\ Len(after) = n + 2
      /\ \A i \in 1 .. n : after[i].amount = notes[m][i].amount
      /\ \A i \in n + 1 .. n + 2 : after[i].amount = p.outputs[i - n]
  BY <1>1, NotesAfterLemma
<1>5. /\ f \in [0 .. n + 1 -> Nat]
      /\ \A i \in 0 .. n - 1 : f[i] = notes[m][i + 1].amount
      /\ f[n] = p.outputs[1] /\ f[n + 1] = p.outputs[2]
  <2>1. \A i \in 0 .. n + 1 : after[i + 1] \in Note
    BY <1>2, <1>4
  <2>2. f \in [0 .. n + 1 -> Nat]
    BY <2>1 DEF Note
  <2>3. \A i \in 0 .. n - 1 : f[i] = notes[m][i + 1].amount
    BY <1>2, <1>4
  <2>4. f[n] = p.outputs[1] /\ f[n + 1] = p.outputs[2]
    BY <1>2, <1>4
  <2> QED BY <2>2, <2>3, <2>4
<1>6. /\ U \subseteq 0 .. n - 1 /\ V \subseteq U /\ W \subseteq V
      /\ IsFiniteSet(U) /\ IsFiniteSet(V) /\ IsFiniteSet(W)
  <2>1. U \subseteq 0 .. n - 1 /\ V \subseteq U /\ W \subseteq V
    BY <1>1 DEF Unspent
  <2>2. IsFiniteSet(0 .. n - 1)
    <3>1. 0 \in Int /\ n - 1 \in Int
      BY <1>2
    <3> HIDE DEF f, U, V, W
    <3> QED BY <3>1, FS_Interval
  <2> HIDE DEF U, V, W
  <2>3. IsFiniteSet(U)
    BY <2>1, <2>2, FS_Subset
  <2>4. IsFiniteSet(V)
    BY <2>1, <2>3, FS_Subset
  <2>5. IsFiniteSet(W)
    BY <2>1, <2>4, FS_Subset
  <2> QED BY <2>1, <2>3, <2>4, <2>5
<1>7. /\ Unspent(m)' = (W \cup {n}) \cup {n + 1}
      /\ notes'[m] = after
      /\ \A x \in Mints \ {m} : notes'[x] = notes[x] /\ Unspent(x)' = Unspent(x)
  <2>1. /\ Unspent(m)' = (U \ Used(p)) \cup {n, n + 1}
        /\ \A x \in Mints \ {m} : notes'[x] = notes[x] /\ Unspent(x)' = Unspent(x)
    BY <1>1, UnspentAfter
  <2>2. W = U \ Used(p)
    BY <1>1, <1>2, <1>6 DEF Used
  <2>3. notes'[m] = after
    BY <1>1, <1>2 DEF Settle, IInv, TypeOK
  <2> QED BY <2>1, <2>2, <2>3
<1>8. \A i \in U \cup V \cup W : f[i] \in Nat
  <2>1. \A i \in 0 .. n - 1 : i \in 0 .. n + 1
    BY <1>2
  <2> HIDE DEF f, U, V, W
  <2> QED BY <1>5, <1>6, <2>1
<1>9. SumFunctionOnSet(f, V) = SumFunctionOnSet(f, U) - a.amount
  <2>1. (\E i \in U : V = U \ {i} /\ a.amount = f[i]) \/ (V = U /\ a.amount = 0)
    <3>1. CASE DummyInput(m, a)
      BY <3>1 DEF DummyInput
    <3>2. ASSUME NEW i \in U,
                 a = [nullifier |-> <<"note", m, i>>, amount |-> notes[m][i + 1].amount]
          PROVE  V = U \ {i} /\ a.amount = f[i]
      <4>1. \A k : <<"note", m, k>> = a.nullifier <=> k = i
        BY <3>2
      <4>2. a.amount = f[i]
        BY <1>5, <1>6, <3>2
      <4> QED BY <4>1, <4>2
    <3> HIDE DEF f, V
    <3> QED BY <1>1, <3>1, <3>2, InputsAreUnspent
  <2> HIDE DEF f, U, V, W
  <2>2. IsFiniteSet(U) /\ \A i \in U : f[i] \in Int
    BY <1>6, <1>8
  <2> QED BY <2>1, <2>2, InputLeavesSum
<1>10. SumFunctionOnSet(f, W) = SumFunctionOnSet(f, V) - b.amount
  <2>1. (\E i \in V : W = V \ {i} /\ b.amount = f[i]) \/ (W = V /\ b.amount = 0)
    <3>1. CASE DummyInput(m, b)
      BY <3>1 DEF DummyInput
    <3>2. ASSUME NEW i \in U,
                 b = [nullifier |-> <<"note", m, i>>, amount |-> notes[m][i + 1].amount]
          PROVE  i \in V /\ W = V \ {i} /\ b.amount = f[i]
      <4>1. \A k : <<"note", m, k>> = b.nullifier <=> k = i
        BY <3>2
      <4>2. b.amount = f[i]
        BY <1>5, <1>6, <3>2
      <4>3. i \in V
        BY <1>3, <3>2
      <4> QED BY <4>1, <4>2, <4>3
    <3> HIDE DEF f, V, W
    <3> QED BY <1>1, <3>1, <3>2, InputsAreUnspent
  <2> HIDE DEF f, U, V, W
  <2>2. IsFiniteSet(V) /\ \A i \in V : f[i] \in Int
    BY <1>6, <1>8
  <2> QED BY <2>1, <2>2, InputLeavesSum
<1>11. SumFunctionOnSet(f, (W \cup {n}) \cup {n + 1})
        = SumFunctionOnSet(f, W) + p.outputs[1] + p.outputs[2]
  <2>1. n \notin W /\ n + 1 \notin W \cup {n} /\ n + 1 # n
    BY <1>2, <1>6
  <2>2. \A i \in (W \cup {n}) \cup {n + 1} : f[i] \in Int
    BY <1>2, <1>5, <1>6
  <2>3. IsFiniteSet(W \cup {n})
    BY <1>6, FS_AddElement
  <2> HIDE DEF f, W
  <2>4. SumFunctionOnSet(f, W \cup {n}) = SumFunctionOnSet(f, W) + f[n]
    BY <1>6, <2>1, <2>2, SumAdd
  <2>5. SumFunctionOnSet(f, (W \cup {n}) \cup {n + 1})
          = SumFunctionOnSet(f, W \cup {n}) + f[n + 1]
    BY <2>1, <2>2, <2>3, SumAdd
  <2> QED BY <1>5, <2>4, <2>5
<1>12. Owed(m) = SumFunctionOnSet(f, U) /\ Owed(m) \in Nat
  <2>1. [i \in U |-> notes[m][i + 1].amount] = [i \in U |-> f[i]]
    BY <1>5, <1>6
  <2> HIDE DEF f, U, V, W
  <2>2. [i \in U |-> f[i]] \in [U -> Nat]
    BY <1>8
  <2>3. SumFunction([i \in U |-> f[i]]) = SumFunctionOnSet(f, U)
    BY <1>6, SumRestricted
  <2>4. SumFunction([i \in U |-> f[i]]) \in Nat
    BY <1>6, <2>2, SumBounds
  <2> QED BY <2>1, <2>3, <2>4 DEF Owed, U
<1>13. Owed(m)' = SumFunctionOnSet(f, (W \cup {n}) \cup {n + 1})
  <2> DEFINE X == (W \cup {n}) \cup {n + 1}
  <2>1. X \subseteq 0 .. n + 1
    BY <1>2, <1>6
  <2>2. Owed(m)' = SumFunction([i \in X |-> after[i + 1].amount])
    BY <1>7 DEF Owed
  <2>3. [i \in X |-> after[i + 1].amount] = [i \in X |-> f[i]]
    BY <2>1
  <2>4. IsFiniteSet(X)
    BY <1>6, FS_AddElement
  <2> HIDE DEF f, X
  <2>5. SumFunction([i \in X |-> f[i]]) = SumFunctionOnSet(f, X)
    BY <2>4, SumRestricted
  <2> QED BY <2>2, <2>3, <2>5 DEF X
<1>14. ASSUME NEW x \in Mints \ {m}
       PROVE  Owed(x)' = Owed(x)
  BY <1>7 DEF Owed
<1>15. Owed(m)' = Owed(m) + p.ext_data.ext_amount - p.ext_data.fee
  <2>1. /\ Owed(m)' = Owed(m) - a.amount - b.amount + p.outputs[1] + p.outputs[2]
        /\ Owed(m) \in Nat
    <3> HIDE DEF f, U, V, W
    <3> QED BY <1>2, <1>9, <1>10, <1>11, <1>12, <1>13
  <2>2. /\ a.amount + b.amount + (p.ext_data.ext_amount - p.ext_data.fee)
             = p.outputs[1] + p.outputs[2]
        /\ a.amount \in Nat /\ b.amount \in Nat
        /\ p.outputs[1] \in Nat /\ p.outputs[2] \in Nat
        /\ p.ext_data.ext_amount \in Int /\ p.ext_data.fee \in Nat
    BY <1>2, <1>3
  <2> HIDE DEF f, U, V, W
  <2> QED BY <2>1, <2>2
<1> QED BY <1>1, <1>12, <1>14, <1>15

-----------------------------------------------------------------------------
(* What the wallets hold *)

\* What the wallets hold of a mint together.
Total(w, m) == SumFunction([x \in Parties |-> w[x][m]])

\* A credit changes one total.
LEMMA CreditTotal ==
  ASSUME NEW w \in [Parties -> [Mints -> Nat]], NEW x \in Parties, NEW m \in Mints,
         NEW n \in Int, w[x][m] + n \in Nat, NEW v, v = Credit(w, x, m, n)
  PROVE  /\ v \in [Parties -> [Mints -> Nat]]
         /\ Total(w, m) \in Nat
         /\ Total(v, m) = Total(w, m) + n
         /\ \A q \in Mints \ {m} : Total(v, q) = Total(w, q)
<1>1. /\ v \in [Parties -> [Mints -> Nat]]
      /\ \A y \in Parties, q \in Mints :
           v[y][q] = IF y = x /\ q = m THEN w[x][m] + n ELSE w[y][q]
  BY CreditLemma
<1>2. IsFiniteSet(Parties)
  BY FundsAssumption
<1> DEFINE f == [y \in Parties |-> w[y][m]]
           g == [y \in Parties |-> v[y][m]]
<1>3. /\ f \in [Parties -> Nat] /\ f \in [Parties -> Int] /\ f[x] = w[x][m] /\ f[x] \in Nat
      /\ g = [f EXCEPT ![x] = w[x][m] + n]
  <2>1. \A y \in Parties : w[y][m] \in Nat /\ w[y][m] \in Int
    OBVIOUS
  <2>2. \A y \in Parties : v[y][m] = IF y = x THEN w[x][m] + n ELSE w[y][m]
    BY <1>1
  <2> QED BY <2>1, <2>2
<1>4. Total(w, m) = SumFunction(f) /\ Total(v, m) = SumFunction(g)
  BY DEF Total
<1>5. \A q \in Mints \ {m} : [y \in Parties |-> v[y][q]] = [y \in Parties |-> w[y][q]]
  BY <1>1
<1> HIDE DEF f, g
<1>6. SumFunction(f) \in Nat
  BY <1>2, <1>3, SumBounds
<1>7. SumFunction(g) = SumFunction(f) - w[x][m] + (w[x][m] + n)
  <2>1. PICK k \in Int : k = w[x][m] + n
    BY <1>3
  <2>2. f \in [Parties -> Int] /\ g = [f EXCEPT ![x] = k] /\ f[x] = w[x][m]
    BY <1>3, <2>1
  <2>3. SumFunction([f EXCEPT ![x] = k]) = SumFunction(f) - f[x] + k
    BY <1>2, <2>2, SumExcept
  <2> QED BY <2>1, <2>2, <2>3
<1>8. Total(v, m) = Total(w, m) + n /\ Total(w, m) \in Nat
  BY <1>3, <1>4, <1>6, <1>7
<1>9. \A q \in Mints \ {m} : Total(v, q) = Total(w, q)
  BY <1>5 DEF Total
<1> QED BY <1>1, <1>8, <1>9

\* The wallets of a transaction together gain what they receive less what is
\* paid, also where some of them are the same.
LEMMA MoveTotal ==
  ASSUME IInv, NEW m \in Mints, NEW signer \in Parties, NEW e,
         NEW paid, NEW got, NEW charged, Moves(m, signer, e, paid, got, charged),
         NEW out, out = IF e.recipient = Vault THEN 0 ELSE got
  PROVE  /\ Total(wallet, m) \in Nat
         /\ Total(wallet', m) = Total(wallet, m) - paid + out + charged
         /\ \A q \in Mints \ {m} : Total(wallet', q) = Total(wallet, q)
<1> USE DEF Moves
<1>1. PICK n, w1, w2 :
        /\ n = -paid
        /\ w1 = Credit(wallet, signer, m, n)
        /\ w2 = IF e.recipient = Vault THEN w1 ELSE Credit(w1, e.recipient, m, got)
  OBVIOUS
<1>2. wallet \in [Parties -> [Mints -> Nat]] /\ wallet' = Credit(w2, e.fee_recipient, m, charged)
  BY <1>1 DEF IInv, TypeOK, Move
<1>3. n \in Int /\ wallet[signer][m] + n \in Nat
  BY <1>1, <1>2
<1>4. /\ w1 \in [Parties -> [Mints -> Nat]]
      /\ Total(wallet, m) \in Nat /\ Total(w1, m) = Total(wallet, m) + n
      /\ \A q \in Mints \ {m} : Total(w1, q) = Total(wallet, q)
  BY <1>1, <1>2, <1>3, CreditTotal
<1>5. Total(w1, m) \in Nat
  <2>1. PICK v : v = Credit(w1, signer, m, 0)
    OBVIOUS
  <2>2. w1[signer][m] + 0 \in Nat
    BY <1>4
  <2> QED BY <1>4, <2>1, <2>2, CreditTotal
<1>6. /\ w2 \in [Parties -> [Mints -> Nat]]
      /\ Total(w2, m) = Total(w1, m) + out
      /\ \A q \in Mints \ {m} : Total(w2, q) = Total(w1, q)
  <2>1. CASE e.recipient = Vault
    <3>1. w2 = w1 /\ out = 0
      BY <1>1, <2>1
    <3> QED BY <1>4, <1>5, <3>1
  <2>2. CASE e.recipient # Vault
    <3>1. PICK r \in Parties : r = e.recipient
      BY <2>2
    <3>2. w1[r][m] + got \in Nat /\ got \in Int /\ w2 = Credit(w1, r, m, got) /\ out = got
      BY <1>1, <1>4, <2>2, <3>1
    <3> QED BY <1>4, <3>2, CreditTotal
  <2> QED BY <2>1, <2>2
<1>7. PICK r \in Parties : r = e.fee_recipient
  OBVIOUS
<1>8. w2[r][m] + charged \in Nat /\ charged \in Int
  BY <1>6
<1>9. PICK w3 : w3 = wallet' /\ w3 = Credit(w2, r, m, charged)
  BY <1>2, <1>7
<1>10. /\ Total(w2, m) \in Nat /\ Total(w3, m) = Total(w2, m) + charged
       /\ \A q \in Mints \ {m} : Total(w3, q) = Total(w2, q)
  BY <1>6, <1>8, <1>9, CreditTotal
<1>11. \A q \in Mints : Total(w3, q) = Total(wallet', q)
  BY <1>9 DEF Total
<1>12. Total(w3, m) = Total(wallet, m) - paid + out + charged
  <2>1. PICK t \in Nat : t = Total(wallet, m)
    BY <1>4
  <2>2. out \in Nat /\ paid \in Nat /\ charged \in Nat
    OBVIOUS
  <2> QED BY <1>1, <1>4, <1>6, <1>10, <2>1, <2>2
<1> QED BY <1>4, <1>6, <1>10, <1>11, <1>12

\* What a pool takes in is what the wallets lose, where no transfer fee is
\* withheld.
LEMMA TransactionConserves ==
  ASSUME IInv, NEW p \in ProofType, NEW ext_data, NEW signer \in Parties,
         Transact(p, ext_data, signer) \/ TransactSpl(p, ext_data, signer)
  PROVE  /\ p.mint = SOL \/ TransferFee[p.mint].bps = 0 =>
              /\ Total(wallet, p.mint) \in Nat
              /\ Total(wallet', p.mint)
                   = Total(wallet, p.mint) - p.ext_data.ext_amount + p.ext_data.fee
                       - Kept(p.ext_data)
         /\ \A q \in Mints \ {p.mint} : Total(wallet', q) = Total(wallet, q)
<1>1. PICK m, e, x, paid, got, charged, out :
        /\ m = p.mint /\ e = p.ext_data /\ x = e.ext_amount /\ paid = Gross(m, e)
        /\ got = Net(m, Positive(-e.ext_amount)) /\ charged = Net(m, e.fee)
        /\ out = IF e.recipient = Vault THEN 0 ELSE got
  OBVIOUS
<1>2. m \in Mints /\ Moves(m, signer, e, paid, got, charged)
  BY <1>1, TransactionMoves
<1>3. /\ Total(wallet, m) \in Nat
      /\ Total(wallet', m) = Total(wallet, m) - paid + out + charged
      /\ \A q \in Mints \ {m} : Total(wallet', q) = Total(wallet, q)
  BY <1>1, <1>2, MoveTotal
<1>4. x \in Int /\ e.fee \in Nat
  BY <1>1 DEF ProofType, ExtData
<1>5. /\ Positive(x) \in Nat /\ Positive(-x) \in Nat /\ Positive(-x) - Positive(x) = -x
  BY <1>4 DEF Positive
<1>6. ASSUME m = SOL \/ TransferFee[m].bps = 0
      PROVE  Total(wallet', m) = Total(wallet, m) - x + e.fee - Kept(e)
  <2>1. paid = Positive(x) /\ got = Positive(-x) /\ charged = e.fee
    BY <1>1, <1>2, <1>4, <1>5, <1>6, NetBounds, GrossBounds DEF Gross
  <2>2. Kept(e) = (IF e.recipient = Vault THEN Positive(-x) ELSE 0)
    BY <1>1 DEF Kept
  <2>3. Kept(e) \in Nat /\ out \in Nat /\ out + Kept(e) = Positive(-x)
    BY <1>1, <1>5, <2>1, <2>2
  <2>4. PICK t \in Nat, f \in Nat, k \in Nat : t = Total(wallet, m) /\ f = e.fee /\ k = Kept(e)
    BY <1>3, <1>4, <2>3
  <2>5. t - paid + out + charged = t - x + f - k
    BY <1>4, <1>5, <2>1, <2>3, <2>4
  <2> QED BY <1>3, <2>4, <2>5, Zenon
<1> QED BY <1>1, <1>3, <1>6

-----------------------------------------------------------------------------
(* The value invariant, one lemma per instruction *)

\* No note is owed at the start, and the wallets hold all there is.
LEMMA InitValueInv == Init => ValueInv
<1> SUFFICES ASSUME Init PROVE ValueInv
  OBVIOUS
<1>1. ASSUME NEW m \in Mints
      PROVE  Owed(m) = 0 /\ vault[m] = 0 /\ surplus[m] = 0
             /\ SumFunction([x \in Parties |-> wallet[x][m]]) = SumFunction(Funds)
  <2>1. notes[m] = <<>> /\ Unspent(m) = {}
    BY DEF Init, Unspent
  <2>2. Owed(m) = 0
    BY <2>1, SumOverNothing DEF Owed
  <2>3. [x \in Parties |-> wallet[x][m]] = Funds
    BY FundsAssumption DEF Init
  <2> QED BY <2>2, <2>3 DEF Init
<1>2. RecordedInv
  BY DEF Init, RecordedInv
<1>3. BackedInv
  <2>1. ASSUME NEW m \in Mints
        PROVE  vault[m] = 0 + Owed(m) + surplus[m]
    <3>1. Owed(m) = 0 /\ vault[m] = 0 /\ surplus[m] = 0
      BY <1>1
    <3> QED BY <3>1
  <2>2. opened = {}
    BY DEF Init
  <2> QED BY <2>1, <2>2 DEF BackedInv
<1>4. ValueConserved
  <2>1. IsFiniteSet(Parties) /\ Funds \in [Parties -> Nat]
    BY FundsAssumption
  <2>2. SumFunction(Funds) \in Nat
    BY <2>1, SumBounds
  <2> QED BY <1>1, <2>2 DEF ValueConserved
<1> QED BY <1>2, <1>3, <1>4 DEF ValueInv

\* The rent initialize takes is what the vault then holds.
LEMMA InitializeKeepsValue ==
  ASSUME IInv, ValueInv, NEW caller \in Parties, NEW rate \in Rates, Initialize(caller, rate)
  PROVE  ValueInv'
<1>1. /\ SOL \in Mints /\ SOL \notin opened /\ Rent \in Nat /\ opened' = opened \cup {SOL}
      /\ vault' = [vault EXCEPT ![SOL] = vault[SOL] + Rent]
      /\ UNCHANGED <<nullifier0, nullifier1, notes, surplus>>
  BY NumbersAssumption DEF Initialize, Mints
<1>2. RecordedInv'
  BY <1>1 DEF ValueInv, RecordedInv
<1>3. BackedInv'
  <2>1. \A m \in Mints : Owed(m)' = Owed(m)
    BY <1>1 DEF Owed, Unspent, Spent
  <2>2. /\ vault'[SOL] = vault[SOL] + Rent /\ vault[SOL] = 0 + Owed(SOL) + surplus[SOL]
        /\ vault[SOL] \in Nat /\ surplus[SOL] \in Nat
        /\ \A m \in Mints \ {SOL} : vault'[m] = vault[m]
    BY <1>1 DEF ValueInv, BackedInv, IInv, TypeOK
  <2>3. \A m \in Mints \ {SOL} : m \in opened' <=> m \in opened
    BY <1>1
  <2>4. vault'[SOL] = RentOf(SOL) + Owed(SOL)' + surplus'[SOL]
    <3>1. Owed(SOL) \in Nat /\ vault[SOL] = Owed(SOL) + surplus[SOL]
      BY <1>1, <2>2, OwedCovers DEF IInv
    <3> QED BY <1>1, <2>1, <2>2, <3>1 DEF RentOf
  <2>5. \A m \in Mints \ {SOL} :
          vault'[m] = (IF m \in opened' THEN RentOf(m) ELSE 0) + Owed(m)' + surplus'[m]
    BY <1>1, <2>1, <2>2, <2>3 DEF ValueInv, BackedInv
  <2>6. \A m \in Mints :
          vault'[m] = (IF m \in opened' THEN RentOf(m) ELSE 0) + Owed(m)' + surplus'[m]
    BY <1>1, <2>4, <2>5
  <2> QED BY <2>6 DEF BackedInv, RentOf
<1>4. ValueConserved'
  <2>1. PICK n, w : n = -Rent /\ w = wallet'
    OBVIOUS
  <2>2. /\ wallet \in [Parties -> [Mints -> Nat]] /\ n \in Int
        /\ wallet[caller][SOL] + n \in Nat
    BY <1>1, <2>1 DEF IInv, TypeOK, Initialize
  <2>3. w = Credit(wallet, caller, SOL, n)
    <3>1. wallet' = [wallet EXCEPT ![caller] =
                       [wallet[caller] EXCEPT ![SOL] = wallet[caller][SOL] - Rent]]
      BY DEF Initialize
    <3>2. wallet[caller][SOL] - Rent = wallet[caller][SOL] + n
      BY <1>1, <2>1, <2>2
    <3> QED BY <2>1, <3>1, <3>2 DEF Credit
  <2>4. /\ Total(wallet, SOL) \in Nat /\ Total(w, SOL) = Total(wallet, SOL) + n
        /\ \A q \in Mints \ {SOL} : Total(w, q) = Total(wallet, q)
    BY <1>1, <2>2, <2>3, CreditTotal
  <2>5. \A m \in Mints : /\ Total(w, m) = SumFunction([x \in Parties |-> wallet'[x][m]])
                         /\ Total(wallet, m) = SumFunction([x \in Parties |-> wallet[x][m]])
    BY <2>1 DEF Total
  <2>6. /\ vault[SOL] \in Nat /\ vault'[SOL] = vault[SOL] + Rent
        /\ \A q \in Mints \ {SOL} : vault'[q] = vault[q]
    BY <1>1 DEF IInv, TypeOK
  <2>7. vault[SOL] + Total(wallet, SOL) = SumFunction(Funds)
    BY <1>1, <2>5 DEF ValueInv, ValueConserved
  <2>8. vault'[SOL] + Total(w, SOL) = SumFunction(Funds)
    BY <1>1, <2>1, <2>4, <2>6, <2>7
  <2>9. \A m \in Mints : m = SOL \/ TransferFee[m].bps = 0 =>
                           vault'[m] + Total(w, m) = SumFunction(Funds)
    <3>1. \A m \in Mints : TransferFee[m].bps = 0 =>
                             vault[m] + Total(wallet, m) = SumFunction(Funds)
      BY <2>5 DEF ValueInv, ValueConserved
    <3> QED BY <2>4, <2>6, <2>8, <3>1
  <2> QED BY <2>5, <2>9 DEF ValueConserved
<1> QED BY <1>2, <1>3, <1>4 DEF ValueInv

\* The instructions that move nothing.
LEMMA NothingMoves ==
  ASSUME IInv, ValueInv, UNCHANGED <<nullifier0, nullifier1, vault, wallet, notes, surplus>>,
         \/ UNCHANGED opened
         \/ \E m \in Tokens \ opened : opened' = opened \cup {m}
  PROVE  ValueInv'
<1>1. RecordedInv' /\ ValueConserved'
  BY DEF ValueInv, RecordedInv, ValueConserved
<1>2. \A m \in Mints : Owed(m)' = Owed(m)
  BY DEF Owed, Unspent, Spent
<1>3. \A m \in Tokens : RentOf(m) = 0
  BY MintsAssumption DEF RentOf
<1>4. \A m \in Mints :
        (IF m \in opened' THEN RentOf(m) ELSE 0) = (IF m \in opened THEN RentOf(m) ELSE 0)
  BY <1>3
<1>5. \A m \in Mints :
        vault'[m] = (IF m \in opened' THEN RentOf(m) ELSE 0) + Owed(m)' + surplus'[m]
  BY <1>2, <1>4 DEF ValueInv, BackedInv
<1>6. BackedInv'
  BY <1>5 DEF BackedInv, RentOf
<1> QED BY <1>1, <1>6 DEF ValueInv

\* A transaction records nullifiers of leaves and dummies only, changes what
\* its vault holds and what the pool owes by the same amount, and takes it
\* from the wallets or gives it to them.
LEMMA SubmitKeepsValue ==
  ASSUME IInv, ValueInv, NEW mint \in opened, Submit(mint)
  PROVE  ValueInv'
<1>1. PICK p \in ProofType, signer \in Parties : \E ext_data :
        ClientProof(p) /\ (Transact(p, ext_data, signer) \/ TransactSpl(p, ext_data, signer))
  BY SubmitIsTyped
<1>2. PICK ext_data :
        ClientProof(p) /\ (Transact(p, ext_data, signer) \/ TransactSpl(p, ext_data, signer))
  BY <1>1
<1>3. Checks(p, ext_data) /\ Settle(p)
  BY <1>2 DEF Transact, TransactSpl
<1>4. PICK m, e, x, kept : m = p.mint /\ e = p.ext_data /\ x = e.ext_amount /\ kept = Kept(e)
  OBVIOUS
<1>b. /\ x \in Int /\ e.fee \in Nat /\ kept \in Nat
      /\ VaultAfter(m, e) = vault[m] + x - e.fee + kept
  BY <1>3, <1>4, Moved
<1>5. /\ m \in Mints /\ m \in opened /\ x \in Int /\ e.fee \in Nat
      /\ vault[m] \in Nat /\ surplus[m] \in Nat /\ kept \in Nat
      /\ vault' = [vault EXCEPT ![m] = vault[m] + x - e.fee + kept]
      /\ surplus' = [surplus EXCEPT ![m] = surplus[m] + kept]
      /\ nullifier0' = nullifier0 \cup {p.inputs[1].nullifier}
      /\ nullifier1' = nullifier1 \cup {p.inputs[2].nullifier}
      /\ UNCHANGED opened
  BY <1>3, <1>4, <1>b DEF Checks, Settle, ProofType, IInv, TypeOK
<1>6. PICK n \in Nat : n = Len(notes[m]) /\ Len(notes'[m]) = n + 2
                       /\ \A q \in Mints \ {m} : notes'[q] = notes[q]
  <2>1. Len(NotesAfter(p)) = Len(notes[m]) + 2 /\ notes[m] \in Seq(Note)
    BY <1>2, <1>3, <1>4, <1>5, NotesAfterLemma DEF IInv, TypeOK
  <2>2. notes' = [notes EXCEPT ![m] = NotesAfter(p)]
    BY <1>3, <1>4 DEF Settle
  <2> QED BY <1>5, <2>1, <2>2 DEF IInv, TypeOK
<1>7. RecordedInv'
  <2>1. ASSUME NEW j \in {1, 2}
        PROVE  p.inputs[j].nullifier[2] = m /\ p.inputs[j].nullifier[3] \in 0 .. n + 1
    <3>1. CASE LeafInput(m, p.inputs[j])
      <4>1. PICK i \in 0 .. n - 1 : p.inputs[j].nullifier = <<"note", m, i>>
        BY <1>6, <3>1 DEF LeafInput
      <4> QED BY <4>1
    <3>2. CASE DummyInput(m, p.inputs[j])
      <4>1. PICK i \in 0 .. n + 1 : p.inputs[j].nullifier = <<"dummy", m, i>>
        BY <1>6, <3>2 DEF DummyInput
      <4> QED BY <4>1
    <3> QED BY <1>2, <1>4, <3>1, <3>2 DEF ClientProof
  <2> SUFFICES ASSUME NEW y \in nullifier0' \cup nullifier1'
               PROVE  y[3] < Len(notes'[y[2]])
    BY DEF RecordedInv
  <2>2. CASE y \in nullifier0 \cup nullifier1
    <3>1. y[3] < Len(notes[y[2]]) /\ y[3] \in Nat /\ y[2] \in Mints
      BY <2>2 DEF ValueInv, RecordedInv, IInv, TypeOK, Nullifier
    <3> QED BY <1>6, <3>1
  <2>3. CASE \E j \in {1, 2} : y = p.inputs[j].nullifier
    <3>1. PICK k \in 0 .. n + 1 : y[2] = m /\ y[3] = k
      BY <2>1, <2>3
    <3>2. k < n + 2
      OBVIOUS
    <3> QED BY <1>6, <3>1, <3>2
  <2> QED BY <1>5, <2>2, <2>3
<1>8. /\ Owed(m) \in Nat
      /\ Owed(m)' = Owed(m) + x - e.fee
      /\ \A y \in Mints \ {m} : Owed(y)' = Owed(y)
  BY <1>2, <1>3, <1>4, OwedAfter DEF ValueInv
<1>9. BackedInv'
  <2>1. /\ vault'[m] = vault[m] + x - e.fee + kept /\ surplus'[m] = surplus[m] + kept
        /\ \A y \in Mints \ {m} : vault'[y] = vault[y] /\ surplus'[y] = surplus[y]
    BY <1>5 DEF IInv, TypeOK
  <2>2. vault[m] = RentOf(m) + Owed(m) + surplus[m] /\ RentOf(m) \in Nat
    BY <1>5, NumbersAssumption DEF ValueInv, BackedInv, RentOf
  <2>3. vault'[m] = RentOf(m) + Owed(m)' + surplus'[m]
    BY <1>5, <1>8, <2>1, <2>2
  <2>4. \A y \in Mints :
          vault'[y] = (IF y \in opened' THEN RentOf(y) ELSE 0) + Owed(y)' + surplus'[y]
    <3>1. \A y \in Mints \ {m} :
            vault'[y] = (IF y \in opened' THEN RentOf(y) ELSE 0) + Owed(y)' + surplus'[y]
      BY <1>5, <1>8, <2>1 DEF ValueInv, BackedInv
    <3> QED BY <1>5, <2>3, <3>1
  <2> QED BY <2>4 DEF BackedInv, RentOf
<1>10. ValueConserved'
  <2>1. PICK w : w = wallet'
    OBVIOUS
  <2>2. \A y \in Mints : /\ Total(w, y) = SumFunction([z \in Parties |-> wallet'[z][y]])
                         /\ Total(wallet, y) = SumFunction([z \in Parties |-> wallet[z][y]])
    BY <2>1 DEF Total
  <2>3. /\ m = SOL \/ TransferFee[m].bps = 0 =>
             Total(wallet, m) \in Nat /\ Total(w, m) = Total(wallet, m) - x + e.fee - kept
        /\ \A y \in Mints \ {m} : Total(w, y) = Total(wallet, y)
    <3>1. \A y \in Mints : Total(w, y) = Total(wallet', y)
      BY <2>1 DEF Total
    <3> QED BY <1>2, <1>4, <1>5, <3>1, TransactionConserves
  <2>4. vault'[m] = vault[m] + x - e.fee + kept /\ \A y \in Mints \ {m} : vault'[y] = vault[y]
    BY <1>5 DEF IInv, TypeOK
  <2>5. \A y \in Mints : y = SOL \/ TransferFee[y].bps = 0 =>
                           vault[y] + Total(wallet, y) = SumFunction(Funds)
    BY <2>2 DEF ValueInv, ValueConserved
  <2>6. m = SOL \/ TransferFee[m].bps = 0 => vault'[m] + Total(w, m) = SumFunction(Funds)
    <3> SUFFICES ASSUME m = SOL \/ TransferFee[m].bps = 0
                 PROVE  vault'[m] + Total(w, m) = SumFunction(Funds)
      OBVIOUS
    <3>1. vault[m] + Total(wallet, m) = SumFunction(Funds)
      BY <1>5, <2>5
    <3>2. Total(wallet, m) \in Nat /\ Total(w, m) = Total(wallet, m) - x + e.fee - kept
      BY <2>3
    <3> QED BY <1>5, <2>4, <3>1, <3>2
  <2>7. \A y \in Mints : y = SOL \/ TransferFee[y].bps = 0 =>
                           vault'[y] + Total(w, y) = SumFunction(Funds)
    BY <2>3, <2>4, <2>5, <2>6
  <2> QED BY <2>2, <2>7 DEF ValueConserved
<1> QED BY <1>7, <1>9, <1>10 DEF ValueInv

\* A gift is surplus, and taken from a wallet.
LEMMA DonateKeepsValue ==
  ASSUME IInv, ValueInv, NEW x \in Users, NEW m \in Mints, NEW amount \in Gifts,
         Donate(x, m, amount)
  PROVE  ValueInv'
<1>1. PICK net, loss, w : net = Net(m, amount) /\ loss = -amount /\ w = wallet'
  OBVIOUS
<1>2. /\ x \in Parties /\ amount \in Nat /\ net \in Nat /\ loss \in Int
      /\ wallet[x][m] + loss \in Nat /\ w = Credit(wallet, x, m, loss)
      /\ vault' = [vault EXCEPT ![m] = vault[m] + net]
      /\ surplus' = [surplus EXCEPT ![m] = surplus[m] + net]
      /\ UNCHANGED <<opened, nullifier0, nullifier1, notes>>
  BY <1>1, Donated
<1>3. /\ vault[m] \in Nat /\ surplus[m] \in Nat /\ Owed(m) \in Nat
      /\ vault'[m] = vault[m] + net /\ surplus'[m] = surplus[m] + net
      /\ \A y \in Mints \ {m} : vault'[y] = vault[y] /\ surplus'[y] = surplus[y]
  BY <1>2, OwedCovers DEF IInv, TypeOK
<1>4. RecordedInv'
  BY <1>2 DEF ValueInv, RecordedInv
<1>5. BackedInv'
  <2>1. \A y \in Mints : Owed(y)' = Owed(y)
    BY <1>2 DEF Owed, Unspent, Spent
  <2> DEFINE Kept0(y) == IF y \in opened THEN RentOf(y) ELSE 0
  <2>2. \A y \in Mints : Kept0(y) \in Nat /\ vault[y] = Kept0(y) + Owed(y) + surplus[y]
    BY NumbersAssumption DEF ValueInv, BackedInv, RentOf
  <2> HIDE DEF Kept0
  <2>3. vault'[m] = Kept0(m) + Owed(m)' + surplus'[m]
    BY <1>2, <1>3, <2>1, <2>2
  <2>4. \A y \in Mints : vault'[y] = Kept0(y) + Owed(y)' + surplus'[y]
    BY <1>3, <2>1, <2>2, <2>3
  <2> QED BY <1>2, <2>4 DEF BackedInv, RentOf, Kept0
<1>6. ValueConserved'
  <2>1. /\ Total(wallet, m) \in Nat /\ Total(w, m) = Total(wallet, m) + loss
        /\ \A q \in Mints \ {m} : Total(w, q) = Total(wallet, q)
    <3>1. wallet \in [Parties -> [Mints -> Nat]]
      BY DEF IInv, TypeOK
    <3> QED BY <1>2, <3>1, CreditTotal
  <2>2. \A y \in Mints : /\ Total(w, y) = SumFunction([z \in Parties |-> wallet'[z][y]])
                         /\ Total(wallet, y) = SumFunction([z \in Parties |-> wallet[z][y]])
    BY <1>1 DEF Total
  <2>3. \A y \in Mints : y = SOL \/ TransferFee[y].bps = 0 =>
                           vault[y] + Total(wallet, y) = SumFunction(Funds)
    BY <2>2 DEF ValueInv, ValueConserved
  <2>4. m = SOL \/ TransferFee[m].bps = 0 => net = amount
    BY <1>1, <1>2, NetBounds
  <2>5. m = SOL \/ TransferFee[m].bps = 0 => vault'[m] + Total(w, m) = SumFunction(Funds)
    BY <1>1, <1>2, <1>3, <2>1, <2>3, <2>4
  <2>6. \A y \in Mints : y = SOL \/ TransferFee[y].bps = 0 =>
                           vault'[y] + Total(w, y) = SumFunction(Funds)
    BY <1>3, <2>1, <2>3, <2>5
  <2> QED BY <2>2, <2>6 DEF ValueConserved
<1> QED BY <1>4, <1>5, <1>6 DEF ValueInv

\* IInv /\ ValueInv is inductive.
LEMMA StepKeepsValueInv == IInv /\ ValueInv /\ [Next]_vars => ValueInv'
<1> SUFFICES ASSUME IInv, ValueInv, [Next]_vars PROVE ValueInv'
  OBVIOUS
<1>1. ASSUME NEW x \in Parties, NEW rate \in Rates, Initialize(x, rate)
      PROVE  ValueInv'
  BY <1>1, InitializeKeepsValue
<1>2. ASSUME NEW x \in Parties, NEW d \in Rates \cup {None}, NEW w \in Rates \cup {None},
             NEW e \in Margins \cup {None}, NEW r \in Parties \cup {None},
             UpdateGlobalConfig(x, d, w, e, r)
      PROVE  ValueInv'
  BY <1>2, NothingMoves DEF UpdateGlobalConfig
<1>3. ASSUME NEW x \in Parties, NEW m \in Mints, NEW limit \in Limits,
             UpdateDepositLimit(x, m, limit)
      PROVE  ValueInv'
  BY <1>3, NothingMoves DEF UpdateDepositLimit
<1>4. ASSUME NEW m \in Tokens, CreatePool(m)
      PROVE  ValueInv'
  BY <1>4, NothingMoves DEF CreatePool
<1>5. ASSUME NEW m \in opened, Submit(m)
      PROVE  ValueInv'
  BY <1>5, SubmitKeepsValue
<1>6. ASSUME NEW x \in Users, NEW m \in Mints, NEW amount \in Gifts, Donate(x, m, amount)
      PROVE  ValueInv'
  BY <1>6, DonateKeepsValue
<1>7. ASSUME UNCHANGED vars
      PROVE  ValueInv'
  BY <1>7, NothingMoves DEF vars
<1> QED BY <1>1, <1>2, <1>3, <1>4, <1>5, <1>6, <1>7 DEF Next

\* Both strengthenings hold in every reachable state.
THEOREM ValueInvariant == Spec => [](IInv /\ ValueInv)
<1>1. Init => IInv /\ ValueInv
  BY InitIInv, InitValueInv
<1>2. IInv /\ ValueInv /\ [Next]_vars => (IInv /\ ValueInv)'
  BY StepKeepsIInv, StepKeepsValueInv
<1> QED BY <1>1, <1>2, PTL DEF Spec

\* No sequence of transactions, configuration changes and pool creations
\* makes a vault hold more or less than its rent, the unspent notes of its pool
\* and what it was given besides, nor creates or loses value of a mint without a transfer fee.
THEOREM AccountedHolds == Spec => []Accounted
<1>1. IInv /\ ValueInv => Accounted
  <2> SUFFICES ASSUME IInv, ValueInv PROVE Solvency /\ ValueConserved
    BY DEF Accounted
  <2>1. Solvency
    BY DEF Solvency, ValueInv, BackedInv, Owed, IInv, TypeOK
  <2> QED BY <2>1 DEF ValueInv
<1> QED BY <1>1, ValueInvariant, PTL

-----------------------------------------------------------------------------
(* No note is locked in *)

\* A withdrawal of one unit needs no fee unless the rate is 100 % and there is
\* no margin.
LEMMA MinFeeOfOne ==
  ASSUME NEW rate \in 0 .. MaxRate, NEW margin \in 0 .. MaxRate, rate < MaxRate \/ margin > 0
  PROVE  MinFee(1, rate, margin) = 0
<1>1. PICK k \in 0 .. 10000 : k = MaxRate - margin /\ (margin > 0 => k < 10000)
  BY DEF MaxRate
<1>2. PICK j : j = (1 * rate) \div MaxRate
  OBVIOUS
<1>3. MinFee(1, rate, margin) = (j * k) \div MaxRate
  BY <1>1, <1>2 DEF MinFee
<1>4. rate < 10000 \/ (rate = 10000 /\ k < 10000)
  BY <1>1 DEF MaxRate
<1>5. rate < 10000 => j = 0
  BY <1>2 DEF MaxRate
<1>6. rate = 10000 => j = 1
  BY <1>2 DEF MaxRate
<1>7. (j * k) \div MaxRate = 0
  BY <1>1, <1>4, <1>5, <1>6 DEF MaxRate
<1> QED BY <1>3, <1>7, Zenon

\* The numbers of that withdrawal: one unit leaves and the rest is its fee.
OneUnit(worth, fee, ext, public) ==
  /\ fee \in Nat /\ fee >= 0 /\ fee \in 0 .. worth - 1
  /\ ext \in Int /\ ext < 0 /\ ~(ext > 0) /\ -ext = 1
  /\ public = ext - fee /\ worth + 0 + public = 0 + 0

LEMMA OneUnitLeaves ==
  ASSUME NEW worth \in Nat, worth > 0, NEW fee, fee = worth - 1, NEW ext, ext = fee - worth,
         NEW public, public = -worth
  PROVE  OneUnit(worth, fee, ext, public)
<1>1. fee \in Nat /\ fee >= 0 /\ fee \in 0 .. worth - 1
  OBVIOUS
<1>2. PICK one : one = -1 /\ ext = one
  OBVIOUS
<1>3. ext \in Int /\ ext < 0 /\ ~(ext > 0) /\ -ext = 1
  BY <1>2
<1>4. public \in Int /\ worth + public = 0
  OBVIOUS
<1>5. public = ext - fee /\ worth + 0 + public = 0 + 0
  BY <1>1, <1>2, <1>4
<1> QED BY <1>1, <1>3, <1>5 DEF OneUnit

\* The withdrawal of a note's whole worth, one unit to its owner and the rest
\* as the fee, passes every check.
LEMMA NoteCanLeave ==
  ASSUME IInv, ValueInv,
         global_config.withdrawal_fee_rate < MaxRate \/ global_config.fee_error_margin > 0,
         NEW m \in opened, NEW i \in Unspent(m), HasRoom(trees[m]),
         NEW worth, worth = notes[m][i + 1].amount, worth > 0,
         NEW public, public = -worth, NEW fee, fee = worth - 1, NEW ext, ext = fee - worth,
         NEW p, p.mint = m, p.root = trees[m].next_index, p.public_amount = public,
         p.inputs[1].nullifier = <<"note", m, i>>, p.inputs[1].amount = worth,
         p.inputs[2].nullifier = <<"dummy", m, trees[m].next_index + 1>>,
         p.inputs[2].amount = 0, p.outputs[1] = 0, p.outputs[2] = 0,
         p.ext_data.fee = fee, p.ext_data.ext_amount = ext,
         p.ext_data.fee_recipient = global_config.fee_recipient
  PROVE  fee \in 0 .. worth - 1 /\ Checks(p, p.ext_data)
<1>1. PICK n \in Nat : /\ n = trees[m].next_index /\ n = Len(notes[m])
                       /\ m \in Mints /\ trees[m] \in Tree /\ RingOk(trees[m])
                       /\ i \in 0 .. n - 1
  BY DEF IInv, TypeOK, RingInv, Tree, Unspent
<1>2. worth \in Nat /\ worth <= Owed(m) /\ Owed(m) \in Nat
  BY <1>1, OwedCovers DEF IInv
<1>3. PICK a, b, e : /\ a = <<"note", m, i>> /\ b = <<"dummy", m, n + 1>> /\ e = p.ext_data
                     /\ p.inputs[1].nullifier = a /\ p.inputs[2].nullifier = b
                     /\ p.root = n
  BY <1>1
<1>4. /\ fee \in Nat /\ fee >= 0 /\ fee \in 0 .. worth - 1
      /\ ext \in Int /\ ext < 0 /\ ~(ext > 0) /\ -ext = 1
      /\ public = ext - fee /\ worth + 0 + public = 0 + 0
  <2>1. worth \in Nat
    BY <1>2
  <2>2. OneUnit(worth, fee, ext, public)
    BY <2>1, OneUnitLeaves, Zenon
  <2> QED BY <2>2, Zenon DEF OneUnit
<1>5. IsKnownRoot(trees[m], p.root)
  <2>1. n \in 0 .. n /\ n > n - RootHistorySize
    BY RingAssumption
  <2> QED BY <1>1, <1>3, <2>1, RingWindow
<1>6. NullifiersFresh(p)
  <2>1. a \notin nullifier0 \cup nullifier1
    BY <1>3 DEF Unspent, Spent
  <2>2. b \notin nullifier0 \cup nullifier1
    <3> SUFFICES ASSUME b \in nullifier0 \cup nullifier1 PROVE FALSE
      OBVIOUS
    <3>1. b[2] = m /\ b[3] = n + 1
      BY <1>3
    <3>2. b[3] < Len(notes[b[2]])
      BY DEF ValueInv, RecordedInv
    <3> QED BY <1>1, <3>1, <3>2
  <2> QED BY <1>3, <2>1, <2>2 DEF NullifiersFresh
<1>7. CheckPublicAmount(p)
  <2> QED BY <1>3, <1>4 DEF CheckPublicAmount, PublicAmount
<1>8. ValidateFee(e.ext_amount, e.fee)
  <2>1. MinFee(1, global_config.withdrawal_fee_rate, global_config.fee_error_margin) = 0
    BY MinFeeOfOne DEF IInv, TypeOK, GlobalConfig
  <2> QED BY <1>3, <1>4, <2>1 DEF ValidateFee
<1>9. Circuit(p)
  <2>1. a # b
    BY <1>3
  <2>2. OpensLeaf(p, p.inputs[1])
    BY <1>1, <1>3 DEF OpensLeaf
  <2> QED BY <1>3, <1>4, <2>1, <2>2 DEF Circuit
<1>10. VaultAfter(m, e) >= RentOf(m) /\ vault[m] + ext >= RentOf(m)
  <2>1. /\ vault[m] = RentOf(m) + Owed(m) + surplus[m]
        /\ RentOf(m) \in Nat /\ surplus[m] \in Nat
    BY <1>1, NumbersAssumption DEF ValueInv, BackedInv, RentOf, IInv, TypeOK
  <2>2. PICK received, paid : received = Received(m, e) /\ paid = PaidOut(e)
    OBVIOUS
  <2>3. received = 0
    <3>1. Positive(e.ext_amount) = 0
      BY <1>3, <1>4 DEF Positive
    <3>2. Gross(m, e) = 0
      BY <1>1, <3>1, GrossBounds DEF Gross
    <3>3. Net(m, 0) \in Nat /\ Net(m, 0) <= 0
      BY <1>1, NetBounds
    <3> QED BY <2>2, <3>2, <3>3 DEF Received
  <2>4. paid \in {0, 1}
    <3>1. Positive(-e.ext_amount) = 1
      BY <1>3, <1>4 DEF Positive
    <3> QED BY <2>2, <3>1 DEF PaidOut
  <2>5. VaultAfter(m, e) = vault[m] + received - paid - fee
    BY <1>3, <2>2 DEF VaultAfter
  <2>6. VaultAfter(m, e) >= RentOf(m)
    BY <1>2, <1>4, <2>1, <2>3, <2>4, <2>5
  <2>7. vault[m] + ext >= RentOf(m)
    BY <1>2, <1>4, <2>1
  <2> QED BY <2>6, <2>7
<1> QED BY <1>3, <1>4, <1>5, <1>6, <1>7, <1>8, <1>9, <1>10 DEF Checks, FeeRecipientOk

\* Whatever the configuration has become, every unspent note can leave its
\* pool at once while the tree has room: no order of the other users'
\* transactions, and no update, makes the program refuse its withdrawal.
THEOREM NotesNeverLockedHolds == Spec => []NotesNeverLocked
<1>1. IInv /\ ValueInv => NotesNeverLocked
  <2> SUFFICES ASSUME IInv, ValueInv,
                      global_config.withdrawal_fee_rate < MaxRate
                        \/ global_config.fee_error_margin > 0,
                      NEW m \in opened, NEW i \in Unspent(m),
                      notes[m][i + 1].amount > 0, HasRoom(trees[m])
               PROVE  LET t == trees[m]
                          worth == notes[m][i + 1].amount
                          Withdrawal(fee) ==
                            Proof(m, t.next_index,
                                  <<[nullifier |-> <<"note", m, i>>, amount |-> worth],
                                    [nullifier |-> <<"dummy", m, t.next_index + 1>>,
                                     amount |-> 0]>>,
                                  <<0, 0>>, -worth, Anyone, global_config.fee_recipient,
                                  fee - worth, fee)
                      IN \E fee \in 0 .. worth - 1 :
                           Checks(Withdrawal(fee), Withdrawal(fee).ext_data)
    BY Zenon DEF NotesNeverLocked
  <2> DEFINE worth == notes[m][i + 1].amount
             Withdrawal(fee) ==
               Proof(m, trees[m].next_index,
                     <<[nullifier |-> <<"note", m, i>>, amount |-> worth],
                       [nullifier |-> <<"dummy", m, trees[m].next_index + 1>>, amount |-> 0]>>,
                     <<0, 0>>, -worth, Anyone, global_config.fee_recipient, fee - worth, fee)
  <2>1. PICK p, public, fee, ext : /\ p = Withdrawal(worth - 1) /\ public = -worth
                                   /\ fee = worth - 1 /\ ext = fee - worth
    OBVIOUS
  <2>2. p = Proof(m, trees[m].next_index,
                  <<[nullifier |-> <<"note", m, i>>, amount |-> worth],
                    [nullifier |-> <<"dummy", m, trees[m].next_index + 1>>, amount |-> 0]>>,
                  <<0, 0>>, public, Anyone, global_config.fee_recipient, ext, fee)
    BY <2>1, Zenon
  <2>3. /\ p.mint = m /\ p.root = trees[m].next_index /\ p.public_amount = public
        /\ p.inputs[1].nullifier = <<"note", m, i>> /\ p.inputs[1].amount = worth
        /\ p.inputs[2].nullifier = <<"dummy", m, trees[m].next_index + 1>>
        /\ p.inputs[2].amount = 0 /\ p.outputs[1] = 0 /\ p.outputs[2] = 0
        /\ p.ext_data.fee = fee /\ p.ext_data.ext_amount = ext
        /\ p.ext_data.fee_recipient = global_config.fee_recipient
    BY <2>2 DEF Proof
  <2>4. fee \in 0 .. worth - 1 /\ Checks(p, p.ext_data)
    <3> HIDE DEF Withdrawal
    <3>1. PICK w : w = worth
      OBVIOUS
    <3>2. w = notes[m][i + 1].amount /\ w > 0
      BY <3>1
    <3> HIDE DEF worth
    <3>3. public = -w /\ fee = w - 1 /\ ext = fee - w /\ p.inputs[1].amount = w
      BY <2>1, <2>3, <3>1, Zenon
    <3>4. fee \in 0 .. w - 1 /\ Checks(p, p.ext_data)
      BY <2>3, <3>2, <3>3, NoteCanLeave, ZenonT(60)
    <3> QED BY <3>1, <3>4, Zenon
  <2> QED BY <2>1, <2>4, Zenon
<1> QED BY <1>1, ValueInvariant, PTL

-----------------------------------------------------------------------------
(* The refinement *)

\* The state the ledger sees.
Issued == [m \in Mints |-> trees[m].next_index]

NoteOf(m, i) == [id |-> i, amount |-> notes[m][i + 1].amount]

Owing == [m \in Mints |-> {NoteOf(m, i) : i \in Unspent(m)}]

Pot == [m \in Mints |-> IF m \in opened THEN vault[m] - RentOf(m) - surplus[m] ELSE 0]

\* What notes are worth, as a sum over their amounts.
LEMMA WorthIsSum ==
  ASSUME NEW ns
  PROVE  Ledger!Worth(ns) = SumFunction([n \in ns |-> n.amount])
  BY Zenon DEF Ledger!Worth, Ledger!SumFunction, Ledger!SumFunctionOnSet,
               Ledger!FoldFunctionOnSet, Ledger!MapThenFoldSet,
               SumFunction, SumFunctionOnSet, FoldFunctionOnSet, MapThenFoldSet

\* What up to two notes are worth.
LEMMA WorthOfTwo ==
  /\ Ledger!Worth({}) = 0
  /\ \A x : x.amount \in Int => Ledger!Worth({x}) = x.amount
  /\ \A x, y : x # y /\ x.amount \in Int /\ y.amount \in Int =>
                 Ledger!Worth({x, y}) = x.amount + y.amount
<1>1. Ledger!Worth({}) = 0
  <2>1. DOMAIN [n \in {} |-> n.amount] = {}
    OBVIOUS
  <2> QED BY <2>1, WorthIsSum, SumOverNothing
<1>2. ASSUME NEW x, x.amount \in Int
      PROVE  Ledger!Worth({x}) = x.amount
  <2>1. PICK f : f = [n \in {x} |-> n.amount]
    OBVIOUS
  <2>2. f \in [{x} -> Int] /\ f[x] = x.amount
    BY <1>2, <2>1
  <2> QED BY <2>1, <2>2, WorthIsSum, SumOfOne
<1>3. ASSUME NEW x, NEW y, x # y, x.amount \in Int, y.amount \in Int
      PROVE  Ledger!Worth({x, y}) = x.amount + y.amount
  <2>1. PICK f : f = [n \in {x, y} |-> n.amount]
    OBVIOUS
  <2>2. f \in [{x, y} -> Int] /\ f[x] = x.amount /\ f[y] = y.amount
    BY <1>3, <2>1
  <2> QED BY <1>3, <2>1, <2>2, WorthIsSum, SumOfTwo
<1> QED BY <1>1, <1>2, <1>3

\* What backs the notes is what is owed for them.
LEMMA PotIsOwed == IInv /\ ValueInv => Pot = [m \in Mints |-> Owed(m)]
<1> SUFFICES ASSUME IInv, ValueInv, NEW m \in Mints
             PROVE  (IF m \in opened THEN vault[m] - RentOf(m) - surplus[m] ELSE 0) = Owed(m)
  BY DEF Pot
<1>1. Owed(m) \in Nat /\ vault[m] \in Nat /\ RentOf(m) \in Nat /\ surplus[m] \in Nat
  BY OwedCovers, NumbersAssumption DEF IInv, TypeOK, RentOf
<1>2. CASE m \in opened
  <2>1. vault[m] = RentOf(m) + Owed(m) + surplus[m]
    BY <1>2 DEF ValueInv, BackedInv
  <2> QED BY <1>1, <1>2, <2>1
<1>3. CASE m \notin opened
  <2>1. Len(notes[m]) = 0
    BY <1>3 DEF IInv, RingInv
  <2>2. Unspent(m) = {}
    BY <2>1 DEF Unspent
  <2>3. Owed(m) = 0
    BY <2>2, SumOverNothing DEF Owed
  <2> QED BY <1>3, <2>3
<1> QED BY <1>2, <1>3

\* The notes a transaction spends: at most two of those owed, worth what its
\* inputs are.
LEMMA SpentNotes ==
  ASSUME IInv, RecordedInv, NEW p \in ProofType, NEW ext_data, Checks(p, ext_data),
         ClientProof(p), Settle(p), NEW spent, spent = {NoteOf(p.mint, i) : i \in Used(p)}
  PROVE  /\ spent \subseteq {NoteOf(p.mint, i) : i \in Unspent(p.mint)}
         /\ Cardinality(spent) <= 2
         /\ Ledger!Worth(spent) = p.inputs[1].amount + p.inputs[2].amount
<1>0. PICK m, a, b : m = p.mint /\ a = p.inputs[1] /\ b = p.inputs[2]
  OBVIOUS
<1>1. /\ m \in Mints /\ a.amount \in Nat /\ b.amount \in Nat /\ Unspent(m) \subseteq Nat
      /\ a.nullifier # b.nullifier
      /\ Used(p) = {i \in Nat : <<"note", m, i>> \in {a.nullifier, b.nullifier}}
  BY <1>0 DEF ProofType, Input, Checks, Circuit, Used, Unspent
<1>2. spent \subseteq {NoteOf(m, i) : i \in Unspent(m)}
  <2>1. Used(p) \subseteq Unspent(m)
    BY <1>0, UnspentAfter
  <2> QED BY <1>0, <2>1
<1> DEFINE Leaf(x, i) == x.nullifier = <<"note", m, i>> /\ NoteOf(m, i).amount = x.amount
           Dummy(x) == x.amount = 0 /\ \A i : <<"note", m, i>> # x.nullifier
<1>3. /\ Dummy(a) \/ \E i \in Unspent(m) : Leaf(a, i)
      /\ Dummy(b) \/ \E i \in Unspent(m) : Leaf(b, i)
  <2>1. ASSUME NEW j \in {1, 2}
        PROVE  Dummy(p.inputs[j]) \/ \E i \in Unspent(m) : Leaf(p.inputs[j], i)
    <3>1. CASE DummyInput(m, p.inputs[j])
      <4>1. PICK n : p.inputs[j] = [nullifier |-> <<"dummy", m, n>>, amount |-> 0]
        BY <3>1 DEF DummyInput
      <4>2. p.inputs[j].nullifier = <<"dummy", m, n>> /\ p.inputs[j].amount = 0
        BY <4>1
      <4>3. \A i : <<"note", m, i>> # <<"dummy", m, n>>
        OBVIOUS
      <4> QED BY <4>2, <4>3
    <3>2. CASE \E i \in Unspent(m) :
                 p.inputs[j] = [nullifier |-> <<"note", m, i>>,
                                amount |-> notes[m][i + 1].amount]
      <4>1. PICK i \in Unspent(m) :
                 p.inputs[j] = [nullifier |-> <<"note", m, i>>,
                                amount |-> notes[m][i + 1].amount]
        BY <3>2
      <4> QED BY <4>1 DEF NoteOf
    <3> QED BY <1>0, <3>1, <3>2, InputsAreUnspent
  <2> QED BY <1>0, <2>1
<1>4. \A i, k : <<"note", m, i>> = <<"note", m, k>> => i = k
  OBVIOUS
<1>5. \A i, k : i # k => NoteOf(m, i) # NoteOf(m, k)
  BY DEF NoteOf
<1>6. CASE Dummy(a) /\ Dummy(b)
  <2>1. Used(p) = {}
    BY <1>1, <1>6
  <2>2. spent = {}
    BY <2>1
  <2>3. Cardinality(spent) = 0
    BY <2>2, FS_EmptySet
  <2>4. Ledger!Worth(spent) = 0
    BY <2>2, WorthOfTwo
  <2> QED BY <1>0, <1>2, <1>6, <2>3, <2>4
<1>7. ASSUME NEW x, NEW y, {x, y} = {a, b}, x.amount + y.amount = a.amount + b.amount,
             Dummy(x), NEW i \in Unspent(m), Leaf(y, i)
      PROVE  Cardinality(spent) <= 2 /\ Ledger!Worth(spent) = a.amount + b.amount
  <2>1. Used(p) = {i}
    <3>1. {a.nullifier, b.nullifier} = {x.nullifier, y.nullifier}
      BY <1>7
    <3>2. \A k : <<"note", m, k>> \in {x.nullifier, y.nullifier} <=> k = i
      BY <1>4, <1>7
    <3> QED BY <1>1, <3>1, <3>2
  <2>2. spent = {NoteOf(m, i)}
    BY <1>0, <2>1
  <2>3. Cardinality(spent) = 1
    BY <2>2, FS_Singleton
  <2>4. x.amount = 0 /\ NoteOf(m, i).amount = y.amount /\ y.amount \in Nat
    BY <1>1, <1>7
  <2>5. Ledger!Worth(spent) = y.amount
    <3> HIDE DEF Leaf, Dummy
    <3> QED BY <2>2, <2>4, WorthOfTwo
  <2>6. 0 + y.amount = a.amount + b.amount
    BY <1>7, <2>4
  <2> QED BY <2>3, <2>4, <2>5, <2>6
<1>8. ASSUME NEW i \in Unspent(m), Leaf(a, i), NEW k \in Unspent(m), Leaf(b, k)
      PROVE  Cardinality(spent) <= 2 /\ Ledger!Worth(spent) = a.amount + b.amount
  <2>1. Used(p) = {i, k} /\ i # k
    BY <1>1, <1>4, <1>8
  <2>2. spent = {NoteOf(m, i), NoteOf(m, k)}
    BY <1>0, <2>1
  <2>3. NoteOf(m, i) # NoteOf(m, k)
    BY <1>5, <2>1
  <2>4. Cardinality(spent) = 2
    <3>1. PICK x, y : x = NoteOf(m, i) /\ y = NoteOf(m, k)
      OBVIOUS
    <3>2. IsFiniteSet({x}) /\ Cardinality({x}) = 1
      BY FS_Singleton
    <3>3. y \notin {x} /\ {x} \cup {y} = spent
      BY <2>2, <2>3, <3>1
    <3>4. Cardinality({x} \cup {y}) = 1 + 1
      <4> PICK S : S = {x}
        OBVIOUS
      <4> QED BY <3>2, <3>3, FS_AddElement
    <3> QED BY <3>3, <3>4
  <2>5. NoteOf(m, i).amount = a.amount /\ NoteOf(m, k).amount = b.amount
    BY <1>8
  <2>6. Ledger!Worth(spent) = a.amount + b.amount
    <3> HIDE DEF Leaf, Dummy
    <3> QED BY <1>1, <2>2, <2>3, <2>5, WorthOfTwo
  <2> QED BY <2>4, <2>6
<1>9. ASSUME NEW x, NEW y, {x, y} = {a, b}, x.amount + y.amount = a.amount + b.amount,
             Dummy(x), \E i \in Unspent(m) : Leaf(y, i)
      PROVE  Cardinality(spent) <= 2 /\ Ledger!Worth(spent) = a.amount + b.amount
  <2> HIDE DEF Leaf, Dummy
  <2> QED BY <1>7, <1>9
<1>10. {a, b} = {b, a} /\ b.amount + a.amount = a.amount + b.amount
  BY <1>1
<1> HIDE DEF Leaf, Dummy
<1> QED BY <1>0, <1>2, <1>3, <1>6, <1>8, <1>9, <1>10

\* The initial state owes nothing.
LEMMA LedgerInit == Init => Ledger!Init
<1> SUFFICES ASSUME Init PROVE Ledger!Init
  OBVIOUS
<1>1. ASSUME NEW m \in Mints
      PROVE  trees[m].next_index = 0 /\ Unspent(m) = {} /\ m \notin opened
  BY DEF Init, NewTree, Unspent
<1> QED BY <1>1 DEF Ledger!Init

\* The ledger counts notes as the proofs do.
LEMMA SameCardinality ==
  ASSUME NEW S
  PROVE  Ledger!Cardinality(S) = Cardinality(S)
  BY Zenon DEF Ledger!Cardinality, Cardinality

\* A transaction is a payment of the ledger: the notes its inputs name leave,
\* its two outputs enter, and the pot covers the difference.
LEMMA SubmitPays ==
  ASSUME IInv, ValueInv, Pot' = [x \in Mints |-> Owed(x)'],
         \A x \in Mints : Owed(x)' \in Nat, NEW m \in opened, Submit(m)
  PROVE  Ledger!Pay(m)
<1>1. PICK p \in ProofType, signer \in Parties : \E ext_data :
        /\ p.mint = m /\ ClientProof(p)
        /\ Transact(p, ext_data, signer) \/ TransactSpl(p, ext_data, signer)
  BY SubmitIsTyped
<1>2. PICK ext_data : Transact(p, ext_data, signer) \/ TransactSpl(p, ext_data, signer)
  BY <1>1
<1>3. Checks(p, ext_data) /\ Settle(p) /\ ClientProof(p) /\ p.mint = m
  BY <1>1, <1>2 DEF Transact, TransactSpl
<1>4. PICK n \in Nat : n = Len(notes[m]) /\ n = trees[m].next_index
  <2>1. notes[m] \in Seq(Note) /\ trees[m].next_index = Len(notes[m])
    BY DEF IInv, TypeOK, RingInv
  <2>2. Len(notes[m]) \in Nat
    BY <2>1
  <2> QED BY <2>1, <2>2
<1>5. PICK c, d, e, spent : /\ n = Len(notes[m]) /\ n = trees[m].next_index
                            /\ c = p.outputs[1] /\ d = p.outputs[2] /\ e = p.ext_data
                            /\ spent = {NoteOf(m, i) : i \in Used(p)}
  BY <1>4
<1>6. /\ n \in Nat /\ m \in Mints /\ c \in Nat /\ d \in Nat /\ c \in Amounts /\ d \in Amounts
      /\ e.ext_amount \in Int /\ e.fee \in Nat
      /\ p.inputs[1].amount \in Nat /\ p.inputs[2].amount \in Nat
  <2>1. m \in Mints /\ n \in Nat
    BY DEF IInv, TypeOK
  <2>2. c \in Amounts /\ d \in Amounts
    BY <1>3, <1>5 DEF ClientProof
  <2>3. /\ e.ext_amount \in Int /\ e.fee \in Nat
        /\ p.inputs[1].amount \in Nat /\ p.inputs[2].amount \in Nat
    BY <1>5 DEF ProofType, ExtData, Input
  <2> QED BY <2>1, <2>2, <2>3, NumbersAssumption
<1>7. p.inputs[1].amount + p.inputs[2].amount + (e.ext_amount - e.fee) = c + d
  BY <1>3, <1>5 DEF Checks, Circuit, CheckPublicAmount, PublicAmount
<1> DEFINE first == [id |-> n, amount |-> c]
           second == [id |-> n + 1, amount |-> d]
<1>8. Issued' = [Issued EXCEPT ![m] = @ + 2]
  <2>1. trees' = [trees EXCEPT ![m] = InsertOutputs(trees[m])]
    BY <1>3 DEF Settle
  <2>2. InsertOutputs(trees[m]).next_index = n + 2
    BY <1>5, <1>6, InsertOutputsOk DEF IInv, TypeOK, RingInv
  <2> QED BY <1>5, <1>6, <2>1, <2>2 DEF Issued, IInv, TypeOK
<1>9. Owing' = [Owing EXCEPT ![m] = (@ \ spent) \cup {first, second}]
  <2>1. /\ Used(p) \subseteq Unspent(m)
        /\ Unspent(m)' = (Unspent(m) \ Used(p)) \cup {n, n + 1}
        /\ \A x \in Mints \ {m} : notes'[x] = notes[x] /\ Unspent(x)' = Unspent(x)
    BY <1>3, <1>5, UnspentAfter DEF ValueInv
  <2>2. PICK after : /\ after = NotesAfter(p) /\ notes'[m] = after
                     /\ \A i \in 1 .. n : after[i].amount = notes[m][i].amount
                     /\ after[n + 1].amount = c /\ after[n + 2].amount = d
    <3>1. notes'[m] = NotesAfter(p)
      BY <1>3, <1>6 DEF Settle, IInv, TypeOK
    <3>2. \A i \in 1 .. n : NotesAfter(p)[i].amount = notes[m][i].amount
      BY <1>3, <1>5, NotesAfterLemma
    <3>3. \A i \in n + 1 .. n + 2 : NotesAfter(p)[i].amount = p.outputs[i - n]
      BY <1>3, <1>5, NotesAfterLemma
    <3>4. /\ (n + 1) - n = 1 /\ (n + 2) - n = 2
          /\ n + 1 \in n + 1 .. n + 2 /\ n + 2 \in n + 1 .. n + 2
      BY <1>6
    <3>5. NotesAfter(p)[n + 1].amount = c /\ NotesAfter(p)[n + 2].amount = d
      BY <1>5, <3>3, <3>4
    <3> QED BY <3>1, <3>2, <3>5
  <2>3. Unspent(m) \subseteq 0 .. n - 1
    BY <1>5 DEF Unspent
  <2>4. \A i \in Unspent(m) : NoteOf(m, i)' = NoteOf(m, i)
    BY <1>6, <2>2, <2>3 DEF NoteOf
  <2>5. NoteOf(m, n)' = first /\ NoteOf(m, n + 1)' = second
    <3>1. (n + 1) + 1 = n + 2
      BY <1>6
    <3> QED BY <2>2, <3>1 DEF NoteOf
  <2>6. \A i \in Unspent(m) : i \in Used(p) <=> NoteOf(m, i) \in spent
    <3>1. \A i, k : NoteOf(m, i) = NoteOf(m, k) => i = k
      BY DEF NoteOf
    <3> QED BY <1>5, <2>1, <3>1
  <2> HIDE DEF first, second
  <2>7. {NoteOf(m, i)' : i \in Unspent(m)'}
          = ({NoteOf(m, i) : i \in Unspent(m)} \ spent) \cup {first, second}
    BY <2>1, <2>4, <2>5, <2>6
  <2>8. \A x \in Mints \ {m} :
          {NoteOf(x, i)' : i \in Unspent(x)'} = {NoteOf(x, i) : i \in Unspent(x)}
    BY <2>1 DEF NoteOf
  <2>9. Owing' = [x \in Mints |-> {NoteOf(x, i)' : i \in Unspent(x)'}]
    BY DEF Owing
  <2> QED BY <1>6, <2>7, <2>8, <2>9 DEF Owing
<1>10. /\ spent \subseteq Owing[m] /\ Cardinality(spent) <= 2
      /\ Ledger!Worth(spent) = p.inputs[1].amount + p.inputs[2].amount
  <2>1. spent = {NoteOf(p.mint, i) : i \in Used(p)} /\ RecordedInv
    BY <1>3, <1>5 DEF ValueInv
  <2>2. /\ spent \subseteq {NoteOf(p.mint, i) : i \in Unspent(p.mint)}
        /\ Cardinality(spent) <= 2
        /\ Ledger!Worth(spent) = p.inputs[1].amount + p.inputs[2].amount
    BY <1>3, <2>1, SpentNotes
  <2>3. Owing[p.mint] = {NoteOf(p.mint, i) : i \in Unspent(p.mint)}
    BY <1>3, <1>6 DEF Owing
  <2> QED BY <1>3, <2>2, <2>3
<1>11. Ledger!Worth({first, second}) = c + d
  <2>1. first # second /\ first.amount = c /\ second.amount = d /\ c \in Int /\ d \in Int
    BY <1>6
  <2> HIDE DEF first, second
  <2> QED BY <2>1, WorthOfTwo
<1>12. /\ Pot' = [Pot EXCEPT ![m] = @ + Ledger!Worth({first, second}) - Ledger!Worth(spent)]
       /\ Pot'[m] >= 0
  <2>1. /\ Owed(m) \in Nat /\ Owed(m)' = Owed(m) + e.ext_amount - e.fee
        /\ \A x \in Mints \ {m} : Owed(x)' = Owed(x)
    BY <1>3, <1>5, OwedAfter DEF ValueInv
  <2>2. Owed(m)' \in Nat
    BY <1>6
  <2>3. Owed(m)' = Owed(m) + (c + d) - (p.inputs[1].amount + p.inputs[2].amount)
    BY <1>6, <1>7, <2>1
  <2>4. Pot = [x \in Mints |-> Owed(x)]
    BY PotIsOwed
  <2> HIDE DEF first, second
  <2> QED BY <1>6, <1>10, <1>11, <2>1, <2>2, <2>3, <2>4
<1>13. trees[m].next_index = n /\ Issued[m] = n
  BY <1>5, <1>6 DEF Issued
<1> HIDE DEF first, second
<1>14. Ledger!Cardinality(spent) <= 2
  BY <1>10, SameCardinality
<1>15. first = [id |-> Issued[m], amount |-> c] /\ second = [id |-> Issued[m] + 1, amount |-> d]
  BY <1>13 DEF first, second
<1>16. \E s \in SUBSET Owing[m], k, l \in Amounts :
         LET new == {[id |-> Issued[m], amount |-> k], [id |-> Issued[m] + 1, amount |-> l]}
         IN /\ Ledger!Cardinality(s) <= 2
            /\ Issued' = [Issued EXCEPT ![m] = @ + 2]
            /\ Owing' = [Owing EXCEPT ![m] = (@ \ s) \cup new]
            /\ Pot' = [Pot EXCEPT ![m] = @ + Ledger!Worth(new) - Ledger!Worth(s)]
            /\ Pot'[m] >= 0
  BY <1>6, <1>8, <1>9, <1>10, <1>12, <1>14, <1>15, Zenon
<1> QED BY <1>16, Zenon DEF Ledger!Pay, Issued, Owing, NoteOf, Pot

\* Every other instruction changes nothing of the ledger.
LEMMA OthersStutter ==
  ASSUME IInv, IInv', Pot = [x \in Mints |-> Owed(x)], Pot' = [x \in Mints |-> Owed(x)'],
         UNCHANGED <<nullifier0, nullifier1, notes>>
  PROVE  UNCHANGED <<Issued, Owing, Pot>>
<1>1. \A m \in Mints : /\ trees[m].next_index = Len(notes[m])
                       /\ trees'[m].next_index = Len(notes'[m])
  BY DEF IInv, RingInv
<1>2. \A m \in Mints : Unspent(m)' = Unspent(m) /\ Owed(m)' = Owed(m)
  BY DEF Unspent, Spent, Owed
<1>3. UNCHANGED Owing
  BY <1>2 DEF Owing, NoteOf
<1> QED BY <1>1, <1>2, <1>3 DEF Issued

\* Every step of the program is one of the ledger or none.
LEMMA LedgerStep ==
  IInv /\ ValueInv /\ [Next]_vars => [\E m \in Mints : Ledger!Pay(m)]_<<Issued, Owing, Pot>>
<1>1. (IInv /\ ValueInv => Pot = [x \in Mints |-> Owed(x)] /\ \A x \in Mints : Owed(x) \in Nat)'
  <2>1. IInv /\ ValueInv => Pot = [x \in Mints |-> Owed(x)] /\ \A x \in Mints : Owed(x) \in Nat
    BY PotIsOwed, OwedCovers DEF IInv
  <2> QED BY <2>1, PTL
<1> SUFFICES ASSUME IInv, ValueInv, [Next]_vars
             PROVE  (\E m \in Mints : Ledger!Pay(m)) \/ UNCHANGED <<Issued, Owing, Pot>>
  OBVIOUS
<1>2. IInv' /\ ValueInv'
  BY StepKeepsIInv, StepKeepsValueInv
<1>3. /\ Pot = [x \in Mints |-> Owed(x)] /\ Pot' = [x \in Mints |-> Owed(x)']
      /\ \A x \in Mints : Owed(x)' \in Nat
  BY <1>2, <1>1, PotIsOwed
<1>4. ASSUME NEW m \in opened, Submit(m)
      PROVE  \E x \in Mints : Ledger!Pay(x)
  <2>1. m \in Mints /\ Ledger!Pay(m)
    BY <1>2, <1>3, <1>4, SubmitPays DEF IInv, TypeOK
  <2> QED BY <2>1
<1>5. ASSUME UNCHANGED <<nullifier0, nullifier1, notes>>
      PROVE  UNCHANGED <<Issued, Owing, Pot>>
  BY <1>2, <1>3, <1>5, OthersStutter
<1> QED BY <1>4, <1>5
     DEF Next, vars, Initialize, UpdateGlobalConfig, UpdateDepositLimit, CreatePool, Donate

\* The program implements the ledger of notes: each instruction takes at most
\* two unspent notes once, issues two new ones and moves exactly the
\* difference between the pot and the world, or does nothing to either.
THEOREM ImplementsLedgerHolds == Spec => ImplementsLedger
<1>1. Init => Ledger!Init
  BY LedgerInit
<1>2. IInv /\ ValueInv /\ [Next]_vars => [\E m \in Mints : Ledger!Pay(m)]_<<Issued, Owing, Pot>>
  BY LedgerStep
<1> QED BY <1>1, <1>2, ValueInvariant, PTL
     DEF Spec, ImplementsLedger, Ledger!Spec, Issued, Owing, NoteOf, Pot
=============================================================================
