---------------------------- MODULE Indexer_proofs ----------------------------
(***************************************************************************)
(* Proofs about Indexer: for any pools, any number of relay requests and   *)
(* any bounds, what the relayer serves is a prefix of each pool's leaves,  *)
(* its cursor leaves nothing behind, and a poll never meets a gap.         *)
(***************************************************************************)
EXTENDS Indexer, FiniteSetTheorems, TLAPS

-----------------------------------------------------------------------------
(* Induction *)

\* A set of numbers that holds 0 and with each number the next holds them all.
LEMMA InductionOverNat ==
  ASSUME NEW T, 0 \in T, \A n \in Nat : n \in T => n + 1 \in T
  PROVE  Nat \subseteq T
<1> DEFINE Less == OpToRel(<, Nat)
           D == Nat \ T
<1>1. IsWellFoundedOn(Less, Nat)
  BY NatLessThanWellFounded, Zenon
<1>2. ASSUME NEW x \in Nat, NEW y \in Nat, x < y
      PROVE  <<x, y>> \in Less
  BY <1>2, Zenon DEF OpToRel
<1> HIDE DEF Less
<1> SUFFICES ASSUME D # {} PROVE FALSE
  OBVIOUS
<1>3. PICK x \in D : \A y \in D : ~ (<<y, x>> \in Less)
  <2>1. D \subseteq Nat
    OBVIOUS
  <2> HIDE DEF D
  <2> QED BY <1>1, <2>1, WFMin, Zenon
<1>4. x - 1 \in Nat /\ x - 1 < x
  OBVIOUS
<1>5. x - 1 \in T
  BY <1>2, <1>3, <1>4
<1> QED BY <1>4, <1>5

-----------------------------------------------------------------------------
(* The inductive invariant *)

\* The transactions of a pool, and their first indices.
Txs(m) == {s \in DOMAIN chain : chain[s].mint = m}
Starts(m) == {chain[s].idx : s \in Txs(m)}

\* The transactions of a pool have the even indices, each one index, whatever
\* order the listing has them in.
ChainInv ==
  /\ Len(chain) <= MaxTx
  /\ \A m \in Mints \cup {None} :
       /\ \A s, t \in Txs(m) : chain[s].idx = chain[t].idx => s = t
       /\ Starts(m) = {2 * i : i \in 0 .. Cardinality(Txs(m)) - 1}

\* Only what the node has listed is marked, pointed at or waited for.
ListedInv ==
  /\ db.seen \subseteq DOMAIN chain
  /\ db.cursor <= Len(chain)
  /\ \A r \in Relays : relays[r].pc # "none" => relays[r].sig \in DOMAIN chain

\* The batch of a poll is the unseen part of a listing that nothing earlier in
\* a pool can still join; the events decoded so far are those of its
\* transactions, and all of them unless the node answered null.
PollInv ==
  /\ poller.todo \subseteq poller.batch
  /\ poller.batch \subseteq 1 .. poller.last
  /\ poller.last <= Len(chain)
  /\ poller # Idle => poller.todo # {} /\ 1 .. poller.last \subseteq db.seen \cup poller.batch
  /\ \A e \in ToSet(poller.events) :
       e.signature \in poller.batch /\ e \in ToSet(Emitted(e.signature))
  /\ nulls = 0 =>
       \A s \in poller.batch \ poller.todo : ToSet(Emitted(s)) \subseteq ToSet(poller.events)
  /\ \A m \in Mints : \A s, t \in Txs(m) :
       s <= poller.last /\ poller.last < t => chain[s].idx < chain[t].idx

IInv ==
  /\ TypeOK
  /\ ChainInv
  /\ TableIsPrefix /\ TreeIsTable
  /\ NothingUnseenBehindCursor /\ SeenIsStored
  /\ ListedInv
  /\ PollInv

-----------------------------------------------------------------------------
(* Numbers: intervals and least elements *)

\* Numbers from n on, below a bound, that leave none out are an interval.
LEMMA IntervalFrom ==
  ASSUME NEW J \in SUBSET Nat, NEW n \in Nat, NEW bound \in Nat,
         \A j \in J : n <= j /\ j < bound,
         \A j \in J : n .. j \subseteq J
  PROVE  \E x \in Nat : n <= x /\ J = n .. x - 1
<1> DEFINE T == {i \in Nat : n .. n + i - 1 \subseteq J}
<1>1. 0 \in T
  OBVIOUS
<1>2. PICK i \in T : i + 1 \notin T
  <2> SUFFICES ASSUME \A i \in T : i + 1 \in T PROVE FALSE
    OBVIOUS
  <2>1. Nat \subseteq T
    <3>1. \A i \in Nat : i \in T => i + 1 \in T
      OBVIOUS
    <3> HIDE DEF T
    <3> QED BY <1>1, <3>1, InductionOverNat, Zenon
  <2>2. bound + 1 \in T
    BY <2>1
  <2>3. n + bound \in n .. n + (bound + 1) - 1
    OBVIOUS
  <2> QED BY <2>2, <2>3
<1>3. i \in Nat /\ n .. n + i - 1 \subseteq J
  OBVIOUS
<1>4. n + i \notin J
  <2> SUFFICES ASSUME n + i \in J PROVE FALSE
    OBVIOUS
  <2>1. i + 1 \in Nat /\ n .. n + (i + 1) - 1 \subseteq J
    BY <1>3
  <2> QED BY <1>2, <2>1
<1>5. ASSUME NEW j \in J
      PROVE  j \in n .. n + i - 1
  <2>1. n <= j /\ j \in Nat /\ n .. j \subseteq J
    OBVIOUS
  <2>2. ~ (n + i <= j)
    BY <1>3, <1>4, <2>1
  <2> QED BY <1>3, <2>1, <2>2
<1>6. J = n .. n + i - 1
  BY <1>3, <1>5
<1>7. PICK x \in Nat : x = n + i /\ n <= x
  BY <1>3
<1>8. x - 1 = n + i - 1
  BY <1>3, <1>7
<1> QED BY <1>6, <1>7, <1>8, Zenon

\* A set of numbers that is not empty has a least one.
LEMMA MinOf ==
  ASSUME NEW S \in SUBSET Nat, S # {}
  PROVE  Min(S) \in S /\ \A y \in S : Min(S) <= y
<1> DEFINE T == {n \in Nat : \A y \in S : n <= y}
<1>1. 0 \in T
  OBVIOUS
<1>2. PICK n \in T : n + 1 \notin T
  <2> SUFFICES ASSUME \A n \in T : n + 1 \in T PROVE FALSE
    OBVIOUS
  <2>1. Nat \subseteq T
    <3>1. \A n \in Nat : n \in T => n + 1 \in T
      OBVIOUS
    <3> HIDE DEF T
    <3> QED BY <1>1, <3>1, InductionOverNat, Zenon
  <2>2. PICK y \in S : TRUE
    OBVIOUS
  <2>3. y + 1 \in T
    BY <2>1
  <2> QED BY <2>3
<1>3. PICK y \in S : ~ (n + 1 <= y)
  BY <1>2
<1>4. y = n /\ \A z \in S : n <= z
  BY <1>3
<1>5. \E x \in S : \A z \in S : x =< z
  BY <1>4
<1> QED BY <1>5, Zenon DEF Min

-----------------------------------------------------------------------------
(* Leaves in the order of their indices *)

\* Each index of a set of leaves belongs to one of them.
OneEach(L) == \A e, f \in L : e.idx = f.idx => e = f

\* A set of leaves that has each index from a to b - 1 once.
Run(L, a, b) ==
  /\ L \subseteq Leaf
  /\ OneEach(L)
  /\ {e.idx : e \in L} = a .. b - 1

\* Leaves with an index each, below a bound, are finitely many.
LEMMA FewLeaves ==
  ASSUME NEW L \in SUBSET Leaf, OneEach(L), NEW bound \in Nat,
         \A e \in L : e.idx < bound
  PROVE  IsFiniteSet(L)
<1> DEFINE f == [e \in L |-> e.idx]
<1>1. f \in [L -> 0 .. bound]
  BY DEF Leaf
<1>2. f \in Injection(L, 0 .. bound)
  BY <1>1 DEF Injection, IsInjective, OneEach
<1>3. IsFiniteSet(0 .. bound)
  BY FS_Interval
<1> HIDE DEF f
<1> QED BY <1>2, <1>3, FS_Injection

\* A run has as many leaves as indices.
LEMMA RunCount ==
  ASSUME NEW L, NEW a \in Nat, NEW b \in Nat, a <= b, Run(L, a, b)
  PROVE  IsFiniteSet(L) /\ Cardinality(L) = b - a
<1> DEFINE f == [e \in L |-> e.idx]
<1>1. f \in [L -> a .. b - 1] /\ \A e \in L : f[e] = e.idx
  BY DEF Run
<1>2. f \in Injection(L, a .. b - 1)
  BY <1>1 DEF Injection, IsInjective, Run, OneEach
<1>3. f \in Surjection(L, a .. b - 1)
  <2>1. ASSUME NEW j \in a .. b - 1
        PROVE  \E e \in L : f[e] = j
    <3>1. PICK e \in L : e.idx = j
      BY DEF Run
    <3> QED BY <3>1
  <2> QED BY <1>1, <2>1 DEF Surjection
<1> HIDE DEF f
<1>4. IsFiniteSet(a .. b - 1) /\ Cardinality(a .. b - 1) = b - a
  <2>1. a \in Int /\ b - 1 \in Int
    OBVIOUS
  <2>2. IsFiniteSet(a .. b - 1)
        /\ Cardinality(a .. b - 1) = IF a > b - 1 THEN 0 ELSE (b - 1) - a + 1
    BY <2>1, FS_Interval
  <2> QED BY <2>2
<1> QED BY <1>2, <1>3, <1>4, FS_Injection

\* InOrder lists the leaves of a run by index.
LEMMA RunInOrder ==
  ASSUME NEW L, NEW a \in Nat, NEW b \in Nat, a <= b, Run(L, a, b)
  PROVE  /\ InOrder(L) \in Seq(Signature)
         /\ Len(InOrder(L)) = b - a
         /\ \A e \in L : InOrder(L)[e.idx - a + 1] = e.signature
<1> DEFINE below(e) == {f \in L : f.idx < e.idx}
<1>1. Cardinality(L) = b - a
  BY RunCount
<1>2. ASSUME NEW e \in L
      PROVE  e.idx \in a .. b - 1 /\ Cardinality(below(e)) = e.idx - a
  <2>1. e.idx \in a .. b - 1 /\ \A f \in L : f.idx \in a .. b - 1
    BY DEF Run
  <2>2. {f.idx : f \in below(e)} = a .. e.idx - 1
    <3>1. ASSUME NEW j \in a .. e.idx - 1
          PROVE  \E f \in below(e) : f.idx = j
      <4>1. PICK f \in L : f.idx = j
        <5>1. j \in a .. b - 1
          BY <2>1
        <5> QED BY <5>1 DEF Run
      <4> QED BY <4>1, <2>1
    <3>2. ASSUME NEW f \in below(e)
          PROVE  f.idx \in a .. e.idx - 1
      BY <2>1
    <3> QED BY <3>1, <3>2
  <2>3. Run(below(e), a, e.idx)
    BY <2>2 DEF Run, OneEach
  <2>4. e.idx \in Nat /\ a <= e.idx
    BY <2>1
  <2> HIDE DEF below
  <2> QED BY <2>1, <2>3, <2>4, RunCount
<1> DEFINE At(i) == CHOOSE e \in L : Cardinality(below(e)) = i - 1
<1>3. ASSUME NEW e \in L
      PROVE  At(e.idx - a + 1) = e
  <2> DEFINE i == e.idx - a + 1
  <2>1. Cardinality(below(e)) = i - 1
    BY <1>2
  <2>2. At(i) \in L /\ Cardinality(below(At(i))) = i - 1
    BY <2>1
  <2>3. At(i).idx = e.idx
    <3> HIDE DEF At, below
    <3>1. At(i).idx \in a .. b - 1 /\ Cardinality(below(At(i))) = At(i).idx - a
      BY <1>2, <2>2
    <3>2. e.idx \in a .. b - 1
      BY <1>2
    <3> QED BY <2>2, <3>1, <3>2
  <2> HIDE DEF At, below, i
  <2>4. At(i) = e
    BY <2>2, <2>3 DEF Run, OneEach
  <2> QED BY <2>4 DEF i
<1>4. InOrder(L) = [i \in 1 .. b - a |-> At(i).signature]
  BY <1>1 DEF InOrder
<1> HIDE DEF At, below
<1>5. ASSUME NEW e \in L
      PROVE  e.idx - a + 1 \in 1 .. b - a /\ InOrder(L)[e.idx - a + 1] = e.signature
  <2>1. e.idx \in a .. b - 1
    BY <1>2
  <2>2. e.idx - a + 1 \in 1 .. b - a
    BY <2>1
  <2> QED BY <1>3, <1>4, <2>2
<1>6. ASSUME NEW i \in 1 .. b - a
      PROVE  At(i).signature \in Signature
  <2>1. i + a - 1 \in a .. b - 1
    OBVIOUS
  <2>2. PICK e \in L : e.idx = i + a - 1
    BY <2>1 DEF Run
  <2>3. e.idx - a + 1 = i
    BY <2>2
  <2>4. At(i) = e
    BY <1>3, <2>3
  <2> QED BY <2>4 DEF Run, Leaf
<1>7. b - a \in Nat
  OBVIOUS
<1> QED BY <1>4, <1>5, <1>6, <1>7

\* Two runs, one from where the other ends, are one run, listed one after the
\* other.
LEMMA RunsJoin ==
  ASSUME NEW L, NEW M, NEW a \in Nat, NEW b \in Nat, a <= b,
         Run(L, 0, a), Run(M, a, b)
  PROVE  /\ Run(L \cup M, 0, b)
         /\ InOrder(L \cup M) = InOrder(L) \o InOrder(M)
<1>1. /\ \A e \in L : e.idx \in 0 .. a - 1 /\ e \in Leaf
      /\ \A e \in M : e.idx \in a .. b - 1 /\ e \in Leaf
  BY DEF Run
<1>2. OneEach(L \cup M)
  <2> SUFFICES ASSUME NEW e \in L \cup M, NEW f \in L \cup M, e.idx = f.idx
               PROVE  e = f
    BY DEF OneEach
  <2>1. (e \in L /\ f \in L) \/ (e \in M /\ f \in M)
    BY <1>1
  <2> QED BY <2>1 DEF Run, OneEach
<1>3. {e.idx : e \in L \cup M} = 0 .. b - 1
  <2>1. {e.idx : e \in L \cup M} = {e.idx : e \in L} \cup {e.idx : e \in M}
    OBVIOUS
  <2> QED BY <2>1 DEF Run
<1>4. Run(L \cup M, 0, b)
  BY <1>1, <1>2, <1>3 DEF Run
<1> DEFINE u == InOrder(L \cup M)
           v == InOrder(L)
           w == InOrder(M)
<1>5. /\ u \in Seq(Signature) /\ Len(u) = b
      /\ \A e \in L \cup M : u[e.idx + 1] = e.signature
  <2>1. u \in Seq(Signature) /\ Len(u) = b - 0
        /\ \A e \in L \cup M : u[e.idx - 0 + 1] = e.signature
    <3>1. 0 \in Nat /\ 0 <= b
      OBVIOUS
    <3> QED BY <1>4, <3>1, RunInOrder
  <2>2. \A e \in L \cup M : e.idx - 0 + 1 = e.idx + 1
    BY <1>1
  <2> HIDE DEF u
  <2> QED BY <2>1, <2>2
<1>6. /\ v \in Seq(Signature) /\ Len(v) = a
      /\ \A e \in L : v[e.idx + 1] = e.signature
  <2>1. v \in Seq(Signature) /\ Len(v) = a - 0
        /\ \A e \in L : v[e.idx - 0 + 1] = e.signature
    BY RunInOrder
  <2>2. \A e \in L : e.idx - 0 + 1 = e.idx + 1
    BY <1>1
  <2> HIDE DEF v
  <2> QED BY <2>1, <2>2
<1>7. /\ w \in Seq(Signature) /\ Len(w) = b - a
      /\ \A e \in M : w[e.idx - a + 1] = e.signature
  BY RunInOrder
<1> HIDE DEF u, v, w
<1>8. v \o w \in Seq(Signature) /\ Len(v \o w) = b
  BY <1>6, <1>7
<1>9. ASSUME NEW i \in 1 .. b
      PROVE  u[i] = (v \o w)[i]
  <2>1. i - 1 \in 0 .. b - 1
    OBVIOUS
  <2>2. PICK e \in L \cup M : e.idx = i - 1
    BY <1>3, <2>1
  <2>3. u[i] = e.signature
    BY <1>5, <2>2
  <2>4. CASE e \in L
    <3>1. i <= Len(v) /\ v[i] = e.signature
      BY <1>1, <1>6, <2>2, <2>4
    <3> QED BY <1>6, <1>7, <2>3, <3>1
  <2>5. CASE e \in M
    <3>1. i > a /\ w[i - a] = e.signature
      <4>1. e.idx - a + 1 = i - a /\ i > a
        BY <1>1, <2>2, <2>5
      <4> QED BY <1>7, <2>5, <4>1
    <3>2. (v \o w)[i] = w[i - a]
      BY <1>6, <1>7, <3>1
    <3> QED BY <2>3, <3>1, <3>2
  <2> QED BY <2>2, <2>4, <2>5
<1>10. u = v \o w
  BY <1>5, <1>8, <1>9
<1> QED BY <1>4, <1>10 DEF u, v, w

-----------------------------------------------------------------------------
(* The leaves of the chain *)

TxType == [mint : Mints \cup {None}, idx : Nat]

LEMMA ChainType ==
  ASSUME TypeOK, ChainInv
  PROVE  /\ chain \in Seq(TxType) /\ Len(chain) \in Nat /\ Len(chain) <= MaxTx
         /\ DOMAIN chain = 1 .. Len(chain) /\ DOMAIN chain \subseteq Signature
         /\ \A s \in DOMAIN chain : chain[s] \in TxType
<1>1. chain \in Seq(TxType) /\ Len(chain) <= MaxTx
  BY DEF TypeOK, ChainInv, TxType
<1>2. Len(chain) \in Nat /\ DOMAIN chain = 1 .. Len(chain)
      /\ \A s \in DOMAIN chain : chain[s] \in TxType
  BY <1>1
<1>3. DOMAIN chain \subseteq Signature
  BY <1>1, <1>2, BoundsAssumption DEF Signature
<1> QED BY <1>1, <1>2, <1>3

LEMMA EmittedLeaves ==
  ASSUME TypeOK, ChainInv, NEW s \in DOMAIN chain
  PROVE  /\ Emitted(s) \in Seq(Leaf)
         /\ \A e : e \in ToSet(Emitted(s)) <=>
              /\ e \in Leaf /\ e.signature = s /\ e.mint = chain[s].mint
              /\ e.idx \in {chain[s].idx, chain[s].idx + 1}
<1>1. chain[s] \in TxType /\ s \in Signature
  BY ChainType
<1>2. CASE chain[s].mint = None
  <2>1. Emitted(s) = <<>>
    BY <1>2 DEF Emitted
  <2>2. ToSet(Emitted(s)) = {}
    BY <2>1 DEF ToSet
  <2> QED BY <1>2, <2>1, <2>2, BoundsAssumption DEF Leaf
<1>3. CASE chain[s].mint # None
  <2> DEFINE m == chain[s].mint
             i == chain[s].idx
             one == [mint |-> m, idx |-> i, signature |-> s]
             two == [mint |-> m, idx |-> i + 1, signature |-> s]
  <2>1. m \in Mints /\ i \in Nat
    BY <1>1, <1>3 DEF TxType
  <2>2. one \in Leaf /\ two \in Leaf
    BY <1>1, <2>1 DEF Leaf
  <2>3. Emitted(s) = <<one, two>>
    BY <1>3 DEF Emitted
  <2> HIDE DEF m, i
  <2>4. ToSet(Emitted(s)) = {one, two}
    <3> HIDE DEF one, two
    <3> QED BY <2>3 DEF ToSet
  <2>5. ASSUME NEW e \in Leaf, e.signature = s, e.mint = m, e.idx \in {i, i + 1}
        PROVE  e \in {one, two}
    BY <2>5 DEF Leaf
  <2>6. Emitted(s) \in Seq(Leaf)
    <3> HIDE DEF one, two
    <3> QED BY <2>2, <2>3
  <2> QED BY <2>2, <2>4, <2>5, <2>6 DEF m, i
<1> QED BY <1>2, <1>3

LEMMA ChainLeaf ==
  ASSUME TypeOK, ChainInv
  PROVE  /\ ChainLeaves \subseteq Leaf
         /\ \A e \in Leaf : e \in ChainLeaves <=>
              /\ e.signature \in DOMAIN chain
              /\ e.mint = chain[e.signature].mint
              /\ e.idx \in {chain[e.signature].idx, chain[e.signature].idx + 1}
         /\ \A e : e \in ChainLeaves <=>
              e.signature \in DOMAIN chain /\ e \in ToSet(Emitted(e.signature))
<1>1. \A e : e \in ChainLeaves <=> \E s \in DOMAIN chain : e \in ToSet(Emitted(s))
  BY DEF ChainLeaves
<1>2. \A e, s : s \in DOMAIN chain =>
        (e \in ToSet(Emitted(s)) <=>
              /\ e \in Leaf /\ e.signature = s /\ e.mint = chain[s].mint
              /\ e.idx \in {chain[s].idx, chain[s].idx + 1})
  BY EmittedLeaves
<1>3. \A e : e \in ChainLeaves <=>
        e.signature \in DOMAIN chain /\ e \in ToSet(Emitted(e.signature))
  <2> SUFFICES ASSUME NEW e
               PROVE  e \in ChainLeaves <=>
                        e.signature \in DOMAIN chain /\ e \in ToSet(Emitted(e.signature))
    OBVIOUS
  <2>1. ASSUME e \in ChainLeaves
        PROVE  e.signature \in DOMAIN chain /\ e \in ToSet(Emitted(e.signature))
    <3>1. PICK s \in DOMAIN chain : e \in ToSet(Emitted(s))
      BY <1>1, <2>1
    <3>2. e.signature = s
      BY <1>2, <3>1
    <3> QED BY <3>1, <3>2
  <2> QED BY <1>1, <2>1
<1>4. ASSUME NEW e
      PROVE  e \in ChainLeaves <=>
              /\ e \in Leaf /\ e.signature \in DOMAIN chain
              /\ e.mint = chain[e.signature].mint
              /\ e.idx \in {chain[e.signature].idx, chain[e.signature].idx + 1}
  BY <1>2, <1>3, Zenon
<1>5. ChainLeaves \subseteq Leaf
  BY <1>4, Zenon
<1> QED BY <1>3, <1>4, <1>5, Zenon

\* The leaves of a pool: an index each, none left out, finitely many.
LEMMA ChainIndices ==
  ASSUME TypeOK, ChainInv
  PROVE  /\ \A e, f \in ChainLeaves : e.mint = f.mint /\ e.idx = f.idx => e = f
         /\ \A e \in ChainLeaves : \A j \in 0 .. e.idx :
              \E f \in ChainLeaves : f.mint = e.mint /\ f.idx = j
         /\ \A m \in Mints : \E bound \in Nat :
              \A e \in ChainLeaves : e.mint = m => e.idx < bound
<1>1. \A s \in DOMAIN chain : chain[s].idx \in Nat
  BY ChainType DEF TxType
<1>2. \A m \in Mints : IsFiniteSet(Txs(m)) /\ Cardinality(Txs(m)) \in Nat
  <2> TAKE m \in Mints
  <2>1. IsFiniteSet(1 .. Len(chain))
    BY ChainType, FS_Interval
  <2>2. Txs(m) \in SUBSET (1 .. Len(chain))
    BY ChainType DEF Txs
  <2> QED BY <2>1, <2>2, FS_Subset, FS_CardinalityType
<1>3. \A e \in ChainLeaves :
        /\ e \in Leaf /\ e.mint \in Mints /\ e.idx \in Nat
        /\ e.signature \in Txs(e.mint)
        /\ e.idx \in {chain[e.signature].idx, chain[e.signature].idx + 1}
  BY ChainLeaf DEF Leaf, Txs
<1>4. ASSUME NEW m \in Mints, NEW s \in Txs(m)
      PROVE  \E i \in 0 .. Cardinality(Txs(m)) - 1 : chain[s].idx = 2 * i
  <2>1. chain[s].idx \in Starts(m)
    BY DEF Starts
  <2> QED BY <2>1 DEF ChainInv
<1>5. ASSUME NEW e \in ChainLeaves, NEW f \in ChainLeaves, e.mint = f.mint, e.idx = f.idx
      PROVE  e = f
  <2>1. e.signature \in Txs(e.mint) /\ f.signature \in Txs(e.mint) /\ e.mint \in Mints
    BY <1>3, <1>5
  <2>2. PICK i \in 0 .. Cardinality(Txs(e.mint)) - 1 : chain[e.signature].idx = 2 * i
    BY <1>4, <2>1
  <2>3. PICK j \in 0 .. Cardinality(Txs(e.mint)) - 1 : chain[f.signature].idx = 2 * j
    BY <1>4, <2>1
  <2>4. i \in Nat /\ j \in Nat
    BY <1>2, <2>1
  <2>5. e.idx \in {2 * i, 2 * i + 1} /\ f.idx \in {2 * j, 2 * j + 1}
    BY <1>3, <2>2, <2>3
  <2>6. i = j
    BY <1>5, <2>4, <2>5
  <2>7. e.signature = f.signature
    BY <2>1, <2>2, <2>3, <2>6 DEF ChainInv
  <2> QED BY <1>3, <1>5, <2>7 DEF Leaf
<1>6. ASSUME NEW e \in ChainLeaves, NEW j \in 0 .. e.idx
      PROVE  \E f \in ChainLeaves : f.mint = e.mint /\ f.idx = j
  <2> DEFINE m == e.mint
  <2>1. m \in Mints /\ e.signature \in Txs(m) /\ e.idx \in Nat
    BY <1>3
  <2>2. PICK i \in 0 .. Cardinality(Txs(m)) - 1 : chain[e.signature].idx = 2 * i
    BY <1>4, <2>1
  <2>3. i \in Nat /\ e.idx <= 2 * i + 1
    BY <1>2, <1>3, <2>1, <2>2
  <2>4. PICK k \in Nat : (j = 2 * k \/ j = 2 * k + 1) /\ k <= i
    <3>1. j \div 2 \in Nat /\ (j = 2 * (j \div 2) \/ j = 2 * (j \div 2) + 1)
          /\ j \div 2 <= i
      BY <2>1, <2>3
    <3> QED BY <3>1
  <2>5. k \in 0 .. Cardinality(Txs(m)) - 1
    BY <1>2, <2>1, <2>2, <2>4
  <2>6. PICK s \in Txs(m) : chain[s].idx = 2 * k
    <3>1. 2 * k \in Starts(m)
      BY <2>1, <2>5 DEF ChainInv
    <3> QED BY <3>1 DEF Starts
  <2>7. s \in DOMAIN chain /\ chain[s].mint = m /\ s \in Signature
    BY ChainType DEF Txs
  <2>8. PICK f : f = [mint |-> m, idx |-> j, signature |-> s]
    OBVIOUS
  <2>9. f \in Leaf /\ f.mint = m /\ f.idx = j /\ f.signature = s
    BY <2>1, <2>7, <2>8 DEF Leaf
  <2>10. f.idx \in {chain[s].idx, chain[s].idx + 1}
    BY <2>4, <2>6, <2>9
  <2>11. f \in ChainLeaves
    BY <2>7, <2>9, <2>10, ChainLeaf
  <2> QED BY <2>9, <2>11
<1>7. ASSUME NEW m \in Mints
      PROVE  \E bound \in Nat : \A e \in ChainLeaves : e.mint = m => e.idx < bound
  <2>1. PICK bound \in Nat : bound = 2 * Cardinality(Txs(m))
    BY <1>2
  <2>2. ASSUME NEW e \in ChainLeaves, e.mint = m
        PROVE  e.idx < bound
    <3>1. e.signature \in Txs(m)
      BY <1>3, <2>2
    <3>2. PICK i \in 0 .. Cardinality(Txs(m)) - 1 : chain[e.signature].idx = 2 * i
      BY <1>4, <3>1
    <3> QED BY <1>2, <1>3, <2>1, <3>2
  <2> QED BY <2>2
<1> QED BY <1>5, <1>6, <1>7

-----------------------------------------------------------------------------
(* What applyLeaves inserts *)

\* TableIsPrefix of any rows.
Prefix(rows) ==
  /\ rows \subseteq ChainLeaves
  /\ \A m \in Mints : {row.idx : row \in Stored(rows, m)}
                        = 0 .. Cardinality(Stored(rows, m)) - 1

LEMMA PrefixRun ==
  ASSUME TypeOK, ChainInv, NEW rows, Prefix(rows), NEW m \in Mints
  PROVE  /\ Cardinality(Stored(rows, m)) \in Nat
         /\ Run(Stored(rows, m), 0, Cardinality(Stored(rows, m)))
<1> DEFINE L == Stored(rows, m)
<1>1. L \subseteq ChainLeaves /\ \A e \in L : e.mint = m
  BY DEF Prefix, Stored
<1>2. L \subseteq Leaf /\ OneEach(L)
  BY <1>1, ChainLeaf, ChainIndices DEF OneEach
<1>3. PICK bound \in Nat : \A e \in L : e.idx < bound
  BY <1>1, ChainIndices
<1>4. {e.idx : e \in L} = 0 .. Cardinality(L) - 1
  BY DEF Prefix
<1> HIDE DEF L
<1>5. IsFiniteSet(L)
  BY <1>2, <1>3, FewLeaves
<1>6. Cardinality(L) \in Nat
  BY <1>5, FS_CardinalityType
<1> QED BY <1>2, <1>4, <1>6 DEF Run, L

\* Rows whose indices are the first x are a prefix.
LEMMA RunPrefix ==
  ASSUME TypeOK, ChainInv, NEW rows, rows \subseteq ChainLeaves,
         \A m \in Mints : \E x \in Nat : Run(Stored(rows, m), 0, x)
  PROVE  Prefix(rows)
<1> SUFFICES ASSUME NEW m \in Mints
             PROVE  {row.idx : row \in Stored(rows, m)}
                      = 0 .. Cardinality(Stored(rows, m)) - 1
  BY DEF Prefix
<1>1. PICK x \in Nat : Run(Stored(rows, m), 0, x)
  OBVIOUS
<1>2. 0 \in Nat /\ 0 <= x
  OBVIOUS
<1>3. Cardinality(Stored(rows, m)) = x
  <2>1. Cardinality(Stored(rows, m)) = x - 0
    BY <1>1, <1>2, RunCount
  <2> QED BY <2>1
<1> QED BY <1>1, <1>3 DEF Run

\* The tree of a pool is as long as its table.
LEMMA TreeLength ==
  ASSUME TypeOK, ChainInv, TableIsPrefix, TreeIsTable, NEW m \in Mints
  PROVE  /\ Len(trees[m]) \in Nat
         /\ Run(Stored(db.rows, m), 0, Len(trees[m]))
         /\ trees[m] = InOrder(Stored(db.rows, m))
<1> DEFINE L == Stored(db.rows, m)
<1>1. Cardinality(L) \in Nat /\ Run(L, 0, Cardinality(L))
  BY PrefixRun DEF TableIsPrefix, Prefix
<1>2. trees[m] = InOrder(L)
  BY DEF TreeIsTable, Loaded
<1>3. Len(InOrder(L)) = Cardinality(L) - 0
  <2>1. 0 \in Nat /\ 0 <= Cardinality(L)
    BY <1>1
  <2> HIDE DEF L
  <2> QED BY <1>1, <2>1, RunInOrder
<1>4. Len(trees[m]) = Cardinality(L)
  BY <1>1, <1>2, <1>3
<1> QED BY <1>1, <1>2, <1>4

\* A row's index is below the length of the tree, and no other leaf of the
\* pool is.
LEMMA RowIffBelow ==
  ASSUME TypeOK, ChainInv, TableIsPrefix, TreeIsTable, NEW e \in ChainLeaves
  PROVE  /\ e.mint \in Mints /\ e.idx \in Nat /\ Len(trees[e.mint]) \in Nat
         /\ e \in db.rows <=> e.idx < Len(trees[e.mint])
<1> DEFINE m == e.mint
<1>1. m \in Mints /\ e.idx \in Nat
  BY ChainLeaf DEF Leaf
<1>2. Len(trees[m]) \in Nat /\ Run(Stored(db.rows, m), 0, Len(trees[m]))
  BY <1>1, TreeLength
<1>3. ASSUME e \in db.rows
      PROVE  e.idx < Len(trees[m])
  <2>1. e \in Stored(db.rows, m)
    BY <1>3 DEF Stored
  <2>2. e.idx \in 0 .. Len(trees[m]) - 1
    BY <1>2, <2>1 DEF Run
  <2> QED BY <1>2, <2>2
<1>4. ASSUME e.idx < Len(trees[m])
      PROVE  e \in db.rows
  <2>1. e.idx \in 0 .. Len(trees[m]) - 1
    BY <1>1, <1>2, <1>4
  <2>2. PICK f \in Stored(db.rows, m) : f.idx = e.idx
    BY <1>2, <2>1 DEF Run
  <2>3. f \in db.rows /\ f \in ChainLeaves /\ f.mint = m
    BY DEF Stored, TableIsPrefix
  <2>4. f = e
    BY <2>2, <2>3, ChainIndices
  <2> QED BY <2>3, <2>4
<1> QED BY <1>1, <1>2, <1>3, <1>4

\* A leaf is inserted exactly when every leaf of its pool from the end of the
\* tree up to it is among the events.
LEMMA InsertedIs ==
  ASSUME TypeOK, ChainInv, TableIsPrefix, TreeIsTable,
         NEW events, ToSet(events) \subseteq ChainLeaves, NEW m \in Mints
  PROVE  /\ Inserted(events, m) \subseteq EventsOf(events, m)
         /\ EventsOf(events, m) \subseteq ChainLeaves
         /\ \A e \in EventsOf(events, m) : e.mint = m
         /\ \A e \in EventsOf(events, m) :
              e \in Inserted(events, m) <=>
                /\ Len(trees[m]) <= e.idx
                /\ \A j \in Len(trees[m]) .. e.idx :
                     \E f \in EventsOf(events, m) : f.idx = j
<1> DEFINE n == Len(trees[m])
           new == {e \in EventsOf(events, m) : e.idx >= n}
           free == {e.idx : e \in new} \ {row.idx : row \in Stored(db.rows, m)}
<1>1. EventsOf(events, m) \subseteq ChainLeaves /\ \A e \in EventsOf(events, m) : e.mint = m
  BY DEF EventsOf
<1>2. Inserted(events, m) = {e \in new : n .. e.idx \subseteq free}
  BY DEF Inserted
<1>3. n \in Nat /\ {row.idx : row \in Stored(db.rows, m)} = 0 .. n - 1
  BY TreeLength DEF Run
<1>4. \A e \in EventsOf(events, m) : e.idx \in Nat
  BY <1>1, ChainLeaf DEF Leaf
<1> HIDE DEF n
<1>5. \A j \in Nat : j \in free <=> n <= j /\ \E f \in EventsOf(events, m) : f.idx = j
  BY <1>3, <1>4
<1>6. ASSUME NEW e \in EventsOf(events, m)
      PROVE  e \in Inserted(events, m) <=>
               n <= e.idx /\ \A j \in n .. e.idx : \E f \in EventsOf(events, m) : f.idx = j
  <2>1. \A j \in n .. e.idx : j \in Nat /\ n <= j
    BY <1>3, <1>4
  <2>2. n .. e.idx \subseteq free
          <=> \A j \in n .. e.idx : \E f \in EventsOf(events, m) : f.idx = j
    <3> HIDE DEF free
    <3> QED BY <1>5, <2>1
  <2>3. e \in new <=> n <= e.idx
    BY <1>3, <1>4
  <2> HIDE DEF new, free
  <2> QED BY <1>2, <2>2, <2>3
<1>7. Inserted(events, m) \subseteq EventsOf(events, m)
  BY <1>2
<1> QED BY <1>1, <1>6, <1>7 DEF n

\* What is inserted, up to any point, continues the tree.
LEMMA CutRun ==
  ASSUME TypeOK, ChainInv, TableIsPrefix, TreeIsTable,
         NEW events, ToSet(events) \subseteq ChainLeaves, NEW m \in Mints,
         NEW L \in SUBSET Inserted(events, m),
         \A e \in L : \A f \in Inserted(events, m) : f.idx <= e.idx => f \in L
  PROVE  \E x \in Nat : Len(trees[m]) <= x /\ Run(L, Len(trees[m]), x)
<1> DEFINE n == Len(trees[m])
           J == {e.idx : e \in L}
<1>1. n \in Nat
  BY TreeLength
<1>2. /\ L \subseteq EventsOf(events, m) /\ EventsOf(events, m) \subseteq ChainLeaves
      /\ \A e \in EventsOf(events, m) : e.mint = m /\ e.idx \in Nat
  BY InsertedIs, ChainLeaf DEF Leaf
<1>3. L \subseteq Leaf /\ OneEach(L)
  BY <1>2, ChainLeaf, ChainIndices DEF OneEach
<1>4. PICK bound \in Nat : \A e \in L : e.idx < bound
  BY <1>2, ChainIndices
<1>5. ASSUME NEW e \in L
      PROVE  n <= e.idx /\ n .. e.idx \subseteq J
  <2>1. e \in Inserted(events, m) /\ e \in EventsOf(events, m) /\ e.idx \in Nat
    BY <1>2
  <2>2. n <= e.idx /\ \A j \in n .. e.idx : \E f \in EventsOf(events, m) : f.idx = j
    BY <2>1, InsertedIs
  <2>3. ASSUME NEW j \in n .. e.idx
        PROVE  j \in J
    <3>1. PICK f \in EventsOf(events, m) : f.idx = j
      BY <2>2
    <3>2. n <= f.idx /\ f.idx <= e.idx /\ \A i \in n .. f.idx : i \in n .. e.idx
      BY <1>1, <2>1, <3>1
    <3>3. f \in Inserted(events, m)
      BY <2>2, <3>2, InsertedIs
    <3>4. f \in L
      BY <3>2, <3>3
    <3> QED BY <3>1, <3>4
  <2> QED BY <2>2, <2>3
<1>6. J \subseteq Nat /\ \A j \in J : n <= j /\ j < bound /\ n .. j \subseteq J
  <2>1. ASSUME NEW j \in J
        PROVE  j \in Nat /\ n <= j /\ j < bound /\ n .. j \subseteq J
    <3>1. PICK e \in L : e.idx = j
      OBVIOUS
    <3> HIDE DEF J, n
    <3> QED BY <1>2, <1>4, <1>5, <3>1
  <2> HIDE DEF J, n
  <2> QED BY <2>1
<1>7. PICK x \in Nat : n <= x /\ J = n .. x - 1
  <2> HIDE DEF J, n
  <2> QED BY <1>1, <1>6, IntervalFrom
<1>8. Run(L, n, x)
  BY <1>3, <1>7 DEF Run
<1> QED BY <1>7, <1>8

\* Of each pool applyLeaves inserts all it can, or nothing.
LEMMA AppliedPools ==
  ASSUME TypeOK, ChainInv, TableIsPrefix, TreeIsTable,
         NEW events, ToSet(events) \subseteq ChainLeaves
  PROVE  /\ Applied(events) \subseteq ToSet(events)
         /\ \A e \in Applied(events) : e \in Inserted(events, e.mint) /\ e.mint \in Mints
         /\ \A e \in Applied(events) : Inserted(events, e.mint) \subseteq Applied(events)
<1>1. PICK P \in SUBSET Mints : Applied(events) = UNION {Inserted(events, m) : m \in P}
  BY DEF Applied
<1>2. ASSUME NEW m \in Mints, NEW e \in Inserted(events, m)
      PROVE  e \in ToSet(events) /\ e.mint = m
  <2>1. e \in EventsOf(events, m)
    BY InsertedIs
  <2> QED BY <2>1 DEF EventsOf
<1>3. ASSUME NEW e \in Applied(events)
      PROVE  /\ e \in ToSet(events) /\ e \in Inserted(events, e.mint) /\ e.mint \in Mints
             /\ Inserted(events, e.mint) \subseteq Applied(events)
  <2>1. PICK m \in P : e \in Inserted(events, m)
    BY <1>1
  <2>2. e.mint = m /\ e \in ToSet(events)
    BY <1>2, <2>1
  <2> QED BY <1>1, <2>1, <2>2
<1> QED BY <1>3

\* Any part of what is inserted that leaves out no leaf before another of its
\* pool keeps the table a prefix, and the trees grow by it as the table does.
LEMMA CutKeepsPrefix ==
  ASSUME TypeOK, ChainInv, TableIsPrefix, TreeIsTable,
         NEW events, ToSet(events) \subseteq ChainLeaves,
         NEW L \in SUBSET Applied(events),
         \A e \in L : \A f \in Applied(events) :
           e.mint = f.mint /\ f.idx <= e.idx => f \in L
  PROVE  /\ Prefix(db.rows \cup L)
         /\ \A m \in Mints :
              InOrder(Stored(db.rows \cup L, m)) = trees[m] \o InOrder(Stored(L, m))
<1>1. ASSUME NEW m \in Mints
      PROVE  /\ \E x \in Nat : Run(Stored(db.rows \cup L, m), 0, x)
             /\ InOrder(Stored(db.rows \cup L, m)) = trees[m] \o InOrder(Stored(L, m))
  <2> DEFINE n == Len(trees[m])
             M == Stored(L, m)
  <2>1. n \in Nat /\ Run(Stored(db.rows, m), 0, n) /\ trees[m] = InOrder(Stored(db.rows, m))
    BY TreeLength
  <2>2. M \in SUBSET Inserted(events, m)
    BY AppliedPools DEF Stored
  <2>3. \A e \in M : \A f \in Inserted(events, m) : f.idx <= e.idx => f \in M
    <3> SUFFICES ASSUME NEW e \in M, NEW f \in Inserted(events, m), f.idx <= e.idx
                 PROVE  f \in M
      OBVIOUS
    <3>1. e \in L /\ e.mint = m /\ e \in Applied(events)
      BY DEF Stored
    <3>2. f \in Applied(events)
      BY <3>1, AppliedPools
    <3>3. f.mint = m
      BY InsertedIs
    <3> QED BY <3>1, <3>2, <3>3 DEF Stored
  <2> HIDE DEF M, n
  <2>4. PICK x \in Nat : n <= x /\ Run(M, n, x)
    BY <2>2, <2>3, CutRun DEF n
  <2>5. Stored(db.rows \cup L, m) = Stored(db.rows, m) \cup M
    BY DEF Stored, M
  <2>6. /\ Run(Stored(db.rows, m) \cup M, 0, x)
        /\ InOrder(Stored(db.rows, m) \cup M) = InOrder(Stored(db.rows, m)) \o InOrder(M)
    BY <2>1, <2>4, RunsJoin
  <2> QED BY <2>1, <2>5, <2>6 DEF M
<1>2. db.rows \cup L \subseteq ChainLeaves
  BY AppliedPools DEF TableIsPrefix
<1>3. Prefix(db.rows \cup L)
  BY <1>1, <1>2, RunPrefix
<1> QED BY <1>1, <1>3

\* All of what is inserted is such a part.
LEMMA AppliedKeepsPrefix ==
  ASSUME TypeOK, ChainInv, TableIsPrefix, TreeIsTable,
         NEW events, ToSet(events) \subseteq ChainLeaves
  PROVE  Prefix(db.rows \cup Applied(events)) /\ Grown(events) = Loaded(db.rows \cup Applied(events))
<1> PICK L : L = Applied(events)
  OBVIOUS
<1>1. /\ Prefix(db.rows \cup L)
      /\ \A m \in Mints :
           InOrder(Stored(db.rows \cup L, m)) = trees[m] \o InOrder(Stored(L, m))
  BY CutKeepsPrefix
<1> QED BY <1>1 DEF Grown, Loaded

\* Trees built from a prefix have their type.
LEMMA LoadedType ==
  ASSUME TypeOK, ChainInv, NEW rows, Prefix(rows)
  PROVE  Loaded(rows) \in [Mints -> Seq(Signature)]
<1> SUFFICES ASSUME NEW m \in Mints PROVE InOrder(Stored(rows, m)) \in Seq(Signature)
  BY DEF Loaded
<1>1. Cardinality(Stored(rows, m)) \in Nat /\ Run(Stored(rows, m), 0, Cardinality(Stored(rows, m)))
  BY PrefixRun
<1>2. 0 \in Nat /\ 0 <= Cardinality(Stored(rows, m))
  BY <1>1
<1> QED BY <1>1, <1>2, RunInOrder

\* The next index after what is inserted is one that no event has.
LEMMA NextFree ==
  ASSUME TypeOK, ChainInv, TableIsPrefix, TreeIsTable,
         NEW events, ToSet(events) \subseteq ChainLeaves, NEW m \in Mints
  PROVE  \E x \in Nat :
           /\ Len(trees[m]) <= x
           /\ x = Len(trees[m]) + Cardinality(Inserted(events, m))
           /\ Run(Inserted(events, m), Len(trees[m]), x)
           /\ \A e \in EventsOf(events, m) : e.idx # x
<1> DEFINE n == Len(trees[m])
<1>1. n \in Nat
  BY TreeLength
<1>2. PICK x \in Nat : n <= x /\ Run(Inserted(events, m), n, x)
  <2> PICK L : L = Inserted(events, m)
    OBVIOUS
  <2> QED BY CutRun
<1> HIDE DEF n
<1>3. Cardinality(Inserted(events, m)) = x - n
  BY <1>1, <1>2, RunCount
<1>4. x = n + Cardinality(Inserted(events, m))
  BY <1>1, <1>3
<1>5. ASSUME NEW e \in EventsOf(events, m), e.idx = x
      PROVE  FALSE
  <2>1. ASSUME NEW j \in n .. e.idx
        PROVE  \E f \in EventsOf(events, m) : f.idx = j
    <3>1. CASE j = x
      BY <1>5, <3>1
    <3>2. CASE j # x
      <4>1. j \in n .. x - 1
        BY <1>1, <1>5, <3>2
      <4>2. PICK f \in Inserted(events, m) : f.idx = j
        BY <1>2, <4>1 DEF Run
      <4> QED BY <4>2, InsertedIs
    <3> QED BY <3>1, <3>2
  <2>2. e \in Inserted(events, m)
    BY <1>2, <1>5, <2>1, InsertedIs DEF n
  <2>3. e.idx \in n .. x - 1
    BY <1>2, <2>2 DEF Run
  <2> QED BY <1>5, <2>3
<1> QED BY <1>2, <1>4, <1>5 DEF n

\* Without a gap, every event is in the table or inserted.
LEMMA CompleteStores ==
  ASSUME TypeOK, ChainInv, TableIsPrefix, TreeIsTable,
         NEW events \in Seq(Leaf), ToSet(events) \subseteq ChainLeaves, Complete(events)
  PROVE  ToSet(events) \subseteq db.rows \cup Applied(events)
<1> SUFFICES ASSUME NEW e \in ToSet(events), e \notin db.rows
             PROVE  e \in Applied(events)
  OBVIOUS
<1> PICK m : m = e.mint
  OBVIOUS
<1>1. m \in Mints /\ e.idx \in Nat /\ Len(trees[m]) \in Nat /\ Len(trees[m]) <= e.idx
  BY RowIffBelow
<1>2. e \in EventsOf(events, m)
  BY DEF EventsOf
<1>3. PICK x \in Nat :
        /\ x = Len(trees[m]) + Cardinality(Inserted(events, m))
        /\ Run(Inserted(events, m), Len(trees[m]), x)
        /\ \A f \in EventsOf(events, m) : f.idx # x
  BY <1>1, NextFree
<1>4. ~ (e.idx > x)
  BY <1>1, <1>2, <1>3 DEF Complete, Missing
<1>5. e.idx \in Len(trees[m]) .. x - 1
  BY <1>1, <1>2, <1>3, <1>4
<1>6. e \in Inserted(events, m)
  <2>1. PICK f \in Inserted(events, m) : f.idx = e.idx
    BY <1>3, <1>5 DEF Run
  <2>2. f \in ChainLeaves /\ f.mint = m
    BY <1>1, InsertedIs
  <2>3. f = e
    BY <2>1, <2>2, ChainIndices
  <2> QED BY <2>3
<1>7. Rank(events, m) <= Len(events) /\ Rank(events, m) \in Nat
  <2>1. PICK i \in DOMAIN events : events[i] = e
    BY DEF ToSet
  <2> DEFINE R == {j \in DOMAIN events : events[j].mint = m} \cup {Len(events) + 1}
  <2>2. DOMAIN events = 1 .. Len(events) /\ Len(events) \in Nat
    OBVIOUS
  <2>3. R \in SUBSET Nat /\ R # {} /\ i \in R
    BY <2>1, <2>2
  <2>4. Rank(events, m) = Min(R)
    BY DEF Rank
  <2> HIDE DEF R
  <2>5. Min(R) \in R /\ Min(R) <= i
    BY <2>3, MinOf
  <2>6. Min(R) \in Nat
    BY <2>3, <2>5
  <2> QED BY <2>1, <2>2, <2>4, <2>5, <2>6
<1>8. Applied(events) = UNION {Inserted(events, k) : k \in {n \in Mints : Rank(events, n) <= Len(events)}}
  <2>1. {n \in Mints : Missing(events, n)} = {}
    BY DEF Complete
  <2>2. {Rank(events, k) : k \in {n \in Mints : Missing(events, n)}} \cup {Len(events)}
          = {Len(events)}
    BY <2>1
  <2>3. Min({Len(events)}) = Len(events)
    <3>1. {Len(events)} \in SUBSET Nat /\ {Len(events)} # {}
      OBVIOUS
    <3> QED BY <3>1, MinOf
  <2> QED BY <2>2, <2>3, Zenon DEF Applied
<1> QED BY <1>1, <1>6, <1>7, <1>8

\* Events that leave out no leaf of a pool before one of theirs but stored ones
\* have no gap.
LEMMA NoGap ==
  ASSUME TypeOK, ChainInv, TableIsPrefix, TreeIsTable,
         NEW events, ToSet(events) \subseteq ChainLeaves,
         \A e \in ToSet(events), f \in ChainLeaves :
           f.mint = e.mint /\ f.idx < e.idx => f \in db.rows \cup ToSet(events)
  PROVE  Complete(events)
<1> SUFFICES ASSUME NEW m \in Mints, Missing(events, m) PROVE FALSE
  BY DEF Complete
<1>1. PICK x \in Nat :
        /\ Len(trees[m]) <= x
        /\ x = Len(trees[m]) + Cardinality(Inserted(events, m))
        /\ \A f \in EventsOf(events, m) : f.idx # x
  BY NextFree
<1>2. PICK e \in EventsOf(events, m) : e.idx > x
  BY <1>1 DEF Missing
<1>3. e \in ToSet(events) /\ e.mint = m /\ e \in ChainLeaves
  BY DEF EventsOf
<1>4. x \in 0 .. e.idx /\ x < e.idx
  BY <1>2, <1>3, RowIffBelow
<1>5. PICK f \in ChainLeaves : f.mint = m /\ f.idx = x
  BY <1>3, <1>4, ChainIndices
<1>6. f \in db.rows \cup ToSet(events)
  BY <1>3, <1>4, <1>5
<1>7. f \notin db.rows
  BY <1>1, <1>5, RowIffBelow
<1>8. f \in EventsOf(events, m)
  BY <1>5, <1>6, <1>7 DEF EventsOf
<1> QED BY <1>1, <1>5, <1>8

-----------------------------------------------------------------------------
(* What is written *)

DbType == [rows : SUBSET Leaf, seen : SUBSET Signature, cursor : 0 .. MaxTx]

\* What the invariant asks of the database; `all`: every answer was complete.
Good(d, all) ==
  /\ d \in DbType /\ Prefix(d.rows)
  /\ d.seen \subseteq DOMAIN chain /\ d.cursor <= Len(chain)
  /\ 1 .. d.cursor \subseteq d.seen
  /\ all => \A s \in d.seen : ToSet(Emitted(s)) \subseteq d.rows

LEMMA DbIsGood ==
  ASSUME IInv
  PROVE  Good(db, nulls = 0)
  BY DEF IInv, Good, DbType, TypeOK, TableIsPrefix, Prefix, ListedInv,
         NothingUnseenBehindCursor, SeenIsStored

\* Rows that are leaves of the chain are rows.
LEMMA GoodRows ==
  ASSUME IInv, NEW all, Good(db, all), NEW rows, db.rows \subseteq rows, Prefix(rows)
  PROVE  Good([db EXCEPT !.rows = rows], all)
<1>1. rows \subseteq Leaf
  BY ChainLeaf DEF Prefix, IInv
<1> PICK d : d = [db EXCEPT !.rows = rows]
  OBVIOUS
<1>2. d \in DbType /\ d.rows = rows /\ d.seen = db.seen /\ d.cursor = db.cursor
  BY <1>1 DEF DbType, Good
<1> QED BY <1>2, Zenon DEF Good

\* The whole of what is written, and what is written when the marks are cut
\* off.
LEMMA CommittedIsGood ==
  ASSUME IInv, NEW all, all => nulls = 0,
         NEW events \in Seq(Leaf), ToSet(events) \subseteq ChainLeaves,
         NEW batch, batch \subseteq DOMAIN chain,
         all => \A s \in batch : ToSet(Emitted(s)) \subseteq ToSet(events),
         NEW last \in 0 .. MaxTx, last <= Len(chain), 1 .. last \subseteq db.seen \cup batch
  PROVE  /\ Good(Committed(events, batch, last), all)
         /\ Grown(events) = Loaded(Committed(events, batch, last).rows)
         /\ db.seen \subseteq Committed(events, batch, last).seen
<1>1. TypeOK /\ ChainInv /\ TableIsPrefix /\ TreeIsTable
  BY DEF IInv
<1>2. Good(db, all)
  BY DbIsGood DEF Good
<1> PICK rows : rows = db.rows \cup Applied(events)
  OBVIOUS
<1>3. Prefix(rows) /\ Grown(events) = Loaded(rows)
  BY <1>1, AppliedKeepsPrefix
<1>4. rows \subseteq Leaf
  BY <1>1, <1>3, ChainLeaf DEF Prefix
<1>5. CASE Complete(events)
  <2> PICK d : d = [rows |-> rows, seen |-> db.seen \cup batch, cursor |-> last]
    OBVIOUS
  <2>1. Committed(events, batch, last) = d
    BY <1>5 DEF Committed
  <2>2. d.rows = rows /\ d.seen = db.seen \cup batch /\ d.cursor = last
    OBVIOUS
  <2>3. db.seen \subseteq DOMAIN chain /\ DOMAIN chain \subseteq Signature
    BY <1>1, <1>2, ChainType DEF Good
  <2>4. d \in DbType
    BY <1>4, <2>3 DEF DbType
  <2>5. ToSet(events) \subseteq rows
    BY <1>1, <1>5, CompleteStores
  <2>6. ASSUME all, NEW s \in d.seen
        PROVE  ToSet(Emitted(s)) \subseteq rows
    BY <1>2, <2>2, <2>5, <2>6 DEF Good
  <2>7. Good(d, all)
    BY <1>3, <2>2, <2>3, <2>4, <2>6 DEF Good
  <2> QED BY <1>3, <2>1, <2>2, <2>7
<1>6. CASE ~ Complete(events)
  <2> PICK d : d = [db EXCEPT !.rows = rows]
    OBVIOUS
  <2>1. Committed(events, batch, last) = d
    BY <1>6 DEF Committed
  <2>2. d.rows = rows /\ d.seen = db.seen
    BY <1>1 DEF TypeOK
  <2>3. Good(d, all)
    BY <1>2, <1>3, GoodRows
  <2> QED BY <1>3, <2>1, <2>2, <2>3
<1> QED BY <1>5, <1>6

-----------------------------------------------------------------------------
(* What a poll is about to write *)

LEMMA ToSetOfJoin ==
  ASSUME NEW u \in Seq(Leaf), NEW v \in Seq(Leaf)
  PROVE  u \o v \in Seq(Leaf) /\ ToSet(u \o v) = ToSet(u) \cup ToSet(v)
<1>1. u \o v \in Seq(Leaf) /\ Len(u \o v) = Len(u) + Len(v)
  OBVIOUS
<1>2. /\ DOMAIN u = 1 .. Len(u) /\ DOMAIN v = 1 .. Len(v)
      /\ DOMAIN (u \o v) = 1 .. Len(u) + Len(v)
      /\ Len(u) \in Nat /\ Len(v) \in Nat
  OBVIOUS
<1>3. ASSUME NEW i \in DOMAIN (u \o v)
      PROVE  (u \o v)[i] \in ToSet(u) \cup ToSet(v)
  <2>1. CASE i <= Len(u)
    <3>1. (u \o v)[i] = u[i] /\ i \in DOMAIN u
      BY <1>2, <2>1
    <3> QED BY <3>1 DEF ToSet
  <2>2. CASE ~ (i <= Len(u))
    <3>1. (u \o v)[i] = v[i - Len(u)] /\ i - Len(u) \in DOMAIN v
      BY <1>2, <2>2
    <3> QED BY <3>1 DEF ToSet
  <2> QED BY <2>1, <2>2
<1>4. ASSUME NEW i \in DOMAIN u
      PROVE  u[i] \in ToSet(u \o v)
  <2>1. (u \o v)[i] = u[i] /\ i \in DOMAIN (u \o v)
    BY <1>2
  <2> QED BY <2>1 DEF ToSet
<1>5. ASSUME NEW i \in DOMAIN v
      PROVE  v[i] \in ToSet(u \o v)
  <2>1. (u \o v)[i + Len(u)] = v[i] /\ i + Len(u) \in DOMAIN (u \o v)
    BY <1>2
  <2> QED BY <2>1 DEF ToSet
<1>6. ToSet(u \o v) \subseteq ToSet(u) \cup ToSet(v)
  BY <1>3 DEF ToSet
<1>7. ToSet(u) \subseteq ToSet(u \o v) /\ ToSet(v) \subseteq ToSet(u \o v)
  <2> PICK w : w = ToSet(u \o v)
    OBVIOUS
  <2>1. (\A i \in DOMAIN u : u[i] \in w) /\ (\A i \in DOMAIN v : v[i] \in w)
    BY <1>4, <1>5
  <2>2. ToSet(u) \subseteq w /\ ToSet(v) \subseteq w
    BY <2>1 DEF ToSet
  <2> QED BY <2>2
<1> QED BY <1>1, <1>6, <1>7

\* What a poll knows after one more answer: s is the transaction it asked for.
LEMMA PollAfter ==
  ASSUME IInv, NEW s \in poller.todo, NEW answer \in {<<>>, Emitted(s)}
  PROVE  /\ s \in DOMAIN chain
         /\ poller.batch \subseteq DOMAIN chain /\ poller.batch \subseteq 1 .. poller.last
         /\ poller.last \in 0 .. MaxTx /\ poller.last <= Len(chain)
         /\ 1 .. poller.last \subseteq db.seen \cup poller.batch
         /\ poller.events \o answer \in Seq(Leaf)
         /\ ToSet(poller.events \o answer) \subseteq ChainLeaves
         /\ \A e \in ToSet(poller.events \o answer) :
              e.signature \in poller.batch /\ e \in ToSet(Emitted(e.signature))
         /\ nulls = 0 /\ answer = Emitted(s) =>
              \A t \in poller.batch \ (poller.todo \ {s}) :
                ToSet(Emitted(t)) \subseteq ToSet(poller.events \o answer)
<1>1. TypeOK /\ ChainInv /\ PollInv
  BY DEF IInv
<1>2. poller # Idle
  BY DEF Idle
<1>3. /\ poller.batch \subseteq 1 .. poller.last /\ poller.last \in 0 .. MaxTx
      /\ poller.last <= Len(chain) /\ s \in poller.batch
      /\ 1 .. poller.last \subseteq db.seen \cup poller.batch
  BY <1>1, <1>2 DEF PollInv, TypeOK
<1>4. poller.batch \subseteq DOMAIN chain /\ s \in DOMAIN chain
  BY <1>1, <1>3, ChainType
<1>5. Emitted(s) \in Seq(Leaf) /\ \A e \in ToSet(Emitted(s)) : e.signature = s
  BY <1>1, <1>4, EmittedLeaves
<1>6. answer \in Seq(Leaf) /\ ToSet(answer) \subseteq ToSet(Emitted(s))
  <2>1. ASSUME answer = <<>>
        PROVE  answer \in Seq(Leaf) /\ ToSet(answer) = {}
    BY <2>1 DEF ToSet
  <2> QED BY <1>5, <2>1
<1>7. poller.events \in Seq(Leaf)
  BY <1>1 DEF TypeOK
<1>8. /\ poller.events \o answer \in Seq(Leaf)
      /\ ToSet(poller.events \o answer) = ToSet(poller.events) \cup ToSet(answer)
  BY <1>6, <1>7, ToSetOfJoin
<1>9. \A e \in ToSet(poller.events \o answer) :
        e.signature \in poller.batch /\ e \in ToSet(Emitted(e.signature))
  BY <1>1, <1>3, <1>5, <1>6, <1>8 DEF PollInv
<1>10. ToSet(poller.events \o answer) \subseteq ChainLeaves
  BY <1>1, <1>4, <1>9, ChainLeaf
<1>11. nulls = 0 /\ answer = Emitted(s) =>
         \A t \in poller.batch \ (poller.todo \ {s}) :
           ToSet(Emitted(t)) \subseteq ToSet(poller.events \o answer)
  BY <1>1, <1>8 DEF PollInv
<1> QED BY <1>3, <1>4, <1>8, <1>9, <1>10, <1>11

\* The batch a poll is about to store has no gap.
LEMMA BatchHasNoGap ==
  ASSUME IInv
  PROVE  PollFindsNoGap
<1> SUFFICES ASSUME nulls = 0, NEW s \in Signature, poller.todo = {s}
             PROVE  Complete(poller.events \o Emitted(s))
  BY DEF PollFindsNoGap
<1> PICK events : events = poller.events \o Emitted(s)
  OBVIOUS
<1>1. TypeOK /\ ChainInv /\ TableIsPrefix /\ TreeIsTable /\ PollInv /\ SeenIsStored
  BY DEF IInv
<1>2. /\ poller.batch \subseteq 1 .. poller.last /\ poller.last \in Nat
      /\ 1 .. poller.last \subseteq db.seen \cup poller.batch
      /\ ToSet(events) \subseteq ChainLeaves
      /\ \A e \in ToSet(events) : e.signature \in poller.batch
      /\ \A t \in poller.batch : ToSet(Emitted(t)) \subseteq ToSet(events)
  <2>1. s \in poller.todo /\ poller.todo \ {s} = {}
    OBVIOUS
  <2>2. poller.last \in 0 .. MaxTx => poller.last \in Nat
    OBVIOUS
  <2> QED BY <2>1, <2>2, PollAfter
<1>3. ASSUME NEW e \in ToSet(events), NEW f \in ChainLeaves, f.mint = e.mint, f.idx < e.idx
      PROVE  f \in db.rows \cup ToSet(events)
  <2> DEFINE m == e.mint
             a == chain[e.signature].idx
             b == chain[f.signature].idx
  <2>1. /\ e \in Leaf /\ e.signature \in Txs(m) /\ e.idx \in {a, a + 1}
        /\ f \in Leaf /\ f.signature \in Txs(m) /\ f.idx \in {b, b + 1}
        /\ f.signature \in DOMAIN chain /\ f \in ToSet(Emitted(f.signature))
    BY <1>1, <1>2, <1>3, ChainLeaf DEF Txs
  <2>2. m \in Mints /\ a \in Nat /\ b \in Nat /\ e.signature \in Nat /\ f.signature \in Nat
        /\ f.signature >= 1
    BY <1>1, <2>1, ChainType DEF TxType, Txs, Leaf
  <2>3. ~ (a < b)
    <3> HIDE DEF a, b
    <3> QED BY <1>3, <2>1, <2>2
  <2>4. e.signature <= poller.last
    BY <1>2
  <2>5. ~ (poller.last < f.signature)
    BY <1>1, <2>1, <2>2, <2>3, <2>4 DEF PollInv
  <2>6. f.signature \in 1 .. poller.last
    BY <1>2, <2>2, <2>5
  <2>7. CASE f.signature \in db.seen
    BY <1>1, <2>1, <2>7 DEF SeenIsStored
  <2>8. CASE f.signature \in poller.batch
    BY <1>2, <2>1, <2>8
  <2> QED BY <1>2, <2>6, <2>7, <2>8
<1> QED BY <1>1, <1>2, <1>3, NoGap

\* Whatever is about to be written may be written.
LEMMA PendingIsGood ==
  ASSUME IInv, NEW w \in Pending
  PROVE  /\ w.events \in Seq(Leaf) /\ ToSet(w.events) \subseteq ChainLeaves
         /\ w.batch \subseteq DOMAIN chain
         /\ nulls = 0 => \A s \in w.batch : ToSet(Emitted(s)) \subseteq ToSet(w.events)
<1>1. CASE \E s \in Signature :
             poller.todo = {s} /\ w = [events |-> poller.events \o Emitted(s),
                                       batch |-> poller.batch, last |-> poller.last]
  <2>1. PICK s \in Signature :
             poller.todo = {s} /\ w = [events |-> poller.events \o Emitted(s),
                                       batch |-> poller.batch, last |-> poller.last]
    BY <1>1
  <2>2. s \in poller.todo /\ poller.todo \ {s} = {}
    BY <2>1
  <2>3. w.events = poller.events \o Emitted(s) /\ w.batch = poller.batch
    BY <2>1
  <2> QED BY <2>2, <2>3, PollAfter
<1>2. CASE \E r \in Relays :
             relays[r].pc = "decoding" /\ w = [events |-> Emitted(relays[r].sig),
                                               batch |-> {relays[r].sig}, last |-> db.cursor]
  <2>1. PICK r \in Relays :
             relays[r].pc = "decoding" /\ w = [events |-> Emitted(relays[r].sig),
                                               batch |-> {relays[r].sig}, last |-> db.cursor]
    BY <1>2
  <2>2. w.events = Emitted(relays[r].sig) /\ w.batch = {relays[r].sig}
    BY <2>1
  <2>3. relays[r].sig \in DOMAIN chain
    BY <2>1 DEF IInv, ListedInv
  <2>4. Emitted(relays[r].sig) \in Seq(Leaf) /\ ToSet(Emitted(relays[r].sig)) \subseteq ChainLeaves
    BY <2>3, EmittedLeaves DEF IInv, ChainLeaves
  <2> QED BY <2>2, <2>3, <2>4
<1> QED BY <1>1, <1>2 DEF Pending

-----------------------------------------------------------------------------
(* A block *)

LEMMA BlockForms ==
  ASSUME NEW block \in Blocks
  PROVE  \/ \E p \in Mints \cup {None} : block = <<Tx(p, 0)>>
         \/ \E p, q \in Mints \cup {None} :
              block = <<Tx(p, 0), Tx(q, IF p = q THEN 1 ELSE 0)>>
         \/ \E p \in Mints : block = <<Tx(p, 1), Tx(p, 0)>>
  BY DEF Blocks

\* The transactions of a pool in a block have the next indices of the pool.
LEMMA BlockTxs ==
  ASSUME TypeOK, ChainInv, NEW block \in Blocks, NEW m \in Mints \cup {None}
  PROVE  LET D == {k \in DOMAIN block : block[k].mint = m}
             next == 2 * Cardinality(Txs(m))
         IN  \/ D = {}
             \/ \E k \in DOMAIN block : D = {k} /\ block[k].idx = next
             \/ /\ DOMAIN block = 1 .. 2 /\ D = 1 .. 2
                /\ \/ block[1].idx = next /\ block[2].idx = next + 2
                   \/ block[2].idx = next /\ block[1].idx = next + 2
<1> DEFINE D == {k \in DOMAIN block : block[k].mint = m}
           next == 2 * Cardinality(Txs(m))
           any == Mints \cup {None}
           K(p) == Cardinality(Txs(p))
<1> SUFFICES \/ D = {}
             \/ \E k \in DOMAIN block : D = {k} /\ block[k].idx = next
             \/ /\ DOMAIN block = 1 .. 2 /\ D = 1 .. 2
                /\ \/ block[1].idx = next /\ block[2].idx = next + 2
                   \/ block[2].idx = next /\ block[1].idx = next + 2
  OBVIOUS
<1>1. \A p \in any : K(p) \in Nat
  <2> TAKE p \in any
  <2>1. IsFiniteSet(1 .. Len(chain))
    BY ChainType, FS_Interval
  <2>2. Txs(p) \in SUBSET (1 .. Len(chain))
    BY ChainType DEF Txs
  <2> QED BY <2>1, <2>2, FS_Subset, FS_CardinalityType
<1>2. \A p \in any, before \in 0 .. 1 :
        Tx(p, before) = [mint |-> p, idx |-> 2 * K(p) + 2 * before]
  BY DEF Tx, NextIndex, Txs
<1> HIDE DEF K
<1>3. ASSUME NEW p \in any, NEW q \in any, NEW x \in 0 .. 1, NEW y \in 0 .. 1,
             block = <<Tx(p, x), Tx(q, y)>>
      PROVE  /\ DOMAIN block = 1 .. 2
             /\ block[1].mint = p /\ block[1].idx = 2 * K(p) + 2 * x
             /\ block[2].mint = q /\ block[2].idx = 2 * K(q) + 2 * y
  <2>1. block[1] = Tx(p, x) /\ block[2] = Tx(q, y) /\ DOMAIN block = 1 .. 2
    BY <1>3
  <2> QED BY <1>2, <2>1
<1>4. CASE \E p \in any : block = <<Tx(p, 0)>>
  <2>1. PICK p \in any : block = <<Tx(p, 0)>>
    BY <1>4
  <2>2. DOMAIN block = {1} /\ block[1] = Tx(p, 0)
    BY <2>1
  <2>3. block[1].mint = p /\ block[1].idx = 2 * K(p)
    BY <1>1, <1>2, <2>2
  <2> QED BY <2>2, <2>3 DEF K
<1>5. CASE \E p, q \in any : block = <<Tx(p, 0), Tx(q, IF p = q THEN 1 ELSE 0)>>
  <2>1. PICK p \in any, q \in any : block = <<Tx(p, 0), Tx(q, IF p = q THEN 1 ELSE 0)>>
    BY <1>5
  <2>2. CASE p = q
    <3>1. /\ DOMAIN block = 1 .. 2
          /\ block[1].mint = p /\ block[1].idx = 2 * K(p) + 2 * 0
          /\ block[2].mint = p /\ block[2].idx = 2 * K(p) + 2 * 1
      BY <1>3, <2>1, <2>2
    <3>2. CASE p = m
      <4>1. block[1].idx = next /\ block[2].idx = next + 2
        BY <1>1, <3>1, <3>2 DEF K
      <4> QED BY <3>1, <3>2, <4>1
    <3>3. CASE p # m
      BY <3>1, <3>3
    <3> QED BY <3>2, <3>3
  <2>3. CASE p # q
    <3>1. /\ DOMAIN block = 1 .. 2
          /\ block[1].mint = p /\ block[1].idx = 2 * K(p) + 2 * 0
          /\ block[2].mint = q /\ block[2].idx = 2 * K(q) + 2 * 0
      BY <1>3, <2>1, <2>3
    <3>2. CASE p = m
      <4>1. D = {1} /\ block[1].idx = next
        BY <1>1, <2>3, <3>1, <3>2 DEF K
      <4> QED BY <3>1, <4>1
    <3>3. CASE q = m
      <4>1. D = {2} /\ block[2].idx = next
        BY <1>1, <2>3, <3>1, <3>3 DEF K
      <4> QED BY <3>1, <4>1
    <3>4. CASE p # m /\ q # m
      BY <3>1, <3>4
    <3> QED BY <3>2, <3>3, <3>4
  <2> QED BY <2>2, <2>3
<1>6. CASE \E p \in Mints : block = <<Tx(p, 1), Tx(p, 0)>>
  <2>1. PICK p \in any : block = <<Tx(p, 1), Tx(p, 0)>>
    BY <1>6
  <2>2. /\ DOMAIN block = 1 .. 2
        /\ block[1].mint = p /\ block[1].idx = 2 * K(p) + 2 * 1
        /\ block[2].mint = p /\ block[2].idx = 2 * K(p) + 2 * 0
    BY <1>3, <2>1
  <2>3. CASE p = m
    <3>1. block[2].idx = next /\ block[1].idx = next + 2
      BY <1>1, <2>2, <2>3 DEF K
    <3> QED BY <2>2, <2>3, <3>1
  <2>4. CASE p # m
    BY <2>2, <2>4
  <2> QED BY <2>3, <2>4
<1> HIDE DEF D, next
<1> QED BY <1>4, <1>5, <1>6, BlockForms, Zenon

LEMMA BlockType ==
  ASSUME TypeOK, ChainInv, NEW block \in Blocks
  PROVE  block \in Seq(TxType) /\ Len(block) \in 1 .. 2
<1>1. \A p \in Mints \cup {None}, before \in 0 .. 1 : Tx(p, before) \in TxType
  <2> TAKE p \in Mints \cup {None}, before \in 0 .. 1
  <2>1. IsFiniteSet(1 .. Len(chain)) /\ Txs(p) \in SUBSET (1 .. Len(chain))
    BY ChainType, FS_Interval DEF Txs
  <2>2. Cardinality(Txs(p)) \in Nat
    BY <2>1, FS_Subset, FS_CardinalityType
  <2>3. 2 * Cardinality(Txs(p)) + 2 * before \in Nat
    BY <2>2
  <2> QED BY <2>3 DEF Tx, NextIndex, TxType, Txs
<1>2. \/ \E t \in TxType : block = <<t>>
      \/ \E t, u \in TxType : block = <<t, u>>
  <2>1. CASE \E p \in Mints \cup {None} : block = <<Tx(p, 0)>>
    BY <1>1, <2>1
  <2>2. CASE \E p, q \in Mints \cup {None} : block = <<Tx(p, 0), Tx(q, IF p = q THEN 1 ELSE 0)>>
    BY <1>1, <2>2
  <2>3. CASE \E p \in Mints : block = <<Tx(p, 1), Tx(p, 0)>>
    BY <1>1, <2>3
  <2> QED BY <2>1, <2>2, <2>3, BlockForms, Zenon
<1>3. ASSUME NEW t \in TxType, NEW u \in TxType
      PROVE  /\ <<t>> \in Seq(TxType) /\ Len(<<t>>) \in 1 .. 2
             /\ <<t, u>> \in Seq(TxType) /\ Len(<<t, u>>) \in 1 .. 2
  OBVIOUS
<1> QED BY <1>2, <1>3, Zenon

\* A block keeps the order of the indices; what it adds comes after them.
LEMMA LandChain ==
  ASSUME TypeOK, ChainInv, NEW block \in Blocks, Land(block)
  PROVE  /\ chain' \in Seq(TxType) /\ Len(chain) <= Len(chain')
         /\ \A s \in DOMAIN chain : s \in DOMAIN chain' /\ chain'[s] = chain[s]
         /\ ChainInv'
         /\ \A m \in Mints : \A s \in Txs(m), t \in Txs(m)' :
              t \notin DOMAIN chain => chain[s].idx < chain'[t].idx
<1> DEFINE N == Len(chain)
<1>1. chain \in Seq(TxType) /\ N \in Nat /\ DOMAIN chain = 1 .. N
  BY ChainType
<1>2. block \in Seq(TxType) /\ Len(block) \in Nat /\ DOMAIN block = 1 .. Len(block)
  BY BlockType
<1>3. chain' = chain \o block /\ Len(chain) + Len(block) <= MaxTx
  BY DEF Land
<1> HIDE DEF N
<1>4. /\ chain' \in Seq(TxType) /\ Len(chain') = N + Len(block)
      /\ DOMAIN chain' = 1 .. N + Len(block)
      /\ \A s \in 1 .. N : chain'[s] = chain[s]
      /\ \A k \in DOMAIN block : chain'[N + k] = block[k]
  BY <1>1, <1>2, <1>3 DEF N
<1>5. ASSUME NEW m \in Mints \cup {None}
      PROVE  /\ \A s, t \in Txs(m)' : chain'[s].idx = chain'[t].idx => s = t
             /\ Starts(m)' = {2 * i : i \in 0 .. Cardinality(Txs(m)') - 1}
             /\ \A s \in Txs(m), t \in Txs(m)' :
                  t \notin DOMAIN chain => chain[s].idx < chain'[t].idx
  <2> DEFINE D == {k \in DOMAIN block : block[k].mint = m}
             K == Cardinality(Txs(m))
  <2>1. IsFiniteSet(Txs(m)) /\ K \in Nat
    <3>1. IsFiniteSet(1 .. N) /\ Txs(m) \in SUBSET (1 .. N)
      BY <1>1, FS_Interval DEF Txs
    <3> QED BY <3>1, FS_Subset, FS_CardinalityType
  <2>2. Txs(m)' = Txs(m) \cup {N + k : k \in D}
    <3>1. Txs(m)' = {s \in DOMAIN chain' : chain'[s].mint = m}
      BY DEF Txs
    <3>2. ASSUME NEW s \in DOMAIN chain', ~ (s \in 1 .. N)
          PROVE  \E k \in DOMAIN block : s = N + k
      <4>1. s - N \in DOMAIN block /\ s = N + (s - N)
        BY <1>1, <1>2, <1>4, <3>2
      <4> QED BY <4>1
    <3>3. \A s \in 1 .. N : s \in DOMAIN chain'
      BY <1>1, <1>2, <1>4
    <3>4. \A k \in DOMAIN block : N + k \in DOMAIN chain'
      BY <1>1, <1>2, <1>4
    <3>5. \A s \in DOMAIN chain' :
            chain'[s].mint = m <=> s \in Txs(m) \/ \E k \in D : s = N + k
      <4> TAKE s \in DOMAIN chain'
      <4>1. CASE s \in 1 .. N
        <5>1. \A k \in DOMAIN block : s # N + k
          BY <1>1, <1>2, <4>1
        <5> QED BY <1>1, <1>4, <4>1, <5>1 DEF Txs
      <4>2. CASE ~ (s \in 1 .. N)
        <5>1. PICK k \in DOMAIN block : s = N + k
          BY <3>2, <4>2
        <5>2. \A j \in DOMAIN block : s = N + j => j = k
          BY <1>1, <1>2, <5>1
        <5> QED BY <1>1, <1>4, <4>2, <5>1, <5>2 DEF Txs
      <4> QED BY <4>1, <4>2
    <3>6. Txs(m) \subseteq 1 .. N
      BY <1>1 DEF Txs
    <3> HIDE DEF D
    <3>7. D \subseteq DOMAIN block
      BY DEF D
    <3> QED BY <3>1, <3>3, <3>4, <3>5, <3>6, <3>7
  <2>3. /\ \A s, t \in Txs(m) : chain[s].idx = chain[t].idx => s = t
        /\ Starts(m) = {2 * i : i \in 0 .. K - 1}
    BY DEF ChainInv
  <2>4. \A s \in Txs(m) : s \in 1 .. N /\ chain'[s] = chain[s]
    BY <1>1, <1>4 DEF Txs
  <2>5. \A s \in Txs(m) : chain[s].idx \in Nat /\ chain[s].idx <= 2 * K - 2
    <3> TAKE s \in Txs(m)
    <3>1. chain[s].idx \in Starts(m)
      BY DEF Starts
    <3>2. PICK i \in 0 .. K - 1 : chain[s].idx = 2 * i
      BY <2>3, <3>1
    <3> QED BY <2>1, <3>2
  <2>6. Starts(m)' = Starts(m) \cup {block[k].idx : k \in D}
    <3>1. Starts(m)' = {chain'[s].idx : s \in Txs(m)'}
      BY DEF Starts
    <3>2. \A k \in D : chain'[N + k] = block[k]
      BY <1>4
    <3> HIDE DEF D
    <3> QED BY <2>2, <2>4, <3>1, <3>2 DEF Starts
  <2>7. \A k \in D : chain'[N + k] = block[k] /\ N + k \notin Txs(m) /\ N + k \notin DOMAIN chain
    BY <1>1, <1>2, <1>4, <2>4
  <2> HIDE DEF K
  <2>8. CASE D = {}
    <3>1. Txs(m)' = Txs(m) /\ Starts(m)' = Starts(m)
      BY <2>2, <2>6, <2>8
    <3>2. \A t \in Txs(m)' : t \in DOMAIN chain
      BY <1>1, <2>4, <3>1
    <3> QED BY <2>3, <2>4, <3>1, <3>2 DEF K
  <2>9. CASE \E k \in DOMAIN block : D = {k} /\ block[k].idx = 2 * K
    <3>1. PICK k \in DOMAIN block : D = {k} /\ block[k].idx = 2 * K
      BY <2>9
    <3> PICK t : t = N + k
      OBVIOUS
    <3> HIDE DEF D
    <3>2. /\ chain'[t].idx = 2 * K /\ t \notin Txs(m)
          /\ Txs(m)' = Txs(m) \cup {t} /\ Starts(m)' = Starts(m) \cup {2 * K}
      BY <2>2, <2>6, <2>7, <3>1
    <3>3. Cardinality(Txs(m)') = K + 1
      BY <2>1, <3>2, FS_AddElement DEF K
    <3>4. Starts(m)' = {2 * i : i \in 0 .. (K + 1) - 1}
      <4>1. \A i : i \in 0 .. (K + 1) - 1 <=> i \in 0 .. K - 1 \/ i = K
        BY <2>1
      <4> QED BY <2>3, <3>2, <4>1
    <3>5. \A s \in Txs(m) : chain[s].idx < 2 * K /\ chain'[s] = chain[s]
      BY <2>1, <2>4, <2>5
    <3>6. 2 * K \in Nat /\ \A s \in Txs(m) : chain[s].idx \in Nat /\ chain[s].idx # 2 * K
      BY <2>1, <2>5, <3>5
    <3>7. \A s \in Txs(m) : s \in DOMAIN chain
      BY <1>1, <2>4
    <3> QED BY <2>3, <3>2, <3>3, <3>4, <3>5, <3>6, <3>7
  <2>10. CASE /\ DOMAIN block = 1 .. 2 /\ D = 1 .. 2
              /\ \/ block[1].idx = 2 * K /\ block[2].idx = 2 * K + 2
                 \/ block[2].idx = 2 * K /\ block[1].idx = 2 * K + 2
    <3>1. PICK k \in 1 .. 2, j \in 1 .. 2 :
            k # j /\ D = {k, j} /\ block[k].idx = 2 * K /\ block[j].idx = 2 * K + 2
      <4>1. 1 .. 2 = {1, 2}
        OBVIOUS
      <4> HIDE DEF D
      <4> QED BY <2>10, <4>1
    <3> PICK t : t = N + k
      OBVIOUS
    <3> PICK u : u = N + j
      OBVIOUS
    <3> HIDE DEF D
    <3>2. /\ chain'[t].idx = 2 * K /\ t \notin Txs(m)
          /\ chain'[u].idx = 2 * K + 2 /\ u \notin Txs(m) /\ t # u
          /\ Txs(m)' = (Txs(m) \cup {t}) \cup {u}
          /\ Starts(m)' = Starts(m) \cup {2 * K, 2 * K + 2}
      <4>1. t # u
        BY <1>1, <3>1
      <4> QED BY <2>2, <2>6, <2>7, <3>1, <4>1
    <3>3. Cardinality(Txs(m)') = K + 2
      <4>1. IsFiniteSet(Txs(m) \cup {t}) /\ Cardinality(Txs(m) \cup {t}) = K + 1
        BY <2>1, <3>2, FS_AddElement DEF K
      <4>2. Cardinality((Txs(m) \cup {t}) \cup {u}) = (K + 1) + 1
        BY <3>2, <4>1, FS_AddElement
      <4> QED BY <2>1, <3>2, <4>2
    <3>4. Starts(m)' = {2 * i : i \in 0 .. (K + 2) - 1}
      <4>1. \A i : i \in 0 .. (K + 2) - 1 <=> i \in 0 .. K - 1 \/ i = K \/ i = K + 1
        BY <2>1
      <4>2. 2 * (K + 1) = 2 * K + 2
        BY <2>1
      <4> QED BY <2>3, <3>2, <4>1, <4>2
    <3>5. \A s \in Txs(m) : chain[s].idx < 2 * K /\ chain'[s] = chain[s]
      BY <2>1, <2>4, <2>5
    <3>6. /\ 2 * K \in Nat /\ 2 * K + 2 \in Nat /\ 2 * K # 2 * K + 2
          /\ \A s \in Txs(m) : /\ chain[s].idx \in Nat
                               /\ chain[s].idx # 2 * K /\ chain[s].idx # 2 * K + 2
                               /\ chain[s].idx < 2 * K + 2
      BY <2>1, <2>5, <3>5
    <3>7. \A s \in Txs(m) : s \in DOMAIN chain
      BY <1>1, <2>4
    <3> QED BY <2>3, <3>2, <3>3, <3>4, <3>5, <3>6, <3>7
  <2> QED BY <2>8, <2>9, <2>10, BlockTxs DEF K
<1>6. Len(chain') <= MaxTx
  BY <1>3, <1>4 DEF N
<1>7. ChainInv'
  BY <1>5, <1>6 DEF ChainInv
<1>8. Len(chain) <= Len(chain') /\ \A s \in DOMAIN chain : s \in DOMAIN chain' /\ chain'[s] = chain[s]
  BY <1>1, <1>2, <1>4 DEF N
<1> QED BY <1>4, <1>5, <1>7, <1>8

-----------------------------------------------------------------------------
(* Each step keeps the invariant *)

LEMMA InitIInv ==
  ASSUME Init
  PROVE  IInv
<1>1. chain = <<>> /\ DOMAIN chain = {} /\ Len(chain) = 0 /\ chain \in Seq(TxType)
  BY DEF Init
<1>2. db.rows = {} /\ db.seen = {} /\ db.cursor = 0 /\ db \in DbType
  BY BoundsAssumption DEF Init, DbType
<1>3. poller = Idle /\ Idle.todo = {} /\ Idle.batch = {} /\ Idle.events = <<>> /\ Idle.last = 0
  BY DEF Init, Idle
<1>4. ChainInv
  <2>1. \A m : Txs(m) = {} /\ Starts(m) = {}
    BY <1>1 DEF Txs, Starts
  <2>2. Cardinality({}) = 0
    BY FS_EmptySet
  <2>3. {2 * i : i \in 0 .. Cardinality({}) - 1} = {} /\ 0 <= MaxTx
    BY <2>2, BoundsAssumption
  <2> QED BY <1>1, <2>1, <2>3 DEF ChainInv
<1>5. Prefix({})
  <2>1. \A m : Stored({}, m) = {}
    BY DEF Stored
  <2>2. Cardinality({}) = 0
    BY FS_EmptySet
  <2> QED BY <2>1, <2>2 DEF Prefix
<1>6. trees \in [Mints -> Seq(Signature)]
  <2>1. Run({}, 0, 0) /\ 0 \in Nat /\ 0 <= 0
    BY DEF Run, OneEach
  <2>2. InOrder({}) \in Seq(Signature)
    BY <2>1, RunInOrder
  <2>3. \A m \in Mints : Stored({}, m) = {}
    BY DEF Stored
  <2> QED BY <2>2, <2>3 DEF Init, Loaded
<1>7. poller \in [todo : SUBSET Signature, batch : SUBSET Signature, events : Seq(Leaf),
                  last : 0 .. MaxTx]
  BY BoundsAssumption DEF Init, Idle
<1>8. TypeOK
  <2>1. relays \in [Relays -> [pc : {"none", "landed", "decoding", "answered", "failed"},
                              sig : 0 .. MaxTx]]
    BY BoundsAssumption DEF Init
  <2>2. crashes \in 0 .. MaxCrashes /\ errors \in 0 .. MaxErrors /\ nulls \in 0 .. NullAnswers
    BY BoundsAssumption DEF Init
  <2> QED BY <1>1, <1>2, <1>6, <1>7, <2>1, <2>2 DEF TypeOK, TxType, DbType
<1>9. TableIsPrefix /\ TreeIsTable
  BY <1>2, <1>5 DEF TableIsPrefix, Prefix, TreeIsTable, Init
<1>10. NothingUnseenBehindCursor /\ SeenIsStored
  BY <1>2 DEF NothingUnseenBehindCursor, SeenIsStored
<1>11. ListedInv
  <2>1. \A r \in Relays : relays[r].pc = "none"
    BY DEF Init
  <2> QED BY <1>1, <1>2, <2>1 DEF ListedInv
<1>12. PollInv
  <2>1. ToSet(<<>>) = {}
    BY DEF ToSet
  <2> QED BY <1>1, <1>3, <2>1 DEF PollInv, Txs
<1> QED BY <1>4, <1>8, <1>9, <1>10, <1>11, <1>12 DEF IInv

LEMMA ChainKept ==
  ASSUME ChainInv, chain' = chain
  PROVE  ChainInv'
<1>1. \A m : Txs(m)' = Txs(m) /\ Starts(m)' = Starts(m)
  BY DEF Txs, Starts
<1>2. Len(chain') <= MaxTx
  BY DEF ChainInv
<1> QED BY <1>1, <1>2, Zenon DEF ChainInv

LEMMA PollKept ==
  ASSUME PollInv, chain' = chain, poller' = poller, db.seen \subseteq db'.seen,
         nulls' = 0 => nulls = 0
  PROVE  PollInv'
  BY DEF PollInv, Txs, Emitted, Idle

\* No poll is under way.
LEMMA PollIdle ==
  ASSUME chain' \in Seq(TxType), poller' = Idle
  PROVE  PollInv'
<1>1. /\ poller'.todo = {} /\ poller'.batch = {} /\ poller'.events = <<>> /\ poller'.last = 0
  BY DEF Idle
<1>2. ToSet(<<>>) = {}
  BY DEF ToSet
<1>3. Len(chain') \in Nat /\ DOMAIN chain' = 1 .. Len(chain')
  OBVIOUS
<1>4. \A m : \A s \in Txs(m)' : ~ (s <= 0)
  BY <1>3 DEF Txs
<1> QED BY <1>1, <1>2, <1>3, <1>4 DEF PollInv, Idle

\* What the invariant says of the store, after a step that leaves the chain.
LEMMA GoodStore ==
  ASSUME TypeOK, ChainInv, chain' = chain, Good(db', nulls' = 0), trees' = Loaded(db'.rows)
  PROVE  /\ TableIsPrefix' /\ TreeIsTable'
         /\ NothingUnseenBehindCursor' /\ SeenIsStored'
         /\ db' \in DbType /\ trees' \in [Mints -> Seq(Signature)]
         /\ db'.seen \subseteq DOMAIN chain' /\ db'.cursor <= Len(chain')
<1>1. ChainLeaves' = ChainLeaves /\ \A s : Emitted(s)' = Emitted(s)
  BY DEF ChainLeaves, Emitted
<1>2. Prefix(db'.rows)
  BY DEF Good
<1>3. TableIsPrefix'
  BY <1>1, <1>2 DEF Prefix, TableIsPrefix, Stored
<1>4. TreeIsTable'
  BY DEF TreeIsTable, Loaded
<1>5. NothingUnseenBehindCursor'
  BY DEF Good, NothingUnseenBehindCursor
<1>6. SeenIsStored'
  BY <1>1 DEF Good, SeenIsStored
<1>7. trees' \in [Mints -> Seq(Signature)]
  BY <1>2, LoadedType
<1> QED BY <1>3, <1>4, <1>5, <1>6, <1>7 DEF Good

\* The store is left alone, and what the node answered is not forgotten.
LEMMA StoreKept ==
  ASSUME TypeOK, ChainInv, IInv, chain' = chain, db' = db, trees' = trees,
         nulls' = 0 => nulls = 0
  PROVE  /\ TableIsPrefix' /\ TreeIsTable'
         /\ NothingUnseenBehindCursor' /\ SeenIsStored'
         /\ db' \in DbType /\ trees' \in [Mints -> Seq(Signature)]
         /\ db'.seen \subseteq DOMAIN chain' /\ db'.cursor <= Len(chain')
<1>1. Good(db', nulls' = 0)
  BY DbIsGood DEF Good
<1>2. trees' = Loaded(db'.rows)
  BY DEF IInv, TreeIsTable
<1> QED BY <1>1, <1>2, GoodStore

LEMMA LandIInv ==
  ASSUME IInv, NEW block \in Blocks, Land(block)
  PROVE  IInv'
<1>1. TypeOK /\ ChainInv /\ TableIsPrefix /\ TreeIsTable /\ NothingUnseenBehindCursor
      /\ SeenIsStored /\ ListedInv /\ PollInv
  BY DEF IInv
<1>2. UNCHANGED <<db, trees, poller, crashes, errors, nulls>>
  BY DEF Land
<1>3. /\ chain' \in Seq(TxType) /\ Len(chain) <= Len(chain') /\ ChainInv'
      /\ \A s \in DOMAIN chain : s \in DOMAIN chain' /\ chain'[s] = chain[s]
      /\ \A m \in Mints : \A s \in Txs(m), t \in Txs(m)' :
           t \notin DOMAIN chain => chain[s].idx < chain'[t].idx
  BY <1>1, LandChain
<1>4. Len(chain) \in Nat /\ Len(chain') \in Nat /\ DOMAIN chain = 1 .. Len(chain)
      /\ DOMAIN chain' = 1 .. Len(chain') /\ Len(chain') <= MaxTx
  BY <1>1, <1>3, ChainType DEF ChainInv
<1>5. \A s \in DOMAIN chain : Emitted(s)' = Emitted(s)
  BY <1>3 DEF Emitted
<1>6. ChainLeaves \subseteq ChainLeaves'
  BY <1>3, <1>5 DEF ChainLeaves
<1>7. relays' \in [Relays -> [pc : {"none", "landed", "decoding", "answered", "failed"},
                             sig : 0 .. MaxTx]]
      /\ \A r \in Relays : relays'[r].pc # "none" => relays'[r].sig \in DOMAIN chain'
  <2>1. CASE UNCHANGED relays
    BY <1>1, <1>3, <2>1 DEF TypeOK, ListedInv
  <2>2. CASE \E r \in Relays, k \in DOMAIN block :
               relays' = [relays EXCEPT ![r] = [pc |-> "landed", sig |-> Len(chain) + k]]
    <3>1. PICK r \in Relays, k \in DOMAIN block :
               relays' = [relays EXCEPT ![r] = [pc |-> "landed", sig |-> Len(chain) + k]]
      BY <2>2
    <3>2. Len(chain) + k \in DOMAIN chain' /\ Len(chain) + k \in 0 .. MaxTx
      <4>1. block \in Seq(TxType) /\ chain \in Seq(TxType) /\ chain' = chain \o block
        BY <1>1, BlockType, ChainType DEF Land
      <4>2. k \in 1 .. Len(block) /\ Len(block) \in Nat
        BY <4>1
      <4>3. Len(chain') = Len(chain) + Len(block)
        BY <4>1
      <4> QED BY <1>4, <4>2, <4>3, BoundsAssumption
    <3> QED BY <1>1, <1>3, <3>1, <3>2 DEF TypeOK, ListedInv
  <2> QED BY <2>1, <2>2 DEF Land
<1>8. TypeOK'
  BY <1>1, <1>2, <1>3, <1>7 DEF TypeOK, TxType
<1>9. TableIsPrefix' /\ TreeIsTable' /\ NothingUnseenBehindCursor'
  BY <1>1, <1>2, <1>6 DEF TableIsPrefix, TreeIsTable, NothingUnseenBehindCursor, Stored, Loaded
<1>10. SeenIsStored'
  BY <1>1, <1>2, <1>5 DEF SeenIsStored, ListedInv
<1>11. ListedInv'
  <2>1. db.cursor \in 0 .. MaxTx
    BY <1>1 DEF TypeOK
  <2> QED BY <1>1, <1>2, <1>3, <1>4, <1>7, <2>1 DEF ListedInv
<1>12. PollInv'
  <2>1. poller.last \in 0 .. MaxTx
    BY <1>1 DEF TypeOK
  <2>2. poller.last <= Len(chain)
    BY <1>1 DEF PollInv
  <2>3. \A s \in poller.batch : s \in DOMAIN chain
    BY <1>1, <1>4, <2>1, <2>2 DEF PollInv
  <2>4. \A e \in ToSet(poller.events) :
          e.signature \in poller.batch /\ e \in ToSet(Emitted(e.signature)')
    BY <1>1, <1>5, <2>3 DEF PollInv
  <2>5. nulls = 0 => \A s \in poller.batch \ poller.todo :
                       ToSet(Emitted(s)') \subseteq ToSet(poller.events)
    BY <1>1, <1>5, <2>3 DEF PollInv
  <2>6. ASSUME NEW m \in Mints, NEW s \in Txs(m)', NEW t \in Txs(m)',
               s <= poller.last, poller.last < t
        PROVE  chain'[s].idx < chain'[t].idx
    <3>1. s \in DOMAIN chain' /\ t \in DOMAIN chain' /\ chain'[s].mint = m /\ chain'[t].mint = m
      BY DEF Txs
    <3>2. s \in DOMAIN chain /\ chain'[s] = chain[s] /\ s \in Txs(m)
      <4>1. s \in DOMAIN chain
        BY <1>4, <2>1, <2>2, <2>6, <3>1
      <4> QED BY <1>3, <3>1, <4>1 DEF Txs
    <3>3. CASE t \in DOMAIN chain
      <4>1. t \in Txs(m) /\ chain'[t] = chain[t]
        BY <1>3, <3>1, <3>3 DEF Txs
      <4> QED BY <1>1, <2>6, <3>2, <4>1 DEF PollInv
    <3>4. CASE t \notin DOMAIN chain
      BY <1>3, <3>2, <3>4
    <3> QED BY <3>3, <3>4
  <2>7. poller.last <= Len(chain')
    BY <1>3, <1>4, <2>1, <2>2
  <2> QED BY <1>1, <1>2, <2>4, <2>5, <2>6, <2>7 DEF PollInv, Idle
<1> QED BY <1>3, <1>8, <1>9, <1>10, <1>11, <1>12 DEF IInv

LEMMA PollReadIInv ==
  ASSUME IInv, PollRead
  PROVE  IInv'
<1> PICK fresh : fresh = Newer(db.cursor) \ db.seen
  OBVIOUS
<1>1. TypeOK /\ ChainInv /\ TableIsPrefix /\ TreeIsTable /\ NothingUnseenBehindCursor
      /\ SeenIsStored /\ ListedInv /\ PollInv
  BY DEF IInv
<1>2. UNCHANGED <<chain, trees, relays, crashes, errors, nulls>> /\ poller = Idle
  BY DEF PollRead
<1>3. /\ Len(chain) \in Nat /\ Len(chain) \in 0 .. MaxTx /\ DOMAIN chain = 1 .. Len(chain)
      /\ DOMAIN chain \subseteq Signature /\ chain \in Seq(TxType)
  BY <1>1, ChainType, BoundsAssumption
<1>4. db.cursor \in Nat /\ db.cursor <= Len(chain) /\ 1 .. db.cursor \subseteq db.seen
  BY <1>1 DEF TypeOK, ListedInv, NothingUnseenBehindCursor
<1>5. 1 .. Len(chain) \subseteq db.seen \cup fresh /\ fresh \subseteq 1 .. Len(chain)
  <2>1. 1 .. Len(chain) \subseteq 1 .. db.cursor \cup Newer(db.cursor)
    BY <1>3, <1>4 DEF Newer
  <2>2. Newer(db.cursor) \subseteq 1 .. Len(chain)
    BY <1>3, <1>4 DEF Newer
  <2> QED BY <1>4, <2>1, <2>2
<1>6. ChainInv'
  BY <1>1, <1>2, ChainKept
<1>7. CASE fresh = {}
  <2>1. db' = [db EXCEPT !.cursor = Len(chain)] /\ poller' = poller
    BY <1>7 DEF PollRead
  <2>2. db \in DbType /\ Good(db, nulls = 0)
    BY DbIsGood DEF Good
  <2>3. /\ db' \in DbType /\ db'.rows = db.rows /\ db'.seen = db.seen
        /\ db'.cursor = Len(chain)
    BY <1>3, <2>1, <2>2 DEF DbType
  <2>4. Good(db', nulls' = 0)
    BY <1>2, <1>3, <1>5, <1>7, <2>2, <2>3 DEF Good
  <2>5. trees' = Loaded(db'.rows)
    BY <1>1, <1>2, <2>3 DEF TreeIsTable
  <2>6. /\ TableIsPrefix' /\ TreeIsTable'
        /\ NothingUnseenBehindCursor' /\ SeenIsStored'
        /\ db' \in DbType /\ trees' \in [Mints -> Seq(Signature)]
        /\ db'.seen \subseteq DOMAIN chain' /\ db'.cursor <= Len(chain')
    BY <1>1, <1>2, <2>4, <2>5, GoodStore
  <2>7. TypeOK'
    BY <1>1, <1>2, <2>1, <2>6 DEF TypeOK, DbType
  <2>8. ListedInv'
    BY <1>1, <1>2, <2>6 DEF ListedInv
  <2>9. PollInv'
    BY <1>1, <1>2, <2>1, <2>3, PollKept
  <2> QED BY <1>6, <2>6, <2>7, <2>8, <2>9 DEF IInv
<1>8. CASE fresh # {}
  <2>1. /\ poller' = [todo |-> fresh, batch |-> fresh, events |-> <<>>, last |-> Len(chain)]
        /\ db' = db
    BY <1>8 DEF PollRead
  <2>2. /\ TableIsPrefix' /\ TreeIsTable'
        /\ NothingUnseenBehindCursor' /\ SeenIsStored'
        /\ db' \in DbType /\ trees' \in [Mints -> Seq(Signature)]
        /\ db'.seen \subseteq DOMAIN chain' /\ db'.cursor <= Len(chain')
    BY <1>1, <1>2, <2>1, StoreKept
  <2>3. /\ poller'.todo = fresh /\ poller'.batch = fresh /\ poller'.events = <<>>
        /\ poller'.last = Len(chain)
    BY <2>1
  <2>4. poller' \in [todo : SUBSET Signature, batch : SUBSET Signature, events : Seq(Leaf),
                     last : 0 .. MaxTx]
    <3>1. fresh \subseteq Signature
      BY <1>3, <1>5
    <3> QED BY <1>3, <2>1, <3>1
  <2>5. TypeOK'
    BY <1>1, <1>2, <2>2, <2>4 DEF TypeOK, DbType
  <2>6. ListedInv'
    BY <1>1, <1>2, <2>2 DEF ListedInv
  <2>7. PollInv'
    <3>1. ToSet(<<>>) = {}
      BY DEF ToSet
    <3>2. \A m \in Mints : \A t \in Txs(m)' : ~ (Len(chain) < t)
      BY <1>2, <1>3 DEF Txs
    <3> QED BY <1>2, <1>3, <1>5, <1>8, <2>1, <2>3, <3>1, <3>2 DEF PollInv
  <2> QED BY <1>6, <2>2, <2>5, <2>6, <2>7 DEF IInv
<1> QED BY <1>7, <1>8

\* The node answers with the leaves, or with null, which is counted.
LEMMA DecodeCounts ==
  ASSUME TypeOK, NEW s, NEW answer, Decode(s, answer)
  PROVE  /\ nulls' \in 0 .. NullAnswers
         /\ nulls' = 0 => nulls = 0 /\ answer = Emitted(s)
<1>1. nulls \in Nat /\ nulls <= NullAnswers /\ NullAnswers \in Nat
  BY BoundsAssumption DEF TypeOK
<1> QED BY <1>1 DEF Decode

LEMMA PollDecodeIInv ==
  ASSUME IInv, PollDecode
  PROVE  IInv'
<1>1. TypeOK /\ ChainInv /\ TableIsPrefix /\ TreeIsTable /\ NothingUnseenBehindCursor
      /\ SeenIsStored /\ ListedInv /\ PollInv
  BY DEF IInv
<1> PICK s : s = Min(poller.todo)
  OBVIOUS
<1>2. poller # Idle /\ UNCHANGED <<chain, relays, crashes, errors>>
  BY DEF PollDecode
<1>3. s \in poller.todo
  <2>1. poller.todo # {} /\ poller.todo \subseteq Signature /\ Signature \subseteq Nat
    BY <1>1, <1>2 DEF PollInv, TypeOK, Signature
  <2> QED BY <2>1, MinOf
<1>4. PICK answer \in {<<>>, Emitted(s)} :
        /\ Decode(s, answer)
        /\ LET events == poller.events \o answer
           IN IF poller.todo # {s}
              THEN /\ poller' = [poller EXCEPT !.todo = @ \ {s}, !.events = events]
                   /\ UNCHANGED <<db, trees>>
              ELSE /\ Store(events, poller.batch, poller.last)
                   /\ poller' = Idle
  BY DEF PollDecode
<1> PICK events : events = poller.events \o answer
  OBVIOUS
<1>5. nulls' \in 0 .. NullAnswers /\ (nulls' = 0 => nulls = 0 /\ answer = Emitted(s))
  BY <1>1, <1>4, DecodeCounts
<1>6. /\ poller.batch \subseteq DOMAIN chain
      /\ poller.last \in 0 .. MaxTx /\ poller.last <= Len(chain)
      /\ 1 .. poller.last \subseteq db.seen \cup poller.batch
      /\ events \in Seq(Leaf) /\ ToSet(events) \subseteq ChainLeaves
      /\ \A e \in ToSet(events) :
           e.signature \in poller.batch /\ e \in ToSet(Emitted(e.signature))
      /\ nulls = 0 /\ answer = Emitted(s) =>
           \A t \in poller.batch \ (poller.todo \ {s}) :
             ToSet(Emitted(t)) \subseteq ToSet(events)
  BY <1>3, PollAfter
<1>7. ChainInv'
  BY <1>1, <1>2, ChainKept
<1>8. CASE poller.todo # {s}
  <2>1. /\ poller' = [poller EXCEPT !.todo = @ \ {s}, !.events = events]
        /\ UNCHANGED <<db, trees>>
    BY <1>4, <1>8
  <2>2. /\ TableIsPrefix' /\ TreeIsTable'
        /\ NothingUnseenBehindCursor' /\ SeenIsStored'
        /\ db' \in DbType /\ trees' \in [Mints -> Seq(Signature)]
        /\ db'.seen \subseteq DOMAIN chain' /\ db'.cursor <= Len(chain')
    BY <1>1, <1>2, <1>5, <2>1, StoreKept
  <2>3. poller \in [todo : SUBSET Signature, batch : SUBSET Signature, events : Seq(Leaf),
                    last : 0 .. MaxTx]
    BY <1>1 DEF TypeOK
  <2>4. /\ poller'.todo = poller.todo \ {s} /\ poller'.batch = poller.batch
        /\ poller'.events = events /\ poller'.last = poller.last
        /\ poller' \in [todo : SUBSET Signature, batch : SUBSET Signature, events : Seq(Leaf),
                        last : 0 .. MaxTx]
    BY <1>6, <2>1, <2>3
  <2>5. TypeOK'
    BY <1>1, <1>2, <1>5, <2>2, <2>4 DEF TypeOK, DbType
  <2>6. ListedInv'
    BY <1>1, <1>2, <2>2 DEF ListedInv
  <2>7. PollInv'
    <3>1. poller.todo \ {s} # {}
      BY <1>3, <1>8
    <3>2. /\ \A t : Emitted(t)' = Emitted(t)
          /\ \A m : Txs(m)' = Txs(m)
      BY <1>2 DEF Emitted, Txs
    <3>3. /\ poller.todo \subseteq poller.batch /\ poller.batch \subseteq 1 .. poller.last
          /\ \A m \in Mints : \A t, u \in Txs(m) :
               t <= poller.last /\ poller.last < u => chain[t].idx < chain[u].idx
      BY <1>1 DEF PollInv
    <3>4. nulls' = 0 => \A t \in poller.batch \ (poller.todo \ {s}) :
                          ToSet(Emitted(t)) \subseteq ToSet(events)
      BY <1>5, <1>6
    <3> QED BY <1>2, <1>6, <2>1, <2>4, <3>1, <3>2, <3>3, <3>4 DEF PollInv
  <2> QED BY <1>7, <2>2, <2>5, <2>6, <2>7 DEF IInv
<1>9. CASE poller.todo = {s}
  <2>1. Store(events, poller.batch, poller.last) /\ poller' = Idle
    BY <1>4, <1>9
  <2> PICK all : all = (nulls' = 0)
    OBVIOUS
  <2>2. all => \A t \in poller.batch : ToSet(Emitted(t)) \subseteq ToSet(events)
    BY <1>5, <1>6, <1>9
  <2>3. all => nulls = 0
    BY <1>5
  <2>4. /\ Good(Committed(events, poller.batch, poller.last), all)
        /\ Grown(events) = Loaded(Committed(events, poller.batch, poller.last).rows)
    BY <1>6, <2>2, <2>3, CommittedIsGood
  <2>5. Good(db', nulls' = 0) /\ trees' = Loaded(db'.rows)
    BY <2>1, <2>4 DEF Store
  <2>6. /\ TableIsPrefix' /\ TreeIsTable'
        /\ NothingUnseenBehindCursor' /\ SeenIsStored'
        /\ db' \in DbType /\ trees' \in [Mints -> Seq(Signature)]
        /\ db'.seen \subseteq DOMAIN chain' /\ db'.cursor <= Len(chain')
    BY <1>1, <1>2, <2>5, GoodStore
  <2>7. TypeOK'
    <3>1. Idle \in [todo : SUBSET Signature, batch : SUBSET Signature, events : Seq(Leaf),
                    last : 0 .. MaxTx]
      BY BoundsAssumption DEF Idle
    <3> QED BY <1>1, <1>2, <1>5, <2>1, <2>6, <3>1 DEF TypeOK, DbType
  <2>8. ListedInv'
    BY <1>1, <1>2, <2>6 DEF ListedInv
  <2>9. PollInv'
    <3>1. chain' \in Seq(TxType)
      BY <1>1, <1>2, ChainType
    <3> QED BY <2>1, <3>1, PollIdle
  <2> QED BY <1>7, <2>6, <2>7, <2>8, <2>9 DEF IInv
<1> QED BY <1>8, <1>9

LEMMA PollErrorIInv ==
  ASSUME IInv, PollError
  PROVE  IInv'
<1>1. TypeOK /\ ChainInv /\ ListedInv
  BY DEF IInv
<1>2. poller' = Idle /\ UNCHANGED <<chain, db, trees, relays, crashes, nulls>>
  BY DEF PollError
<1>3. /\ TableIsPrefix' /\ TreeIsTable'
      /\ NothingUnseenBehindCursor' /\ SeenIsStored'
      /\ db' \in DbType /\ trees' \in [Mints -> Seq(Signature)]
      /\ db'.seen \subseteq DOMAIN chain' /\ db'.cursor <= Len(chain')
  BY <1>1, <1>2, StoreKept
<1>4. TypeOK'
  <2>1. Idle \in [todo : SUBSET Signature, batch : SUBSET Signature, events : Seq(Leaf),
                  last : 0 .. MaxTx]
    BY BoundsAssumption DEF Idle
  <2>2. errors' \in 0 .. MaxErrors
    BY <1>1, BoundsAssumption DEF TypeOK, PollError
  <2> QED BY <1>1, <1>2, <1>3, <2>1, <2>2 DEF TypeOK, DbType
<1>5. ListedInv'
  BY <1>1, <1>2, <1>3 DEF ListedInv
<1>6. PollInv'
  <2>1. chain' \in Seq(TxType)
    BY <1>1, <1>2, ChainType
  <2> QED BY <1>2, <2>1, PollIdle
<1>7. ChainInv'
  BY <1>1, <1>2, ChainKept
<1> QED BY <1>3, <1>4, <1>5, <1>6, <1>7 DEF IInv

LEMMA RelayCheckIInv ==
  ASSUME IInv, NEW r \in Relays, RelayCheck(r)
  PROVE  IInv'
<1>1. TypeOK /\ ChainInv /\ ListedInv /\ PollInv
  BY DEF IInv
<1>2. UNCHANGED <<chain, db, trees, poller, crashes, errors, nulls>>
  BY DEF RelayCheck
<1>3. /\ TableIsPrefix' /\ TreeIsTable'
      /\ NothingUnseenBehindCursor' /\ SeenIsStored'
      /\ db' \in DbType /\ trees' \in [Mints -> Seq(Signature)]
      /\ db'.seen \subseteq DOMAIN chain' /\ db'.cursor <= Len(chain')
  BY <1>1, <1>2, StoreKept
<1>4. PICK pc \in {"answered", "decoding"} : relays' = [relays EXCEPT ![r].pc = pc]
  BY DEF RelayCheck
<1>5. relays[r].pc = "landed"
  BY DEF RelayCheck
<1>6. TypeOK'
  BY <1>1, <1>2, <1>3, <1>4 DEF TypeOK, DbType
<1>7. ListedInv'
  <2>1. \A q \in Relays : relays'[q].pc # "none" => relays'[q].sig \in DOMAIN chain
    BY <1>1, <1>4, <1>5 DEF TypeOK, ListedInv
  <2> QED BY <1>2, <1>3, <2>1 DEF ListedInv
<1>8. PollInv'
  BY <1>1, <1>2, PollKept
<1>9. ChainInv'
  BY <1>1, <1>2, ChainKept
<1> QED BY <1>3, <1>6, <1>7, <1>8, <1>9 DEF IInv

LEMMA RelayIndexIInv ==
  ASSUME IInv, NEW r \in Relays, RelayIndex(r)
  PROVE  IInv'
<1>1. TypeOK /\ ChainInv /\ ListedInv /\ PollInv /\ NothingUnseenBehindCursor
  BY DEF IInv
<1> PICK s : s = relays[r].sig
  OBVIOUS
<1>2. UNCHANGED <<chain, poller, crashes, errors>> /\ relays[r].pc = "decoding"
  BY DEF RelayIndex
<1>3. s \in DOMAIN chain
  BY <1>1, <1>2 DEF ListedInv
<1>4. PICK answer \in {<<>>, Emitted(s)} :
        /\ Decode(s, answer)
        /\ Store(answer, {s}, db.cursor)
        /\ relays' = [relays EXCEPT ![r].pc = IF Complete(answer) THEN "answered" ELSE "failed"]
  BY DEF RelayIndex
<1>5. nulls' \in 0 .. NullAnswers /\ (nulls' = 0 => nulls = 0 /\ answer = Emitted(s))
  BY <1>1, <1>4, DecodeCounts
<1>6. answer \in Seq(Leaf) /\ ToSet(answer) \subseteq ChainLeaves
  <2>1. Emitted(s) \in Seq(Leaf) /\ ToSet(Emitted(s)) \subseteq ChainLeaves
    BY <1>1, <1>3, EmittedLeaves DEF ChainLeaves
  <2>2. <<>> \in Seq(Leaf) /\ ToSet(<<>>) = {}
    BY DEF ToSet
  <2> QED BY <2>1, <2>2
<1> PICK all : all = (nulls' = 0)
  OBVIOUS
<1>7. /\ Good(Committed(answer, {s}, db.cursor), all)
      /\ Grown(answer) = Loaded(Committed(answer, {s}, db.cursor).rows)
      /\ db.seen \subseteq Committed(answer, {s}, db.cursor).seen
  <2> PICK batch : batch = {s}
    OBVIOUS
  <2>1. batch \subseteq DOMAIN chain /\ (all => nulls = 0)
        /\ (all => \A t \in batch : ToSet(Emitted(t)) \subseteq ToSet(answer))
    BY <1>3, <1>5
  <2>2. db.cursor \in 0 .. MaxTx /\ db.cursor <= Len(chain)
        /\ 1 .. db.cursor \subseteq db.seen \cup batch
    BY <1>1 DEF TypeOK, ListedInv, NothingUnseenBehindCursor
  <2> QED BY <1>6, <2>1, <2>2, CommittedIsGood
<1>8. Good(db', nulls' = 0) /\ trees' = Loaded(db'.rows) /\ db.seen \subseteq db'.seen
  BY <1>4, <1>7 DEF Store
<1>9. /\ TableIsPrefix' /\ TreeIsTable'
      /\ NothingUnseenBehindCursor' /\ SeenIsStored'
      /\ db' \in DbType /\ trees' \in [Mints -> Seq(Signature)]
      /\ db'.seen \subseteq DOMAIN chain' /\ db'.cursor <= Len(chain')
  BY <1>1, <1>2, <1>8, GoodStore
<1>10. PICK pc \in {"answered", "failed"} : relays' = [relays EXCEPT ![r].pc = pc]
  BY <1>4
<1>11. TypeOK'
  BY <1>1, <1>2, <1>5, <1>9, <1>10 DEF TypeOK, DbType
<1>12. ListedInv'
  <2>1. \A q \in Relays : relays'[q].pc # "none" => relays'[q].sig \in DOMAIN chain
    BY <1>1, <1>2, <1>10 DEF TypeOK, ListedInv
  <2> QED BY <1>2, <1>9, <2>1 DEF ListedInv
<1>13. PollInv'
  BY <1>1, <1>2, <1>5, <1>8, PollKept
<1>14. ChainInv'
  BY <1>1, <1>2, ChainKept
<1> QED BY <1>9, <1>11, <1>12, <1>13, <1>14 DEF IInv

\* Whatever statement a write is cut off at, the database is one the invariant
\* allows.
LEMMA TornIsGood ==
  ASSUME IInv, NEW w \in Pending, NEW d \in Torn(w)
  PROVE  Good(d, nulls = 0)
<1>1. TypeOK /\ ChainInv /\ TableIsPrefix /\ TreeIsTable
  BY DEF IInv
<1> PICK events : events = w.events
  OBVIOUS
<1>2. /\ events \in Seq(Leaf) /\ ToSet(events) \subseteq ChainLeaves
      /\ w.batch \subseteq DOMAIN chain
      /\ nulls = 0 => \A s \in w.batch : ToSet(Emitted(s)) \subseteq ToSet(events)
  BY PendingIsGood
<1>3. CASE \E last \in Applied(events) :
             d = [db EXCEPT !.rows = @ \cup {e \in Applied(events) : ~ Before(events, last, e)}]
  <2>1. PICK last \in Applied(events) :
             d = [db EXCEPT !.rows = @ \cup {e \in Applied(events) : ~ Before(events, last, e)}]
    BY <1>3
  <2> PICK L : L = {e \in Applied(events) : ~ Before(events, last, e)}
    OBVIOUS
  <2>2. \A e \in Applied(events) : e.mint \in Mints /\ e.idx \in Nat
    BY <1>1, <1>2, AppliedPools, RowIffBelow
  <2>3. ASSUME NEW e \in L, NEW f \in Applied(events), e.mint = f.mint, f.idx <= e.idx
        PROVE  f \in L
    <3>1. ~ (last.mint = e.mint /\ last.idx < e.idx)
          /\ ~ (Rank(events, last.mint) < Rank(events, e.mint))
      BY DEF Before
    <3>2. ~ (last.mint = f.mint /\ last.idx < f.idx)
      BY <2>2, <2>3, <3>1
    <3>3. ~ (Rank(events, last.mint) < Rank(events, f.mint))
      BY <2>3, <3>1
    <3> QED BY <3>2, <3>3 DEF Before
  <2>4. Prefix(db.rows \cup L)
    <3>1. L \in SUBSET Applied(events)
      OBVIOUS
    <3> QED BY <1>1, <1>2, <2>3, <3>1, CutKeepsPrefix
  <2>5. Good([db EXCEPT !.rows = db.rows \cup L], nulls = 0)
    <3>1. db.rows \subseteq db.rows \cup L
      OBVIOUS
    <3> PICK all : all = (nulls = 0)
      OBVIOUS
    <3> PICK rows : rows = db.rows \cup L
      OBVIOUS
    <3>2. Good(db, all)
      BY DbIsGood
    <3> QED BY <2>4, <3>1, <3>2, GoodRows
  <2> QED BY <2>1, <2>5
<1>4. CASE \E k \in 0 .. MaxTx :
             d = Committed(events, {s \in w.batch : s <= k}, db.cursor)
  <2>1. PICK k \in 0 .. MaxTx : d = Committed(events, {s \in w.batch : s <= k}, db.cursor)
    BY <1>4
  <2> PICK batch : batch = {s \in w.batch : s <= k}
    OBVIOUS
  <2>2. /\ batch \subseteq DOMAIN chain
        /\ nulls = 0 => \A t \in batch : ToSet(Emitted(t)) \subseteq ToSet(events)
    BY <1>2
  <2>3. db.cursor \in 0 .. MaxTx /\ db.cursor <= Len(chain)
        /\ 1 .. db.cursor \subseteq db.seen \cup batch
    BY DEF IInv, TypeOK, ListedInv, NothingUnseenBehindCursor
  <2> PICK all : all = (nulls = 0)
    OBVIOUS
  <2>4. Good(Committed(events, batch, db.cursor), all)
    BY <1>2, <2>2, <2>3, CommittedIsGood
  <2> QED BY <2>1, <2>4
<1> QED BY <1>3, <1>4 DEF Torn

LEMMA CrashIInv ==
  ASSUME IInv, Crash
  PROVE  IInv'
<1>1. TypeOK /\ ChainInv
  BY DEF IInv
<1>2. /\ poller' = Idle /\ relays' = [r \in Relays |-> [pc |-> "none", sig |-> 0]]
      /\ crashes' = crashes + 1 /\ crashes < MaxCrashes
      /\ UNCHANGED <<chain, errors, nulls>>
  BY DEF Crash
<1>3. PICK left \in {db} \cup UNION {Torn(w) : w \in Pending} :
        db' = left /\ trees' = Loaded(left.rows)
  BY DEF Crash
<1>4. Good(left, nulls = 0)
  <2>1. CASE left = db
    BY <2>1, DbIsGood
  <2>2. CASE \E w \in Pending : left \in Torn(w)
    BY <2>2, TornIsGood
  <2> QED BY <2>1, <2>2
<1>5. /\ TableIsPrefix' /\ TreeIsTable'
      /\ NothingUnseenBehindCursor' /\ SeenIsStored'
      /\ db' \in DbType /\ trees' \in [Mints -> Seq(Signature)]
      /\ db'.seen \subseteq DOMAIN chain' /\ db'.cursor <= Len(chain')
  <2>1. Good(db', nulls' = 0) /\ trees' = Loaded(db'.rows)
    BY <1>2, <1>3, <1>4
  <2> QED BY <1>1, <1>2, <2>1, GoodStore
<1>6. TypeOK'
  <2>1. Idle \in [todo : SUBSET Signature, batch : SUBSET Signature, events : Seq(Leaf),
                  last : 0 .. MaxTx]
    BY BoundsAssumption DEF Idle
  <2>2. relays' \in [Relays -> [pc : {"none", "landed", "decoding", "answered", "failed"},
                               sig : 0 .. MaxTx]]
    BY <1>2, BoundsAssumption
  <2>3. crashes' \in 0 .. MaxCrashes
    BY <1>1, <1>2, BoundsAssumption DEF TypeOK
  <2> QED BY <1>1, <1>2, <1>5, <2>1, <2>2, <2>3 DEF TypeOK, DbType
<1>7. ListedInv'
  <2>1. \A r \in Relays : relays'[r].pc = "none"
    BY <1>2
  <2> QED BY <1>5, <2>1 DEF ListedInv
<1>8. PollInv'
  <2>1. chain' \in Seq(TxType)
    BY <1>1, <1>2, ChainType
  <2> QED BY <1>2, <2>1, PollIdle
<1>9. ChainInv'
  BY <1>1, <1>2, ChainKept
<1> QED BY <1>5, <1>6, <1>7, <1>8, <1>9 DEF IInv

LEMMA StutterIInv ==
  ASSUME IInv, UNCHANGED vars
  PROVE  IInv'
<1>1. TypeOK /\ ChainInv /\ ListedInv /\ PollInv
  BY DEF IInv
<1>2. UNCHANGED <<chain, db, trees, poller, relays, crashes, errors, nulls>>
  BY DEF vars
<1>3. TableIsPrefix' /\ TreeIsTable' /\ NothingUnseenBehindCursor' /\ SeenIsStored'
  BY <1>1, <1>2, StoreKept
<1>4. TypeOK' /\ ListedInv'
  BY <1>1, <1>2 DEF TypeOK, ListedInv
<1>5. PollInv'
  BY <1>1, <1>2, PollKept
<1>6. ChainInv'
  BY <1>1, <1>2, ChainKept
<1> QED BY <1>3, <1>4, <1>5, <1>6 DEF IInv

-----------------------------------------------------------------------------
(* The theorems *)

\* The invariant of the relayer's copy of the chain, whatever interleaves with
\* the polls and wherever the process dies.
THEOREM IndexerInvariant == Spec => []IInv
<1>1. Init => IInv
  BY InitIInv
<1>2. IInv /\ [Next]_vars => IInv'
  <2> SUFFICES ASSUME IInv, [Next]_vars PROVE IInv'
    OBVIOUS
  <2>1. CASE \E block \in Blocks : Land(block)
    BY <2>1, LandIInv
  <2>2. CASE PollRead
    BY <2>2, PollReadIInv
  <2>3. CASE PollDecode
    BY <2>3, PollDecodeIInv
  <2>4. CASE PollError
    BY <2>4, PollErrorIInv
  <2>5. CASE \E r \in Relays : RelayCheck(r)
    BY <2>5, RelayCheckIInv
  <2>6. CASE \E r \in Relays : RelayIndex(r)
    BY <2>6, RelayIndexIInv
  <2>7. CASE Crash
    BY <2>7, CrashIInv
  <2>8. CASE UNCHANGED vars
    BY <2>8, StutterIInv
  <2> QED BY <2>1, <2>2, <2>3, <2>4, <2>5, <2>6, <2>7, <2>8 DEF Next, Poll
<1> QED BY <1>1, <1>2, PTL DEF Spec

\* The rows and the root that /utxos serves are those of the first leaves of
\* each pool (main.ts:731).
THEOREM StoreIsPrefixHolds == Spec => []StoreIsPrefix
<1>1. IInv => StoreIsPrefix
  BY DEF IInv, StoreIsPrefix
<1> QED BY <1>1, IndexerInvariant, PTL

\* The cursor leaves nothing behind for good, wherever a write was cut off
\* (main.ts:470-475).
THEOREM CursorIsSafeHolds == Spec => []CursorIsSafe
<1>1. IInv => CursorIsSafe
  BY DEF IInv, CursorIsSafe
<1> QED BY <1>1, IndexerInvariant, PTL

\* As long as the node answers for the transactions it lists, a poll never
\* finds leaves missing (main.ts:430).
THEOREM PollFindsNoGapHolds == Spec => []PollFindsNoGap
<1>1. IInv => PollFindsNoGap
  BY BatchHasNoGap
<1> QED BY <1>1, IndexerInvariant, PTL
=============================================================================
