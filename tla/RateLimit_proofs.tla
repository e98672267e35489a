--------------------------- MODULE RateLimit_proofs ---------------------------
(***************************************************************************)
(* Proofs about RateLimit, for any set of paths and clients and any rates, *)
(* bursts and idle time under which an idle bucket has filled up again.    *)
(***************************************************************************)
EXTENDS RateLimit, TLAPS

-----------------------------------------------------------------------------
(* Arithmetic *)

\* Refilling twice is refilling once, and never negative.
LEMMA Refill ==
  ASSUME NEW d \in Nat, NEW e \in Nat, NEW r \in Nat
  PROVE  /\ d * r \in Nat
         /\ (d + e) * r = d * r + e * r
         /\ 1 * r = r
         /\ r * d = d * r
<1>1. d * r \in Nat
  BY Z3
<1>2. (d + e) * r = d * r + e * r
  BY Z3
<1> QED BY <1>1, <1>2

\* What a longer time fills a shorter one does not exceed.
LEMMA RefillMonotone ==
  ASSUME NEW d \in Nat, NEW e \in Nat, NEW r \in Nat, d <= e
  PROVE  d * r <= e * r
<1>1. e - d \in Nat /\ e = d + (e - d)
  OBVIOUS
<1>2. (d + (e - d)) * r = d * r + (e - d) * r /\ (e - d) * r \in Nat
  BY <1>1, Refill
<1>3. d * r \in Nat
  BY Refill
<1> QED BY <1>1, <1>2, <1>3

LEMMA AtMostFacts ==
  ASSUME NEW x \in Nat, NEW y \in Nat, NEW cap \in Nat
  PROVE  /\ AtMost(x, cap) \in 0 .. cap
         /\ AtMost(AtMost(x, cap) + y, cap) = AtMost(x + y, cap)
  BY DEF AtMost

\* The limits of a bucket are those of its class.
LEMMA BucketLimits ==
  ASSUME NEW b \in Ids
  PROVE  RateOf[b] \in Nat /\ BurstOf[b] \in Nat /\ RateOf[b] * IdleTime >= BurstOf[b]
<1>1. b[1] \in Classes
  BY DEF Ids
<1> QED BY <1>1, LimitsAssumption, IdleFillsAssumption DEF RateOf, BurstOf

LEMMA BucketIsId ==
  ASSUME NEW path \in Paths, NEW client \in Clients
  PROVE  Bucket(path, client) \in Ids
  BY DEF Bucket, Ids, Classes

\* Every bucket read is a bucket within its bounds, refilled up to now.
LEMMA ReadIsBucket ==
  ASSUME TypeOK, NEW b \in Ids
  PROVE  /\ Read(b) = [tokens |-> Read(b).tokens, at |-> now]
         /\ Read(b).tokens \in 0 .. BurstOf[b]
<1>1. CASE b \in DOMAIN buckets
  <2>1. buckets[b].tokens \in Nat /\ now - buckets[b].at \in Nat
    BY <1>1 DEF TypeOK
  <2>2. (now - buckets[b].at) * RateOf[b] \in Nat
    BY <2>1, BucketLimits, Refill
  <2>3. Read(b) = [tokens |-> AtMost(buckets[b].tokens + (now - buckets[b].at) * RateOf[b],
                                     BurstOf[b]),
                   at |-> now]
    BY <1>1 DEF Read
  <2>4. buckets[b].tokens + (now - buckets[b].at) * RateOf[b] \in Nat /\ BurstOf[b] \in Nat
    BY <2>1, <2>2, BucketLimits
  <2> HIDE DEF TypeOK
  <2> QED BY <2>3, <2>4, AtMostFacts
<1>2. CASE b \notin DOMAIN buckets
  BY <1>2, BucketLimits DEF Read
<1> QED BY <1>1, <1>2

-----------------------------------------------------------------------------
(* How each action moves the level *)

\* A request takes its cost from its own bucket, if the bucket has it.
LEMMA UseLevel ==
  ASSUME TypeOK, NEW b \in Ids, Use(b)
  PROVE  Level' = [Level EXCEPT ![b] = IF @ >= Unit THEN @ - Unit ELSE @]
<1> DEFINE full == Read(b)
           left == IF full.tokens >= Unit THEN [full EXCEPT !.tokens = @ - Unit] ELSE full
           v == IF full.tokens >= Unit THEN full.tokens - Unit ELSE full.tokens
<1>1. /\ buckets' = [x \in DOMAIN buckets \cup {b} |-> IF x = b THEN left ELSE buckets[x]]
      /\ now' = now
  BY DEF Use
<1>2. full = [tokens |-> full.tokens, at |-> now] /\ full.tokens \in 0 .. BurstOf[b]
  BY ReadIsBucket
<1>3. left.tokens = v /\ left.at = now /\ v \in 0 .. BurstOf[b]
  <2>1. CASE full.tokens >= Unit
    <3>1. left = [tokens |-> v, at |-> now]
      BY <1>2, <2>1
    <3> QED BY <1>2, <2>1, <3>1, BucketLimits, LimitsAssumption
  <2>2. CASE ~(full.tokens >= Unit)
    BY <1>2, <2>2
  <2> QED BY <2>1, <2>2
<1> HIDE DEF full, left, v
<1>4. Read(b)'.tokens = v
  <2>1. b \in DOMAIN buckets' /\ buckets'[b] = left
    BY <1>1
  <2>2. RateOf' = RateOf /\ BurstOf' = BurstOf
    BY DEF RateOf, BurstOf
  <2>3. (now' - left.at) * RateOf[b] = 0
    <3>1. now' - left.at = 0
      BY <1>1, <1>3 DEF TypeOK
    <3> QED BY <3>1, BucketLimits
  <2> QED BY <1>3, <2>1, <2>2, <2>3, BucketLimits DEF Read, AtMost
<1>5. ASSUME NEW x \in Ids, x # b
      PROVE  Read(x)' = Read(x)
  BY <1>1, <1>5 DEF Read, RateOf, BurstOf
<1> QED BY <1>4, <1>5 DEF Level, full, v

\* The time fills every bucket.
LEMMA TickLevel ==
  ASSUME TypeOK, Tick
  PROVE  Level' = [b \in Ids |-> AtMost(Level[b] + RateOf[b], BurstOf[b])]
<1>1. ASSUME NEW b \in Ids
      PROVE  Read(b)'.tokens = AtMost(Read(b).tokens + RateOf[b], BurstOf[b])
  <2>1. CASE b \in DOMAIN buckets
    <3> DEFINE d == now - buckets[b].at
    <3>1. d \in Nat /\ buckets[b].tokens \in Nat /\ (now + 1) - buckets[b].at = d + 1
      BY <2>1 DEF TypeOK
    <3>2. (d + 1) * RateOf[b] = d * RateOf[b] + RateOf[b] /\ d * RateOf[b] \in Nat
      BY <3>1, BucketLimits, Refill
    <3>3. Read(b)'.tokens = AtMost(buckets[b].tokens + (d + 1) * RateOf[b], BurstOf[b])
      BY <2>1, <3>1 DEF Tick, Read, RateOf, BurstOf
    <3>4. Read(b).tokens = AtMost(buckets[b].tokens + d * RateOf[b], BurstOf[b])
      BY <2>1 DEF Read
    <3> DEFINE x == buckets[b].tokens + d * RateOf[b]
    <3>5. x \in Nat /\ RateOf[b] \in Nat /\ BurstOf[b] \in Nat
          /\ buckets[b].tokens + (d + 1) * RateOf[b] = x + RateOf[b]
      BY <3>1, <3>2, BucketLimits
    <3> HIDE DEF d, x
    <3>6. AtMost(AtMost(x, BurstOf[b]) + RateOf[b], BurstOf[b]) = AtMost(x + RateOf[b], BurstOf[b])
      BY <3>5, AtMostFacts
    <3> QED BY <3>3, <3>4, <3>5, <3>6 DEF x
  <2>2. CASE b \notin DOMAIN buckets
    BY <2>2, BucketLimits DEF Tick, Read, RateOf, BurstOf, AtMost
  <2> QED BY <2>1, <2>2
<1> QED BY <1>1 DEF Level

\* Deleting stale buckets changes nothing: each of them is full.
LEMMA SweepLevel ==
  ASSUME TypeOK, Sweep
  PROVE  Level' = Level
<1>1. ASSUME NEW b \in Ids
      PROVE  Read(b)'.tokens = Read(b).tokens
  <2>1. CASE b \in DOMAIN buckets /\ Stale(b)
    <3>1. /\ b \notin DOMAIN buckets'
          /\ Read(b)'.tokens = BurstOf[b]
      BY <2>1 DEF Sweep, Read, BurstOf
    <3>2. /\ now - buckets[b].at \in Nat /\ IdleTime <= now - buckets[b].at
          /\ buckets[b].tokens \in Nat /\ IdleTime \in Nat
      BY <2>1, LimitsAssumption DEF TypeOK, Stale
    <3>3. (now - buckets[b].at) * RateOf[b] >= BurstOf[b]
      <4>1. IdleTime * RateOf[b] <= (now - buckets[b].at) * RateOf[b]
        BY <3>2, BucketLimits, RefillMonotone
      <4>2. /\ IdleTime * RateOf[b] = RateOf[b] * IdleTime
            /\ IdleTime * RateOf[b] \in Nat /\ (now - buckets[b].at) * RateOf[b] \in Nat
        BY <3>2, BucketLimits, Refill
      <4> QED BY <4>1, <4>2, BucketLimits
    <3>4. Read(b).tokens = AtMost(buckets[b].tokens + (now - buckets[b].at) * RateOf[b], BurstOf[b])
      BY <2>1 DEF Read
    <3>5. (now - buckets[b].at) * RateOf[b] \in Nat
      BY <3>2, BucketLimits, Refill
    <3> QED BY <3>1, <3>2, <3>3, <3>4, <3>5, BucketLimits DEF AtMost
  <2>2. CASE ~(b \in DOMAIN buckets /\ Stale(b))
    BY <2>2 DEF Sweep, Read, RateOf, BurstOf
  <2> QED BY <2>1, <2>2
<1> QED BY <1>1 DEF Level

-----------------------------------------------------------------------------
(* The invariant *)

\* What a window has granted and what its bucket could still grant at once
\* stay together below the bound; WindowBound alone forgets the latter.
WindowInv ==
  Unit * window.granted + Level[window.bucket]
    <= BurstOf[window.bucket] + RateOf[window.bucket] * (now - window.from)

Watched == window = [bucket |-> window.bucket, from |-> window.from, granted |-> window.granted]

IInv == TypeOK /\ Watched /\ WindowInv

LEMMA InitIInv == Init => IInv
<1> SUFFICES ASSUME Init PROVE IInv
  OBVIOUS
<1>1. TypeOK /\ Watched
  BY DEF Init, TypeOK, Watched
<1>2. window.bucket \in Ids /\ window.granted = 0 /\ now - window.from = 0
  BY DEF Init
<1>3. Level[window.bucket] = BurstOf[window.bucket]
  BY <1>2 DEF Level, Read, Init
<1> QED BY <1>1, <1>2, <1>3, BucketLimits, LimitsAssumption DEF IInv, WindowInv

\* A level is a number between nothing and the burst.
LEMMA LevelIsTyped ==
  ASSUME TypeOK, NEW b \in Ids
  PROVE  Level[b] \in Nat /\ Level[b] <= BurstOf[b] /\ Level[b] = Read(b).tokens
<1>1. Level[b] = Read(b).tokens
  BY DEF Level
<1> QED BY <1>1, ReadIsBucket, BucketLimits

LEMMA UseKeeps ==
  ASSUME IInv, NEW b \in Ids, Use(b)
  PROVE  IInv'
<1> USE DEF IInv
<1>1. Level' = [Level EXCEPT ![b] = IF @ >= Unit THEN @ - Unit ELSE @]
  BY UseLevel
<1> DEFINE full == Read(b)
           left == IF full.tokens >= Unit THEN [full EXCEPT !.tokens = @ - Unit] ELSE full
<1>2. /\ buckets' = [x \in DOMAIN buckets \cup {b} |-> IF x = b THEN left ELSE buckets[x]]
      /\ window' = IF full.tokens >= Unit /\ window.bucket = b
                   THEN [window EXCEPT !.granted = @ + 1] ELSE window
      /\ now' = now
  BY DEF Use
<1>3. full = [tokens |-> full.tokens, at |-> now] /\ full.tokens \in 0 .. BurstOf[b]
  BY ReadIsBucket
<1>4. left = [tokens |-> left.tokens, at |-> now] /\ left.tokens \in 0 .. BurstOf[b]
  BY <1>3, LimitsAssumption, BucketLimits
<1> HIDE DEF left, full
<1>5. Watched' /\ window'.bucket = window.bucket /\ window'.from = window.from
  BY <1>2 DEF Watched
<1>6. window'.granted = IF full.tokens >= Unit /\ window.bucket = b
                        THEN window.granted + 1 ELSE window.granted
  BY <1>2 DEF Watched
<1>7. TypeOK'
  <2>1. ASSUME NEW x \in DOMAIN buckets'
        PROVE  /\ DOMAIN buckets'[x] = {"tokens", "at"}
               /\ buckets'[x].tokens \in 0 .. BurstOf'[x]
               /\ buckets'[x].at \in 0 .. now'
    <3>1. CASE x = b
      BY <1>2, <1>4, <3>1 DEF TypeOK, BurstOf
    <3>2. CASE x # b
      BY <1>2, <3>2 DEF TypeOK, BurstOf
    <3> QED BY <3>1, <3>2
  <2>2. DOMAIN buckets' \subseteq Ids' /\ now' \in Nat
    BY <1>2 DEF TypeOK, Ids, Classes
  <2>3. window'.bucket \in Ids' /\ window'.from \in 0 .. now' /\ window'.granted \in Nat
    BY <1>2, <1>5, <1>6 DEF TypeOK, Ids, Classes
  <2> QED BY <2>1, <2>2, <2>3 DEF TypeOK
<1>8. WindowInv'
  <2> DEFINE w == window.bucket
  <2>1. w \in Ids /\ window.granted \in Nat /\ Level[w] \in Nat
    BY LevelIsTyped DEF TypeOK
  <2>2. BurstOf' = BurstOf /\ RateOf' = RateOf
    BY DEF BurstOf, RateOf
  <2>3. RateOf[w] * (now - window.from) \in Int /\ BurstOf[w] \in Nat
    BY <2>1, BucketLimits DEF TypeOK
  <2>4. Unit * (window.granted + 1) = Unit * window.granted + Unit /\ Unit * window.granted \in Int
    BY <2>1, LimitsAssumption, Z3
  <2>5. Level[b] = full.tokens
    BY LevelIsTyped DEF full
  <2>6. w \in DOMAIN Level
    BY <2>1 DEF Level
  <2>7. Level'[w] = IF w = b /\ Level[w] >= Unit THEN Level[w] - Unit ELSE Level[w]
    BY <1>1, <2>1, <2>6
  <2>8. Unit * window'.granted + Level'[w] = Unit * window.granted + Level[w]
    <3>1. CASE w = b /\ Level[w] >= Unit
      BY <1>6, <2>1, <2>4, <2>5, <2>7, <3>1, LimitsAssumption
    <3>2. CASE ~(w = b /\ Level[w] >= Unit)
      BY <1>6, <2>5, <2>7, <3>2
    <3> QED BY <3>1, <3>2
  <2> QED BY <1>2, <1>5, <2>2, <2>8 DEF WindowInv
<1> QED BY <1>5, <1>7, <1>8

LEMMA SweepKeeps ==
  ASSUME IInv, Sweep
  PROVE  IInv'
<1>1. Level' = Level
  BY SweepLevel DEF IInv
<1>2. TypeOK' /\ Watched'
  BY DEF IInv, TypeOK, Watched, Sweep, Ids, Classes, BurstOf
<1> QED BY <1>1, <1>2 DEF IInv, WindowInv, Sweep, BurstOf, RateOf

LEMMA TickKeeps ==
  ASSUME IInv, Tick
  PROVE  IInv'
<1> DEFINE w == window.bucket
<1>1. Level' = [b \in Ids |-> AtMost(Level[b] + RateOf[b], BurstOf[b])]
  BY TickLevel DEF IInv
<1>2. TypeOK' /\ Watched'
  <2>1. buckets' = buckets /\ window' = window /\ now' = now + 1 /\ now \in Nat
        /\ Ids' = Ids /\ BurstOf' = BurstOf
    BY DEF IInv, TypeOK, Tick, Ids, Classes, BurstOf
  <2>2. ASSUME NEW x \in 0 .. now
        PROVE  x \in 0 .. now + 1
    BY <2>1
  <2> QED BY <2>1, <2>2 DEF IInv, TypeOK, Watched
<1>3. w \in Ids /\ Level[w] \in Nat /\ RateOf[w] \in Nat /\ BurstOf[w] \in Nat
      /\ now - window.from \in Nat /\ (now + 1) - window.from = (now - window.from) + 1
  BY LevelIsTyped, BucketLimits DEF IInv, TypeOK
<1>4. Level'[w] <= Level[w] + RateOf[w]
  BY <1>1, <1>3 DEF AtMost
<1>5. RateOf[w] * ((now - window.from) + 1) = RateOf[w] * (now - window.from) + RateOf[w]
      /\ RateOf[w] * (now - window.from) \in Int
  <2> DEFINE d == now - window.from
  <2>1. (d + 1) * RateOf[w] = d * RateOf[w] + 1 * RateOf[w] /\ d * RateOf[w] \in Nat
        /\ 1 * RateOf[w] = RateOf[w]
    BY <1>3, Refill
  <2>2. RateOf[w] * (d + 1) = (d + 1) * RateOf[w] /\ RateOf[w] * d = d * RateOf[w]
    BY <1>3, Refill
  <2> QED BY <1>3, <2>1, <2>2
<1>6. Unit * window.granted \in Int /\ Level'[w] \in Int
  BY <1>1, <1>3, LimitsAssumption DEF IInv, TypeOK, AtMost
<1>7. window' = window /\ now' = now + 1 /\ RateOf' = RateOf /\ BurstOf' = BurstOf
  BY DEF Tick, RateOf, BurstOf
<1>8. Unit * window.granted + Level'[w] <= BurstOf[w] + RateOf[w] * ((now + 1) - window.from)
  BY <1>3, <1>4, <1>5, <1>6 DEF IInv, WindowInv
<1> QED BY <1>2, <1>7, <1>8 DEF IInv, WindowInv

LEMMA WatchKeeps ==
  ASSUME IInv, NEW b \in Ids, Watch(b)
  PROVE  IInv'
<1>1. /\ window' = [bucket |-> b, from |-> now, granted |-> 0]
      /\ now' = now /\ buckets' = buckets
  BY DEF Watch
<1>2. TypeOK' /\ Watched'
  <2>1. Ids' = Ids /\ BurstOf' = BurstOf
    BY DEF Ids, Classes, BurstOf
  <2>3. now \in Nat /\ now \in 0 .. now
    BY DEF IInv, TypeOK
  <2>2. window'.bucket = b /\ window'.from = now /\ window'.granted = 0
    BY <1>1
  <2> QED BY <1>1, <2>1, <2>2, <2>3 DEF IInv, TypeOK, Watched
<1>3. Level' = Level /\ RateOf' = RateOf /\ BurstOf' = BurstOf
  BY <1>1 DEF Level, Read, RateOf, BurstOf
<1>4. Level[b] \in Nat /\ Level[b] <= BurstOf[b] /\ RateOf[b] \in Nat /\ BurstOf[b] \in Nat
  BY LevelIsTyped, BucketLimits DEF IInv
<1>5. Unit * 0 = 0 /\ RateOf[b] * (now - now) = 0
  BY <1>4, LimitsAssumption DEF IInv, TypeOK
<1> QED BY <1>1, <1>2, <1>3, <1>4, <1>5 DEF IInv, WindowInv

LEMMA NextKeeps ==
  ASSUME IInv, [Next]_vars
  PROVE  IInv'
<1>1. ASSUME NEW path \in Paths, NEW client \in Clients, Request(path, client)
      PROVE  IInv'
  BY <1>1, BucketIsId, UseKeeps DEF Request
<1>2. CASE Sweep
  BY <1>2, SweepKeeps
<1>3. CASE Tick
  BY <1>3, TickKeeps
<1>4. ASSUME NEW b \in Ids, Watch(b)
      PROVE  IInv'
  BY <1>4, WatchKeeps
<1>5. CASE UNCHANGED vars
  BY <1>5 DEF vars, IInv, TypeOK, Watched, WindowInv, Level, Read, RateOf, BurstOf, Ids, Classes
<1> QED BY <1>1, <1>2, <1>3, <1>4, <1>5 DEF Next

\* The strengthened invariant of every behaviour of the limiter.
THEOREM Invariant == Spec => []IInv
<1>1. Init => IInv
  BY InitIInv
<1>2. IInv /\ [Next]_vars => IInv'
  BY NextKeeps
<1> QED BY <1>1, <1>2, PTL DEF Spec

\* No bucket holds more than its burst or less than nothing (main.ts:650).
THEOREM TypeCorrect == Spec => []TypeOK
<1>1. IInv => TypeOK
  BY DEF IInv
<1> QED BY <1>1, Invariant, PTL

\* Within any stretch of time a bucket grants no more than its burst and its
\* rate, although it is deleted and recreated (main.ts:648, 658).
THEOREM WindowBoundHolds == Spec => []WindowBound
<1>1. IInv => WindowBound
  <2> SUFFICES ASSUME IInv PROVE WindowBound
    OBVIOUS
  <2>1. window.bucket \in Ids /\ window.granted \in Nat /\ now - window.from \in Nat
    BY DEF IInv, TypeOK
  <2>2. /\ Level[window.bucket] \in Nat
        /\ Unit * window.granted \in Int
        /\ RateOf[window.bucket] * (now - window.from) \in Int
        /\ BurstOf[window.bucket] \in Nat
    BY <2>1, LevelIsTyped, BucketLimits, LimitsAssumption DEF IInv
  <2> QED BY <2>2 DEF IInv, WindowInv, WindowBound
<1> QED BY <1>1, Invariant, PTL

-----------------------------------------------------------------------------
(* The refinement *)

\* Every step of the limiter is a step of the ideal bucket or invisible.
LEMMA StepImplements ==
  ASSUME TypeOK, [Next]_vars
  PROVE  [Ideal!Next]_Ideal!vars
<1>1. ASSUME NEW path \in Paths, NEW client \in Clients, Request(path, client)
      PROVE  Ideal!Next
  <2> DEFINE b == Bucket(path, client)
  <2>1. b \in Ids /\ Use(b)
    BY <1>1, BucketIsId DEF Request
  <2>2. Level' = [Level EXCEPT ![b] = IF @ >= Unit THEN @ - Unit ELSE @]
    BY <2>1, UseLevel
  <2>3. last' = [bucket |-> b, ok |-> Level[b] >= Unit]
    BY <2>1, LevelIsTyped DEF Use
  <2> QED BY <2>1, <2>2, <2>3 DEF Ideal!Next, Ideal!Request
<1>2. CASE Sweep
  BY <1>2, SweepLevel DEF Sweep, Ideal!vars
<1>3. CASE Tick
  BY <1>3, TickLevel DEF Tick, Ideal!Next, Ideal!Tick, Ideal!AtMost, AtMost
<1>4. ASSUME NEW b \in Ids, Watch(b)
      PROVE  UNCHANGED Ideal!vars
  BY <1>4 DEF Watch, Ideal!vars, Level, Read, RateOf, BurstOf
<1>5. CASE UNCHANGED vars
  BY <1>5 DEF vars, Ideal!vars, Level, Read, RateOf, BurstOf
<1> QED BY <1>1, <1>2, <1>3, <1>4, <1>5 DEF Next

\* Each answer of the limiter is the one a bucket would give that is never
\* deleted and fills as the time passes.
THEOREM ImplementsIdealHolds == Spec => ImplementsIdeal
<1>1. Init => Ideal!Init
  <2> SUFFICES ASSUME Init PROVE Ideal!Init
    OBVIOUS
  <2>1. Level = BurstOf
    BY DEF Init, Level, Read, BurstOf
  <2> QED BY <2>1 DEF Init, Ideal!Init
<1>2. TypeOK /\ [Next]_vars => [Ideal!Next]_Ideal!vars
  BY StepImplements
<1> QED BY <1>1, <1>2, TypeCorrect, PTL DEF Spec, ImplementsIdeal, Ideal!Spec
=============================================================================
