----------------------------- MODULE Fees_proofs -----------------------------
(***************************************************************************)
(* Proofs about Fees, for any pools, prices, fees and configurations.      *)
(*                                                                         *)
(* A relayer that requires prices relays nothing for a token that has had  *)
(* no market for the life of a price (IInv).  What the SDK quotes covers   *)
(* what is known of rates and prices; that is enough for the relayer until *)
(* one of them moves too far, and what the relayer admits is enough for    *)
(* the program (PayInv).  What the SDK offers as spendable is, as long as  *)
(* its rounds come close enough (Converges).                               *)
(*                                                                         *)
(* And about Deposit, for any transfer fees, rates and balance: a transfer *)
(* of the gross of n delivers n (GrossDelivers), so what the SDK previewed *)
(* is what the program takes while neither fee nor rate moves              *)
(* (DepositInv), and the amount it finds for a credit is the smallest      *)
(* (FoundIsSmallest).                                                      *)
(***************************************************************************)
EXTENDS Fees, Deposit, WellFoundedInduction, TLAPS

-----------------------------------------------------------------------------
(* The invariant *)

\* A market that exists is not gone, and a price is at least as old as its
\* market has been gone: it was read while there was one.
AgeInv ==
  \A m \in Pools :
    /\ market[m] # 0 => gone[m] = 0
    /\ prices[m] # None => gone[m] <= prices[m].age

IInv == TypeOK /\ AgeInv /\ NoMarketNoRelay

LEMMA InitIInv == Init => IInv
<1> SUFFICES ASSUME Init PROVE IInv
  OBVIOUS
<1>1. MapsOk
  <2>1. market \in [Pools -> Nat]
    BY FeesAssumption DEF Init
  <2> QED BY <2>1 DEF Init, MapsOk, Empty
<1>2. AgeInv
  BY DEF Init, AgeInv, Empty
<1>3. RequestOk /\ NoMarketNoRelay
  BY DEF Init, RequestOk, NoMarketNoRelay
<1> QED BY <1>1, <1>2, <1>3 DEF IInv, TypeOK

\* Ages are numbers, and growing older keeps their order (tokens.ts:121).
LEMMA OlderKeeps ==
  ASSUME NEW a \in Nat, NEW b \in Nat, a <= b
  PROVE  /\ Older(a, PriceLife) \in Nat /\ Older(b, PriceLife) \in Nat
         /\ Older(a, PriceLife) <= Older(b, PriceLife)
<1>1. PriceLife \in Nat
  BY FeesAssumption, PriceLife \in {SendFlatSol, WithdrawFlatSol, SolFlat, Margin, DefaultBps,
                                    PriceLife, MaxMoves}
<1> QED BY <1>1 DEF Older

\* Only the world and the request count.
LEMMA RequestStays ==
  ASSUME RequestOk, NoMarketNoRelay, UNCHANGED request
  PROVE  RequestOk' /\ NoMarketNoRelay'
  BY DEF RequestOk, NoMarketNoRelay

LEMMA MapsStay ==
  ASSUME MapsOk, AgeInv, UNCHANGED <<market, gone, prices>>
  PROVE  MapsOk' /\ AgeInv'
  BY DEF MapsOk, AgeInv

-----------------------------------------------------------------------------
(* Steps *)

LEMMA RefreshKeeps ==
  ASSUME IInv, NEW mints, RefreshPrices(mints)
  PROVE  IInv'
<1>1. UNCHANGED <<market, gone, request>>
  BY DEF RefreshPrices, world
<1>2. MapsOk' /\ AgeInv'
  <2>1. ASSUME NEW m \in Pools
        PROVE  \/ prices'[m] = prices[m]
               \/ prices'[m] = None
               \/ market[m] # 0 /\ prices'[m] = [usd |-> market[m], age |-> 0]
    BY DEF RefreshPrices
  <2>2. DOMAIN prices' = Pools
    BY DEF RefreshPrices
  <2>3. ASSUME NEW m \in Pools, prices'[m] # None
        PROVE  /\ {"usd", "age"} \subseteq DOMAIN prices'[m] /\ prices'[m].age \in Nat
               /\ gone[m] <= prices'[m].age
    <3>1. CASE prices'[m] = prices[m]
      BY <2>3, <3>1 DEF IInv, TypeOK, MapsOk, AgeInv
    <3>2. CASE market[m] # 0 /\ prices'[m] = [usd |-> market[m], age |-> 0]
      BY <3>2 DEF IInv, TypeOK, AgeInv
    <3> QED BY <2>1, <2>3, <3>1, <3>2
  <2> QED BY <1>1, <2>2, <2>3 DEF IInv, TypeOK, MapsOk, AgeInv
<1> QED BY <1>1, <1>2, RequestStays DEF IInv, TypeOK

LEMMA QuoteKeeps ==
  ASSUME IInv, NEW m \in Pools, NEW kind \in Kinds, NEW amount, Quote(m, kind, amount)
  PROVE  IInv'
<1>1. MapsOk' /\ AgeInv'
  BY MapsStay DEF IInv, TypeOK, Quote, world
<1>2. /\ {"mint", "kind", "amount", "fee", "relay", "payee", "steady", "gone", "state"}
           \subseteq DOMAIN request'
      /\ request'.mint = m /\ request'.kind = kind /\ request'.state = "quoted"
  BY DEF Quote
<1> QED BY <1>1, <1>2 DEF IInv, TypeOK, RequestOk, NoMarketNoRelay

\* A price that is used is younger than the life of prices, and so is the
\* absence of its market (tokens.ts:119-122).
LEMMA PricedIsRecent ==
  ASSUME IInv, NEW m \in Pools, UsdPrice(m) # None
  PROVE  gone[m] < PriceLife
<1>1. prices[m] # None /\ prices[m].age < PriceLife
  BY DEF UsdPrice
<1> QED BY <1>1, FeesAssumption DEF IInv, TypeOK, MapsOk, AgeInv

\* relay refuses what it cannot price (main.ts:498).
LEMMA AdmitKeeps ==
  ASSUME IInv, Admit
  PROVE  IInv'
<1> DEFINE r == request
<1>1. r # None /\ UNCHANGED <<market, gone, prices>>
  BY DEF Admit, world
<1>2. MapsOk' /\ AgeInv'
  BY <1>1, MapsStay DEF IInv, TypeOK
<1>3. r.mint \in Pools /\ r.kind \in Kinds
      /\ {"mint", "kind", "amount", "fee", "relay", "payee", "steady", "gone", "state"}
           \subseteq DOMAIN r
  BY <1>1 DEF IInv, TypeOK, RequestOk
<1>4. /\ DOMAIN request' = DOMAIN r
      /\ request'.mint = r.mint /\ request'.kind = r.kind
      /\ request'.state \in {"unpriced", "too low", "admitted"}
      /\ Unquotable(r.mint, r.kind) => request'.state = "unpriced"
      /\ request'.gone = IF gone[r.mint] > gone[SOL] THEN gone[r.mint] ELSE gone[SOL]
  BY <1>3 DEF Admit
<1>5. RequestOk'
  BY <1>3, <1>4 DEF RequestOk
<1>6. ASSUME RequirePrice, r.mint # SOL, request'.state = "admitted"
      PROVE  request'.gone < PriceLife
  <2>1. ~Unquotable(r.mint, r.kind)
    BY <1>4, <1>6
  <2>2. UsdPrice(r.mint) # None /\ UsdPrice(SOL) # None
    BY <1>6, <2>1 DEF Unquotable, Flat
  <2>3. SOL \in Pools
    BY DEF Pools
  <2>4. gone[r.mint] < PriceLife /\ gone[SOL] < PriceLife
    BY <1>3, <2>2, <2>3, PricedIsRecent
  <2> QED BY <1>4, <2>4
<1>7. NoMarketNoRelay'
  BY <1>4, <1>6 DEF NoMarketNoRelay
<1> QED BY <1>2, <1>5, <1>7 DEF IInv, TypeOK

\* What has been admitted keeps what was known then.
LEMMA RelayedKeeps ==
  ASSUME IInv, Send \/ Execute
  PROVE  IInv'
<1> DEFINE r == request
<1>1. r # None /\ r.state \in {"admitted", "sent"} /\ UNCHANGED <<market, gone, prices>>
  BY DEF Send, Execute, world, relayer
<1>2. MapsOk' /\ AgeInv'
  BY <1>1, MapsStay DEF IInv, TypeOK
<1>3. r.mint \in Pools /\ r.kind \in Kinds
      /\ {"mint", "kind", "amount", "fee", "relay", "payee", "steady", "gone", "state"}
           \subseteq DOMAIN r
  BY <1>1 DEF IInv, TypeOK, RequestOk
<1>4. /\ DOMAIN request' = DOMAIN r
      /\ request'.mint = r.mint /\ request'.kind = r.kind /\ request'.gone = r.gone
  <2>1. CASE Send
    BY <1>3, <2>1 DEF Send
  <2>2. CASE Execute
    BY <1>3, <2>2 DEF Execute
  <2> QED BY <2>1, <2>2
<1>5. RequestOk'
  BY <1>3, <1>4 DEF RequestOk
<1>6. NoMarketNoRelay'
  BY <1>1, <1>4 DEF IInv, TypeOK, NoMarketNoRelay
<1> QED BY <1>2, <1>5, <1>6 DEF IInv, TypeOK

LEMMA MarketKeeps ==
  ASSUME IInv, NEW m \in Pools, NEW usd \in UsdOf[m], MarketMoves(m, usd)
  PROVE  IInv'
<1>1. UNCHANGED <<prices, request>>
  BY DEF MarketMoves, relayer
<1>2. usd \in Nat
  BY FeesAssumption
<1>3. /\ market' = [market EXCEPT ![m] = usd]
      /\ gone' = [gone EXCEPT ![m] = 0]
  BY DEF MarketMoves
<1>4. MapsOk'
  BY <1>1, <1>2, <1>3 DEF IInv, TypeOK, MapsOk
<1>5. AgeInv'
  BY <1>1, <1>3 DEF IInv, TypeOK, MapsOk, AgeInv
<1> QED BY <1>1, <1>4, <1>5, RequestStays DEF IInv, TypeOK

LEMMA ConfigKeeps ==
  ASSUME IInv, NEW value, UpdateConfig(value)
  PROVE  IInv'
<1>1. UNCHANGED <<market, gone, prices>>
  BY DEF UpdateConfig, relayer
<1>2. MapsOk' /\ AgeInv'
  BY <1>1, MapsStay DEF IInv, TypeOK
<1>3. CASE UNCHANGED request
  BY <1>2, <1>3, RequestStays DEF IInv, TypeOK
<1>4. CASE request # None /\ request' = [request EXCEPT !.steady = FALSE]
  <2>1. {"mint", "kind", "amount", "fee", "relay", "payee", "steady", "gone", "state"}
          \subseteq DOMAIN request
    BY <1>4 DEF IInv, TypeOK, RequestOk
  <2>2. /\ DOMAIN request' = DOMAIN request
        /\ request'.mint = request.mint /\ request'.kind = request.kind
        /\ request'.state = request.state /\ request'.gone = request.gone
    BY <1>4, <2>1
  <2> QED BY <1>2, <1>4, <2>1, <2>2 DEF IInv, TypeOK, RequestOk, NoMarketNoRelay
<1> QED BY <1>3, <1>4 DEF UpdateConfig, UnderWay

LEMMA RestartKeeps ==
  ASSUME IInv, Restart
  PROVE  IInv'
<1>1. UNCHANGED <<market, gone, request>> /\ prices' = Empty
  BY DEF Restart, world
<1> QED BY <1>1, RequestStays DEF IInv, TypeOK, MapsOk, AgeInv, Empty

LEMMA ReopenKeeps ==
  ASSUME IInv, Reopen
  PROVE  IInv'
<1>1. UNCHANGED <<market, gone, prices>> /\ request' = None
  BY DEF Reopen, world, relayer
<1> QED BY <1>1, MapsStay DEF IInv, TypeOK, RequestOk, NoMarketNoRelay

LEMMA TickKeeps ==
  ASSUME IInv, Tick
  PROVE  IInv'
<1>1. UNCHANGED <<market, request>>
  BY DEF Tick
<1>2. /\ DOMAIN prices' = Pools /\ DOMAIN gone' = Pools
      /\ \A m \in Pools : gone'[m] = IF market[m] = 0 THEN Older(gone[m], PriceLife) ELSE 0
      /\ gone' = [m \in Pools |-> gone'[m]]
  BY DEF Tick
<1>3. ASSUME NEW m \in Pools
      PROVE  gone'[m] \in Nat /\ (market'[m] # 0 => gone'[m] = 0)
  BY <1>1, <1>2, OlderKeeps DEF IInv, TypeOK, MapsOk
<1>4. ASSUME NEW m \in Pools, prices'[m] # None
      PROVE  /\ {"usd", "age"} \subseteq DOMAIN prices'[m] /\ prices'[m].age \in Nat
             /\ gone'[m] <= prices'[m].age
  <2>1. prices[m] # None
    BY <1>4 DEF Tick
  <2>2. {"usd", "age"} \subseteq DOMAIN prices[m] /\ prices[m].age \in Nat
        /\ gone[m] \in Nat /\ gone[m] <= prices[m].age
    BY <2>1 DEF IInv, TypeOK, MapsOk, AgeInv
  <2>3. prices'[m] = [prices[m] EXCEPT !.age = Older(prices[m].age, PriceLife)]
    BY <2>1 DEF Tick
  <2>4. DOMAIN prices'[m] = DOMAIN prices[m] /\ prices'[m].age = Older(prices[m].age, PriceLife)
    BY <2>2, <2>3
  <2>5. Older(prices[m].age, PriceLife) \in Nat
        /\ Older(gone[m], PriceLife) <= Older(prices[m].age, PriceLife)
    BY <2>2, OlderKeeps
  <2>6. gone'[m] <= Older(prices[m].age, PriceLife)
    BY <1>2, <2>5
  <2> QED BY <2>2, <2>4, <2>5, <2>6
<1>5. gone' \in [Pools -> Nat]
  BY <1>2, <1>3
<1>6. MapsOk'
  BY <1>1, <1>2, <1>4, <1>5 DEF IInv, TypeOK, MapsOk
<1>7. AgeInv'
  BY <1>3, <1>4 DEF AgeInv
<1> QED BY <1>1, <1>6, <1>7, RequestStays DEF IInv, TypeOK

LEMMA NextKeeps == IInv /\ [Next]_vars => IInv'
<1> SUFFICES ASSUME IInv, [Next]_vars PROVE IInv'
  OBVIOUS
<1>1. CASE PriceLoop \/ ListPools
  BY <1>1, RefreshKeeps DEF PriceLoop, ListPools
<1>2. ASSUME NEW m \in Pools, NEW kind \in Kinds, NEW amount \in AmountsOf(kind),
             Quote(m, kind, amount)
      PROVE  IInv'
  BY <1>2, QuoteKeeps
<1>3. CASE Admit
  BY <1>3, AdmitKeeps
<1>4. CASE Send \/ Execute
  BY <1>4, RelayedKeeps
<1>5. ASSUME NEW m \in Pools, NEW usd \in UsdOf[m], MarketMoves(m, usd)
      PROVE  IInv'
  BY <1>5, MarketKeeps
<1>6. ASSUME NEW value \in Configs, UpdateConfig(value)
      PROVE  IInv'
  BY <1>6, ConfigKeeps
<1>7. CASE Restart
  BY <1>7, RestartKeeps
<1>8. CASE Reopen
  BY <1>8, ReopenKeeps
<1>9. CASE Tick
  BY <1>9, TickKeeps
<1>10. CASE CacheExpires \/ UNCHANGED vars
  <2>1. UNCHANGED <<market, gone, prices, request>>
    BY <1>10 DEF CacheExpires, vars, world, relayer
  <2> QED BY <2>1, MapsStay, RequestStays DEF IInv, TypeOK
<1> QED BY <1>1, <1>2, <1>3, <1>4, <1>5, <1>6, <1>7, <1>8, <1>9, <1>10 DEF Next

-----------------------------------------------------------------------------
(* Numbers *)

LEMMA ConstantsAre ==
  /\ SendFlatSol \in Nat /\ WithdrawFlatSol \in Nat /\ SolFlat \in Nat
  /\ Margin \in Nat /\ Margin <= 10000 /\ DefaultBps \in Nat /\ PriceLife \in Nat
<1> DEFINE S == {SendFlatSol, WithdrawFlatSol, SolFlat, Margin, DefaultBps, PriceLife, MaxMoves}
<1>1. S \subseteq Nat /\ Margin <= 10000
  BY FeesAssumption
<1>2. SendFlatSol \in S /\ WithdrawFlatSol \in S /\ SolFlat \in S /\ Margin \in S
      /\ DefaultBps \in S /\ PriceLife \in S
  OBVIOUS
<1> HIDE DEF S
<1> QED BY <1>1, <1>2

\* Powers of ten, as far as Magnitude goes.
LEMMA PowersOfTen ==
  \A k \in 1 .. 10 : 10^(k - 1) \in Nat \ {0} /\ 10^k = 10 * 10^(k - 1)
<1> SUFFICES ASSUME NEW k \in 1 .. 10
             PROVE  10^(k - 1) \in Nat \ {0} /\ 10^k = 10 * 10^(k - 1)
  OBVIOUS
<1> DEFINE T(e) == 10^e
<1>1. /\ T(0) = 1 /\ T(1) = 10 /\ T(2) = 100 /\ T(3) = 1000 /\ T(4) = 10000
      /\ T(5) = 100000 /\ T(6) = 1000000 /\ T(7) = 10000000 /\ T(8) = 100000000
      /\ T(9) = 1000000000 /\ T(10) = 10000000000
  BY SMT
<1>2. k \in {1, 2, 3, 4, 5, 6, 7, 8, 9, 10}
  OBVIOUS
<1>3. SUFFICES T(k - 1) \in Nat \ {0} /\ T(k) = 10 * T(k - 1)
  OBVIOUS
<1> HIDE DEF T
<1> QED BY <1>1, <1>2

\* (a * b) \div b lies between the neighbours, for the sums that round up.
LEMMA CeilDivBounds ==
  ASSUME NEW a \in Nat, NEW b \in Nat \ {0}
  PROVE  /\ CeilDiv(a, b) \in Nat
         /\ a <= CeilDiv(a, b) * b /\ CeilDiv(a, b) * b < a + b
<1> DEFINE n == (a + b - 1) \div b
<1>1. n \in Int /\ n * b <= a + b - 1 /\ a + b - 1 < n * b + b
  BY SMT
<1>2. n >= 0
  <2>1. CASE n < 0
    <3>1. (n + 1) * b <= 0
      BY <1>1, <2>1, SMT
    <3> QED BY <1>1, <3>1, SMT
  <2> QED BY <1>1, <2>1
<1> QED BY <1>1, <1>2 DEF CeilDiv

\* Rounding to two digits adds less than a tenth, and takes nothing away.
LEMMA Round2SigBounds ==
  ASSUME NEW p \in Nat, NEW q \in Nat \ {0}, \E k \in 1 .. 10 : IsMagnitude(k, p, q)
  PROVE  /\ Round2Sig(p, q) \in Nat
         /\ p <= Round2Sig(p, q) * q
         /\ 10 * (Round2Sig(p, q) * q) <= 11 * p
<1>1. PICK k \in 1 .. 10 : k = Magnitude(p, q) /\ IsMagnitude(k, p, q)
  BY DEF Magnitude
<1>2. PICK s \in Nat \ {0} : s = 10^(k - 1) /\ 10^k = 10 * s
  BY PowersOfTen
<1>3. 10 * s * q <= p
  BY <1>1, <1>2 DEF IsMagnitude
<1>4. PICK b \in Nat \ {0} : b = q * s
  BY SMT
<1>5. PICK n \in Nat : n = CeilDiv(p, b) /\ p <= n * b /\ n * b < p + b
  BY CeilDivBounds, Zenon
<1>6. Round2Sig(p, q) = n * s
  BY <1>1, <1>2, <1>4, <1>5 DEF Round2Sig
<1>7. 10 * b <= p /\ n * b = (n * s) * q
  BY <1>3, <1>4, SMT
<1>8. n * s \in Nat
  BY SMT
<1>9. PICK r \in Nat : r = n * s /\ r * q = n * b
  BY <1>7, <1>8
<1>10. PICK x \in Nat : x = n * b
  BY SMT
<1> QED BY <1>5, <1>6, <1>7, <1>9, <1>10, SMT

-----------------------------------------------------------------------------
(* What a quote is worth *)

\* A price in use is one the mint may have, and it is not zero.
Prices(m) == UsdOf[m] \ {0}

\* The price p of SOL and q of the token make a fee of flat lamports.
FlatIn(flat, p, q) == Round2Sig(flat * p, q)

LEMMA PricesAre ==
  ASSUME NEW m \in Pools, NEW p \in Prices(m)
  PROVE  p \in Nat
  BY FeesAssumption DEF Prices

LEMMA FlatInBounds ==
  ASSUME NEW t \in Tokens, NEW flat \in {SendFlatSol, WithdrawFlatSol},
         NEW p \in Prices(SOL), NEW q \in Prices(t)
  PROVE  /\ p \in Nat \ {0} /\ q \in Nat \ {0} /\ flat * p \in Nat
         /\ FlatIn(flat, p, q) \in Nat
         /\ flat * p <= FlatIn(flat, p, q) * q
         /\ 10 * (FlatIn(flat, p, q) * q) <= 11 * (flat * p)
<1>1. SOL \in Pools /\ t \in Pools
  BY DEF Pools
<1>2. p \in Nat \ {0} /\ q \in Nat \ {0}
  BY <1>1, FeesAssumption DEF Prices
<1>3. flat \in Nat
  BY ConstantsAre
<1>4. flat * p \in Nat
  BY <1>2, <1>3, SMT
<1>5. \E k \in 1 .. 10 : IsMagnitude(k, flat * p, q)
  BY UnitsAssumption, Zenon DEF Prices
<1> QED BY <1>2, <1>4, <1>5, Round2SigBounds, Zenon DEF FlatIn

\* A fee of which the relayer would now ask more than it tolerates has moved
\* by more than an eighth.
LEMMA ToleratesAnEighth ==
  ASSUME NEW t \in Tokens, NEW flat \in {SendFlatSol, WithdrawFlatSol},
         NEW p \in Prices(SOL), NEW q \in Prices(t),
         NEW pNow \in Prices(SOL), NEW qNow \in Prices(t),
         8 * pNow * q <= 9 * p * qNow
  PROVE  Tolerated(FlatIn(flat, pNow, qNow)) <= FlatIn(flat, p, q)
<1>1. flat \in Nat
  BY ConstantsAre
<1>2. PICK a \in Nat : a = FlatIn(flat, p, q) /\ flat * p <= a * q
  BY FlatInBounds, Zenon
<1>3. PICK b \in Nat : b = FlatIn(flat, pNow, qNow) /\ 10 * (b * qNow) <= 11 * (flat * pNow)
  BY FlatInBounds, Zenon
<1>4. p \in Nat \ {0} /\ q \in Nat \ {0} /\ pNow \in Nat \ {0} /\ qNow \in Nat \ {0}
  BY FlatInBounds, Zenon
<1>5. 80 * (b * qNow) * q <= 88 * (flat * pNow) * q
  <2>1. PICK x \in Nat : x = b * qNow
    BY <1>4, SMT
  <2>2. PICK y \in Nat : y = flat * pNow
    BY <1>1, <1>4, SMT
  <2>3. 80 * x <= 88 * y
    BY <1>3, <2>1, <2>2
  <2>4. (80 * x) * q <= (88 * y) * q
    BY <1>4, <2>3, SMT
  <2> QED BY <2>1, <2>2, <2>4, SMT
<1>6. 88 * (flat * pNow) * q <= 99 * (flat * p) * qNow
  <2>1. PICK x \in Nat : x = pNow * q
    BY <1>4, SMT
  <2>2. PICK y \in Nat : y = p * qNow
    BY <1>4, SMT
  <2>3. 8 * pNow * q = 8 * x /\ 9 * p * qNow = 9 * y
    BY <1>4, <2>1, <2>2, SMT
  <2>4. 88 * x <= 99 * y
    BY <2>3
  <2>5. flat * (88 * x) <= flat * (99 * y)
    BY <1>1, <2>4, SMT
  <2>6. flat * (88 * x) = 88 * (flat * pNow) * q
    BY <1>1, <1>4, <2>1, SMT
  <2>7. flat * (99 * y) = 99 * (flat * p) * qNow
    BY <1>1, <1>4, <2>2, SMT
  <2> QED BY <2>5, <2>6, <2>7, Zenon
<1>7. 99 * (flat * p) * qNow <= 99 * (a * q) * qNow
  <2>1. PICK x \in Nat : x = flat * p
    BY <1>1, <1>4, SMT
  <2>2. PICK y \in Nat : y = a * q
    BY <1>4, SMT
  <2>3. 99 * x <= 99 * y
    BY <1>2, <2>1, <2>2
  <2>4. (99 * x) * qNow <= (99 * y) * qNow
    BY <1>4, <2>3, SMT
  <2> QED BY <2>1, <2>2, <2>4, SMT
<1>8. PICK z \in Nat \ {0} : z = q * qNow
  BY <1>4, SMT
<1>9. (80 * b) * z <= (99 * a) * z
  <2>1. 80 * (b * qNow) * q = (80 * b) * z /\ 99 * (a * q) * qNow = (99 * a) * z
    BY <1>4, <1>8, SMT
  <2>2. /\ 80 * (b * qNow) * q \in Int /\ 88 * (flat * pNow) * q \in Int
        /\ 99 * (flat * p) * qNow \in Int /\ 99 * (a * q) * qNow \in Int
    BY <1>1, <1>4, SMT
  <2> QED BY <1>5, <1>6, <1>7, <2>1, <2>2, SMT
<1>10. 80 * b <= 99 * a
  BY <1>9, SMT
<1>11. (b * 80) \div 100 <= a
  BY <1>10, SMT
<1> QED BY <1>2, <1>3, <1>11 DEF Tolerated

MarketInv ==
  \A m \in Pools :
    /\ market[m] \in UsdOf[m]
    /\ prices[m] # None => prices[m].usd \in Prices(m)

\* What SOL adds to a withdrawal's percentage, and the flat fee of SOL.
Extra(m) == IF m = SOL THEN SolFlat ELSE 0
SolFee(kind) == IF kind = "send" THEN SendFlatSol ELSE SolFlat

LEMMA PercentIs ==
  ASSUME NEW a \in Nat, NEW r \in Nat
  PROVE  /\ Percent(a, r) \in Nat
         /\ \A lower \in Nat : lower <= r => Percent(a, lower) <= Percent(a, r)
<1>1. a * r \in Nat
  BY SMT
<1>2. ASSUME NEW lower \in Nat, lower <= r
      PROVE  a * lower \in Nat /\ a * lower <= a * r
  BY <1>2, SMT
<1>3. ASSUME NEW x \in Nat, NEW y \in Nat, x <= y
      PROVE  x \div 10000 \in Nat /\ x \div 10000 <= y \div 10000
  BY <1>3, SMT
<1> QED BY <1>1, <1>2, <1>3 DEF Percent

LEMMA PercentIsNat ==
  ASSUME NEW a \in Nat, NEW r \in Nat, NEW m
  PROVE  Percent(a, r) \in Nat /\ Extra(m) \in Nat
<1>1. Percent(a, r) \in Nat
  BY PercentIs, Zenon
<1>2. Extra(m) \in Nat
  BY ConstantsAre DEF Extra
<1> QED BY <1>1, <1>2

LEMMA RateIs ==
  ASSUME NEW value \in Configs
  PROVE  {"rate", "recipient"} \subseteq DOMAIN value /\ value.rate \in Nat
  BY FeesAssumption

LEMMA UsdPriceIs ==
  ASSUME MarketInv, NEW m \in Pools, UsdPrice(m) # None
  PROVE  UsdPrice(m) \in Prices(m)
  BY DEF MarketInv, UsdPrice

\* A flat fee is a number, or there is none for want of a price.
LEMMA FlatIs ==
  ASSUME MarketInv, NEW m \in Pools, NEW kind \in Kinds
  PROVE  /\ Flat(m, kind) # None => Flat(m, kind) \in Nat
         /\ m = SOL => Flat(m, kind) = SolFee(kind) /\ Flat(m, kind) # None
         /\ m # SOL /\ (UsdPrice(m) = None \/ UsdPrice(SOL) = None) => Flat(m, kind) = None
         /\ m # SOL /\ UsdPrice(m) # None /\ UsdPrice(SOL) # None =>
              /\ Flat(m, kind) # None
              /\ Flat(m, kind) = FlatIn(FlatSol(kind), UsdPrice(SOL), UsdPrice(m))
<1>1. None \notin Nat /\ SolFee(kind) \in Nat
  BY ConstantsAre, FeesAssumption DEF SolFee
<1>2. CASE m = SOL
  BY <1>1, <1>2 DEF Flat, SolFee
<1>3. CASE m # SOL /\ (UsdPrice(m) = None \/ UsdPrice(SOL) = None)
  BY <1>3 DEF Flat
<1>4. CASE m # SOL /\ UsdPrice(m) # None /\ UsdPrice(SOL) # None
  <2>1. m \in Tokens /\ SOL \in Pools
    BY <1>4 DEF Pools
  <2>2. UsdPrice(SOL) \in Prices(SOL) /\ UsdPrice(m) \in Prices(m)
    BY <1>4, <2>1, UsdPriceIs
  <2>3. FlatSol(kind) \in {SendFlatSol, WithdrawFlatSol}
    BY DEF FlatSol
  <2>4. FlatIn(FlatSol(kind), UsdPrice(SOL), UsdPrice(m)) \in Nat
    BY <2>1, <2>2, <2>3, FlatInBounds, Zenon
  <2>5. Flat(m, kind) = FlatIn(FlatSol(kind), UsdPrice(SOL), UsdPrice(m))
    BY <1>4 DEF Flat, FlatIn
  <2>6. Flat(m, kind) \in Nat /\ Flat(m, kind) # None
    BY <1>1, <2>4, <2>5, Zenon
  <2> QED BY <1>4, <2>5, <2>6, Zenon
<1> QED BY <1>2, <1>3, <1>4, Zenon

LEMMA ToleratedIsLess ==
  ASSUME NEW flat \in Nat
  PROVE  Tolerated(flat) \in Nat /\ Tolerated(flat) <= flat
  BY DEF Tolerated

LEMMA PercentRequiredIsLess ==
  ASSUME NEW m, NEW amount \in Nat, NEW rate \in Nat
  PROVE  /\ PercentRequired(m, amount, rate) \in Nat
         /\ PercentRequired(m, amount, rate) <= Percent(amount, rate) + Extra(m)
<1>1. Percent(amount, rate) \in Nat /\ Extra(m) \in Nat
  BY PercentIs, ConstantsAre DEF Extra
<1>2. \A x \in Nat : (x * 95) \div 100 \in Nat /\ (x * 95) \div 100 <= x
  BY SMT
<1>3. PercentRequired(m, amount, rate) = ((Percent(amount, rate) + Extra(m)) * 95) \div 100
  BY DEF PercentRequired, Extra
<1>4. Percent(amount, rate) + Extra(m) \in Nat
  BY <1>1
<1> QED BY <1>2, <1>3, <1>4

\* The floors of the SDK's quote are numbers.
LEMMA FloorsAre ==
  ASSUME MarketInv, NEW m \in Pools
  PROVE  WithdrawMinFeeOf(m) \in Nat /\ SendFeeOf(m) \in Nat
<1>1. "send" \in Kinds /\ "withdraw" \in Kinds
  BY DEF Kinds
<1>2. RowMinFee(m) \in Nat
  BY ConstantsAre DEF RowMinFee
<1> QED BY <1>1, <1>2, FlatIs DEF WithdrawMinFeeOf, SendFeeOf, FlatOr

LEMMA WithdrawFeeIs ==
  ASSUME MarketInv, NEW m \in Pools, NEW amount \in Nat, NEW rate \in Nat
  PROVE  /\ WithdrawFee(m, amount, rate) \in Nat
         /\ Percent(amount, rate) + Extra(m) <= WithdrawFee(m, amount, rate)
         /\ WithdrawMinFeeOf(m) <= WithdrawFee(m, amount, rate)
<1>1. Percent(amount, rate) + Extra(m) \in Nat
  <2>1. Percent(amount, rate) \in Nat /\ Extra(m) \in Nat
    BY PercentIsNat, Zenon
  <2> QED BY <2>1
<1>2. WithdrawMinFeeOf(m) \in Nat
  BY FloorsAre
<1>3. WithdrawFee(m, amount, rate) =
        IF Percent(amount, rate) + Extra(m) < WithdrawMinFeeOf(m) THEN WithdrawMinFeeOf(m)
        ELSE Percent(amount, rate) + Extra(m)
  BY DEF WithdrawFee, Extra
<1> QED BY <1>1, <1>2, <1>3

\* What a fee must reach, in its two parts.
LEMMA MinFeeAtMost ==
  ASSUME MarketInv, NEW m \in Pools, NEW kind \in Kinds, NEW amount \in Nat, NEW rate \in Nat,
         NEW fee \in Nat,
         kind = "send" => Tolerated(SendFeeOf(m)) <= fee,
         kind = "withdraw" => /\ Tolerated(WithdrawMinFeeOf(m)) <= fee
                              /\ PercentRequired(m, amount, rate) <= fee
  PROVE  MinFee(m, kind, amount, rate) <= fee
<1>1. CASE kind = "send"
  BY <1>1 DEF MinFee, SendFeeOf
<1>2. CASE kind = "withdraw"
  BY <1>2 DEF MinFee
<1> QED BY <1>1, <1>2 DEF Kinds

LEMMA ProgramAsksLess ==
  ASSUME NEW amount \in Nat, NEW rate \in Nat, rate = chain.rate
  PROVE  /\ ProgramMinFee([kind |-> "send", amount |-> amount]) = 0
         /\ ProgramMinFee([kind |-> "withdraw", amount |-> amount]) <= Percent(amount, rate)
         /\ \A m \in Pools : Margin >= 500 =>
              ProgramMinFee([kind |-> "withdraw", amount |-> amount])
                <= PercentRequired(m, amount, rate)
<1>1. PICK p \in Nat : p = Percent(amount, rate)
  BY PercentIs
<1>2. ProgramMinFee([kind |-> "withdraw", amount |-> amount]) = (p * (10000 - Margin)) \div 10000
  BY <1>1 DEF ProgramMinFee
<1>3. PICK k \in Nat : k <= 10000 /\ k = 10000 - Margin /\ (Margin >= 500 => k <= 9500)
  BY ConstantsAre
<1>4. p * k <= p * 10000 /\ (k <= 9500 => p * k <= p * 9500) /\ p * k \in Nat
  BY <1>3, SMT
<1>5. PICK x \in Nat : x = p * k
  BY <1>4
<1>6. x \div 10000 <= p
  <2>1. x <= p * 10000
    BY <1>4, <1>5
  <2> QED BY <2>1, SMT
<1>7. ASSUME NEW m \in Pools, Margin >= 500
      PROVE  x \div 10000 <= PercentRequired(m, amount, rate)
  <2>1. PICK e \in Nat : e = IF m = SOL THEN SolFlat ELSE 0
    BY ConstantsAre
  <2>2. PercentRequired(m, amount, rate) = ((p + e) * 95) \div 100
    BY <1>1, <2>1 DEF PercentRequired
  <2>3. x <= p * 9500
    BY <1>3, <1>4, <1>5, <1>7
  <2> QED BY <2>2, <2>3, SMT
<1> QED BY <1>1, <1>2, <1>3, <1>5, <1>6, <1>7 DEF ProgramMinFee

-----------------------------------------------------------------------------
(* A quote and its checks *)

Fields ==
  {"mint", "kind", "amount", "fee", "recipient", "quote", "relay", "payee", "steady", "gone", "state"}

\* The fee covers what was known of rates and prices at the quote.
Covers(m, kind, amount, fee, seen) ==
  /\ kind = "withdraw" => Percent(amount, seen.rate) + Extra(m) <= fee
  /\ m = SOL => SolFee(kind) <= fee
  /\ m # SOL /\ seen.sol # None /\ seen.tok # None =>
       /\ seen.sol \in Prices(SOL) /\ seen.tok \in Prices(m)
       /\ FlatIn(FlatSol(kind), seen.sol, seen.tok) <= fee

LEMMA AmountsAre ==
  ASSUME NEW kind \in Kinds, NEW amount \in AmountsOf(kind)
  PROVE  amount \in Nat
<1>1. Amounts \subseteq Nat
  BY FeesAssumption
<1> QED BY <1>1 DEF AmountsOf

LEMMA QuoteCovers ==
  ASSUME MarketInv, NEW m \in Pools, NEW kind \in Kinds, NEW amount \in Nat, NEW rate \in Nat
  PROVE  /\ QuotedFee(m, kind, amount, rate) \in Nat
         /\ Covers(m, kind, amount, QuotedFee(m, kind, amount, rate), Seen(m, rate))
<1>1. /\ Seen(m, rate).sol = UsdPrice(SOL) /\ Seen(m, rate).tok = UsdPrice(m)
      /\ Seen(m, rate).rate = rate
  BY DEF Seen
<1>2. SOL \in Pools
  BY DEF Pools
<1>3. UsdPrice(SOL) # None => UsdPrice(SOL) \in Prices(SOL)
  BY <1>2, UsdPriceIs
<1>4. UsdPrice(m) # None => UsdPrice(m) \in Prices(m)
  BY UsdPriceIs
<1>5. CASE kind = "send"
  <2>1. QuotedFee(m, kind, amount, rate) = FlatOr(m, kind, 0)
    BY <1>5 DEF QuotedFee, SendFeeOf
  <2>2. QuotedFee(m, kind, amount, rate) \in Nat
    BY <2>1, FlatIs DEF FlatOr
  <2>3. m = SOL => SolFee(kind) <= QuotedFee(m, kind, amount, rate)
    BY <2>1, <2>2, FlatIs DEF FlatOr
  <2>4. m # SOL /\ UsdPrice(SOL) # None /\ UsdPrice(m) # None =>
          FlatIn(FlatSol(kind), UsdPrice(SOL), UsdPrice(m)) <= QuotedFee(m, kind, amount, rate)
    BY <2>1, <2>2, FlatIs DEF FlatOr
  <2> QED BY <1>1, <1>3, <1>4, <1>5, <2>2, <2>3, <2>4 DEF Covers
<1>6. CASE kind = "withdraw"
  <2>1. QuotedFee(m, kind, amount, rate) = WithdrawFee(m, amount, rate)
    BY <1>6 DEF QuotedFee
  <2>2. /\ QuotedFee(m, kind, amount, rate) \in Nat
        /\ Percent(amount, rate) + Extra(m) <= QuotedFee(m, kind, amount, rate)
        /\ FlatOr(m, kind, RowMinFee(m)) <= QuotedFee(m, kind, amount, rate)
    BY <1>6, <2>1, WithdrawFeeIs DEF WithdrawMinFeeOf
  <2>3. m = SOL => SolFee(kind) <= QuotedFee(m, kind, amount, rate)
    BY <2>2, FlatIs DEF FlatOr
  <2>4. m # SOL /\ UsdPrice(SOL) # None /\ UsdPrice(m) # None =>
          FlatIn(FlatSol(kind), UsdPrice(SOL), UsdPrice(m)) <= QuotedFee(m, kind, amount, rate)
    BY <2>2, FlatIs DEF FlatOr
  <2> QED BY <1>1, <1>3, <1>4, <2>2, <2>3, <2>4 DEF Covers
<1> QED BY <1>5, <1>6 DEF Kinds

\* A fee that covers what was known at the quote is enough for the relayer,
\* unless the rate or the price went up too far.
LEMMA CoveredIsTolerated ==
  ASSUME MarketInv, NEW m \in Pools, NEW kind \in Kinds, NEW amount \in Nat,
         NEW fee \in Nat, NEW rate \in Nat, NEW seen,
         Covers(m, kind, amount, fee, seen), seen.rate \in Nat, rate <= seen.rate,
         m # SOL => /\ seen.sol # None /\ seen.tok # None
                    /\ UsdPrice(SOL) # None /\ UsdPrice(m) # None
                    /\ 8 * UsdPrice(SOL) * seen.tok <= 9 * seen.sol * UsdPrice(m)
  PROVE  MinFee(m, kind, amount, rate) <= fee
<1>1. Tolerated(FlatOr(m, kind, IF kind = "send" THEN 0 ELSE RowMinFee(m))) <= fee
  <2>1. CASE m = SOL
    <3>1. Flat(m, kind) = SolFee(kind) /\ Flat(m, kind) # None /\ Flat(m, kind) \in Nat
      BY <2>1, FlatIs
    <3>2. SolFee(kind) <= fee
      BY <2>1 DEF Covers
    <3>3. Tolerated(Flat(m, kind)) \in Nat /\ Tolerated(Flat(m, kind)) <= Flat(m, kind)
      BY <3>1, ToleratedIsLess
    <3>4. Tolerated(Flat(m, kind)) <= fee
      BY <3>1, <3>2, <3>3
    <3> QED BY <3>1, <3>4 DEF FlatOr
  <2>2. CASE m # SOL
    <3>1. m \in Tokens /\ SOL \in Pools
      BY <2>2 DEF Pools
    <3>2. UsdPrice(SOL) \in Prices(SOL) /\ UsdPrice(m) \in Prices(m)
      BY <2>2, <3>1, UsdPriceIs
    <3>3. /\ seen.sol \in Prices(SOL) /\ seen.tok \in Prices(m)
          /\ FlatIn(FlatSol(kind), seen.sol, seen.tok) <= fee
      BY <2>2 DEF Covers
    <3>4. FlatSol(kind) \in {SendFlatSol, WithdrawFlatSol}
      BY DEF FlatSol
    <3>5. Tolerated(FlatIn(FlatSol(kind), UsdPrice(SOL), UsdPrice(m)))
            <= FlatIn(FlatSol(kind), seen.sol, seen.tok)
      <4>1. 8 * UsdPrice(SOL) * seen.tok <= 9 * seen.sol * UsdPrice(m)
        BY <2>2
      <4> QED BY <3>1, <3>2, <3>3, <3>4, <4>1, ToleratesAnEighth, Zenon
    <3>6. /\ FlatIn(FlatSol(kind), UsdPrice(SOL), UsdPrice(m)) \in Nat
          /\ FlatIn(FlatSol(kind), seen.sol, seen.tok) \in Nat
      BY <3>1, <3>2, <3>3, <3>4, FlatInBounds, Zenon
    <3>7. Tolerated(FlatIn(FlatSol(kind), UsdPrice(SOL), UsdPrice(m))) \in Nat
      BY <3>6, ToleratedIsLess
    <3>8. Flat(m, kind) # None
          /\ Flat(m, kind) = FlatIn(FlatSol(kind), UsdPrice(SOL), UsdPrice(m))
      BY <2>2, FlatIs
    <3>9. FlatOr(m, kind, IF kind = "send" THEN 0 ELSE RowMinFee(m))
            = FlatIn(FlatSol(kind), UsdPrice(SOL), UsdPrice(m))
      BY <3>8 DEF FlatOr
    <3> HIDE DEF FlatIn, Tolerated, FlatOr
    <3> QED BY <3>3, <3>5, <3>6, <3>7, <3>9
  <2> QED BY <2>1, <2>2
<1>2. CASE kind = "send"
  <2>1. Tolerated(SendFeeOf(m)) <= fee
    BY <1>1, <1>2 DEF SendFeeOf
  <2> QED BY <1>2, <2>1, MinFeeAtMost
<1>3. CASE kind = "withdraw"
  <2>1. Tolerated(WithdrawMinFeeOf(m)) <= fee
    BY <1>1, <1>3 DEF WithdrawMinFeeOf
  <2>2. Percent(amount, rate) \in Nat /\ Percent(amount, seen.rate) \in Nat /\ Extra(m) \in Nat
    BY PercentIsNat, Zenon
  <2>3. Percent(amount, rate) <= Percent(amount, seen.rate)
    BY PercentIs
  <2>4. Percent(amount, seen.rate) + Extra(m) <= fee
    BY <1>3 DEF Covers
  <2>5. PercentRequired(m, amount, rate) \in Nat
        /\ PercentRequired(m, amount, rate) <= Percent(amount, rate) + Extra(m)
    BY PercentRequiredIsLess
  <2>6. PercentRequired(m, amount, rate) <= fee
    BY <2>2, <2>3, <2>4, <2>5
  <2> QED BY <1>3, <2>1, <2>6, MinFeeAtMost
<1> QED BY <1>2, <1>3 DEF Kinds

\* A fresh quote is worth what the relayer and the program ask.
LEMMA FreshQuoteIsEnough ==
  ASSUME MarketInv, chain \in Configs
  PROVE  FreshQuoteIsAccepted
<1> SUFFICES ASSUME NEW m \in Pools, NEW kind \in Kinds, NEW amount \in AmountsOf(kind)
             PROVE  LET fee == QuotedFee(m, kind, amount, chain.rate)
                    IN /\ fee >= MinFee(m, kind, amount, chain.rate)
                       /\ fee >= ProgramMinFee([kind |-> kind, amount |-> amount])
  BY DEF FreshQuoteIsAccepted
<1>1. PICK rate \in Nat : rate = chain.rate
  BY RateIs
<1>2. amount \in Nat
  BY AmountsAre
<1>3. PICK fee \in Nat : fee = QuotedFee(m, kind, amount, rate)
  BY <1>2, QuoteCovers
<1>4. Tolerated(WithdrawMinFeeOf(m)) \in Nat /\ Tolerated(SendFeeOf(m)) \in Nat
      /\ Tolerated(WithdrawMinFeeOf(m)) <= WithdrawMinFeeOf(m)
      /\ Tolerated(SendFeeOf(m)) <= SendFeeOf(m)
      /\ WithdrawMinFeeOf(m) \in Nat /\ SendFeeOf(m) \in Nat
  BY FloorsAre, ToleratedIsLess
<1>5. PercentRequired(m, amount, rate) \in Nat
      /\ PercentRequired(m, amount, rate) <= Percent(amount, rate) + Extra(m)
  BY <1>2, PercentRequiredIsLess
<1>6. Percent(amount, rate) \in Nat /\ Extra(m) \in Nat
  BY <1>2, PercentIsNat, Zenon
<1>7. CASE kind = "send"
  <2>1. fee = SendFeeOf(m)
    BY <1>3, <1>7 DEF QuotedFee
  <2>2. MinFee(m, kind, amount, rate) <= fee
    BY <1>2, <1>4, <1>7, <2>1, MinFeeAtMost
  <2>3. ProgramMinFee([kind |-> kind, amount |-> amount]) = 0
    BY <1>1, <1>2, <1>7, ProgramAsksLess
  <2>4. MinFee(m, kind, amount, rate) \in Int
    BY <1>4, <1>7 DEF MinFee, SendFeeOf
  <2> QED BY <1>1, <1>3, <2>2, <2>3, <2>4
<1>8. CASE kind = "withdraw"
  <2>1. /\ Percent(amount, rate) + Extra(m) <= fee
        /\ WithdrawMinFeeOf(m) <= fee
    BY <1>2, <1>3, <1>8, WithdrawFeeIs DEF QuotedFee
  <2>2. MinFee(m, kind, amount, rate) <= fee
    BY <1>2, <1>4, <1>5, <1>6, <1>8, <2>1, MinFeeAtMost
  <2>3. ProgramMinFee([kind |-> kind, amount |-> amount]) <= Percent(amount, rate)
    BY <1>1, <1>2, <1>8, ProgramAsksLess
  <2>4. MinFee(m, kind, amount, rate) \in Int
    BY <1>4, <1>5, <1>8 DEF MinFee
  <2>5. ProgramMinFee([kind |-> kind, amount |-> amount]) \in Int
    BY <1>1, <1>6, <1>8, ConstantsAre DEF ProgramMinFee
  <2> QED BY <1>1, <1>3, <1>6, <2>1, <2>2, <2>3, <2>4, <2>5
<1> QED BY <1>7, <1>8 DEF Kinds

-----------------------------------------------------------------------------
(* The invariant of payments *)

ConfigInv ==
  /\ chain \in Configs
  /\ gcCache # None => gcCache \in Configs /\ (steady => gcCache = chain)
  /\ cfg # None => cfg \in Configs

QuoteInv ==
  request # None =>
    /\ DOMAIN request = Fields
    /\ request.mint \in Pools /\ request.kind \in Kinds /\ request.amount \in Nat
    /\ request.fee \in Nat /\ request.quote.rate \in Nat
    /\ Covers(request.mint, request.kind, request.amount, request.fee, request.quote)

\* What was admitted under a configuration that still stands pays its minimum.
AdmitInv ==
  request # None /\ request.state \in {"admitted", "sent"} /\ request.steady =>
    /\ gcCache # None => gcCache = chain
    /\ Margin >= 500 => request.fee >= ProgramMinFee(request)
    /\ request.state = "sent" => request.payee = chain.recipient

PayInv ==
  /\ MarketInv /\ ConfigInv /\ QuoteInv /\ AdmitInv
  /\ DriftIsTolerated
  /\ Margin >= 500 => AdmittedIsPayable

LEMMA InitPayInv == Init => PayInv
<1> SUFFICES ASSUME Init PROVE PayInv
  OBVIOUS
<1>1. MarketInv /\ ConfigInv
  BY DEF Init, Empty, MarketInv, ConfigInv
<1>2. request = None
  BY DEF Init
<1> QED BY <1>1, <1>2 DEF PayInv, QuoteInv, AdmitInv, DriftIsTolerated, AdmittedIsPayable

\* The parts about the request, for what leaves it and the configuration alone.
LEMMA RequestKeeps ==
  ASSUME PayInv, UNCHANGED <<request, chain>>, gcCache' \in {gcCache, None}
  PROVE  QuoteInv' /\ AdmitInv' /\ DriftIsTolerated' /\ (Margin >= 500 => AdmittedIsPayable')
<1>1. QuoteInv'
  BY DEF PayInv, QuoteInv
<1>2. AdmitInv'
  BY DEF PayInv, AdmitInv, ProgramMinFee
<1>3. DriftIsTolerated' /\ (Margin >= 500 => AdmittedIsPayable')
  BY DEF PayInv, DriftIsTolerated, PriceDrifted, AdmittedIsPayable
<1> QED BY <1>1, <1>2, <1>3

LEMMA RefreshKeepsPay ==
  ASSUME PayInv, NEW mints, RefreshPrices(mints)
  PROVE  PayInv'
<1>1. UNCHANGED <<market, chain, steady, gcCache, cfg, request>>
  BY DEF RefreshPrices, world
<1>2. MarketInv'
  <2>1. ASSUME NEW m \in Pools
        PROVE  \/ prices'[m] = prices[m]
               \/ prices'[m] = None
               \/ market[m] # 0 /\ prices'[m] = [usd |-> market[m], age |-> 0]
    BY DEF RefreshPrices
  <2>2. ASSUME NEW m \in Pools, prices'[m] # None
        PROVE  prices'[m].usd \in Prices(m)
    <3>1. CASE prices'[m] = prices[m]
      BY <2>2, <3>1 DEF PayInv, MarketInv
    <3>2. CASE market[m] # 0 /\ prices'[m] = [usd |-> market[m], age |-> 0]
      <4>1. market[m] \in Prices(m)
        BY <3>2 DEF PayInv, MarketInv, Prices
      <4> QED BY <3>2, <4>1
    <3> QED BY <2>1, <2>2, <3>1, <3>2
  <2> QED BY <1>1, <2>2 DEF PayInv, MarketInv
<1>3. ConfigInv'
  BY <1>1 DEF PayInv, ConfigInv
<1> QED BY <1>1, <1>2, <1>3, RequestKeeps DEF PayInv

LEMMA GlobalConfigIs ==
  ASSUME ConfigInv
  PROVE  /\ GlobalConfig \in Configs
         /\ steady => GlobalConfig = chain
  BY DEF ConfigInv, GlobalConfig

LEMMA QuoteKeepsPay ==
  ASSUME PayInv, NEW m \in Pools, NEW kind \in Kinds, NEW amount \in AmountsOf(kind),
         Quote(m, kind, amount)
  PROVE  PayInv'
<1>1. UNCHANGED <<market, chain, steady, prices>>
  BY DEF Quote, world
<1>2. cfg' \in Configs /\ gcCache' \in {gcCache, GlobalConfig}
  BY GlobalConfigIs DEF Quote, PayInv, ConfigInv
<1>3. MarketInv' /\ MarketInv
  BY <1>1 DEF PayInv, MarketInv
<1>4. ConfigInv'
  BY <1>1, <1>2, GlobalConfigIs DEF PayInv, ConfigInv
<1>5. PICK rate \in Nat : rate = cfg'.rate
  BY <1>2, RateIs
<1>6. amount \in Nat
  BY AmountsAre
<1>7. PICK fee \in Nat : fee = QuotedFee(m, kind, amount, rate)
  BY <1>3, <1>6, QuoteCovers
<1>8. Covers(m, kind, amount, fee, Seen(m, rate))
  BY <1>3, <1>6, <1>7, QuoteCovers
<1>9. request' = [mint |-> m, kind |-> kind, amount |-> amount, fee |-> fee,
                  recipient |-> cfg'.recipient, quote |-> Seen(m, rate), relay |-> None,
                  payee |-> None, steady |-> TRUE, gone |-> 0, state |-> "quoted"]
  BY <1>5, <1>7 DEF Quote
<1>10. /\ DOMAIN request' = Fields /\ request'.mint = m /\ request'.kind = kind
       /\ request'.amount = amount /\ request'.fee = fee /\ request'.quote = Seen(m, rate)
       /\ request'.state = "quoted"
  BY <1>9 DEF Fields
<1>11. Seen(m, rate).rate = rate
  BY DEF Seen
<1>12. QuoteInv'
  BY <1>6, <1>8, <1>10, <1>11 DEF QuoteInv, Covers, Percent, Extra, SolFee
<1>13. AdmitInv' /\ DriftIsTolerated' /\ AdmittedIsPayable'
  BY <1>10 DEF AdmitInv, DriftIsTolerated, AdmittedIsPayable
<1> QED BY <1>3, <1>4, <1>12, <1>13 DEF PayInv

LEMMA MinFeeIs ==
  ASSUME MarketInv, NEW m \in Pools, NEW kind \in Kinds, NEW amount \in Nat, NEW rate \in Nat
  PROVE  /\ MinFee(m, kind, amount, rate) \in Nat
         /\ kind = "withdraw" => PercentRequired(m, amount, rate) <= MinFee(m, kind, amount, rate)
<1>1. Tolerated(WithdrawMinFeeOf(m)) \in Nat /\ Tolerated(SendFeeOf(m)) \in Nat
  BY FloorsAre, ToleratedIsLess
<1>2. PercentRequired(m, amount, rate) \in Nat
  BY PercentRequiredIsLess
<1>3. CASE kind = "send"
  BY <1>1, <1>3 DEF MinFee, SendFeeOf
<1>4. CASE kind = "withdraw"
  BY <1>1, <1>2, <1>4 DEF MinFee
<1> QED BY <1>3, <1>4 DEF Kinds

\* The program's minimum is a number, which the relayer's covers.
LEMMA ProgramMinFeeIs ==
  ASSUME MarketInv, chain \in Configs, NEW r, r.mint \in Pools, r.kind \in Kinds, r.amount \in Nat
  PROVE  /\ ProgramMinFee(r) \in Int
         /\ Margin >= 500 => ProgramMinFee(r) <= MinFee(r.mint, r.kind, r.amount, chain.rate)
<1>1. PICK rate \in Nat : rate = chain.rate
  BY RateIs
<1>2. PICK p \in Nat : p = Percent(r.amount, rate)
  BY PercentIsNat, Zenon
<1>3. PICK x : x = [kind |-> r.kind, amount |-> r.amount]
  OBVIOUS
<1>4. ProgramMinFee(r) = ProgramMinFee(x)
  BY <1>3 DEF ProgramMinFee
<1>5. ProgramMinFee(r) \in Int
  BY <1>1, <1>2, ConstantsAre DEF ProgramMinFee
<1>6. MinFee(r.mint, r.kind, r.amount, rate) \in Nat
  BY MinFeeIs
<1>7. CASE r.kind = "send"
  <2>1. ProgramMinFee(r) = 0
    BY <1>7 DEF ProgramMinFee
  <2> QED BY <1>1, <1>5, <1>6, <2>1
<1>8. CASE r.kind = "withdraw"
  <2>1. PercentRequired(r.mint, r.amount, rate) <= MinFee(r.mint, r.kind, r.amount, rate)
    BY <1>8, MinFeeIs
  <2>2. PercentRequired(r.mint, r.amount, rate) \in Nat
    BY PercentRequiredIsLess
  <2>3. Margin >= 500 => ProgramMinFee(r) <= PercentRequired(r.mint, r.amount, rate)
    BY <1>1, <1>3, <1>4, <1>8, ProgramAsksLess
  <2> QED BY <1>1, <1>5, <1>6, <2>1, <2>2, <2>3
<1> QED BY <1>7, <1>8 DEF Kinds

\* relay admits what covers its minimum under the configuration of the moment.
LEMMA AdmitKeepsPay ==
  ASSUME PayInv, Admit
  PROVE  PayInv'
<1> DEFINE r == request
<1>1. r # None /\ r.state = "quoted" /\ UNCHANGED <<market, chain, steady, prices, cfg>>
  BY DEF Admit, world
<1>2. MarketInv' /\ MarketInv
  BY <1>1 DEF PayInv, MarketInv
<1>3. gcCache' = GlobalConfig /\ GlobalConfig \in Configs /\ (steady => GlobalConfig = chain)
  BY GlobalConfigIs DEF Admit, PayInv
<1>4. ConfigInv'
  BY <1>1, <1>3 DEF PayInv, ConfigInv
<1>5. PICK rate \in Nat : rate = GlobalConfig.rate /\ bps' = rate
  BY <1>3, RateIs DEF Admit, TakeRate
<1>6. /\ DOMAIN r = Fields /\ r.mint \in Pools /\ r.kind \in Kinds /\ r.amount \in Nat
      /\ r.fee \in Nat /\ r.quote.rate \in Nat
      /\ Covers(r.mint, r.kind, r.amount, r.fee, r.quote)
  BY <1>1 DEF PayInv, QuoteInv
<1> DEFINE minimum == MinFee(r.mint, r.kind, r.amount, rate)
<1>7. /\ DOMAIN request' = Fields
      /\ request'.mint = r.mint /\ request'.kind = r.kind /\ request'.amount = r.amount
      /\ request'.fee = r.fee /\ request'.quote = r.quote
      /\ request'.relay = Seen(r.mint, rate) /\ request'.steady = steady
      /\ request'.state \in {"unpriced", "too low", "admitted"}
      /\ request'.state = "too low" => r.fee < minimum /\ ~Unquotable(r.mint, r.kind)
      /\ request'.state = "admitted" => ~(r.fee < minimum)
  BY <1>5, <1>6 DEF Admit, Fields
<1>8. QuoteInv'
  BY <1>6, <1>7 DEF QuoteInv
<1>9. minimum \in Nat
  BY <1>2, <1>6, MinFeeIs
<1>10. AdmitInv'
  <2> SUFFICES ASSUME request'.state = "admitted", steady
               PROVE  Margin >= 500 => request'.fee >= ProgramMinFee(request)'
    BY <1>1, <1>3, <1>7 DEF AdmitInv
  <2> SUFFICES ASSUME Margin >= 500
               PROVE  ProgramMinFee(request)' <= r.fee
    BY <1>6, <1>7
  <2>1. chain' \in Configs /\ chain'.rate = rate
    BY <1>1, <1>3, <1>5 DEF PayInv, ConfigInv
  <2>2. ProgramMinFee(request)' = ProgramMinFee(request')
    BY <1>1 DEF ProgramMinFee
  <2>3. chain \in Configs /\ chain.rate = rate
    BY <1>1, <2>1
  <2>4. ProgramMinFee(request') \in Int /\ ProgramMinFee(request') <= minimum
    BY <1>2, <1>6, <1>7, <2>3, ProgramMinFeeIs
  <2>5. minimum <= r.fee
    BY <1>6, <1>7, <1>9
  <2> QED BY <1>6, <1>9, <2>2, <2>4, <2>5
<1>11. DriftIsTolerated'
  <2>1. PICK now : now = Seen(r.mint, rate)
    OBVIOUS
  <2>2. PICK old : old = r.quote
    OBVIOUS
  <2>3. now.rate = rate /\ now.sol = UsdPrice(SOL) /\ now.tok = UsdPrice(r.mint)
    BY <2>1 DEF Seen
  <2>4. request'.relay = now /\ request'.quote = old /\ request'.mint = r.mint
    BY <1>7, <2>1, <2>2
  <2>5. Covers(r.mint, r.kind, r.amount, r.fee, old) /\ old.rate \in Nat
    BY <1>6, <2>2
  <2>6. SUFFICES ASSUME request'.state = "too low", ~ (rate > old.rate),
                         r.mint # SOL => ~PriceDrifted(request')
                  PROVE  FALSE
    BY <2>3, <2>4 DEF DriftIsTolerated
  <2>7. rate <= old.rate
    <3>1. ~ (rate > old.rate)
      BY <2>6
    <3>2. PICK n \in Nat : n = old.rate
      BY <2>5
    <3> QED BY <3>1, <3>2
  <2>8. ASSUME r.mint # SOL
        PROVE  /\ old.sol # None /\ old.tok # None
               /\ UsdPrice(SOL) # None /\ UsdPrice(r.mint) # None
               /\ 8 * UsdPrice(SOL) * old.tok <= 9 * old.sol * UsdPrice(r.mint)
    <3>1. /\ old.sol # None /\ old.tok # None /\ now.sol # None /\ now.tok # None
          /\ ~ (8 * now.sol * old.tok > 9 * old.sol * now.tok)
      BY <2>4, <2>6, <2>8 DEF PriceDrifted
    <3>2. r.mint \in Pools /\ SOL \in Pools
      BY <1>6 DEF Pools
    <3>3. now.sol \in Prices(SOL) /\ now.tok \in Prices(r.mint)
      BY <1>2, <2>3, <3>1, <3>2, UsdPriceIs
    <3>4. old.sol \in Prices(SOL) /\ old.tok \in Prices(r.mint)
      BY <2>5, <2>8, <3>1 DEF Covers
    <3>5. PICK p \in Nat, q \in Nat, pOld \in Nat, qOld \in Nat :
            p = now.sol /\ q = now.tok /\ pOld = old.sol /\ qOld = old.tok
      BY <3>2, <3>3, <3>4, PricesAre, Zenon
    <3>6. ~ (8 * p * qOld > 9 * pOld * q)
      BY <3>1, <3>5
    <3>7. 8 * p * qOld <= 9 * pOld * q
      <4>1. 8 * p * qOld \in Int /\ 9 * pOld * q \in Int
        BY SMT
      <4> QED BY <3>6, <4>1
    <3> QED BY <2>3, <3>1, <3>5, <3>7
  <2>9. minimum <= r.fee
    BY <1>2, <1>6, <2>5, <2>7, <2>8, CoveredIsTolerated
  <2>10. r.fee < minimum
    BY <1>7, <2>6
  <2> QED BY <1>6, <1>9, <2>9, <2>10
<1>12. AdmittedIsPayable'
  BY <1>7 DEF AdmittedIsPayable
<1> QED BY <1>2, <1>4, <1>8, <1>10, <1>11, <1>12 DEF PayInv

LEMMA SendKeepsPay ==
  ASSUME PayInv, Send
  PROVE  PayInv'
<1> DEFINE r == request
<1>1. /\ r # None /\ r.state = "admitted"
      /\ UNCHANGED <<market, chain, steady, prices, cfg>>
  BY DEF Send, world
<1>2. MarketInv'
  BY <1>1 DEF PayInv, MarketInv
<1>3. gcCache' = GlobalConfig /\ GlobalConfig \in Configs /\ (steady => GlobalConfig = chain)
  BY GlobalConfigIs DEF Send, PayInv
<1>4. ConfigInv'
  BY <1>1, <1>3 DEF PayInv, ConfigInv
<1>5. DOMAIN r = Fields
  BY <1>1 DEF PayInv, QuoteInv
<1>6. request' = [r EXCEPT !.state = "sent", !.payee = GlobalConfig.recipient]
  BY DEF Send
<1>7. /\ DOMAIN request' = Fields
      /\ request'.mint = r.mint /\ request'.kind = r.kind /\ request'.amount = r.amount
      /\ request'.fee = r.fee /\ request'.quote = r.quote /\ request'.steady = r.steady
      /\ request'.state = "sent" /\ request'.payee = GlobalConfig.recipient
  BY <1>5, <1>6 DEF Fields
<1>8. QuoteInv'
  BY <1>1, <1>7 DEF PayInv, QuoteInv
<1>9. AdmitInv'
  <2> SUFFICES ASSUME r.steady
               PROVE  /\ gcCache' = chain
                      /\ Margin >= 500 => r.fee >= ProgramMinFee(request')
                      /\ request'.payee = chain.recipient
    BY <1>1, <1>7 DEF AdmitInv, ProgramMinFee
  <2>1. gcCache # None => gcCache = chain
    BY <1>1 DEF PayInv, AdmitInv
  <2>2. GlobalConfig = chain
    BY <2>1 DEF GlobalConfig
  <2>3. ProgramMinFee(request') = ProgramMinFee(r)
    BY <1>7 DEF ProgramMinFee
  <2> QED BY <1>1, <1>3, <1>7, <2>2, <2>3 DEF PayInv, AdmitInv
<1>10. DriftIsTolerated' /\ AdmittedIsPayable'
  BY <1>7 DEF DriftIsTolerated, AdmittedIsPayable
<1> QED BY <1>2, <1>4, <1>8, <1>9, <1>10 DEF PayInv

\* The program accepts what names the recipient it has and pays its minimum.
LEMMA ExecuteKeepsPay ==
  ASSUME PayInv, Execute
  PROVE  PayInv'
<1> DEFINE r == request
<1>1. /\ r # None /\ r.state = "sent"
      /\ UNCHANGED <<market, chain, steady, prices, gcCache, cfg>>
  BY DEF Execute, world, relayer
<1>2. MarketInv' /\ ConfigInv'
  BY <1>1 DEF PayInv, MarketInv, ConfigInv
<1>3. DOMAIN r = Fields /\ r.fee \in Nat
  BY <1>1 DEF PayInv, QuoteInv
<1> DEFINE accepted == /\ r.payee = r.recipient
                       /\ r.fee > 0 => r.payee = chain.recipient
                       /\ r.fee >= ProgramMinFee(r)
<1>4. request' = [r EXCEPT !.state = IF accepted THEN "paid" ELSE "reverted",
                           !.steady = r.steady /\ r.recipient = chain.recipient]
  BY <1>3 DEF Execute
<1>5. /\ DOMAIN request' = Fields
      /\ request'.mint = r.mint /\ request'.kind = r.kind /\ request'.amount = r.amount
      /\ request'.fee = r.fee /\ request'.quote = r.quote
      /\ request'.state = (IF accepted THEN "paid" ELSE "reverted")
      /\ request'.steady = (r.steady /\ r.recipient = chain.recipient)
  BY <1>3, <1>4 DEF Fields
<1>6. QuoteInv'
  BY <1>1, <1>5 DEF PayInv, QuoteInv
<1>7. AdmitInv' /\ DriftIsTolerated'
  BY <1>5 DEF AdmitInv, DriftIsTolerated
<1>8. ASSUME Margin >= 500
      PROVE  AdmittedIsPayable'
  <2> SUFFICES ASSUME ~accepted, r.steady, r.recipient = chain.recipient
               PROVE  FALSE
    BY <1>5 DEF AdmittedIsPayable
  <2>1. r.fee >= ProgramMinFee(r) /\ r.payee = chain.recipient
    BY <1>1, <1>8 DEF PayInv, AdmitInv
  <2> QED BY <2>1
<1> QED BY <1>2, <1>6, <1>7, <1>8 DEF PayInv

LEMMA MarketKeepsPay ==
  ASSUME PayInv, TypeOK, NEW m \in Pools, NEW usd \in UsdOf[m], MarketMoves(m, usd)
  PROVE  PayInv'
<1>1. /\ UNCHANGED <<chain, steady, prices, gcCache, cfg, request>>
      /\ market' = [market EXCEPT ![m] = usd]
  BY DEF MarketMoves, relayer
<1>2. market \in [Pools -> Nat]
  BY DEF TypeOK, MapsOk
<1>3. MarketInv'
  BY <1>1, <1>2 DEF PayInv, MarketInv
<1>4. ConfigInv'
  BY <1>1 DEF PayInv, ConfigInv
<1> QED BY <1>1, <1>3, <1>4, RequestKeeps DEF PayInv

LEMMA ConfigKeepsPay ==
  ASSUME PayInv, NEW value \in Configs, UpdateConfig(value)
  PROVE  PayInv'
<1>1. /\ UNCHANGED <<market, prices, gcCache, cfg>>
      /\ chain' = value /\ steady' = FALSE
      /\ request' = IF UnderWay THEN [request EXCEPT !.steady = FALSE] ELSE request
  BY DEF UpdateConfig, relayer
<1>2. MarketInv' /\ ConfigInv'
  BY <1>1 DEF PayInv, MarketInv, ConfigInv
<1>3. CASE UnderWay
  <2>1. request # None /\ request.state \in {"quoted", "admitted", "sent"}
    BY <1>3 DEF UnderWay
  <2>2. DOMAIN request = Fields
    BY <2>1 DEF PayInv, QuoteInv
  <2>3. /\ DOMAIN request' = Fields
        /\ request'.mint = request.mint /\ request'.kind = request.kind
        /\ request'.amount = request.amount /\ request'.fee = request.fee
        /\ request'.quote = request.quote /\ request'.state = request.state
        /\ request'.steady = FALSE
    BY <1>1, <1>3, <2>2 DEF Fields
  <2>4. QuoteInv'
    BY <2>1, <2>3 DEF PayInv, QuoteInv
  <2>5. AdmitInv' /\ DriftIsTolerated' /\ AdmittedIsPayable'
    BY <2>1, <2>3 DEF AdmitInv, DriftIsTolerated, AdmittedIsPayable
  <2> QED BY <1>2, <2>4, <2>5 DEF PayInv
<1>4. CASE ~UnderWay
  <2>1. request' = request
    BY <1>1, <1>4
  <2>2. QuoteInv'
    BY <2>1 DEF PayInv, QuoteInv
  <2>3. AdmitInv'
    BY <1>4, <2>1 DEF AdmitInv, UnderWay
  <2>4. DriftIsTolerated' /\ (Margin >= 500 => AdmittedIsPayable')
    BY <2>1 DEF PayInv, DriftIsTolerated, PriceDrifted, AdmittedIsPayable
  <2> QED BY <1>2, <2>2, <2>3, <2>4 DEF PayInv
<1> QED BY <1>3, <1>4

LEMMA RestartKeepsPay ==
  ASSUME PayInv, Restart
  PROVE  PayInv'
<1>1. /\ UNCHANGED <<market, chain, steady, cfg, request>>
      /\ prices' = Empty /\ gcCache' = None
  BY DEF Restart, world
<1>2. MarketInv' /\ ConfigInv'
  BY <1>1 DEF PayInv, MarketInv, ConfigInv, Empty
<1> QED BY <1>1, <1>2, RequestKeeps DEF PayInv

LEMMA ReopenKeepsPay ==
  ASSUME PayInv, Reopen
  PROVE  PayInv'
<1>1. /\ UNCHANGED <<market, chain, steady, prices, gcCache>>
      /\ cfg' = None /\ request' = None
  BY DEF Reopen, world, relayer
<1>2. MarketInv' /\ ConfigInv'
  BY <1>1 DEF PayInv, MarketInv, ConfigInv
<1> QED BY <1>1, <1>2 DEF PayInv, QuoteInv, AdmitInv, DriftIsTolerated, AdmittedIsPayable

LEMMA TickKeepsPay ==
  ASSUME PayInv, TypeOK, Tick
  PROVE  PayInv'
<1>1. UNCHANGED <<market, chain, cfg, request>> /\ gcCache' = None
  BY DEF Tick
<1>2. MarketInv'
  <2>1. ASSUME NEW m \in Pools, prices'[m] # None
        PROVE  prices'[m].usd \in Prices(m)
    <3>1. prices[m] # None
          /\ prices'[m] = [prices[m] EXCEPT !.age = Older(prices[m].age, PriceLife)]
      BY <2>1 DEF Tick
    <3>2. {"usd", "age"} \subseteq DOMAIN prices[m] /\ prices[m].usd \in Prices(m)
      BY <3>1 DEF TypeOK, MapsOk, PayInv, MarketInv
    <3>3. prices'[m].usd = prices[m].usd
      BY <3>1, <3>2
    <3> QED BY <3>2, <3>3
  <2> QED BY <1>1, <2>1 DEF PayInv, MarketInv
<1>3. ConfigInv'
  BY <1>1 DEF PayInv, ConfigInv
<1> QED BY <1>1, <1>2, <1>3, RequestKeeps DEF PayInv

LEMMA NextKeepsPay == IInv /\ PayInv /\ [Next]_vars => PayInv'
<1> SUFFICES ASSUME IInv, PayInv, [Next]_vars PROVE PayInv'
  OBVIOUS
<1>1. CASE PriceLoop \/ ListPools
  BY <1>1, RefreshKeepsPay DEF PriceLoop, ListPools
<1>2. ASSUME NEW m \in Pools, NEW kind \in Kinds, NEW amount \in AmountsOf(kind),
             Quote(m, kind, amount)
      PROVE  PayInv'
  BY <1>2, QuoteKeepsPay
<1>3. CASE Admit
  BY <1>3, AdmitKeepsPay
<1>4. CASE Send
  BY <1>4, SendKeepsPay
<1>5. CASE Execute
  BY <1>5, ExecuteKeepsPay
<1>6. ASSUME NEW m \in Pools, NEW usd \in UsdOf[m], MarketMoves(m, usd)
      PROVE  PayInv'
  BY <1>6, MarketKeepsPay DEF IInv
<1>7. ASSUME NEW value \in Configs, UpdateConfig(value)
      PROVE  PayInv'
  BY <1>7, ConfigKeepsPay
<1>8. CASE Restart
  BY <1>8, RestartKeepsPay
<1>9. CASE Reopen
  BY <1>9, ReopenKeepsPay
<1>10. CASE Tick
  BY <1>10, TickKeepsPay DEF IInv
<1>11. CASE CacheExpires \/ UNCHANGED vars
  <2>1. /\ UNCHANGED <<market, chain, steady, prices, cfg, request>>
        /\ gcCache' \in {gcCache, None}
    BY <1>11 DEF CacheExpires, vars, world, relayer
  <2>2. MarketInv' /\ ConfigInv'
    BY <2>1 DEF PayInv, MarketInv, ConfigInv
  <2> QED BY <2>1, <2>2, RequestKeeps DEF PayInv
<1> QED BY <1>1, <1>2, <1>3, <1>4, <1>5, <1>6, <1>7, <1>8, <1>9, <1>10, <1>11 DEF Next

-----------------------------------------------------------------------------
(* Theorems *)

\* What is known of prices and requests holds in every reachable state.
THEOREM Invariant == Spec => []IInv
  BY InitIInv, NextKeeps, PTL DEF Spec

\* What is known of markets, prices and the request has its type.
THEOREM TypeCorrect == Spec => []TypeOK
<1>1. IInv => TypeOK
  BY DEF IInv
<1> QED BY <1>1, Invariant, PTL

\* A token without a market for the life of a price is not relayed, whatever
\* refreshes failed, whatever restarts and whatever was quoted before
\* (main.ts:498, tokens.ts:119-122).
THEOREM NoMarketNoRelayHolds == Spec => []NoMarketNoRelay
<1>1. IInv => NoMarketNoRelay
  BY DEF IInv, TypeOK
<1> QED BY <1>1, Invariant, PTL

\* What the relayer's copies, the quote and the admitted request are worth holds
\* in every reachable state.
THEOREM PayInvariant == Spec => [](IInv /\ PayInv)
<1>1. Init => IInv /\ PayInv
  BY InitIInv, InitPayInv
<1>2. IInv /\ PayInv /\ [Next]_vars => (IInv /\ PayInv)'
  BY NextKeeps, NextKeepsPay
<1> QED BY <1>1, <1>2, PTL DEF Spec

\* At any price and rate, for any pool and amount, the fee of a fresh quote is
\* what the relayer and the program ask (pool.ts:354-363, main.ts:496-509,
\* utils.rs:151).
THEOREM FreshQuoteIsAcceptedHolds == Spec => []FreshQuoteIsAccepted
<1>1. PayInv => FreshQuoteIsAccepted
  BY FreshQuoteIsEnough DEF PayInv, ConfigInv
<1> QED BY <1>1, PayInvariant, PTL

\* A quote is too low for the relayer only if the rate went up or the flat fee
\* moved by more than an eighth: two roundings to two digits stay within the
\* 20% of main.ts:501, for every pair of prices.
THEOREM DriftIsToleratedHolds == Spec => []DriftIsTolerated
<1>1. PayInv => DriftIsTolerated
  BY DEF PayInv
<1> QED BY <1>1, PayInvariant, PTL

\* With the margin the program is initialised with, or a wider one, what the
\* relayer admits under a configuration that stands is paid (main.ts:195-201,
\* 505-508; lib.rs:61).
THEOREM AdmittedIsPayableHolds == Margin >= 500 => (Spec => []AdmittedIsPayable)
<1>1. SUFFICES ASSUME Margin >= 500 PROVE Spec => []AdmittedIsPayable
  OBVIOUS
<1>2. PayInv => AdmittedIsPayable
  BY <1>1 DEF PayInv
<1> QED BY <1>2, PayInvariant, PTL

-----------------------------------------------------------------------------
(* What can be spent *)

\* A set of numbers that is not empty has a smallest.
LEMMA SmallestExists ==
  \A T \in SUBSET Nat : \A t \in T : \E x \in T : \A y \in T : x <= y
<1> SUFFICES ASSUME NEW T, T \subseteq Nat, NEW t \in T
             PROVE  \E x \in T : \A y \in T : x <= y
  OBVIOUS
<1> DEFINE Less == OpToRel(<, Nat)
<1>1. IsWellFoundedOn(Less, Nat)
  BY NatLessThanWellFounded, Zenon
<1>2. ASSUME NEW x \in Nat, NEW y \in Nat, x < y
      PROVE  <<x, y>> \in Less
  BY <1>2, Zenon DEF OpToRel
<1> HIDE DEF Less
<1>3. PICK x \in T : \A y \in T : ~ (<<y, x>> \in Less)
  BY <1>1, WFMin
<1>4. ASSUME NEW y \in T
      PROVE  x <= y
  <2>1. x \in Nat /\ y \in Nat
    OBVIOUS
  <2>2. ~(y < x)
    BY <1>2, <1>3, <2>1, Zenon
  <2> QED BY <2>1, <2>2
<1> QED BY <1>4

\* What holds of 0 and of the next of each number holds of every number.
LEMMA NumberByNumber ==
  ASSUME NEW T, T \subseteq Nat, 0 \in T, \A n \in T : n + 1 \in T, NEW m \in Nat
  PROVE  m \in T
<1> DEFINE Rest == Nat \ T
<1> SUFFICES ASSUME m \in Rest
             PROVE  FALSE
  OBVIOUS
<1>1. PICK x \in Rest : \A y \in Rest : x <= y
  <2>1. Rest \in SUBSET Nat
    OBVIOUS
  <2> HIDE DEF Rest
  <2> QED BY <2>1, SmallestExists, Zenon
<1>2. x \in Nat \ {0}
  OBVIOUS
<1>3. x - 1 \in Nat /\ ~(x <= x - 1) /\ x = (x - 1) + 1
  BY <1>2
<1>4. x - 1 \in T
  BY <1>1, <1>3
<1> QED BY <1>1, <1>3, <1>4

\* What a difference of e between two amounts makes of their fees, at most.
Shrunk(rate, e) == CeilDiv(e * rate, 10000)

\* Six rounds bring two guesses so close that the thousand steps suffice.
Settles(rate, balance) ==
  LET Less(e) == Shrunk(rate, e)
  IN Less(Less(Less(Less(Less(Less(balance)))))) <= 999

LEMMA ShrunkIs ==
  ASSUME NEW rate \in Nat, NEW e \in Nat
  PROVE  Shrunk(rate, e) \in Nat
<1> PICK x \in Nat : x = e * rate
  BY SMT
<1>1. 10000 \in Nat \ {0}
  OBVIOUS
<1>2. CeilDiv(x, 10000) \in Nat
  BY <1>1, CeilDivBounds
<1> QED BY <1>2 DEF Shrunk

LEMMA PercentDiffers ==
  ASSUME NEW rate \in Nat, NEW x \in Nat, NEW y \in Nat, NEW e \in Nat, x <= y, y - x <= e
  PROVE  Percent(x, rate) <= Percent(y, rate)
         /\ Percent(y, rate) - Percent(x, rate) <= Shrunk(rate, e)
<1> PICK d \in Nat : y = x + d /\ d <= e
  OBVIOUS
<1>1. x * rate \in Nat /\ d * rate \in Nat /\ e * rate \in Nat /\ d * rate <= e * rate
  BY SMT
<1>2. y * rate = x * rate + d * rate
  BY SMT
<1>3. ASSUME NEW a \in Nat, NEW b \in Nat, NEW c \in Nat, b <= c
      PROVE  /\ a \div 10000 <= (a + b) \div 10000
             /\ (a + b) \div 10000 - a \div 10000 <= (c + 10000 - 1) \div 10000
  BY <1>3, SMT
<1>4. /\ (x * rate) \div 10000 <= (x * rate + d * rate) \div 10000
      /\ (x * rate + d * rate) \div 10000 - (x * rate) \div 10000
           <= (e * rate + 10000 - 1) \div 10000
  <2> PICK a \in Nat, b \in Nat, c \in Nat : a = x * rate /\ b = d * rate /\ c = e * rate
    BY <1>1
  <2> QED BY <1>1, <1>3
<1> QED BY <1>2, <1>4 DEF Percent, Shrunk, CeilDiv

\* The fee of a withdrawal grows with the amount, and by no more than its share.
LEMMA FeeDiffers ==
  ASSUME MarketInv, NEW m \in Pools, NEW rate \in Nat, NEW x \in Nat, NEW y \in Nat,
         NEW e \in Nat, x <= y, y - x <= e
  PROVE  /\ WithdrawFee(m, x, rate) \in Nat /\ WithdrawFee(m, y, rate) \in Nat
         /\ WithdrawFee(m, x, rate) <= WithdrawFee(m, y, rate)
         /\ WithdrawFee(m, y, rate) - WithdrawFee(m, x, rate) <= Shrunk(rate, e)
<1>1. /\ Percent(x, rate) <= Percent(y, rate)
      /\ Percent(y, rate) - Percent(x, rate) <= Shrunk(rate, e)
  BY PercentDiffers
<1>2. /\ Percent(x, rate) \in Nat /\ Percent(y, rate) \in Nat
      /\ Extra(m) \in Nat
  BY PercentIsNat, Zenon
<1>3. WithdrawMinFeeOf(m) \in Nat
  BY FloorsAre
<1>4. Shrunk(rate, e) \in Nat
  BY ShrunkIs
<1>5. ASSUME NEW a \in Nat
      PROVE  WithdrawFee(m, a, rate) =
               IF Percent(a, rate) + Extra(m) < WithdrawMinFeeOf(m) THEN WithdrawMinFeeOf(m)
               ELSE Percent(a, rate) + Extra(m)
  BY DEF WithdrawFee, Extra
<1>6. /\ WithdrawFee(m, x, rate) =
           IF Percent(x, rate) + Extra(m) < WithdrawMinFeeOf(m) THEN WithdrawMinFeeOf(m)
           ELSE Percent(x, rate) + Extra(m)
      /\ WithdrawFee(m, y, rate) =
           IF Percent(y, rate) + Extra(m) < WithdrawMinFeeOf(m) THEN WithdrawMinFeeOf(m)
           ELSE Percent(y, rate) + Extra(m)
  BY <1>5
<1> QED BY <1>1, <1>2, <1>3, <1>4, <1>6

LEMMA FeeGrows ==
  ASSUME MarketInv, NEW m \in Pools, NEW rate \in Nat, NEW x \in Nat, NEW y \in Nat, x <= y
  PROVE  /\ WithdrawFee(m, x, rate) \in Nat /\ WithdrawFee(m, y, rate) \in Nat
         /\ WithdrawFee(m, x, rate) <= WithdrawFee(m, y, rate)
<1>1. y - x \in Nat /\ y - x <= y - x
  OBVIOUS
<1> QED BY <1>1, FeeDiffers

\* A round of spendable, and how far the guess moves in it.
Round(m, balance, rate, x) == IF x > 0 THEN balance - WithdrawFee(m, x, rate) ELSE x
Near(m, balance, rate, x, e) ==
  LET y == Round(m, balance, rate, x)
  IN /\ x \in Int /\ y \in Int /\ e \in Nat
     /\ x > 0 /\ y > 0 => x - y <= e /\ y - x <= e

LEMMA RoundShrinks ==
  ASSUME MarketInv, NEW m \in Pools, NEW rate \in Nat, NEW balance \in Nat,
         NEW x, NEW e, Near(m, balance, rate, x, e)
  PROVE  Near(m, balance, rate, Round(m, balance, rate, x), Shrunk(rate, e))
<1> DEFINE y == Round(m, balance, rate, x)
           z == Round(m, balance, rate, y)
<1> SUFFICES /\ y \in Int /\ z \in Int /\ Shrunk(rate, e) \in Nat
             /\ y > 0 /\ z > 0 => y - z <= Shrunk(rate, e) /\ z - y <= Shrunk(rate, e)
  BY Zenon DEF Near
<1>1. /\ x \in Int /\ y \in Int /\ e \in Nat
      /\ x > 0 /\ y > 0 => x - y <= e /\ y - x <= e
  BY Zenon DEF Near
<1>2. Shrunk(rate, e) \in Nat
  BY <1>1, ShrunkIs
<1>3. CASE y > 0
  <2>1. x > 0
    BY <1>1, <1>3 DEF Round
  <2>2. y = balance - WithdrawFee(m, x, rate)
    BY <2>1 DEF Round
  <2> HIDE DEF y
  <2>3. z = balance - WithdrawFee(m, y, rate)
    BY <1>3 DEF Round
  <2>4. x \in Nat /\ y \in Nat /\ x - y <= e /\ y - x <= e
    BY <1>1, <1>3, <2>1
  <2>5. /\ WithdrawFee(m, x, rate) \in Nat /\ WithdrawFee(m, y, rate) \in Nat
        /\ x <= y => /\ WithdrawFee(m, x, rate) <= WithdrawFee(m, y, rate)
                     /\ WithdrawFee(m, y, rate) - WithdrawFee(m, x, rate) <= Shrunk(rate, e)
        /\ y <= x => /\ WithdrawFee(m, y, rate) <= WithdrawFee(m, x, rate)
                     /\ WithdrawFee(m, x, rate) - WithdrawFee(m, y, rate) <= Shrunk(rate, e)
    <3>1. e \in Nat
      BY <1>1
    <3>2. CASE x <= y
      BY <2>4, <3>1, <3>2, FeeDiffers
    <3>3. CASE y <= x
      BY <2>4, <3>1, <3>3, FeeDiffers
    <3> QED BY <2>4, <3>2, <3>3
  <2>6. z \in Int /\ y - z <= Shrunk(rate, e) /\ z - y <= Shrunk(rate, e)
    BY <1>2, <2>2, <2>3, <2>4, <2>5
  <2> QED BY <1>1, <1>2, <2>6
<1>4. CASE ~(y > 0)
  <2> HIDE DEF y
  <2>1. z = y
    BY <1>4 DEF Round
  <2> QED BY <1>1, <1>2, <1>4, <2>1
<1> QED BY <1>3, <1>4

LEMMA ApproachIs ==
  ASSUME NEW m, NEW balance, NEW rate
  PROVE  LET R(x) == Round(m, balance, rate, x)
         IN Approach(m, balance, rate) = R(R(R(R(R(R(balance))))))
<1> DEFINE R(x) == Round(m, balance, rate, x)
           Body(f, round) == IF round = 0 THEN balance
                             ELSE IF f[round - 1] > 0
                                  THEN balance - WithdrawFee(m, f[round - 1], rate)
                                  ELSE f[round - 1]
           most == CHOOSE f : f = [round \in 0 .. 6 |-> Body(f, round)]
<1>1. Approach(m, balance, rate) = most[6]
  BY Zenon DEF Approach
<1>2. \E f : f = [round \in 0 .. 6 |-> Body(f, round)]
  <2> PICK x1 : x1 = R(balance)
    OBVIOUS
  <2> PICK x2 : x2 = R(x1)
    OBVIOUS
  <2> PICK x3 : x3 = R(x2)
    OBVIOUS
  <2> PICK x4 : x4 = R(x3)
    OBVIOUS
  <2> PICK x5 : x5 = R(x4)
    OBVIOUS
  <2> PICK x6 : x6 = R(x5)
    OBVIOUS
  <2> DEFINE g == [round \in 0 .. 6 |->
                     IF round = 0 THEN balance ELSE IF round = 1 THEN x1
                     ELSE IF round = 2 THEN x2 ELSE IF round = 3 THEN x3
                     ELSE IF round = 4 THEN x4 ELSE IF round = 5 THEN x5 ELSE x6]
  <2>1. /\ g[0] = balance /\ g[1] = x1 /\ g[2] = x2 /\ g[3] = x3
        /\ g[4] = x4 /\ g[5] = x5 /\ g[6] = x6
    OBVIOUS
  <2>2. ASSUME NEW round \in 0 .. 6
        PROVE  g[round] = Body(g, round)
    <3>1. \/ round = 0 \/ round = 1 \/ round = 2 \/ round = 3
          \/ round = 4 \/ round = 5 \/ round = 6
      OBVIOUS
    <3> HIDE DEF g
    <3> QED BY <2>1, <3>1 DEF Round
  <2>3. g = [round \in 0 .. 6 |-> g[round]]
    OBVIOUS
  <2> HIDE DEF g, Body
  <2>4. g = [round \in 0 .. 6 |-> Body(g, round)]
    BY <2>2, <2>3
  <2> QED BY <2>4
<1>3. most = [round \in 0 .. 6 |-> Body(most, round)]
  <2> HIDE DEF Body
  <2> QED BY <1>2
<1>4. ASSUME NEW round \in 0 .. 6
      PROVE  most[round] = Body(most, round)
  <2> HIDE DEF most, Body
  <2> QED BY <1>3
<1> HIDE DEF most
<1>5. /\ most[0] = balance /\ most[1] = R(most[0]) /\ most[2] = R(most[1])
      /\ most[3] = R(most[2]) /\ most[4] = R(most[3]) /\ most[5] = R(most[4])
      /\ most[6] = R(most[5])
  <2>1. /\ most[0] = Body(most, 0) /\ most[1] = Body(most, 1) /\ most[2] = Body(most, 2)
        /\ most[3] = Body(most, 3) /\ most[4] = Body(most, 4) /\ most[5] = Body(most, 5)
        /\ most[6] = Body(most, 6)
    <3> HIDE DEF Body
    <3> QED BY <1>4
  <2> QED BY <2>1 DEF Round
<1> QED BY <1>1, <1>5

\* After six rounds the guess and its fee exceed the balance by 999 at most.
LEMMA ApproachIsClose ==
  ASSUME MarketInv, NEW m \in Pools, NEW rate \in Nat, NEW balance \in Nat,
         Settles(rate, balance)
  PROVE  LET most == Approach(m, balance, rate)
         IN /\ most \in Int
            /\ most > 0 => most + WithdrawFee(m, most, rate) <= balance + 999
<1> DEFINE R(x) == Round(m, balance, rate, x)
           E(e) == Shrunk(rate, e)
           x5 == R(R(R(R(R(balance)))))
           e5 == E(E(E(E(E(balance)))))
<1>1. Near(m, balance, rate, balance, balance)
  <2>1. CASE balance > 0
    <3>1. WithdrawFee(m, balance, rate) \in Nat
      BY WithdrawFeeIs
    <3>2. R(balance) = balance - WithdrawFee(m, balance, rate)
      BY <2>1 DEF Round
    <3> HIDE DEF R
    <3>3. /\ balance \in Int /\ R(balance) \in Int
          /\ balance > 0 /\ R(balance) > 0 => /\ balance - R(balance) <= balance
                                              /\ R(balance) - balance <= balance
      BY <3>1, <3>2
    <3> QED BY <3>3, Zenon DEF Near, R
  <2>2. CASE ~(balance > 0)
    <3>1. R(balance) = balance
      BY <2>2 DEF Round
    <3> HIDE DEF R
    <3>3. /\ balance \in Int /\ R(balance) \in Int
          /\ balance > 0 /\ R(balance) > 0 => /\ balance - R(balance) <= balance
                                              /\ R(balance) - balance <= balance
      BY <2>2, <3>1
    <3> QED BY <3>3, Zenon DEF Near, R
  <2> QED BY <2>1, <2>2
<1>2. ASSUME NEW x, NEW e, Near(m, balance, rate, x, e)
      PROVE  Near(m, balance, rate, R(x), E(e))
  BY <1>2, RoundShrinks
<1>3. Near(m, balance, rate, x5, e5)
  <2> HIDE DEF R, E
  <2> QED BY <1>1, <1>2, Zenon
<1>4. Approach(m, balance, rate) = R(x5)
  BY ApproachIs, Zenon
<1>5. Shrunk(rate, e5) <= 999
  BY Zenon DEF Settles
<1> PICK x : x = x5
  OBVIOUS
<1> PICK e : e = e5
  OBVIOUS
<1> HIDE DEF x5, e5
<1> PICK y : y = R(x)
  OBVIOUS
<1>6. /\ x \in Int /\ y \in Int /\ e \in Nat
      /\ x > 0 /\ y > 0 => x - y <= e /\ y - x <= e
  BY <1>3, Zenon DEF Near
<1>7. ASSUME y > 0
      PROVE  y + WithdrawFee(m, y, rate) <= balance + 999
  <2>1. x > 0 /\ y = balance - WithdrawFee(m, x, rate)
    BY <1>6, <1>7 DEF Round
  <2>2. x \in Nat /\ y \in Nat /\ x - y <= e /\ y - x <= e
    BY <1>6, <1>7, <2>1
  <2>3. Shrunk(rate, e) \in Nat /\ Shrunk(rate, e) <= 999
    BY <1>5, <1>6, ShrunkIs
  <2>4. CASE x <= y
    <3>1. /\ WithdrawFee(m, x, rate) \in Nat /\ WithdrawFee(m, y, rate) \in Nat
          /\ WithdrawFee(m, y, rate) - WithdrawFee(m, x, rate) <= Shrunk(rate, e)
      BY <1>6, <2>2, <2>4, FeeDiffers
    <3> QED BY <2>1, <2>2, <2>3, <3>1
  <2>5. CASE y <= x
    <3>1. /\ WithdrawFee(m, x, rate) \in Nat /\ WithdrawFee(m, y, rate) \in Nat
          /\ WithdrawFee(m, y, rate) <= WithdrawFee(m, x, rate)
      BY <1>6, <2>2, <2>5, FeeDiffers
    <3> QED BY <2>1, <2>2, <3>1
  <2> QED BY <2>2, <2>4, <2>5
<1>8. Approach(m, balance, rate) = y
  BY <1>4
<1> QED BY <1>6, <1>7, <1>8

\* A bounded set of numbers that is not empty has a largest, and Max is in it.
LEMMA MaxIs ==
  ASSUME NEW S, S \subseteq Int, NEW t \in S, NEW top \in Int, \A x \in S : x <= top
  PROVE  Max(S) \in S /\ \A x \in S : x <= Max(S)
<1> DEFINE T == {d \in Nat : top - d \in S}
<1>1. top - t \in T
  <2>1. top - t \in Nat /\ top - (top - t) = t
    OBVIOUS
  <2> QED BY <2>1
<1>2. T \in SUBSET Nat
  OBVIOUS
<1>3. PICK d \in T : \A y \in T : d <= y
  <2> HIDE DEF T
  <2> QED BY <1>1, <1>2, SmallestExists, Zenon
<1>4. d \in Nat /\ top - d \in S
  OBVIOUS
<1>5. ASSUME NEW x \in S
      PROVE  top - d >= x
  <2>1. top - x \in Nat /\ top - (top - x) = x
    OBVIOUS
  <2>2. top - x \in T
    BY <2>1
  <2>3. d <= top - x
    BY <1>3, <2>2
  <2> QED BY <1>4, <2>1, <2>3
<1>6. \E x \in S : \A y \in S : x >= y
  BY <1>4, <1>5
<1>7. Max(S) \in S /\ \A y \in S : Max(S) >= y
  BY <1>6 DEF Max
<1>8. \A x \in S : x \in Int
  OBVIOUS
<1>9. \A x \in S : x <= Max(S)
  BY <1>7, <1>8
<1> QED BY <1>7, <1>9

\* A thousand steps down from there, something fits or nothing is left.
LEMMA LoweredFits ==
  ASSUME MarketInv, NEW m \in Pools, NEW rate \in Nat, NEW balance \in Nat, NEW most \in Int,
         most > 0 => most + WithdrawFee(m, most, rate) <= balance + 999,
         Lowered(m, most, balance, rate) > 0
  PROVE  Fits(m, Lowered(m, most, balance, rate), balance, rate)
<1>1. most > 0
  <2> SUFFICES ASSUME most <= 0
               PROVE  FALSE
    OBVIOUS
  <2>1. Lowered(m, most, balance, rate) = most
    BY Zenon DEF Lowered
  <2> QED BY <2>1
<1> DEFINE low == IF most > 1000 THEN most - 999 ELSE 0
           Fitting == {n \in low .. most : n = 0 \/ Fits(m, n, balance, rate)}
           S == {most - 1000} \cup Fitting
<1>2. Lowered(m, most, balance, rate) = Max(S)
  <2>1. ~(most <= 0)
    BY <1>1
  <2> QED BY <2>1, Zenon DEF Lowered
<1>3. low \in Nat /\ low <= most
  BY <1>1
<1>4. low = 0 \/ Fits(m, low, balance, rate)
  <2>1. CASE most > 1000
    <3>1. low = most - 999 /\ low \in Nat /\ most \in Nat /\ low <= most /\ most - low <= 999
      BY <2>1
    <3> HIDE DEF low
    <3>2. /\ WithdrawFee(m, low, rate) \in Nat /\ WithdrawFee(m, most, rate) \in Nat
          /\ WithdrawFee(m, low, rate) <= WithdrawFee(m, most, rate)
      <4>1. low \in Nat /\ most \in Nat /\ low <= most
        BY <3>1
      <4> QED BY <4>1, FeeGrows
    <3>3. low + WithdrawFee(m, low, rate) <= balance
      BY <1>1, <3>1, <3>2
    <3> QED BY <3>3 DEF Fits
  <2>2. CASE ~(most > 1000)
    BY <2>2
  <2> QED BY <2>1, <2>2
<1> HIDE DEF low
<1>5. low \in S
  BY <1>3, <1>4
<1>6. S \subseteq Int /\ \A x \in S : x <= most
  BY <1>3
<1>7. Max(S) \in S /\ low <= Max(S)
  <2> HIDE DEF S
  <2>1. Max(S) \in S /\ \A x \in S : x <= Max(S)
    BY <1>5, <1>6, MaxIs
  <2> QED BY <1>5, <2>1
<1>8. Max(S) > 0
  BY <1>2
<1>9. Max(S) # most - 1000
  <2>1. CASE most > 1000
    <3>1. low = most - 999
      BY <2>1 DEF low
    <3> HIDE DEF S
    <3> QED BY <1>7, <3>1
  <2>2. CASE ~(most > 1000)
    <3> HIDE DEF S
    <3> QED BY <1>8, <2>2
  <2> QED BY <2>1, <2>2
<1>10. Max(S) = 0 \/ Fits(m, Max(S), balance, rate)
  <2>1. \A x \in S : x = most - 1000 \/ x = 0 \/ Fits(m, x, balance, rate)
    OBVIOUS
  <2> HIDE DEF S
  <2> QED BY <1>7, <1>9, <2>1
<1>11. Max(S) # 0
  <2> HIDE DEF S
  <2> QED BY <1>8
<1> HIDE DEF S
<1> QED BY <1>2, <1>10, <1>11

\* Every configuration's rate closes in on every balance.
Converges == \A value \in Configs, balance \in Balances : Settles(value.rate, balance)

LEMMA SpendableFitsFromInv ==
  ASSUME MarketInv, chain \in Configs, Converges
  PROVE  SpendableFits
<1> SUFFICES ASSUME NEW m \in Pools, NEW balance \in Balances,
                    Spendable(m, balance, chain.rate) > 0
             PROVE  Fits(m, Spendable(m, balance, chain.rate), balance, chain.rate)
  BY Zenon DEF SpendableFits
<1>1. Settles(chain.rate, balance)
  BY Zenon DEF Converges
<1> PICK rate \in Nat : rate = chain.rate
  BY RateIs
<1>2. balance \in Nat
  BY FeesAssumption
<1> PICK most : most = Approach(m, balance, rate)
  OBVIOUS
<1>3. most \in Int /\ (most > 0 => most + WithdrawFee(m, most, rate) <= balance + 999)
  BY <1>1, <1>2, ApproachIsClose
<1> PICK lowered : lowered = Lowered(m, most, balance, rate)
  OBVIOUS
<1>4. Spendable(m, balance, rate) = IF lowered < 0 THEN 0 ELSE lowered
  BY DEF Spendable
<1>5. Spendable(m, balance, rate) = lowered /\ lowered > 0
  BY <1>4
<1>6. Fits(m, lowered, balance, rate)
  BY <1>2, <1>3, <1>5, LoweredFits
<1> QED BY <1>5, <1>6

\* What spendable offers can be paid: for every rate and balance that six rounds
\* bring within the thousand steps left.
THEOREM SpendableFitsHolds == Converges => (Spec => []SpendableFits)
<1> SUFFICES ASSUME Converges
             PROVE  Spec => []SpendableFits
  OBVIOUS
<1>1. PayInv => SpendableFits
  BY SpendableFitsFromInv DEF PayInv, ConfigInv
<1> QED BY <1>1, PayInvariant, PTL

-----------------------------------------------------------------------------
(* Parts of an amount *)

LEMMA PercentGrows ==
  ASSUME NEW a \in Nat, NEW r \in Nat, NEW lower \in Nat, lower <= r
  PROVE  Percent(a, lower) <= Percent(a, r)
BY PercentIs, Zenon

LEMMA PercentNat ==
  ASSUME NEW a \in Nat, NEW r \in Nat
  PROVE  Percent(a, r) \in Nat
BY PercentIs, Zenon

LEMMA PercentIsLess ==
  ASSUME NEW a \in Nat, NEW r \in Nat, r <= 10000
  PROVE  Percent(a, r) <= a
<1>1. a * r \in Nat /\ a * r <= a * 10000
  BY SMT
<1>2. ASSUME NEW x \in Nat, x <= a * 10000
      PROVE  x \div 10000 <= a
  BY <1>2, SMT
<1> QED BY <1>1, <1>2 DEF Percent

-----------------------------------------------------------------------------
(* Transfer fees, for any schedule and amount *)

BasisPoints == 0 .. 10000

IsSchedule(s) == s.bps \in Nat /\ s.bps <= 10000 /\ s.max \in Nat

LEMMA ScheduleIs ==
  ASSUME NEW s \in [bps : 0 .. 10000, max : Nat]
  PROVE  IsSchedule(s)
<1>1. s \in [bps : BasisPoints, max : Nat]
  BY DEF BasisPoints
<1>2. \A b \in BasisPoints : b \in Nat /\ b <= 10000
  BY DEF BasisPoints
<1> QED BY <1>1, <1>2 DEF IsSchedule

\* A schedule the SDK can invert: not everything is withheld.
Invertible(s) == s.bps \in Nat /\ s.bps < 10000 /\ s.max \in Nat

\* The two sums of the library, of the two numbers of a schedule.
Cut(b, cap, amount) ==
  IF CeilDiv(amount * b, 10000) > cap THEN cap ELSE CeilDiv(amount * b, 10000)
RaisedOf(b, cap, n) ==
  IF CeilDiv(n * 10000, 10000 - b) - n >= cap THEN n + cap
  ELSE CeilDiv(n * 10000, 10000 - b)

LEMMA CutIs ==
  ASSUME NEW b \in Nat, b <= 10000, NEW cap \in Nat, NEW amount \in Nat
  PROVE  Cut(b, cap, amount) \in Nat /\ Cut(b, cap, amount) <= amount
<1>1. amount * b \in Nat /\ amount * b <= amount * 10000
  BY SMT
<1> PICK c : c = CeilDiv(amount * b, 10000)
  OBVIOUS
<1>2. c \in Nat /\ c * 10000 < amount * b + 10000
  <2>1. 10000 \in Nat \ {0}
    OBVIOUS
  <2> PICK x \in Nat : x = amount * b
    BY <1>1
  <2>2. CeilDiv(x, 10000) \in Nat /\ CeilDiv(x, 10000) * 10000 < x + 10000
    BY <2>1, CeilDivBounds
  <2> QED BY <2>2
<1>3. c <= amount
  BY <1>1, <1>2
<1>4. Cut(b, cap, amount) = IF c > cap THEN cap ELSE c
  BY DEF Cut
<1> QED BY <1>2, <1>3, <1>4

LEMMA RoundingCancels ==
  ASSUME NEW n \in Nat, NEW f \in Nat, NEW r \in Nat, NEW p \in Nat, NEW l \in Nat,
         l <= 10000, p <= f * 10000, f * 10000 < p + 10000,
         n * 10000 <= r * 10000 - p, r * 10000 - p < n * 10000 + l
  PROVE  f = r - n
OBVIOUS

LEMMA RaisedDelivers ==
  ASSUME NEW b \in Nat \ {0}, b < 10000, NEW cap \in Nat, NEW n \in Nat \ {0}
  PROVE  /\ RaisedOf(b, cap, n) \in Nat
         /\ RaisedOf(b, cap, n) - Cut(b, cap, RaisedOf(b, cap, n)) = n
<1> PICK left \in Nat \ {0} : left = 10000 - b
  OBVIOUS
<1> PICK raw : raw = CeilDiv(n * 10000, 10000 - b)
  OBVIOUS
<1>1. raw \in Nat /\ n * 10000 <= raw * left /\ raw * left < n * 10000 + left
  <2>1. n * 10000 \in Nat
    OBVIOUS
  <2> QED BY <2>1, CeilDivBounds
<1>2. raw * left = raw * 10000 - raw * b
  BY <1>1, SMT
<1>3. raw * b \in Nat
  BY <1>1, SMT
<1>4. RaisedOf(b, cap, n) = IF raw - n >= cap THEN n + cap ELSE raw
  BY DEF RaisedOf
<1>5. CASE raw - n >= cap
  <2> PICK gross \in Nat : gross = n + cap
    OBVIOUS
  <2>1. gross * b \in Nat
    BY SMT
  <2> PICK fee : fee = CeilDiv(gross * b, 10000)
    OBVIOUS
  <2>2. fee \in Nat /\ gross * b <= fee * 10000
    <3> PICK x \in Nat : x = gross * b
      BY <2>1
    <3>1. 10000 \in Nat \ {0}
      OBVIOUS
    <3>2. CeilDiv(x, 10000) \in Nat /\ x <= CeilDiv(x, 10000) * 10000
      BY <3>1, CeilDivBounds
    <3> QED BY <3>2
  <2>3. fee >= cap
    <3> SUFFICES ASSUME fee <= cap - 1
                 PROVE  FALSE
      BY <2>2
    <3>1. gross * b <= (cap - 1) * 10000
      BY <2>1, <2>2
    <3>2. gross * left = gross * 10000 - gross * b
      BY SMT
    <3>3. gross * left >= (n + 1) * 10000
      BY <2>1, <3>1, <3>2
    <3>4. gross * left <= raw * left
      <4>1. gross <= raw
        BY <1>1, <1>5
      <4> QED BY <1>1, <4>1, SMT
    <3> QED BY <1>1, <1>2, <1>3, <2>1, <3>2, <3>3, <3>4
  <2>4. Cut(b, cap, gross) = cap
    <3>1. Cut(b, cap, gross) = IF fee > cap THEN cap ELSE fee
      BY DEF Cut
    <3> QED BY <2>2, <2>3, <3>1
  <2> QED BY <1>4, <1>5, <2>4
<1>6. CASE ~(raw - n >= cap)
  <2>a. PICK fee : fee = CeilDiv(raw * b, 10000)
    OBVIOUS
  <2>1. fee \in Nat /\ raw * b <= fee * 10000 /\ fee * 10000 < raw * b + 10000
    <3> PICK x \in Nat : x = raw * b
      BY <1>3
    <3>1. 10000 \in Nat \ {0}
      OBVIOUS
    <3>2. /\ CeilDiv(x, 10000) \in Nat /\ x <= CeilDiv(x, 10000) * 10000
          /\ CeilDiv(x, 10000) * 10000 < x + 10000
      BY <3>1, CeilDivBounds
    <3> QED BY <2>a, <3>2
  <2>2. fee = raw - n
    <3>a. PICK part \in Nat : part = raw * b
      BY <1>3
    <3>1. /\ part <= fee * 10000 /\ fee * 10000 < part + 10000
          /\ n * 10000 <= raw * 10000 - part /\ raw * 10000 - part < n * 10000 + left
      BY <3>a, <1>1, <1>2, <2>1
    <3>2. left <= 10000 /\ left \in Nat
      OBVIOUS
    <3> QED BY <1>1, <2>1, <3>1, <3>2, RoundingCancels
  <2>3. Cut(b, cap, raw) = fee
    <3>1. Cut(b, cap, raw) = IF fee > cap THEN cap ELSE fee
      BY <2>a DEF Cut
    <3> QED BY <1>1, <1>6, <2>1, <2>2, <3>1
  <2> QED BY <1>1, <1>4, <1>6, <2>2, <2>3
<1> QED BY <1>5, <1>6

\* What is withheld is part of the amount.
LEMMA WithheldIs ==
  ASSUME NEW s, IsSchedule(s), NEW amount \in Nat
  PROVE  Withheld(s, amount) \in Nat /\ Withheld(s, amount) <= amount
<1>1. Withheld(s, amount) = Cut(s.bps, s.max, amount)
  BY DEF Withheld, Cut
<1>2. Cut(s.bps, s.max, amount) \in Nat /\ Cut(s.bps, s.max, amount) <= amount
  <2> DEFINE Bounded(b) == b \in Nat /\ b <= 10000
  <2>1. Bounded(s.bps) /\ s.max \in Nat
    BY DEF IsSchedule
  <2>2. ASSUME NEW b, Bounded(b), NEW cap \in Nat
        PROVE  Cut(b, cap, amount) \in Nat /\ Cut(b, cap, amount) <= amount
    BY <2>2, CutIs
  <2> HIDE DEF Bounded
  <2> QED BY <2>1, <2>2, Zenon
<1> QED BY <1>1, <1>2

\* A transfer of the gross of n delivers n: the rounding of the one direction
\* undoes that of the other, below the cap, at it and where they meet.
LEMMA GrossDelivers ==
  ASSUME NEW s, Invertible(s), NEW n \in Nat \ {0}
  PROVE  /\ ProgramGross(s, n) \in Nat
         /\ ProgramGross(s, n) - Withheld(s, ProgramGross(s, n)) = n
         /\ PreFee(s, n) = ProgramGross(s, n)
<1>1. s.bps \in Nat /\ s.bps < 10000 /\ s.max \in Nat
  BY DEF Invertible
<1>2. \A a : Withheld(s, a) = Cut(s.bps, s.max, a)
  BY DEF Withheld, Cut
<1>3. CASE s.bps = 0
  <2>1. ProgramGross(s, n) = n /\ PreFee(s, n) = n
    BY <1>3 DEF ProgramGross, PreFee
  <2>2. \A cap \in Nat : Cut(0, cap, n) = 0
    <3>1. CeilDiv(n * 0, 10000) = 0
      BY DEF CeilDiv
    <3> QED BY <3>1 DEF Cut
  <2>3. Withheld(s, n) = 0
    BY <1>1, <1>2, <1>3, <2>2
  <2> QED BY <2>1, <2>3
<1>4. CASE s.bps # 0
  <2>1. ProgramGross(s, n) = Raised(s, n) /\ PreFee(s, n) = Raised(s, n)
    BY <1>1, <1>4 DEF ProgramGross, PreFee
  <2>2. Raised(s, n) = RaisedOf(s.bps, s.max, n)
    BY DEF Raised, RaisedOf
  <2>3. /\ RaisedOf(s.bps, s.max, n) \in Nat
        /\ RaisedOf(s.bps, s.max, n) - Cut(s.bps, s.max, RaisedOf(s.bps, s.max, n)) = n
    BY <1>1, <1>4, RaisedDelivers
  <2> QED BY <1>2, <2>1, <2>2, <2>3
<1> QED BY <1>3, <1>4

\* The net amount of the preview is the largest part of what arrives of the
\* amount whose gross is no more than the amount.
LEMMA NetIsLargest ==
  ASSUME NEW s, Invertible(s), NEW amount \in Nat
  PROVE  LET arrives == amount - Withheld(s, amount)
             net == Net(s, amount)
         IN /\ arrives \in Nat /\ arrives <= amount /\ net \in Nat /\ net <= arrives
            /\ net # 0 => ProgramGross(s, net) <= amount
            /\ \A k \in Nat : net < k /\ k <= arrives => ProgramGross(s, k) > amount
<1>a. PICK arrives : arrives = amount - Withheld(s, amount)
  OBVIOUS
<1>1. arrives \in Nat /\ arrives <= amount
  <2>1. IsSchedule(s)
    BY DEF Invertible, IsSchedule
  <2>2. Withheld(s, amount) \in Nat /\ Withheld(s, amount) <= amount
    BY <2>1, WithheldIs
  <2> QED BY <1>a, <2>2
<1>2. CASE arrives = 0
  <2>1. Net(s, amount) = 0
    BY <1>a, <1>2 DEF Net
  <2> QED BY <1>a, <1>1, <1>2, <2>1
<1>3. CASE arrives # 0
  <2>1. ~(arrives <= 0) /\ arrives \in Nat \ {0}
    BY <1>1, <1>3
  <2> DEFINE Largest(n) == /\ n = 0 \/ PreFee(s, n) <= amount
                           /\ \A k \in n + 1 .. arrives : PreFee(s, k) > amount
  <2>2. \A k \in 1 .. arrives : PreFee(s, k) \in Nat /\ PreFee(s, k) = ProgramGross(s, k)
    BY <1>1, GrossDelivers
  <2>3. Net(s, amount) = CHOOSE n \in 0 .. arrives : Largest(n)
    <3>1. PreFee(s, arrives) # None
      BY <1>1, <2>1, <2>2, FeesAssumption
    <3> QED BY <1>a, <2>1, <3>1 DEF Net
  <2>4. \E n \in 0 .. arrives : Largest(n)
    <3> DEFINE T == {d \in 0 .. arrives : d = arrives \/ PreFee(s, arrives - d) <= amount}
    <3>1. T \in SUBSET Nat /\ arrives \in T
      BY <1>1
    <3>2. PICK d \in T : \A y \in T : d <= y
      <4> HIDE DEF T
      <4> QED BY <3>1, SmallestExists, Zenon
    <3>3. PICK n \in 0 .. arrives : n = arrives - d /\ (n = 0 \/ PreFee(s, n) <= amount)
      BY <1>1
    <3>4. ASSUME NEW k \in n + 1 .. arrives
          PROVE  PreFee(s, k) > amount
      <4>1. /\ k \in 1 .. arrives /\ arrives - k \in 0 .. arrives /\ arrives - k < d
            /\ arrives - (arrives - k) = k
        BY <1>1, <3>3
      <4>2. arrives - k \notin T
        <5>1. d \in Nat /\ arrives - k \in Nat
          BY <1>1, <3>1, <4>1
        <5> HIDE DEF T
        <5> QED BY <3>2, <4>1, <5>1
      <4>3. ~(PreFee(s, k) <= amount)
        BY <4>1, <4>2
      <4> QED BY <2>2, <4>1, <4>3
    <3> QED BY <3>3, <3>4
  <2>5. Net(s, amount) \in 0 .. arrives /\ Largest(Net(s, amount))
    <3> HIDE DEF Largest
    <3> QED BY <2>3, <2>4
  <2> PICK net \in 0 .. arrives : net = Net(s, amount)
    BY <2>5
  <2>6. net # 0 => ProgramGross(s, net) <= amount
    BY <1>1, <2>2, <2>5
  <2>7. ASSUME NEW k \in Nat, net < k, k <= arrives
        PROVE  ProgramGross(s, k) > amount
    <3>1. k \in net + 1 .. arrives /\ k \in 1 .. arrives
      BY <1>1, <2>7
    <3> QED BY <2>2, <2>5, <3>1
  <2> QED BY <1>a, <1>1, <2>6, <2>7
<1> QED BY <1>2, <1>3

\* The net amount of the preview, if there is one: no more than the amount, and
\* its gross no more than the amount.
LEMMA NetIs ==
  ASSUME NEW s, IsSchedule(s), NEW amount \in Nat, Net(s, amount) # None
  PROVE  /\ Net(s, amount) \in Nat /\ Net(s, amount) <= amount
         /\ Net(s, amount) # 0 => /\ Invertible(s)
                                  /\ ProgramGross(s, Net(s, amount)) <= amount
<1>a. PICK arrives : arrives = amount - Withheld(s, amount)
  OBVIOUS
<1>1. arrives \in Nat /\ arrives <= amount
  <2>1. Withheld(s, amount) \in Nat /\ Withheld(s, amount) <= amount
    BY WithheldIs
  <2> QED BY <1>a, <2>1
<1>2. CASE arrives = 0
  <2>1. Net(s, amount) = 0
    BY <1>a, <1>2 DEF Net
  <2> QED BY <2>1
<1>3. CASE arrives # 0
  <2>1. ~(arrives <= 0)
    BY <1>1, <1>3
  <2>2. PreFee(s, arrives) # None
    BY <1>a, <2>1 DEF Net
  <2>3. Invertible(s)
    BY <2>2 DEF PreFee, Invertible, IsSchedule
  <2> QED BY <1>1, <2>3, NetIsLargest
<1> QED BY <1>2, <1>3

-----------------------------------------------------------------------------
(* The invariant of a deposit *)

FeeConfigs == [older : Schedules, newer : Schedules, from : Nat]

SdkConfigs == [bps : Rates, recipient : Recipients]

Meetings ==
  [schedule : Schedules, rate : Rates, recipient : Recipients, limit : Limits, transacted : Nat]

Deposits ==
  [amount : Nat, net : Nat, fee : Nat, cut : Nat,
   root : Nat, schedule : Schedules, config : SdkConfigs, met : Meetings \cup {None},
   held : Nat, at : Nat, taken : Nat, state : {"built", "done", "failed"}]

\* What the transfer fee, the rate and the SDK's copies of both may be.
FeesKnown ==
  /\ transferFee \in FeeConfigs /\ depositRate \in Rates /\ epoch \in Nat
  /\ feeRecipient \in Recipients /\ depositLimit \in Limits /\ transacted \in Nat
  /\ cached # None => cached.config \in FeeConfigs
  /\ config # None => config \in SdkConfigs

\* The proof of a deposit: what arrives of the amount and the fee of that, by a
\* schedule that can be inverted, whose gross is within the amount.
Proven(d) ==
  /\ d \in Deposits
  /\ d.amount >= 1 /\ d.amount <= d.held
  /\ d.net >= 1 /\ d.net <= d.amount /\ d.fee <= d.net
  /\ d.fee = Percent(d.net, d.config.bps)
  /\ Invertible(d.schedule) /\ ProgramGross(d.schedule, d.net) <= d.amount

DepositInv ==
  /\ FeesKnown
  /\ wallet \in Nat /\ wallet <= Funds
  /\ deposit # None => Proven(deposit) /\ (deposit.state = "built" => wallet = deposit.held)
  /\ TakesAtMostEntered /\ FullBalanceWorks

LEMMA DepositConstants ==
  /\ \A s \in Schedules : IsSchedule(s)
  /\ Rates \subseteq Nat /\ PartnerBps \in Nat /\ Margin \in Nat /\ Margin <= 10000
  /\ Funds \in Nat /\ Delay \in Nat
<1>1. \A s \in Schedules : IsSchedule(s)
  BY DepositAssumption, ScheduleIs DEF DepositAssumption
<1> DEFINE S == {Funds, Delay, MaxEpoch, MaxChanges, RootHistory, Capacity}
<1>a. S \subseteq Nat
  BY DepositAssumption
<1>b. Rates \subseteq 0 .. 10000
  BY DepositAssumption
<1>2. Funds \in Nat /\ Delay \in Nat
  <2>1. Funds \in S /\ Delay \in S
    OBVIOUS
  <2> HIDE DEF S
  <2> QED BY <1>a, <2>1
<1>3. Rates \subseteq Nat
  <2>1. \A x \in 0 .. 10000 : x \in Nat
    OBVIOUS
  <2> QED BY <1>b, <2>1
<1>4. PartnerBps \in Nat /\ Margin \in Nat /\ Margin <= 10000
  <2>1. PartnerBps \in 0 .. 10000 /\ Margin \in 0 .. 10000
    BY DepositAssumption
  <2> HIDE DEF S
  <2> QED BY <2>1
<1> QED BY <1>1, <1>2, <1>3, <1>4

LEMMA RatesAre == \A rate \in Rates : rate \in Nat
  BY DepositConstants

LEMMA InitDepositInv == DepositInit => DepositInv
<1> SUFFICES ASSUME DepositInit
             PROVE  DepositInv
  OBVIOUS
<1>1. PICK s \in Schedules : transferFee = [older |-> s, newer |-> s, from |-> 0]
  BY DEF DepositInit
<1>2. transferFee \in FeeConfigs
  BY <1>1 DEF FeeConfigs
<1> QED BY <1>2, DepositConstants
  DEF DepositInit, DepositInv, FeesKnown, TakesAtMostEntered, FullBalanceWorks

\* The fee of an epoch is one of the two.
LEMMA EpochFeeIs ==
  ASSUME NEW m \in FeeConfigs, NEW e
  PROVE  EpochFee(m, e) \in Schedules
BY DEF EpochFee, FeeConfigs

LEMMA EntryIs ==
  ASSUME FeesKnown
  PROVE  /\ Schedule \in Schedules /\ (Entry # None => Entry.config \in FeeConfigs)
         /\ Config \in SdkConfigs /\ Bps \in Rates
<1>1. Entry.config \in FeeConfigs
  BY DEF Entry, FeesKnown
<1>2. Schedule \in Schedules
  BY <1>1, EpochFeeIs DEF Schedule
<1>3. Config \in SdkConfigs
  BY DEF Config, FeesKnown, SdkConfigs
<1>4. Bps \in Rates
  BY <1>3 DEF Bps, SdkConfigs
<1> QED BY <1>1, <1>2, <1>3, <1>4

\* The properties look at one deposit only.
LEMMA DepositStays ==
  ASSUME DepositInv, deposit' = deposit, wallet' = wallet, FeesKnown'
  PROVE  DepositInv'
BY DEF DepositInv, TakesAtMostEntered, FullBalanceWorks, SameFee, ConfigMoved, Refused,
       IsKnownRoot, HasRoom, Proven

LEMMA BuildKeeps ==
  ASSUME DepositInv, NEW amount \in 1 .. Funds, NEW root \in 0 .. transacted, Build(amount, root)
  PROVE  DepositInv'
<1>1. FeesKnown /\ wallet \in Nat /\ wallet <= Funds /\ amount <= wallet /\ amount \in Nat
  BY DepositConstants DEF DepositInv, Build
<1>2. /\ Schedule \in Schedules /\ (Entry # None => Entry.config \in FeeConfigs)
      /\ Config \in SdkConfigs /\ Bps \in Rates
  BY <1>1, EntryIs
<1>3. FeesKnown'
  BY <1>1, <1>2 DEF Build, FeesKnown, onChain
<1>4. PICK net, fee, cut, s, b, known :
         /\ net = Net(s, amount) /\ fee = Percent(net, b) /\ cut = Percent(amount, PartnerBps)
         /\ s = Schedule /\ b = Bps /\ known = Config /\ b = known.bps /\ net # None /\ net > fee
         /\ deposit' = [amount |-> amount, net |-> net, fee |-> fee, cut |-> cut, root |-> root,
                        schedule |-> s, config |-> known, met |-> None,
                        held |-> wallet, at |-> epoch, taken |-> 0, state |-> "built"]
  BY Zenon DEF Build, Committed, Bps
<1>r. root \in Nat
  BY <1>1 DEF FeesKnown
<1>5. IsSchedule(s) /\ b \in Nat
  BY <1>2, <1>4, DepositConstants
<1>6. /\ net \in Nat /\ net <= amount
      /\ net # 0 => Invertible(s) /\ ProgramGross(s, net) <= amount
  <2>1. Net(s, amount) # None
    BY <1>4
  <2> QED BY <1>1, <1>4, <1>5, <2>1, NetIs
<1>7. fee \in Nat /\ cut \in Nat
  <2>1. fee = Percent(net, b) /\ cut = Percent(amount, PartnerBps)
    BY <1>4
  <2>2. PartnerBps \in Nat /\ net \in Nat /\ b \in Nat /\ amount \in Nat
    BY <1>1, <1>5, <1>6, DepositConstants
  <2>3. Percent(net, b) \in Nat /\ Percent(amount, PartnerBps) \in Nat
    BY <2>2, PercentNat, Zenon
  <2> QED BY <2>1, <2>3
<1>8. net >= 1 /\ net # 0 /\ fee <= net
  BY <1>4, <1>6, <1>7
<1>9. Proven(deposit')
  <2>1. deposit' \in Deposits
    BY <1>1, <1>2, <1>r, <1>4, <1>6, <1>7 DEF Deposits, FeesKnown
  <2> QED BY <1>1, <1>4, <1>6, <1>7, <1>8, <2>1 DEF Proven
<1>10. wallet' = wallet /\ deposit'.state = "built" /\ deposit'.held = wallet
  BY <1>4 DEF Build
<1> QED BY <1>1, <1>3, <1>9, <1>10
  DEF DepositInv, TakesAtMostEntered, FullBalanceWorks

\* A part of the whole, in basis points.
IsPart(lower) == lower \in Nat /\ lower <= 10000

LEMMA FeeCovers ==
  ASSUME NEW net \in Nat, NEW rate \in Nat, NEW higher \in Nat, rate <= higher,
         NEW lower, IsPart(lower)
  PROVE  Percent(Percent(net, rate), lower) <= Percent(net, higher)
<1>1. Percent(net, rate) \in Nat /\ Percent(net, higher) \in Nat
  BY PercentNat, Zenon
<1>2. Percent(net, rate) <= Percent(net, higher)
  BY PercentGrows
<1>3. PICK fee \in Nat : fee = Percent(net, rate)
  BY <1>1
<1>4. Percent(fee, lower) \in Nat /\ Percent(fee, lower) <= fee
  <2>1. lower \in Nat
    BY DEF IsPart
  <2>2. Percent(fee, lower) \in Nat
    BY <2>1, PercentNat, Zenon
  <2>3. Percent(fee, lower) <= fee
    BY <2>1, PercentIsLess DEF IsPart
  <2> QED BY <2>2, <2>3
<1> QED BY <1>1, <1>2, <1>3, <1>4

\* With the preview's schedule the program sends no more than the amount, and
\* what arrives is what was proven; with the preview's rate the fee is enough.
LEMMA LandIsPaid ==
  ASSUME NEW d, Proven(d), NEW rate \in Rates, NEW lower, IsPart(lower)
  PROVE  /\ ProgramGross(d.schedule, d.net) \in Nat
         /\ ProgramGross(d.schedule, d.net) <= d.amount
         /\ ProgramGross(d.schedule, d.net)
              - Withheld(d.schedule, ProgramGross(d.schedule, d.net)) = d.net
         /\ rate <= d.config.bps => Percent(Percent(d.net, rate), lower) <= d.fee
<1>1. /\ Invertible(d.schedule) /\ d.net \in Nat \ {0} /\ d.config.bps \in Rates
      /\ d.fee = Percent(d.net, d.config.bps) /\ ProgramGross(d.schedule, d.net) <= d.amount
  BY DEF Proven, Deposits, SdkConfigs
<1>2. /\ ProgramGross(d.schedule, d.net) \in Nat
      /\ ProgramGross(d.schedule, d.net)
           - Withheld(d.schedule, ProgramGross(d.schedule, d.net)) = d.net
  BY <1>1, GrossDelivers
<1>3. rate \in Nat
  BY DepositConstants
<1>4. rate <= d.config.bps => Percent(Percent(d.net, rate), lower) <= d.fee
  <2>1. d.net \in Nat
    BY DEF Proven, Deposits
  <2>2. d.config.bps \in Nat
    <3>1. \A r \in Rates : r \in Nat
      BY DepositConstants
    <3> QED BY <1>1, <3>1
  <2> QED BY <1>1, <1>3, <2>1, <2>2, FeeCovers
<1> QED BY <1>1, <1>2, <1>4

LEMMA GrossIsNat ==
  ASSUME NEW s, IsSchedule(s), NEW n \in Nat \ {0}
  PROVE  ProgramGross(s, n) \in Nat
<1>1. CASE s.bps = 10000
  BY <1>1 DEF ProgramGross, IsSchedule
<1>2. CASE s.bps # 10000
  <2>1. Invertible(s)
    BY <1>2 DEF IsSchedule, Invertible
  <2> QED BY <2>1, GrossDelivers
<1> QED BY <1>1, <1>2

LEMMA LandKeeps ==
  ASSUME DepositInv, Land
  PROVE  DepositInv'
<1>1. /\ FeesKnown /\ wallet \in Nat /\ wallet <= Funds /\ Proven(deposit)
      /\ deposit.state = "built" /\ wallet = deposit.held
  BY DEF DepositInv, Land, Open
<1> DEFINE d == deposit
           gross == ProgramGross(Met.schedule, d.net)
           fits == gross + d.cut <= wallet
           arrives == gross - Withheld(Met.schedule, gross) = d.net
           enough == d.fee >= DepositMinFee(d.net)
           payable == d.fee > 0 => d.config.recipient = feeRecipient
           open == /\ IsKnownRoot(d.root, transacted) /\ HasRoom(transacted)
                   /\ d.net <= depositLimit
           ok == open /\ payable /\ enough /\ fits /\ arrives
<1>3. /\ wallet' = IF ok THEN wallet - gross - d.cut ELSE wallet
      /\ transacted' = IF ok THEN transacted + 1 ELSE transacted
      /\ deposit' = [d EXCEPT !.state = IF ok THEN "done" ELSE "failed", !.met = Met,
                       !.taken = IF ok THEN gross + d.cut ELSE 0]
  BY Zenon DEF Land
<1>2. FeesKnown'
  <2>1. transacted' \in Nat
    BY <1>1, <1>3 DEF FeesKnown
  <2> QED BY <1>1, <2>1 DEF Land, FeesKnown, sdk
<1>4. Met \in Meetings /\ depositRate \in Rates
  BY <1>1, EpochFeeIs DEF FeesKnown, Met, Meetings
<1>m. /\ Met.schedule \in Schedules /\ Met.rate = depositRate /\ Met.recipient = feeRecipient
      /\ Met.limit = depositLimit /\ Met.transacted = transacted
  BY <1>1, EpochFeeIs DEF FeesKnown, Met
<1>5. /\ d.net \in Nat \ {0} /\ d.cut \in Nat /\ d \in Deposits
      /\ d.amount \in Nat /\ d.held \in Nat
  BY <1>1 DEF Proven, Deposits
<1>6. gross \in Nat
  BY <1>m, <1>5, GrossIsNat, DepositConstants
<1>8. Met.schedule = d.schedule => gross <= d.amount /\ arrives
  <2>1. IsPart(10000 - Margin)
    BY DepositConstants DEF IsPart
  <2> QED BY <1>1, <1>4, <2>1, LandIsPaid
<1>9. depositRate <= d.config.bps => enough
  <2>1. IsPart(10000 - Margin)
    BY DepositConstants DEF IsPart
  <2>2. depositRate <= d.config.bps => Percent(Percent(d.net, depositRate), 10000 - Margin) <= d.fee
    BY <1>1, <1>4, <2>1, LandIsPaid
  <2>3. Percent(Percent(d.net, depositRate), 10000 - Margin) = DepositMinFee(d.net)
    BY DEF DepositMinFee
  <2> QED BY <2>2, <2>3
<1> HIDE DEF d, gross, arrives, enough
<1> HIDE DEF payable, open, fits
<1> HIDE DEF ok
<1>10. ok => gross + d.cut <= wallet
  BY DEF ok, fits
<1>11. deposit' \in Deposits
  <2>1. (IF ok THEN "done" ELSE "failed") \in {"built", "done", "failed"}
    OBVIOUS
  <2>2. (IF ok THEN gross + d.cut ELSE 0) \in Nat
    BY <1>5, <1>6
  <2> QED BY <1>3, <1>4, <1>5, <2>1, <2>2 DEF Deposits
<1>12. /\ deposit'.amount = d.amount /\ deposit'.net = d.net
       /\ deposit'.fee = d.fee /\ deposit'.cut = d.cut /\ deposit'.root = d.root
       /\ deposit'.schedule = d.schedule /\ deposit'.config = d.config
       /\ deposit'.held = d.held
       /\ deposit'.state = (IF ok THEN "done" ELSE "failed") /\ deposit'.met = Met
       /\ deposit'.taken = (IF ok THEN gross + d.cut ELSE 0)
  BY <1>3, <1>5 DEF Deposits
<1>d. d = deposit
  BY DEF d
<1>13. Proven(deposit')
  BY <1>1, <1>d, <1>11, <1>12 DEF Proven
<1>14. wallet' \in Nat /\ wallet' <= Funds
  <2>1. CASE ok
    BY <1>1, <1>3, <1>5, <1>6, <1>10, <2>1, DepositConstants
  <2>2. CASE ~ok
    BY <1>1, <1>3, <2>2
  <2> QED BY <2>1, <2>2
<1>15. deposit'.state # "built"
  BY <1>12
<1>16. TakesAtMostEntered'
  <2> SUFFICES ASSUME deposit'.state = "done", deposit'.schedule = deposit'.met.schedule
               PROVE  deposit'.taken <= deposit'.amount + deposit'.cut
    BY DEF TakesAtMostEntered, SameFee
  <2>1. ok /\ Met.schedule = d.schedule
    BY <1>12
  <2> QED BY <1>5, <1>6, <1>8, <1>12, <2>1
<1>17. FullBalanceWorks'
  <2> SUFFICES ASSUME deposit'.state = "failed", deposit'.schedule = deposit'.met.schedule,
                      ~ConfigMoved(deposit'), ~Refused(deposit')
               PROVE  deposit'.amount + deposit'.cut > deposit'.held
    BY DEF FullBalanceWorks, SameFee
  <2>1. ~ok /\ Met.schedule = d.schedule
    BY <1>12
  <2>2. enough
    <3>1. \A rate \in Rates : rate \in Nat
      BY RatesAre
    <3>2. depositRate \in Nat /\ d.config.bps \in Nat
      BY <1>5, <1>4, <3>1 DEF Deposits, SdkConfigs
    <3>3. ~(depositRate > d.config.bps)
      BY <1>12, <1>m DEF ConfigMoved
    <3> QED BY <1>9, <3>2, <3>3
  <2>3. payable
    BY <1>12, <1>m DEF ConfigMoved, payable
  <2>4. open
    <3>1. d.net \in Nat /\ depositLimit \in Nat
      <4>1. \A x \in Limits : x \in Nat
        BY DepositAssumption DEF DepositAssumption
      <4> QED BY <1>1, <1>5, <4>1 DEF FeesKnown
    <3>2. /\ ~(d.net > depositLimit)
          /\ IsKnownRoot(d.root, transacted) /\ HasRoom(transacted)
      BY <1>12, <1>m DEF Refused
    <3> QED BY <3>1, <3>2 DEF open
  <2>5. ~fits
    BY <1>8, <2>1, <2>2, <2>3, <2>4, Zenon DEF ok
  <2>6. gross <= d.amount
    BY <1>8, <2>1
  <2> QED BY <1>1, <1>d, <1>5, <1>6, <1>12, <2>5, <2>6 DEF fits
<1> QED BY <1>2, <1>13, <1>14, <1>15, <1>16, <1>17 DEF DepositInv

\* Whatever passes outside changes neither the wallet nor the deposit.
LEMMA OutsideKeeps ==
  ASSUME DepositInv,
         \/ MinutePasses \/ AdvanceEpoch
         \/ \E s \in Schedules : SetTransferFee(s)
         \/ \E rate \in Rates, recipient \in Recipients : UpdateGlobalConfig(rate, recipient)
         \/ \E new \in Limits : UpdateDepositLimit(new)
         \/ OthersTransact
  PROVE  DepositInv'
<1>1. FeesKnown
  BY DEF DepositInv
<1>2. CASE MinutePasses
  <2>1. FeesKnown' /\ deposit' = deposit /\ wallet' = wallet
    BY <1>1, <1>2 DEF MinutePasses, FeesKnown, onChain
  <2> QED BY <2>1, DepositStays
<1>3. CASE AdvanceEpoch
  <2>1. epoch' \in Nat
    BY <1>1, <1>3 DEF AdvanceEpoch, FeesKnown
  <2>2. FeesKnown' /\ deposit' = deposit /\ wallet' = wallet
    BY <1>1, <1>3, <2>1 DEF AdvanceEpoch, FeesKnown
  <2> QED BY <2>2, DepositStays
<1>4. CASE \E s \in Schedules : SetTransferFee(s)
  <2>1. PICK s \in Schedules : SetTransferFee(s)
    BY <1>4
  <2>2. transferFee' \in FeeConfigs
    <3>1. EpochFee(transferFee, epoch) \in Schedules
      BY <1>1, EpochFeeIs DEF FeesKnown
    <3>2. epoch + Delay \in Nat
      BY <1>1, DepositConstants DEF FeesKnown
    <3> QED BY <2>1, <3>1, <3>2 DEF SetTransferFee, FeeConfigs
  <2>3. FeesKnown' /\ deposit' = deposit /\ wallet' = wallet
    BY <1>1, <2>1, <2>2 DEF SetTransferFee, FeesKnown, sdk
  <2> QED BY <2>3, DepositStays
<1>5. CASE \E rate \in Rates, recipient \in Recipients : UpdateGlobalConfig(rate, recipient)
  <2>1. PICK rate \in Rates, recipient \in Recipients : UpdateGlobalConfig(rate, recipient)
    BY <1>5
  <2>2. FeesKnown' /\ deposit' = deposit /\ wallet' = wallet
    BY <1>1, <2>1 DEF UpdateGlobalConfig, FeesKnown, sdk
  <2> QED BY <2>2, DepositStays
<1>6. CASE \E new \in Limits : UpdateDepositLimit(new)
  <2>1. FeesKnown' /\ deposit' = deposit /\ wallet' = wallet
    BY <1>1, <1>6 DEF UpdateDepositLimit, FeesKnown, sdk
  <2> QED BY <2>1, DepositStays
<1>7. CASE OthersTransact
  <2>1. FeesKnown' /\ deposit' = deposit /\ wallet' = wallet
    BY <1>1, <1>7 DEF OthersTransact, FeesKnown, sdk
  <2> QED BY <2>1, DepositStays
<1> QED BY <1>2, <1>3, <1>4, <1>5, <1>6, <1>7

LEMMA AbandonKeeps ==
  ASSUME DepositInv, Abandon
  PROVE  DepositInv'
<1>1. FeesKnown' /\ wallet' = wallet /\ deposit' = None
  BY DEF DepositInv, Abandon, FeesKnown, sdk, onChain
<1> QED BY <1>1 DEF DepositInv, TakesAtMostEntered, FullBalanceWorks

LEMMA DepositNextKeeps == DepositInv /\ [DepositNext]_depositVars => DepositInv'
<1> SUFFICES ASSUME DepositInv, [DepositNext]_depositVars
             PROVE  DepositInv'
  OBVIOUS
<1>1. CASE \E amount \in 1 .. Funds, root \in 0 .. transacted : Build(amount, root)
  BY <1>1, BuildKeeps
<1>2. CASE Land
  BY <1>2, LandKeeps
<1>3. CASE Abandon
  BY <1>3, AbandonKeeps
<1>4. CASE \/ MinutePasses \/ AdvanceEpoch
           \/ \E s \in Schedules : SetTransferFee(s)
           \/ \E rate \in Rates, recipient \in Recipients : UpdateGlobalConfig(rate, recipient)
           \/ \E new \in Limits : UpdateDepositLimit(new)
           \/ OthersTransact
  BY <1>4, OutsideKeeps
<1>5. CASE UNCHANGED depositVars
  <2>1. FeesKnown' /\ deposit' = deposit /\ wallet' = wallet
    BY <1>5 DEF DepositInv, FeesKnown, depositVars, onChain, sdk
  <2> QED BY <2>1, DepositStays
<1> QED BY <1>1, <1>2, <1>3, <1>4, <1>5 DEF DepositNext

\* The invariant of a deposit.
THEOREM DepositInvariant == DepositSpec => []DepositInv
  BY InitDepositInv, DepositNextKeeps, PTL DEF DepositSpec

\* The wallet, the mint's transfer fee and the deposit have their types.
THEOREM DepositTypeCorrect == DepositSpec => []DepositTypeOK
<1>1. DepositInv => DepositTypeOK
  <2> SUFFICES ASSUME DepositInv
               PROVE  DepositTypeOK
    OBVIOUS
  <2>1. wallet \in 0 .. Funds
    BY DepositConstants DEF DepositInv
  <2>2. ASSUME deposit # None
        PROVE  deposit.net \in 1 .. deposit.amount /\ deposit.fee \in 0 .. deposit.net
    <3>1. /\ deposit.net \in Nat /\ deposit.fee \in Nat /\ deposit.amount \in Nat
          /\ deposit.net >= 1 /\ deposit.net <= deposit.amount /\ deposit.fee <= deposit.net
      BY <2>2 DEF DepositInv, Proven, Deposits
    <3> QED BY <3>1
  <2> QED BY <2>1, <2>2 DEF DepositInv, FeesKnown, FeeConfigs, DepositTypeOK
<1> QED BY <1>1, DepositInvariant, PTL

\* With the schedule it was previewed with, a deposit takes no more than was
\* entered and the partner's cut, at any rounding, at any cap.
THEOREM TakesAtMostEnteredHolds == DepositSpec => []TakesAtMostEntered
<1>1. DepositInv => TakesAtMostEntered
  BY DEF DepositInv
<1> QED BY <1>1, DepositInvariant, PTL

\* A deposit within the balance never fails for its amounts: the transfer fee,
\* the rate or the recipient moved, the pool takes no such deposit (limit, root,
\* room), or a partner is paid on top.
THEOREM FullBalanceWorksHolds == DepositSpec => []FullBalanceWorks
<1>1. DepositInv => FullBalanceWorks
  BY DEF DepositInv
<1> QED BY <1>1, DepositInvariant, PTL

-----------------------------------------------------------------------------
(* Sizing a deposit *)

\* More arrives of a larger amount.
LEMMA MoreArrives ==
  ASSUME NEW s, IsSchedule(s), NEW x \in Nat, NEW y \in Nat, x <= y
  PROVE  x - Withheld(s, x) <= y - Withheld(s, y)
<1> PICK d \in Nat : y = x + d
  OBVIOUS
<1>a. PICK b \in Nat : b = s.bps /\ b <= 10000
  BY DEF IsSchedule
<1>b. PICK cap \in Nat : cap = s.max
  BY DEF IsSchedule
<1>1. b <= 10000
  BY <1>a
<1>2. Shrunk(b, x) \in Nat /\ Shrunk(b, y) \in Nat /\ Shrunk(b, y) <= Shrunk(b, x) + d
  <2>1. Shrunk(b, x) \in Nat /\ Shrunk(b, y) \in Nat
    BY ShrunkIs
  <2>2. x * b \in Nat /\ y * b = x * b + d * b /\ d * b \in Nat /\ d * b <= d * 10000
    BY <1>1, SMT
  <2>3. ASSUME NEW u \in Nat, NEW v \in Nat, NEW e \in Nat, v <= u + e * 10000
        PROVE  (v + 10000 - 1) \div 10000 <= (u + 10000 - 1) \div 10000 + e
    BY <2>3, SMT
  <2>4. y * b \in Nat /\ y * b <= x * b + d * 10000
    BY <2>2
  <2>5. (y * b + 10000 - 1) \div 10000 <= (x * b + 10000 - 1) \div 10000 + d
    <3> PICK u \in Nat, v \in Nat : u = x * b /\ v = y * b
      BY <2>2, <2>4
    <3> QED BY <2>3, <2>4
  <2> QED BY <2>1, <2>5 DEF Shrunk, CeilDiv
<1>3. /\ Withheld(s, x) = IF Shrunk(b, x) > cap THEN cap ELSE Shrunk(b, x)
      /\ Withheld(s, y) = IF Shrunk(b, y) > cap THEN cap ELSE Shrunk(b, y)
  BY <1>a, <1>b DEF Withheld, Shrunk
<1> QED BY <1>1, <1>2, <1>3

\* ... and no less is credited for it.
LEMMA MoreIsCredited ==
  ASSUME NEW s, Invertible(s), NEW b \in Nat, IsPart(b), NEW x \in Nat, NEW y \in Nat, x <= y
  PROVE  /\ Credited(s, b, x) \in Nat /\ Credited(s, b, y) \in Nat
         /\ Credited(s, b, x) <= Credited(s, b, y)
<1>1. IsSchedule(s)
  BY DEF Invertible, IsSchedule
<1> DEFINE Arrives(a) == a - Withheld(s, a)
<1>2. ASSUME NEW a \in Nat
      PROVE  /\ Arrives(a) \in Nat /\ Arrives(a) <= a
             /\ Net(s, a) \in Nat /\ Net(s, a) <= Arrives(a)
             /\ Net(s, a) # 0 => ProgramGross(s, Net(s, a)) <= a
             /\ \A k \in Nat : Net(s, a) < k /\ k <= Arrives(a) => ProgramGross(s, k) > a
  BY NetIsLargest, Zenon
<1>3. Arrives(x) <= Arrives(y)
  BY <1>1, MoreArrives, Zenon
<1> HIDE DEF Arrives
<1>4. Net(s, x) <= Net(s, y)
  <2> PICK n \in Nat : n = Net(s, x)
    BY <1>2
  <2>1. n <= Arrives(x) /\ Arrives(x) \in Nat /\ Arrives(y) \in Nat /\ n <= Arrives(y)
    BY <1>2, <1>3
  <2> SUFFICES ASSUME Net(s, y) < n
               PROVE  FALSE
    BY <1>2
  <2>2. ProgramGross(s, n) > y
    BY <1>2, <2>1
  <2>3. n # 0 /\ ProgramGross(s, n) <= x
    BY <1>2
  <2>4. ProgramGross(s, n) \in Nat
    BY <2>3, GrossDelivers
  <2> QED BY <2>2, <2>3, <2>4
<1>5. ASSUME NEW n \in Nat, NEW k \in Nat, n <= k
      PROVE  /\ n - Percent(n, b) \in Nat /\ k - Percent(k, b) \in Nat
             /\ n - Percent(n, b) <= k - Percent(k, b)
  <2>1. b <= 10000
    BY DEF IsPart
  <2>2. Percent(n, b) \in Nat /\ Percent(k, b) \in Nat
    BY PercentNat, Zenon
  <2>3. Percent(n, b) <= n /\ Percent(k, b) <= k
    BY <2>1, PercentIsLess
  <2> PICK e \in Nat : k = n + e
    BY <1>5
  <2>4. Percent(k, b) - Percent(n, b) <= Shrunk(b, e)
    BY <1>5, PercentDiffers
  <2>5. Shrunk(b, e) \in Nat /\ Shrunk(b, e) <= e
    <3>1. e * b \in Nat /\ e * b <= e * 10000
      BY <2>1, SMT
    <3>2. ASSUME NEW u \in Nat, u <= e * 10000
          PROVE  (u + 10000 - 1) \div 10000 \in Nat /\ (u + 10000 - 1) \div 10000 <= e
      BY <3>2, SMT
    <3> QED BY <3>1, <3>2 DEF Shrunk, CeilDiv
  <2> QED BY <2>2, <2>3, <2>4, <2>5
<1>6. Net(s, x) # None /\ Net(s, y) # None
  BY <1>2, FeesAssumption
<1>7. /\ Credited(s, b, x) = Net(s, x) - Percent(Net(s, x), b)
      /\ Credited(s, b, y) = Net(s, y) - Percent(Net(s, y), b)
  BY <1>6 DEF Credited
<1> QED BY <1>2, <1>4, <1>5, <1>7

\* What the preview credits is enough.
Enough(want, amount) == CreditedNow(amount) >= want

\* The answer is in the range: its end is enough, its start is not unless it
\* is the answer itself.
Brackets(want, r) ==
  /\ r.lo \in Nat /\ r.hi \in Nat /\ want <= r.lo /\ r.lo <= r.hi
  /\ Enough(want, r.hi) /\ (IF r.lo < r.hi THEN ~Enough(want, r.lo) ELSE r.hi = want)
  /\ DOMAIN r = {"lo", "hi"}

\* A step of the search keeps it, and makes the range smaller if it can be.
LEMMA HalveBrackets ==
  ASSUME NEW want \in Nat, NEW r, Brackets(want, r)
  PROVE  LET h == Halve(want, r)
         IN /\ Brackets(want, h)
            /\ h.hi - h.lo <= 1 \/ h.hi - h.lo < r.hi - r.lo
<1>1. /\ r.lo \in Nat /\ r.hi \in Nat /\ want <= r.lo /\ r.lo <= r.hi
      /\ Enough(want, r.hi) /\ (IF r.lo < r.hi THEN ~Enough(want, r.lo) ELSE r.hi = want)
      /\ DOMAIN r = {"lo", "hi"}
  BY DEF Brackets
<1> PICK lo \in Nat, hi \in Nat : lo = r.lo /\ hi = r.hi
  BY <1>1
<1>2. CASE ~(hi - lo > 1)
  <2>1. Halve(want, r) = r
    BY <1>2 DEF Halve, Inside
  <2> QED BY <1>1, <1>2, <2>1
<1>3. CASE hi - lo > 1
  <2>1. PICK mid \in Nat : mid = (r.lo + r.hi) \div 2 /\ lo < mid /\ mid < hi
    <3>1. (lo + hi) \div 2 \in Nat /\ lo < (lo + hi) \div 2 /\ (lo + hi) \div 2 < hi
      BY <1>3, SMT
    <3> QED BY <3>1
  <2>2. Halve(want, r) = IF Enough(want, mid) THEN [r EXCEPT !.hi = mid] ELSE [r EXCEPT !.lo = mid]
    BY <1>3, <2>1 DEF Halve, Inside, Enough
  <2>3. CASE Enough(want, mid)
    <3>1. Halve(want, r) = [r EXCEPT !.hi = mid]
      BY <2>2, <2>3
    <3> PICK h : h = Halve(want, r)
      OBVIOUS
    <3>2. h.lo = lo /\ h.hi = mid /\ DOMAIN h = {"lo", "hi"}
      BY <1>1, <3>1
    <3> QED BY <1>1, <1>3, <2>1, <2>3, <3>2 DEF Brackets
  <2>4. CASE ~Enough(want, mid)
    <3>1. Halve(want, r) = [r EXCEPT !.lo = mid]
      BY <2>2, <2>4
    <3> PICK h : h = Halve(want, r)
      OBVIOUS
    <3>2. h.lo = mid /\ h.hi = hi /\ DOMAIN h = {"lo", "hi"}
      BY <1>1, <3>1
    <3> QED BY <1>1, <1>3, <2>1, <2>4, <3>2 DEF Brackets
  <2> QED BY <2>3, <2>4
<1> QED BY <1>2, <1>3

\* The ranges of a search, step by step.
Ranges(want, guess, last) ==
  LET range[step \in 0 .. last] ==
        IF step = 0 THEN [lo |-> want, hi |-> guess] ELSE Halve(want, range[step - 1])
  IN range

LEMMA RangesAre ==
  ASSUME NEW want, NEW guess \in Nat, NEW last \in Nat
  PROVE  /\ Ranges(want, guess, last)[0] = [lo |-> want, hi |-> guess]
         /\ \A n \in Nat : n < last =>
              Ranges(want, guess, last)[n + 1] = Halve(want, Ranges(want, guess, last)[n])
<1> DEFINE Body(f, step) == IF step = 0 THEN [lo |-> want, hi |-> guess]
                            ELSE Halve(want, f[step - 1])
           Searched(n) == \E f : f = [step \in 0 .. n |-> Body(f, step)]
           T == {n \in Nat : Searched(n)}
           range == CHOOSE f : f = [step \in 0 .. last |-> Body(f, step)]
<1>1. 0 \in T
  <2> DEFINE g == [step \in 0 .. 0 |-> [lo |-> want, hi |-> guess]]
  <2>1. g = [step \in 0 .. 0 |-> Body(g, step)]
    OBVIOUS
  <2> HIDE DEF g, Body
  <2> QED BY <2>1
<1>2. ASSUME NEW n \in T
      PROVE  n + 1 \in T
  <2>1. n \in Nat /\ Searched(n)
    OBVIOUS
  <2>2. PICK f : f = [step \in 0 .. n |-> Body(f, step)]
    BY <2>1
  <2>3. ASSUME NEW step \in Nat, step <= n
        PROVE  f[step] = Body(f, step)
    <3>1. step \in 0 .. n
      BY <2>1, <2>3
    <3> HIDE DEF Body
    <3> QED BY <2>2, <3>1
  <2>4. PICK next : next = Halve(want, f[n])
    OBVIOUS
  <2> DEFINE g == [step \in 0 .. n + 1 |-> IF step = n + 1 THEN next ELSE f[step]]
  <2>5. g[n + 1] = next /\ \A step \in Nat : step <= n => g[step] = f[step]
    BY <2>1
  <2>6. g = [step \in 0 .. n + 1 |-> g[step]]
    OBVIOUS
  <2>7. ASSUME NEW step \in 0 .. n + 1
        PROVE  g[step] = Body(g, step)
    <3>1. step \in Nat /\ step <= n + 1 /\ n \in Nat
      BY <2>1
    <3>2. CASE step = n + 1
      <4>1. step # 0 /\ step - 1 = n
        BY <3>1, <3>2
      <4>2. g[n] = f[n]
        BY <2>5, <3>1
      <4> HIDE DEF g
      <4>3. Body(g, step) = Halve(want, g[step - 1])
        BY <4>1
      <4> QED BY <2>4, <2>5, <3>2, <4>1, <4>2, <4>3
    <3>3. CASE step # n + 1
      <4>1. step <= n
        BY <3>1, <3>3
      <4>2. g[step] = Body(f, step)
        <5> HIDE DEF g, Body
        <5> QED BY <2>3, <2>5, <3>1, <4>1
      <4>3. step # 0 => g[step - 1] = f[step - 1]
        <5>1. step # 0 => step - 1 \in Nat /\ step - 1 <= n
          BY <3>1, <4>1
        <5> HIDE DEF g
        <5> QED BY <2>5, <5>1
      <4> HIDE DEF g
      <4>4. Body(g, step) = Body(f, step)
        BY <4>3
      <4> HIDE DEF Body
      <4> QED BY <4>2, <4>4
    <3> QED BY <3>2, <3>3
  <2> HIDE DEF g, Body
  <2>8. g = [step \in 0 .. n + 1 |-> Body(g, step)]
    BY <2>6, <2>7
  <2>9. n + 1 \in Nat
    BY <2>1
  <2> QED BY <2>8, <2>9
<1>3. last \in T
  <2>1. T \subseteq Nat
    OBVIOUS
  <2> HIDE DEF T
  <2> QED BY <1>1, <1>2, <2>1, NumberByNumber
<1>4. range = [step \in 0 .. last |-> Body(range, step)]
  <2>1. Searched(last)
    BY <1>3
  <2> HIDE DEF Body
  <2> QED BY <2>1
<1>5. ASSUME NEW step \in Nat, step <= last
      PROVE  range[step] = Body(range, step)
  <2>1. step \in 0 .. last
    BY <1>5
  <2> HIDE DEF range, Body
  <2> QED BY <1>4, <2>1
<1>6. range[0] = [lo |-> want, hi |-> guess]
  <2>1. range[0] = Body(range, 0)
    <3>1. 0 \in Nat /\ 0 <= last
      OBVIOUS
    <3> HIDE DEF range, Body
    <3> QED BY <1>5, <3>1
  <2> HIDE DEF range
  <2> QED BY <2>1
<1>7. ASSUME NEW n \in Nat, n < last
      PROVE  range[n + 1] = Halve(want, range[n])
  <2>1. n + 1 \in Nat /\ n + 1 <= last /\ n + 1 # 0 /\ (n + 1) - 1 = n
    BY <1>7
  <2>2. range[n + 1] = Body(range, n + 1)
    <3> HIDE DEF range, Body
    <3> QED BY <1>5, <2>1
  <2> HIDE DEF range
  <2> QED BY <2>1, <2>2
<1>8. Ranges(want, guess, last) = range
  BY Zenon DEF Ranges
<1> HIDE DEF range
<1> QED BY <1>6, <1>7, <1>8

\* The search ends with an amount that is enough, and the one before is not.
LEMMA TightenIs ==
  ASSUME NEW want \in Nat, NEW guess \in Nat, want <= guess,
         Enough(want, guess), guess = want \/ ~Enough(want, want)
  PROVE  \E r : Brackets(want, r) /\ r.hi - r.lo <= 1 /\ Tighten(want, guess) = r.hi
<1>1. PICK last \in Nat : last = guess - want
  OBVIOUS
<1> DEFINE range == Ranges(want, guess, last)
<1>2. Tighten(want, guess) = range[last].hi
  BY <1>1, Zenon DEF Tighten, Ranges
<1>3. /\ range[0] = [lo |-> want, hi |-> guess]
      /\ \A n \in Nat : n < last => range[n + 1] = Halve(want, range[n])
  BY RangesAre
<1> HIDE DEF range
<1> DEFINE Closes(n) == /\ Brackets(want, range[n])
                        /\ \/ range[n].hi - range[n].lo <= 1
                           \/ range[n].hi - range[n].lo + n <= last
           T == {n \in Nat : n <= last => Closes(n)}
<1>4. 0 \in T
  <2>1. Brackets(want, range[0]) /\ range[0].hi - range[0].lo + 0 <= last
    BY <1>1, <1>3 DEF Brackets
  <2> QED BY <2>1
<1>5. ASSUME NEW n \in T
      PROVE  n + 1 \in T
  <2> SUFFICES ASSUME n + 1 <= last
               PROVE  Closes(n + 1)
    OBVIOUS
  <2>1. n \in Nat /\ n < last /\ Closes(n)
    OBVIOUS
  <2> PICK r : r = range[n]
    OBVIOUS
  <2> PICK h : h = Halve(want, r)
    OBVIOUS
  <2>2. range[n + 1] = h
    BY <1>3, <2>1
  <2>3. Brackets(want, h) /\ (h.hi - h.lo <= 1 \/ h.hi - h.lo < r.hi - r.lo)
    BY <2>1, HalveBrackets
  <2>4. /\ r.lo \in Nat /\ r.hi \in Nat /\ h.lo \in Nat /\ h.hi \in Nat
        /\ r.hi - r.lo <= 1 \/ r.hi - r.lo + n <= last
    BY <2>1, <2>3 DEF Brackets
  <2>5. h.hi - h.lo <= 1 \/ h.hi - h.lo + (n + 1) <= last
    <3> PICK a \in Nat, b \in Nat, c \in Nat, d \in Nat :
               a = r.lo /\ b = r.hi /\ c = h.lo /\ d = h.hi
      BY <2>4
    <3>1. d - c <= 1 \/ d - c < b - a
      BY <2>3
    <3>2. b - a <= 1 \/ b - a + n <= last
      BY <2>4
    <3>3. d - c <= 1 \/ d - c + (n + 1) <= last
      BY <2>1, <3>1, <3>2
    <3> QED BY <3>3
  <2> QED BY <2>2, <2>3, <2>5
<1>6. Closes(last)
  <2>1. T \subseteq Nat
    OBVIOUS
  <2>2. last \in T
    <3> HIDE DEF T
    <3> QED BY <1>4, <1>5, <2>1, NumberByNumber
  <2> QED BY <2>2
<1>7. PICK r : r = range[last]
  OBVIOUS
<1>8. r.hi - r.lo <= 1
  <2>1. r.lo \in Nat /\ r.hi \in Nat
    BY <1>6, <1>7 DEF Brackets
  <2>2. r.hi - r.lo <= 1 \/ r.hi - r.lo + last <= last
    BY <1>6, <1>7
  <2> QED BY <2>1, <2>2
<1> QED BY <1>2, <1>6, <1>7, <1>8

\* Eight guesses, each after the other.
LEMMA GuessesAre ==
  ASSUME NEW want
  PROVE  LET G(x) == Guess(want, x)
             last == G(G(G(G(G(G(G(want)))))))
         IN GrossForCredited(want) = IF Enough(want, last) THEN Tighten(want, last) ELSE None
<1> DEFINE G(x) == Guess(want, x)
           Body(f, round) == IF round = 0 THEN want ELSE G(f[round - 1])
           guess == CHOOSE f : f = [round \in 0 .. 7 |-> Body(f, round)]
<1>1. GrossForCredited(want) = IF Enough(want, guess[7]) THEN Tighten(want, guess[7]) ELSE None
  BY Zenon DEF GrossForCredited, Enough
<1>2. \E f : f = [round \in 0 .. 7 |-> Body(f, round)]
  <2> PICK x1 : x1 = G(want)
    OBVIOUS
  <2> PICK x2 : x2 = G(x1)
    OBVIOUS
  <2> PICK x3 : x3 = G(x2)
    OBVIOUS
  <2> PICK x4 : x4 = G(x3)
    OBVIOUS
  <2> PICK x5 : x5 = G(x4)
    OBVIOUS
  <2> PICK x6 : x6 = G(x5)
    OBVIOUS
  <2> PICK x7 : x7 = G(x6)
    OBVIOUS
  <2> DEFINE g == [round \in 0 .. 7 |->
                     IF round = 0 THEN want ELSE IF round = 1 THEN x1
                     ELSE IF round = 2 THEN x2 ELSE IF round = 3 THEN x3
                     ELSE IF round = 4 THEN x4 ELSE IF round = 5 THEN x5
                     ELSE IF round = 6 THEN x6 ELSE x7]
  <2>1. /\ g[0] = want /\ g[1] = x1 /\ g[2] = x2 /\ g[3] = x3
        /\ g[4] = x4 /\ g[5] = x5 /\ g[6] = x6 /\ g[7] = x7
    OBVIOUS
  <2>2. ASSUME NEW round \in 0 .. 7
        PROVE  g[round] = Body(g, round)
    <3>1. \/ round = 0 \/ round = 1 \/ round = 2 \/ round = 3
          \/ round = 4 \/ round = 5 \/ round = 6 \/ round = 7
      OBVIOUS
    <3> HIDE DEF g, G
    <3> QED BY <2>1, <3>1
  <2>3. g = [round \in 0 .. 7 |-> g[round]]
    OBVIOUS
  <2> HIDE DEF g, Body
  <2>4. g = [round \in 0 .. 7 |-> Body(g, round)]
    BY <2>2, <2>3
  <2> QED BY <2>4
<1>3. guess = [round \in 0 .. 7 |-> Body(guess, round)]
  <2> HIDE DEF Body
  <2> QED BY <1>2
<1>4. ASSUME NEW round \in 0 .. 7
      PROVE  guess[round] = Body(guess, round)
  <2> HIDE DEF guess, Body
  <2> QED BY <1>3
<1> HIDE DEF guess
<1>5. /\ guess[0] = want /\ guess[1] = G(guess[0]) /\ guess[2] = G(guess[1])
      /\ guess[3] = G(guess[2]) /\ guess[4] = G(guess[3]) /\ guess[5] = G(guess[4])
      /\ guess[6] = G(guess[5]) /\ guess[7] = G(guess[6])
  <2>1. /\ guess[0] = Body(guess, 0) /\ guess[1] = Body(guess, 1) /\ guess[2] = Body(guess, 2)
        /\ guess[3] = Body(guess, 3) /\ guess[4] = Body(guess, 4) /\ guess[5] = Body(guess, 5)
        /\ guess[6] = Body(guess, 6) /\ guess[7] = Body(guess, 7)
    <3> HIDE DEF Body
    <3> QED BY <1>4
  <2> HIDE DEF G
  <2> QED BY <2>1
<1> QED BY <1>1, <1>5

\* A guess worth the search: not below what is asked for, and beyond it only
\* if that is not enough.
Worth(want, guess) ==
  guess \in Nat /\ want <= guess /\ (guess = want \/ ~Enough(want, want))

LEMMA GuessIsWorth ==
  ASSUME Invertible(Schedule), IsPart(Bps), NEW want \in Nat, NEW guess, Worth(want, guess)
  PROVE  Worth(want, Guess(want, guess))
<1>1. guess \in Nat /\ want <= guess
  BY DEF Worth
<1>2. CASE Enough(want, guess)
  BY <1>2 DEF Guess, Enough
<1>3. CASE ~Enough(want, guess)
  <2>1. CreditedNow(guess) \in Nat
    <3>1. Bps \in Nat /\ guess <= guess
      BY <1>1 DEF IsPart
    <3> QED BY <1>1, <3>1, MoreIsCredited DEF CreditedNow
  <2> PICK d \in Nat \ {0} :
             d = (IF CreditedNow(guess) > 0 THEN CreditedNow(guess) ELSE 1) /\ d < want + 1
    <3>1. CreditedNow(guess) < want
      BY <1>3, <2>1 DEF Enough
    <3> QED BY <2>1, <3>1
  <2>2. Guess(want, guess) = (guess * (want + 1)) \div d + 1
    BY <1>3 DEF Guess, Enough
  <2>3. (guess * (want + 1)) \div d \in Nat /\ (guess * (want + 1)) \div d >= guess
    <3>1. PICK x \in Nat : x = guess * (want + 1)
      BY <1>1, SMT
    <3>2. guess * d <= x
      BY <1>1, <3>1, SMT
    <3>3. x \div d \in Nat /\ x < (x \div d) * d + d
      BY <3>1, SMT
    <3>4. x \div d >= guess
      <4> PICK q \in Nat : q = x \div d
        BY <3>3
      <4>1. guess * d < (q + 1) * d
        BY <1>1, <3>2, <3>3, SMT
      <4>2. guess < q + 1
        BY <1>1, <4>1, SMT
      <4> QED BY <1>1, <4>2
    <3> QED BY <3>1, <3>3, <3>4
  <2>4. ~Enough(want, want)
    BY <1>3 DEF Worth
  <2> QED BY <1>1, <2>2, <2>3, <2>4 DEF Worth
<1> QED BY <1>2, <1>3

\* What the search finds is the smallest amount that is enough.
LEMMA FoundIsSmallest ==
  ASSUME Invertible(Schedule), IsPart(Bps), NEW want \in Nat, GrossForCredited(want) # None
  PROVE  LET gross == GrossForCredited(want)
         IN /\ gross \in Nat /\ Enough(want, gross)
            /\ \A a \in Nat : want <= a /\ a < gross => ~Enough(want, a)
<1> DEFINE G(x) == Guess(want, x)
           last == G(G(G(G(G(G(G(want)))))))
<1>1. GrossForCredited(want) = IF Enough(want, last) THEN Tighten(want, last) ELSE None
  BY GuessesAre
<1>2. Worth(want, last)
  <2>1. Worth(want, want)
    BY DEF Worth
  <2>2. ASSUME NEW x, Worth(want, x)
        PROVE  Worth(want, G(x))
    BY <2>2, GuessIsWorth
  <2> HIDE DEF G
  <2> QED BY <2>1, <2>2
<1> HIDE DEF last
<1>3. Enough(want, last) /\ GrossForCredited(want) = Tighten(want, last)
  BY <1>1
<1>4. PICK r : Brackets(want, r) /\ r.hi - r.lo <= 1 /\ Tighten(want, last) = r.hi
  BY <1>2, <1>3, TightenIs DEF Worth
<1>5. /\ r.lo \in Nat /\ r.hi \in Nat /\ Enough(want, r.hi)
      /\ IF r.lo < r.hi THEN ~Enough(want, r.lo) ELSE r.hi = want
  BY <1>4 DEF Brackets
<1>6. ASSUME NEW a \in Nat, want <= a, a < r.hi
      PROVE  ~Enough(want, a)
  <2>1. r.lo < r.hi
    <3> PICK hi \in Nat : hi = r.hi
      BY <1>5
    <3> QED BY <1>5, <1>6
  <2> PICK lo \in Nat : lo = r.lo /\ a <= lo
    <3> PICK lo \in Nat, hi \in Nat : lo = r.lo /\ hi = r.hi
      BY <1>5
    <3>1. hi - lo <= 1 /\ a < hi
      BY <1>4, <1>6
    <3>2. a <= lo
      BY <3>1
    <3> QED BY <3>2
  <2>2. Bps \in Nat
    BY DEF IsPart
  <2>3. /\ CreditedNow(a) \in Nat /\ CreditedNow(lo) \in Nat
        /\ CreditedNow(a) <= CreditedNow(lo)
    BY <2>2, MoreIsCredited DEF CreditedNow
  <2>4. ~(CreditedNow(lo) >= want)
    BY <1>5, <2>1 DEF Enough
  <2> QED BY <2>3, <2>4 DEF Enough
<1> QED BY <1>3, <1>4, <1>5, <1>6

\* No transfer fee the mint may have takes all, and the search finds an amount.
TakesNotAll == \A s \in Schedules : s.bps # 10000
Sized == deposit = None => \A want \in Wanted : GrossForCredited(want) # None

\* What grossForCredited finds credits what was asked for, and no smaller amount
\* does, whatever the fees: the preview never credits less for more, and the
\* search by halves loses nothing.
THEOREM GrossIsSmallestHolds == TakesNotAll => (DepositSpec /\ []Sized => []GrossIsSmallest)
<1> SUFFICES ASSUME TakesNotAll
             PROVE  DepositSpec /\ []Sized => []GrossIsSmallest
  OBVIOUS
<1>1. DepositInv /\ Sized => GrossIsSmallest
  <2> SUFFICES ASSUME DepositInv, Sized, deposit = None, NEW want \in Wanted
               PROVE  LET gross == GrossForCredited(want)
                      IN /\ gross # None
                         /\ CreditedNow(gross) >= want
                         /\ \A a \in want .. gross - 1 : CreditedNow(a) < want
    BY Zenon DEF GrossIsSmallest
  <2>1. Schedule \in Schedules /\ Bps \in Rates
    BY EntryIs DEF DepositInv
  <2>2. Invertible(Schedule)
    <3>1. IsSchedule(Schedule) /\ Schedule.bps # 10000
      BY <2>1, DepositConstants DEF TakesNotAll
    <3> QED BY <3>1 DEF IsSchedule, Invertible
  <2>3. IsPart(Bps)
    <3>1. Rates \subseteq 0 .. 10000 /\ \A x \in 0 .. 10000 : x \in Nat /\ x <= 10000
      BY DepositAssumption
    <3> QED BY <2>1, <3>1 DEF IsPart
  <2>4. want \in Nat
    BY DepositAssumption
  <2>5. GrossForCredited(want) # None
    BY DEF Sized
  <2> PICK gross : gross = GrossForCredited(want)
    OBVIOUS
  <2>6. /\ gross \in Nat /\ Enough(want, gross)
        /\ \A a \in Nat : want <= a /\ a < gross => ~Enough(want, a)
    BY <2>2, <2>3, <2>4, <2>5, FoundIsSmallest
  <2>7. ASSUME NEW a \in want .. gross - 1
        PROVE  CreditedNow(a) < want
    <3>1. a \in Nat /\ want <= a /\ a < gross /\ a <= a
      BY <2>4, <2>6
    <3>2. Bps \in Nat
      BY <2>3 DEF IsPart
    <3>3. CreditedNow(a) \in Nat
      BY <2>2, <2>3, <3>1, <3>2, MoreIsCredited DEF CreditedNow
    <3>4. ~(CreditedNow(a) >= want)
      BY <2>6, <3>1 DEF Enough
    <3> QED BY <2>4, <3>3, <3>4
  <2>8. CreditedNow(gross) >= want
    BY <2>6 DEF Enough
  <2> QED BY <2>5, <2>7, <2>8
<1> QED BY <1>1, DepositInvariant, PTL
=============================================================================
