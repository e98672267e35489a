-------------------------------- MODULE Fees --------------------------------
(***************************************************************************)
(* The fee of a relayed operation, from the quote to the chain: the        *)
(* relayer prices its flat fee (relayer/src/tokens.ts), the SDK quotes     *)
(* (sdk/src/pool.ts), the relayer checks what it is asked to relay         *)
(* (relayer/src/main.ts) and the program checks what is executed           *)
(* (program/.../utils.rs), while prices and rates move in between.         *)
(*                                                                         *)
(* Abstractions.  Times are ages in ticks of some minutes, up to the age   *)
(* from which they make no difference; a cached configuration (30 s) lives *)
(* less than a tick.  Prices are integers, their quotients exact: the      *)
(* floating-point error of round2sig is left out.  A request is followed   *)
(* from its quote to its end, one at a time.                               *)
(***************************************************************************)
EXTENDS TransferFees, FiniteSetsExt

CONSTANTS
  SOL, Tokens,     \* native SOL, and the mints of the other pools
  UsdOf,           \* the prices a mint may have; 0: no honest market
  SendFlatSol, WithdrawFlatSol, SolFlat, \* flat fees, in the smallest unit of SOL
  Configs,         \* what the GlobalConfig may be: [rate, recipient]
  DefaultBps,      \* WITHDRAW_FEE_BPS
  RequirePrice,    \* REQUIRE_PRICE
  Amounts,         \* amounts of withdrawals
  Balances,        \* what the two largest notes may hold
  PriceLife,       \* ticks for which a price is used (3 * PRICE_TTL)
  MaxMoves         \* bound: changes of prices and of the configuration

Pools == {SOL} \cup Tokens
Kinds == {"send", "withdraw"}

ASSUME FeesAssumption ==
  /\ SOL \notin Tokens /\ None \notin Nat /\ UsdOf \in [Pools -> SUBSET Nat]
  /\ {SendFlatSol, WithdrawFlatSol, SolFlat, Margin, DefaultBps, PriceLife, MaxMoves} \subseteq Nat
  /\ RequirePrice \in BOOLEAN
  /\ \A value \in Configs : {"rate", "recipient"} \subseteq DOMAIN value /\ value.rate \in Nat
  /\ Margin <= 10000
  /\ Amounts \subseteq Nat \ {0} /\ Balances \subseteq Nat

\* k is the power of ten below p/q.
IsMagnitude(k, p, q) == 10^k * q <= p /\ p < 10^(k + 1) * q

\* A flat fee is at least ten of the token's smallest unit, and has at most
\* eleven digits.
ASSUME UnitsAssumption ==
  \A t \in Tokens : \A tok \in UsdOf[t] \ {0}, sol \in UsdOf[SOL] \ {0} :
    \A flat \in {SendFlatSol, WithdrawFlatSol} :
      \E k \in 1 .. 10 : IsMagnitude(k, flat * sol, tok)

VARIABLES
  market,   \* Jupiter: the price of each mint
  gone,     \* history: for how long a mint has had no market
  chain,    \* the GlobalConfig account
  steady,   \* history: chain has been what it is for a tick
  prices,   \* relayer: the prices map, [usd, age]
  gcCache,  \* relayer: the cached configuration
  bps,      \* relayer: onchainWithdrawBps
  cfg,      \* SDK: the configuration it got first
  request,  \* what the SDK quoted, and how far it came
  moves     \* bound

relayer == <<prices, gcCache, bps>>
world == <<market, gone, chain, steady>>
vars == <<world, relayer, cfg, request, moves>>

Empty == [m \in Pools |-> None]

Init ==
  /\ market \in [Pools -> UNION {UsdOf[m] : m \in Pools}]
  /\ \A m \in Pools : market[m] \in UsdOf[m]
  /\ gone = [m \in Pools |-> 0]
  /\ chain \in Configs /\ steady = TRUE
  /\ prices = Empty /\ gcCache = None /\ bps = DefaultBps
  /\ cfg = None /\ request = None /\ moves = 0

-----------------------------------------------------------------------------
(* Prices *)

\* Mutant: the age of a price is not looked at.
UsdPriceAnyAge(m) == IF prices[m] # None THEN prices[m].usd ELSE None

\* usdPrice: null when there is no price, or none young enough.
UsdPrice(m) == IF prices[m] # None /\ prices[m].age < PriceLife THEN prices[m].usd ELSE None

Magnitude(p, q) == CHOOSE k \in 1 .. 10 : IsMagnitude(k, p, q)

\* round2sig: p/q rounded up to two significant digits.
Round2Sig(p, q) ==
  LET step == 10^(Magnitude(p, q) - 1)
  IN CeilDiv(p, q * step) * step

FlatSol(kind) == IF kind = "send" THEN SendFlatSol ELSE WithdrawFlatSol

\* flatFees, flatFeeInToken: null without both prices.
Flat(m, kind) ==
  IF m = SOL THEN IF kind = "send" THEN SendFlatSol ELSE SolFlat
  ELSE IF UsdPrice(m) = None \/ UsdPrice(SOL) = None THEN None
  ELSE Round2Sig(FlatSol(kind) * UsdPrice(SOL), UsdPrice(m))

\* upsertPool stores the flat fee for SOL and 0 for tokens.
RowMinFee(m) == IF m = SOL THEN SolFlat ELSE 0

FlatOr(m, kind, default) == IF Flat(m, kind) = None THEN default ELSE Flat(m, kind)

\* poolJson: what the SDK is told.
Priced(m) == Flat(m, "send") # None \/ ~RequirePrice
SendFeeOf(m) == FlatOr(m, "send", 0)
WithdrawMinFeeOf(m) == FlatOr(m, "withdraw", RowMinFee(m))

\* refreshPrices: SOL and the given mints, set or deleted.
RefreshPrices(mints) ==
  /\ prices' = [m \in Pools |->
                  IF m \notin mints \cup {SOL} THEN prices[m]
                  ELSE IF market[m] = 0 THEN None
                  ELSE [usd |-> market[m], age |-> 0]]
  /\ UNCHANGED <<world, gcCache, bps, cfg, request, moves>>

PriceLoop == RefreshPrices(Pools)

\* GET /pools refreshes what it cannot price.
ListPools ==
  LET unpriced == {m \in Tokens : UsdPrice(m) = None}
  IN unpriced # {} /\ RefreshPrices(unpriced)

-----------------------------------------------------------------------------
(* Quote, relay, execute *)

\* globalConfig: the cached configuration, or what the chain has now.
GlobalConfig == IF gcCache # None THEN gcCache ELSE chain

\* Mutant: the SDK forgets the floor.
WithdrawFeeNoFloor(m, amount, rate) ==
  Percent(amount, rate) + (IF m = SOL THEN SolFlat ELSE 0)

\* SDK: withdrawFee, sendFee.
WithdrawFee(m, amount, rate) ==
  LET fee == Percent(amount, rate) + (IF m = SOL THEN SolFlat ELSE 0)
  IN IF fee < WithdrawMinFeeOf(m) THEN WithdrawMinFeeOf(m) ELSE fee

\* spendable, for withdrawals: six rounds towards a fixed point...
Approach(m, balance, rate) ==
  LET most[round \in 0 .. 6] ==
        IF round = 0 THEN balance
        ELSE LET last == most[round - 1]
             IN IF last > 0 THEN balance - WithdrawFee(m, last, rate) ELSE last
  IN most[6]

Fits(m, amount, balance, rate) == amount + WithdrawFee(m, amount, rate) <= balance

\* Mutant: it is not proven that the fixed point fits.
LoweredNot(m, most, balance, rate) == most

\* ... then one less at a time until it fits, a thousand times at most.
Lowered(m, most, balance, rate) ==
  IF most <= 0 THEN most
  ELSE Max({most - 1000} \cup
           {n \in (IF most > 1000 THEN most - 999 ELSE 0) .. most :
              n = 0 \/ Fits(m, n, balance, rate)})

Spendable(m, balance, rate) ==
  LET most == Lowered(m, Approach(m, balance, rate), balance, rate)
  IN IF most < 0 THEN 0 ELSE most

QuotedFee(m, kind, amount, rate) ==
  IF kind = "send" THEN SendFeeOf(m) ELSE WithdrawFee(m, amount, rate)

\* What is known of prices and rates at a moment.
Seen(m, rate) == [sol |-> UsdPrice(SOL), tok |-> UsdPrice(m), rate |-> rate]

UnderWay == request # None /\ request.state \in {"quoted", "admitted", "sent"}

AmountsOf(kind) == IF kind = "send" THEN {0} ELSE Amounts

\* send or withdraw: config() asks the relayer once in the object's life.
Quote(m, kind, amount) ==
  /\ ~UnderWay
  /\ Priced(m)
  /\ gcCache' = IF cfg = None THEN GlobalConfig ELSE gcCache
  /\ cfg' = IF cfg = None THEN GlobalConfig ELSE cfg
  /\ request' = [mint |-> m, kind |-> kind, amount |-> amount,
                 fee |-> QuotedFee(m, kind, amount, cfg'.rate), recipient |-> cfg'.recipient,
                 quote |-> Seen(m, cfg'.rate), relay |-> None, payee |-> None, steady |-> TRUE,
                 gone |-> 0, state |-> "quoted"]
  /\ UNCHANGED <<world, prices, bps, moves>>

\* Mutant: no tolerance.
ToleratedExact(flat) == flat

\* 20% tolerance for a price refresh between quote and relay.
Tolerated(flat) == (flat * 80) \div 100

\* The percentage, less the on-chain margin.
PercentRequired(m, amount, rate) ==
  ((Percent(amount, rate) + (IF m = SOL THEN SolFlat ELSE 0)) * 95) \div 100

\* minFee, for a pool with a price or a relayer that needs none.
MinFee(m, kind, amount, rate) ==
  IF kind = "send" THEN Tolerated(FlatOr(m, kind, 0))
  ELSE LET fee == PercentRequired(m, amount, rate)
           floor == Tolerated(WithdrawMinFeeOf(m))
       IN IF fee > floor THEN fee ELSE floor

\* Refused without a price, which only a relayer that requires one asks for.
Unquotable(m, kind) == Flat(m, kind) = None /\ RequirePrice

\* Mutant: the relayer keeps the rate it started with.
BpsKept == UNCHANGED bps

\* The relay reads the rate first.
TakeRate == bps' = GlobalConfig.rate

\* relay: the checks of the fee.
Admit ==
  LET r == request
  IN /\ r # None /\ r.state = "quoted"
     /\ gcCache' = GlobalConfig /\ TakeRate
     /\ request' = [r EXCEPT
          !.state = IF Unquotable(r.mint, r.kind) THEN "unpriced"
                    ELSE IF r.fee < MinFee(r.mint, r.kind, r.amount, bps') THEN "too low"
                    ELSE "admitted",
          !.relay = Seen(r.mint, bps'),
          !.steady = steady,
          !.gone = IF gone[r.mint] > gone[SOL] THEN gone[r.mint] ELSE gone[SOL]]
     /\ UNCHANGED <<world, prices, cfg, moves>>

\* relay: the transaction names the recipient of the configuration, read again.
Send ==
  /\ request # None /\ request.state = "admitted"
  /\ gcCache' = GlobalConfig
  /\ request' = [request EXCEPT !.state = "sent", !.payee = GlobalConfig.recipient]
  /\ UNCHANGED <<world, prices, bps, cfg, moves>>

ProgramMinFee(r) ==
  IF r.kind = "send" THEN 0
  ELSE (Percent(r.amount, chain.rate) * (10000 - Margin)) \div 10000

\* The program, of its checks those of fee and recipient, which is part of the
\* hash the proof was made with.  Root, amounts and nullifiers are ShieldPool's.
Execute ==
  LET r == request
  IN /\ r # None /\ r.state = "sent"
     /\ request' = [r EXCEPT
          !.state = IF /\ r.payee = r.recipient
                       /\ r.fee > 0 => r.payee = chain.recipient
                       /\ r.fee >= ProgramMinFee(r)
                    THEN "paid" ELSE "reverted",
          !.steady = @ /\ r.recipient = chain.recipient]
     /\ UNCHANGED <<world, relayer, cfg, moves>>

-----------------------------------------------------------------------------
(* The world *)

Move == moves < MaxMoves /\ moves' = moves + 1

MarketMoves(m, usd) ==
  /\ Move /\ usd # market[m]
  /\ market' = [market EXCEPT ![m] = usd]
  /\ gone' = [gone EXCEPT ![m] = 0]
  /\ UNCHANGED <<chain, steady, relayer, cfg, request>>

\* update_global_config
UpdateConfig(value) ==
  /\ Move /\ value # chain
  /\ chain' = value /\ steady' = FALSE
  /\ request' = IF UnderWay THEN [request EXCEPT !.steady = FALSE] ELSE request
  /\ UNCHANGED <<market, gone, relayer, cfg>>

\* Thirty seconds pass.
CacheExpires ==
  /\ gcCache' = None
  /\ UNCHANGED <<world, prices, bps, cfg, request, moves>>

\* The relayer restarts: what it kept in memory is lost.
Restart ==
  /\ prices' = Empty /\ gcCache' = None /\ bps' = DefaultBps
  /\ UNCHANGED <<world, cfg, request, moves>>

\* The user opens the application again: a new ShieldPool object.
Reopen ==
  /\ ~UnderWay
  /\ cfg' = None /\ request' = None
  /\ UNCHANGED <<world, relayer, moves>>

Older(age, limit) == IF age < limit THEN age + 1 ELSE limit

Tick ==
  /\ prices' = [m \in Pools |-> IF prices[m] = None THEN None
                                ELSE [prices[m] EXCEPT !.age = Older(@, PriceLife)]]
  /\ gcCache' = None
  /\ gone' = [m \in Pools |-> IF market[m] = 0 THEN Older(gone[m], PriceLife) ELSE 0]
  /\ steady' = TRUE
  /\ UNCHANGED <<market, chain, bps, cfg, request, moves>>

Next ==
  \/ PriceLoop
  \/ ListPools
  \/ \E m \in Pools, kind \in Kinds : \E amount \in AmountsOf(kind) : Quote(m, kind, amount)
  \/ Admit
  \/ Send
  \/ Execute
  \/ \E m \in Pools : \E usd \in UsdOf[m] : MarketMoves(m, usd)
  \/ \E value \in Configs : UpdateConfig(value)
  \/ CacheExpires
  \/ Restart
  \/ Reopen
  \/ Tick

Spec == Init /\ [][Next]_vars

-----------------------------------------------------------------------------
(* Properties *)

MapsOk ==
  /\ market \in [Pools -> Nat] /\ gone \in [Pools -> Nat]
  /\ DOMAIN prices = Pools
  /\ \A m \in Pools : prices[m] # None =>
       {"usd", "age"} \subseteq DOMAIN prices[m] /\ prices[m].age \in Nat

RequestOk ==
  request # None =>
    /\ {"mint", "kind", "amount", "fee", "relay", "payee", "steady", "gone", "state"}
         \subseteq DOMAIN request
    /\ request.mint \in Pools /\ request.kind \in Kinds

TypeOK == MapsOk /\ RequestOk

\* What the SDK would quote now, with the rate the chain has, both the relayer
\* (if it has that rate too) and the program accept, for every pool, kind and
\* amount (pool.ts:354-363 against main.ts:496-509 and utils.rs:151).
FreshQuoteIsAccepted ==
  \A m \in Pools, kind \in Kinds : Priced(m) =>
    \A amount \in AmountsOf(kind) :
      LET fee == QuotedFee(m, kind, amount, chain.rate)
      IN /\ fee >= MinFee(m, kind, amount, chain.rate)
         /\ fee >= ProgramMinFee([kind |-> kind, amount |-> amount])

\* A withdrawal of all that is spendable fits in the two largest notes
\* (pool.ts:268), at every price and rate: with the fee a floor, a percentage
\* and a flat part of the amount, the fixed point may overshoot or oscillate.
SpendableFits ==
  request = None =>
    \A m \in Pools, balance \in Balances :
      LET most == Spendable(m, balance, chain.rate)
      IN most > 0 => Fits(m, most, balance, chain.rate)

\* pool.ts:257: "The most that one send / withdrawal can move right now".  Not so
\* just above the flat fee.
SpendableIsMost ==
  \A m \in Pools, balance \in Balances :
    \A n \in 1 .. balance :
      Fits(m, n, balance, chain.rate) => n <= Spendable(m, balance, chain.rate)

\* One price grew against the other by more than an eighth.
PriceDrifted(r) ==
  \/ None \in {r.quote.sol, r.quote.tok, r.relay.sol, r.relay.tok}
  \/ 8 * r.relay.sol * r.quote.tok > 9 * r.quote.sol * r.relay.tok

\* A quote is refused as too low only if the flat fee has really moved, by more
\* than an eighth (two steps of rounding and the 20% of main.ts:501 cover less),
\* or the rate has, however prices were refreshed, lost or aged in between.
DriftIsTolerated ==
  request # None /\ request.state = "too low" =>
    request.relay.rate > request.quote.rate \/ (request.mint # SOL /\ PriceDrifted(request))

\* A token that has had no market for a quarter of an hour is not relayed,
\* though every refresh since may have failed (main.ts:498, tokens.ts:119-122).
NoMarketNoRelay ==
  /\ RequirePrice /\ request # None /\ request.mint # SOL
  /\ request.state \in {"admitted", "sent", "paid", "reverted"}
  => request.gone < PriceLife

\* What the relayer admits passes the program's checks of fee and recipient
\* (lib.rs:147-181), unless the configuration moved within the life of the
\* relayer's copy before, or since, or the SDK's copy names another recipient
\* (main.ts:195-201, 505-508; pool.ts:97).  A copy with an old rate does not get
\* that far.
AdmittedIsPayable ==
  request # None /\ request.state = "reverted" => ~request.steady
=============================================================================
