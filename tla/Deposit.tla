------------------------------- MODULE Deposit -------------------------------
(***************************************************************************)
(* A deposit, from the SDK's preview to its execution: the wallet enters   *)
(* an amount, the SDK derives what arrives from a copy of the mint's       *)
(* transfer fee that may be a minute old (sdk/src/pool.ts), the user signs *)
(* when it pleases, and the program derives the gross again from the fee   *)
(* of its epoch (program/.../lib.rs) and checks the rest of what may have  *)
(* moved: the rate, the fee recipient, the limit, the root and the room in *)
(* the tree.  Before, the user may ask what to enter for a credit.         *)
(*                                                                         *)
(* Abstractions.  The proof commits to the net amount, the fee and a root; *)
(* its validity and its nullifiers are ShieldPool's.  The relayer's copy   *)
(* of the configuration, half a minute old at most, is Fees'.  One wallet, *)
(* one mint, one deposit to the end.                                       *)
(***************************************************************************)
EXTENDS TransferFees

CONSTANTS
  Schedules,   \* transfer fees the mint's authority may set
  Rates,       \* deposit_fee_rate, in basis points
  Recipients,  \* accounts the protocol's fee may go to
  Limits,      \* max_deposit_amount
  RootHistory, \* ROOT_HISTORY_SIZE
  Capacity,    \* leaves the tree has room for
  PartnerBps,  \* the integrator's fee, 0 for none
  Funds,       \* what the wallet holds
  Wanted,      \* credits a user may ask a deposit for
  Delay,       \* epochs before a new transfer fee applies (2)
  MaxEpoch,    \* bound: epochs
  MaxChanges   \* bound: what happens on the chain besides

ASSUME DepositAssumption ==
  /\ Schedules \subseteq [bps : 0 .. 10000, max : Nat]
  /\ Rates \subseteq 0 .. 10000 /\ Margin \in 0 .. 10000 /\ PartnerBps \in 0 .. 10000
  /\ {Funds, Delay, MaxEpoch, MaxChanges, RootHistory, Capacity} \subseteq Nat
  /\ Limits \subseteq Nat /\ Wanted \subseteq Nat \ {0}

VARIABLES
  transferFee,  \* the mint's TransferFeeConfig: [older, newer, from]
  epoch,
  depositRate,  \* the chain's deposit_fee_rate
  feeRecipient, \* ... and its fee_recipient
  depositLimit, \* max_deposit_amount of the pool
  transacted,   \* transactions in the pool's tree, two leaves each
  cached,       \* transferFees.get(mint): [config, epoch]
  config,       \* the SDK's copy of the configuration, kept for life: [bps, recipient]
  wallet,       \* the wallet's tokens
  deposit,      \* the deposit under way, or how the last one ended
  changes       \* bound

sdk == <<cached, config>>
onChain == <<transferFee, epoch, depositRate, feeRecipient, depositLimit, transacted>>
depositVars == <<onChain, sdk, wallet, deposit, changes>>

DepositInit ==
  /\ \E s \in Schedules : transferFee = [older |-> s, newer |-> s, from |-> 0]
  /\ epoch = 0 /\ depositRate \in Rates /\ feeRecipient \in Recipients
  /\ depositLimit \in Limits /\ transacted = 0
  /\ cached = None /\ config = None
  /\ wallet = Funds
  /\ deposit = None /\ changes = 0

\* get_epoch_fee
EpochFee(m, e) == IF e >= m.from THEN m.newer ELSE m.older

\* tokenTransferFee: the entry of the last minute, or a new one.
Entry == IF cached # None THEN cached ELSE [config |-> transferFee, epoch |-> epoch]
Schedule == EpochFee(Entry.config, Entry.epoch)

\* config: asked for once in the object's life.
Config == IF config = None THEN [bps |-> depositRate, recipient |-> feeRecipient] ELSE config
Bps == Config.bps

-----------------------------------------------------------------------------
(* grossForCredited: what to enter for `want` to be credited *)

CreditedNow(amount) == Credited(Schedule, Bps, amount)

\* Mutant: the search stops a step early.
InsideEarly(lo, hi) == hi - lo > 2

\* The interval has an inside.
Inside(lo, hi) == hi - lo > 1

\* A step of the search by halves; nothing changes once it is over.
Halve(want, range) ==
  LET mid == (range.lo + range.hi) \div 2
  IN IF ~Inside(range.lo, range.hi) THEN range
     ELSE IF CreditedNow(mid) >= want THEN [range EXCEPT !.hi = mid] ELSE [range EXCEPT !.lo = mid]

\* Each step of the search makes the range smaller.
Tighten(want, guess) ==
  LET range[step \in 0 .. guess - want] ==
        IF step = 0 THEN [lo |-> want, hi |-> guess] ELSE Halve(want, range[step - 1])
  IN range[guess - want].hi

\* The next guess, scaled by what this one falls short of, if it does.
Guess(want, guess) ==
  LET credited == CreditedNow(guess)
  IN IF credited >= want THEN guess
     ELSE (guess * (want + 1)) \div (IF credited > 0 THEN credited ELSE 1) + 1

\* Up to eight guesses, the last of which is tightened if it is enough.
GrossForCredited(want) ==
  LET guess[round \in 0 .. 7] == IF round = 0 THEN want ELSE Guess(want, guess[round - 1])
  IN IF CreditedNow(guess[7]) >= want THEN Tighten(want, guess[7]) ELSE None

-----------------------------------------------------------------------------
(* The deposit *)

\* Mutant: the wallet's amount is proven as if nothing were withheld.
CommittedWhole(amount) == amount

\* What the proof commits to.
Committed(amount) == Net(Schedule, amount)

Open == deposit # None /\ deposit.state = "built"

\* depositInstructions; the root is the last that the relayer has indexed.
Build(amount, root) ==
  /\ deposit = None /\ amount <= wallet
  /\ cached' = Entry /\ config' = Config
  /\ LET net == Committed(amount)
         fee == Percent(net, Bps)
     IN /\ net # None /\ net > fee
        /\ PartnerBps <= 1000
        /\ deposit' = [amount |-> amount, net |-> net, fee |-> fee,
                       cut |-> Percent(amount, PartnerBps), root |-> root,
                       schedule |-> Schedule, config |-> Config, met |-> None,
                       held |-> wallet, at |-> epoch, taken |-> 0, state |-> "built"]
  /\ UNCHANGED <<onChain, wallet, changes>>

\* validate_fee
DepositMinFee(net) == Percent(Percent(net, depositRate), 10000 - Margin)

\* is_known_root: each of a transaction's two leaves makes a root.
IsKnownRoot(root, now) == 2 * (now - root) < RootHistory

\* append, twice.
HasRoom(now) == 2 * now + 2 <= Capacity

\* What a deposit meets on the chain.
Met ==
  [schedule |-> EpochFee(transferFee, epoch), rate |-> depositRate, recipient |-> feeRecipient,
   limit |-> depositLimit, transacted |-> transacted]

\* transact_spl and the partner's transfer, in one transaction.
Land ==
  LET d == deposit
      gross == ProgramGross(Met.schedule, d.net)
      ok == /\ IsKnownRoot(d.root, transacted) /\ HasRoom(transacted)
            /\ d.fee >= DepositMinFee(d.net)
            /\ d.fee > 0 => d.config.recipient = feeRecipient
            /\ d.net <= depositLimit
            /\ gross + d.cut <= wallet
            /\ gross - Withheld(Met.schedule, gross) = d.net
  IN /\ Open
     /\ wallet' = IF ok THEN wallet - gross - d.cut ELSE wallet
     /\ transacted' = IF ok THEN transacted + 1 ELSE transacted
     /\ deposit' = [d EXCEPT !.state = IF ok THEN "done" ELSE "failed", !.met = Met,
                      !.taken = IF ok THEN gross + d.cut ELSE 0]
     /\ UNCHANGED <<transferFee, epoch, depositRate, feeRecipient, depositLimit, sdk, changes>>

\* The user does not sign, or the blockhash expires.
Abandon == Open /\ deposit' = None /\ UNCHANGED <<onChain, sdk, wallet, changes>>

MinutePasses ==
  cached' = None /\ UNCHANGED <<onChain, config, wallet, deposit, changes>>

\* An epoch lasts longer than a minute, and than a blockhash is valid.
AdvanceEpoch ==
  /\ epoch < MaxEpoch /\ epoch' = epoch + 1
  /\ Open => deposit.at = epoch
  /\ cached' = IF cached # None /\ cached.epoch < epoch THEN None ELSE cached
  /\ UNCHANGED <<transferFee, depositRate, feeRecipient, depositLimit, transacted, config, wallet,
                 deposit, changes>>

Change == changes < MaxChanges /\ changes' = changes + 1

\* The token program: a new fee applies some epochs later.
SetTransferFee(s) ==
  /\ Change
  /\ transferFee' = [older |-> EpochFee(transferFee, epoch), newer |-> s, from |-> epoch + Delay]
  /\ UNCHANGED <<epoch, depositRate, feeRecipient, depositLimit, transacted, sdk, wallet, deposit>>

\* update_global_config
UpdateGlobalConfig(rate, recipient) ==
  /\ Change /\ <<rate, recipient>> # <<depositRate, feeRecipient>>
  /\ depositRate' = rate /\ feeRecipient' = recipient
  /\ UNCHANGED <<transferFee, epoch, depositLimit, transacted, sdk, wallet, deposit>>

\* update_deposit_limit
UpdateDepositLimit(new) ==
  /\ Change /\ new # depositLimit /\ depositLimit' = new
  /\ UNCHANGED <<transferFee, epoch, depositRate, feeRecipient, transacted, sdk, wallet, deposit>>

\* Somebody else's transaction in the pool.
OthersTransact ==
  /\ Change /\ HasRoom(transacted) /\ transacted' = transacted + 1
  /\ UNCHANGED <<transferFee, epoch, depositRate, feeRecipient, depositLimit, sdk, wallet, deposit>>

DepositNext ==
  \/ \E amount \in 1 .. Funds, root \in 0 .. transacted : Build(amount, root)
  \/ Land
  \/ Abandon
  \/ MinutePasses
  \/ AdvanceEpoch
  \/ \E s \in Schedules : SetTransferFee(s)
  \/ \E rate \in Rates, recipient \in Recipients : UpdateGlobalConfig(rate, recipient)
  \/ \E new \in Limits : UpdateDepositLimit(new)
  \/ OthersTransact

DepositSpec == DepositInit /\ [][DepositNext]_depositVars

-----------------------------------------------------------------------------
(* Properties *)

DepositTypeOK ==
  /\ wallet \in 0 .. Funds
  /\ transferFee \in [older : Schedules, newer : Schedules, from : Nat]
  /\ cached # None => cached.config \in [older : Schedules, newer : Schedules, from : Nat]
  /\ deposit # None => deposit.net \in 1 .. deposit.amount /\ deposit.fee \in 0 .. deposit.net

\* Whether the transfer fee the SDK used is the one the program met.
SameFee(d) == d.schedule = d.met.schedule

\* With the transfer fee it was previewed with, a deposit takes no more than
\* the entered amount (and the partner's cut): the program's gross of the
\* SDK's net never exceeds it, at any rounding or cap (pool.ts:338-350).
TakesAtMostEntered ==
  deposit # None /\ deposit.state = "done" /\ SameFee(deposit) =>
    deposit.taken <= deposit.amount + deposit.cut

\* Since the SDK read them, the rate rose, or the fee it pays goes to another.
ConfigMoved(d) ==
  d.met.rate > d.config.bps \/ (d.fee > 0 /\ d.met.recipient # d.config.recipient)

\* Refused whatever the balance: above the pool's limit, which the SDK does not
\* look at, with a root that others' transactions pushed out, or in a full tree.
Refused(d) ==
  \/ d.net > d.met.limit
  \/ ~IsKnownRoot(d.root, d.met.transacted)
  \/ ~HasRoom(d.met.transacted)

\* README.md:82, pool.ts:333: "Entering your full balance therefore always
\* works".  It never fails for the amounts: for lack of tokens, for a fee too
\* low or a unit too many or too few that arrives, at any rounding or cap; only
\* when the transfer fee or the configuration moved since the SDK read them,
\* the pool refuses any such deposit, or a partner is paid on top.
FullBalanceWorks ==
  deposit # None /\ deposit.state = "failed" =>
    \/ ~SameFee(deposit) \/ ConfigMoved(deposit)
    \/ Refused(deposit)
    \/ deposit.amount + deposit.cut > deposit.held

\* grossForCredited finds an amount that credits at least what was asked, and
\* no smaller one does (pool.ts:671): the preview is monotone enough to search
\* by halves, and eight guesses reach it, at every fee and rate in force.
GrossIsSmallest ==
  deposit = None =>
    \A want \in Wanted :
      LET gross == GrossForCredited(want)
      IN /\ gross # None
         /\ CreditedNow(gross) >= want
         /\ \A a \in want .. gross - 1 : CreditedNow(a) < want

\* README.md:14: "It works for every SPL and Token-2022 mint".  The preview of
\* one that withholds all, up to a maximum, divides by zero.
EveryMintHasPreview == CreditedNow(Funds) # None

\* sdk/README.md:25: "the amount is what leaves the wallet".  Not so with a partner.
AmountIsAll == deposit # None => deposit.taken <= deposit.amount

\* pool.ts:338: "make sure that gross never exceeds what the wallet sends".  Not
\* so if the epoch turns between the preview and the execution.
GrossWithinAmount == deposit # None => deposit.taken - deposit.cut <= deposit.amount
=============================================================================
