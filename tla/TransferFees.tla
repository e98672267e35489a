---------------------------- MODULE TransferFees ----------------------------
(***************************************************************************)
(* What a Token-2022 mint withholds from a transfer, as the library        *)
(* computes it for the program and the SDK, and what the SDK derives from  *)
(* it for a deposit (sdk/src/pool.ts).                                     *)
(*                                                                         *)
(* A schedule is [bps, max]; a mint without a transfer fee has bps 0.  The *)
(* widths are left out: u64 and u128 on the chain, bigint in the SDK.      *)
(***************************************************************************)
EXTENDS Integers

CONSTANTS
  None,
  Margin   \* fee_error_margin of the program's configuration, in basis points

CeilDiv(a, b) == (a + b - 1) \div b

\* calculateEpochFee, TransferFee::calculate_fee: rounded up, capped.
Withheld(s, amount) ==
  LET fee == CeilDiv(amount * s.bps, 10000)
  IN IF fee > s.max THEN s.max ELSE fee

\* `net` raised by its fee: rounded up, capped.
Raised(s, net) ==
  LET raw == CeilDiv(net * 10000, 10000 - s.bps)
  IN IF raw - net >= s.max THEN net + s.max ELSE raw

\* TransferFee::calculate_pre_fee_amount: what to send for `net` to arrive.
ProgramGross(s, net) ==
  IF s.bps = 0 \/ net = 0 THEN net
  ELSE IF s.bps = 10000 THEN net + s.max
  ELSE Raised(s, net)

\* preFee of depositPreview; a division by zero throws.
PreFee(s, net) ==
  IF s.bps = 0 THEN net
  ELSE IF s.bps = 10000 THEN None
  ELSE Raised(s, net)

Percent(amount, bps) == (amount * bps) \div 10000

\* Mutant: the transfer fee is taken for one unit too little.
NetShort(s, amount) ==
  LET net == amount - Withheld(s, amount)
  IN IF net > 0 THEN net + 1 ELSE net

\* depositPreview: what arrives, lowered while its gross exceeds the amount.
Net(s, amount) ==
  LET net == amount - Withheld(s, amount)
  IN IF net <= 0 THEN net
     ELSE IF PreFee(s, net) = None THEN None
     ELSE CHOOSE n \in 0 .. net :
            /\ n = 0 \/ PreFee(s, n) <= amount
            /\ \A k \in n + 1 .. net : PreFee(s, k) > amount

\* ... and what is credited after the protocol's fee; None if it throws.
Credited(s, bps, amount) ==
  IF Net(s, amount) = None THEN None ELSE Net(s, amount) - Percent(Net(s, amount), bps)
=============================================================================
