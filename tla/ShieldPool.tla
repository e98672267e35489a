----------------------------- MODULE ShieldPool -----------------------------
(***************************************************************************)
(* The Anchor program `shieldpool`: one action per instruction.            *)
(*                                                                         *)
(* A transaction of the chain is atomic and takes a write lock on the      *)
(* accounts it changes, so an instruction is one step; what interleaves    *)
(* are the clients.  A client proves against the state it saw and the      *)
(* proof is executed later, once, several times or never, after any other  *)
(* instructions: every step therefore picks a proof against ANY root the   *)
(* tree has ever had, of ANY note, spent or not.                           *)
(*                                                                         *)
(* Abstractions.  A root is the number of leaves it commits to             *)
(* (MerkleTree checks the hashes).  A commitment is the amount it hides,   *)
(* and its nullifier, which hashes the leaf index, is <<"note", mint,      *)
(* index>>; an input of amount 0 has a random commitment and the           *)
(* nullifier <<"dummy", mint, n>>.  Owners and blindings are left out.     *)
(* Groth16 is sound: a proof verifies iff its statement satisfies the      *)
(* circuit.  Rent is tracked for the SOL vault only.  A mint's transfer    *)
(* fee is that of TransferFees and does not change.                        *)
(***************************************************************************)
EXTENDS RootRing, Integers, Sequences, FiniteSets, Functions

CONSTANTS
  SOL,              \* native SOL: pool of `initialize` and `transact`
  Tokens,           \* SPL and Token-2022 mints: `create_pool`, `transact_spl`
  NonTransferable,  \* the mints create_pool refuses
  TransferFee,      \* the fee schedule [bps, max] of each of them
  Parties,          \* wallets
  Users,            \* those that deposit, withdraw, pay and are paid
  Vault,            \* the pool's own account, where a withdrawal may go too
  Funds,            \* what each wallet holds of each mint at the start
  Height,           \* MERKLE_TREE_HEIGHT
  Rent,             \* rent-exempt minimum of the SOL vault
  U64Max,           \* stands for u64::MAX
  None,             \* Option::None
  \* the inputs the clients choose from
  Rates, Margins, Limits, Amounts, ExtAmounts, Fees,
  Gifts             \* and the amounts somebody may give to a vault

Mints == {SOL} \cup Tokens

ASSUME MintsAssumption == SOL \notin Tokens /\ NonTransferable \subseteq Tokens
ASSUME FundsAssumption ==
  /\ TransferFee \in [Tokens -> [bps : 0 .. 10000, max : Nat]]
  /\ Funds \in [Parties -> Nat]
  /\ Parties # {} /\ IsFiniteSet(Parties) /\ Users \subseteq Parties /\ Vault \notin Parties
ASSUME NumbersAssumption ==
  /\ Height \in Nat \ {0} /\ Rent \in Nat /\ U64Max \in Nat
  /\ Rates \subseteq Nat /\ Margins \subseteq Nat /\ Limits \subseteq Nat
  /\ Amounts \subseteq Nat /\ ExtAmounts \subseteq Int /\ Fees \subseteq Nat /\ Gifts \subseteq Nat
ASSUME NoneAssumption == None \notin Nat /\ None \notin Parties /\ NoRoot \notin Nat

VARIABLES
  global_config,   \* the GlobalConfig account
  opened,          \* the mints whose tree account exists
  trees,           \* the MerkleTreeAccount of each mint
  nullifier0,      \* nullifiers with an account under the prefix "nullifier0"
  nullifier1,      \* ... and under "nullifier1"
  vault,           \* lamports of tree_token, amount of each tree_ata
  wallet,          \* what each party holds of each mint
  notes,           \* history: each pool's leaves, and how often each was spent
  surplus          \* history: what each vault was given that nobody is owed

vars == <<global_config, opened, trees, nullifier0, nullifier1, vault, wallet, notes, surplus>>

MaxRate == 10000
Capacity == 2 ^ Height

GlobalConfig == [authority : Parties, fee_recipient : Parties,
                 deposit_fee_rate : 0 .. MaxRate, withdrawal_fee_rate : 0 .. MaxRate,
                 fee_error_margin : 0 .. MaxRate]

Tree == [authority : Parties, next_index : Nat, root_index : Slots,
         root_history : [Slots -> Nat \cup {NoRoot}], max_deposit_amount : Nat]

Nullifier == {"note", "dummy"} \X Mints \X Nat

Note == [amount : Nat, spent : Nat]

\* The tree account create_pool and initialize leave behind.
NewTree(authority) ==
  [authority |-> authority, next_index |-> 0, root_index |-> 0,
   root_history |-> EmptyRing(0), max_deposit_amount |-> U64Max]

Anyone == CHOOSE x \in Parties : TRUE

\* Before initialize no account of the program exists; the values here are
\* placeholders that no instruction reads.
Init ==
  /\ global_config = [authority |-> Anyone, fee_recipient |-> Anyone,
                      deposit_fee_rate |-> 0, withdrawal_fee_rate |-> 0,
                      fee_error_margin |-> 0]
  /\ opened = {}
  /\ trees = [m \in Mints |-> NewTree(Anyone)]
  /\ nullifier0 = {} /\ nullifier1 = {}
  /\ vault = [m \in Mints |-> 0]
  /\ wallet = [x \in Parties |-> [m \in Mints |-> Funds[x]]]
  /\ notes = [m \in Mints |-> <<>>]
  /\ surplus = [m \in Mints |-> 0]

-----------------------------------------------------------------------------
(* Protocol setup and administration *)

\* initialize: once (the PDAs are created with `init`); the caller becomes
\* the authority and the first fee recipient and pays the vault's rent.
Initialize(caller, rate) ==
  /\ SOL \notin opened
  /\ rate <= MaxRate
  /\ wallet[caller][SOL] >= Rent
  /\ opened' = opened \cup {SOL}
  /\ trees' = [trees EXCEPT ![SOL] = NewTree(caller)]
  /\ global_config' = [authority |-> caller, fee_recipient |-> caller,
                       deposit_fee_rate |-> 0, withdrawal_fee_rate |-> rate,
                       fee_error_margin |-> 500]
  /\ wallet' = [wallet EXCEPT ![caller][SOL] = @ - Rent]
  /\ vault' = [vault EXCEPT ![SOL] = @ + Rent]
  /\ UNCHANGED <<nullifier0, nullifier1, notes, surplus>>

Given(option, old) == IF option = None THEN old ELSE option

RateOk(option) == option # None => option <= MaxRate

\* update_global_config: four optional values; one bad one undoes them all.
UpdateGlobalConfig(caller, deposit, withdrawal, margin, recipient) ==
  /\ SOL \in opened
  /\ caller = global_config.authority
  /\ RateOk(deposit) /\ RateOk(withdrawal) /\ RateOk(margin)
  /\ global_config' =
       [global_config EXCEPT !.deposit_fee_rate = Given(deposit, @),
                             !.withdrawal_fee_rate = Given(withdrawal, @),
                             !.fee_error_margin = Given(margin, @),
                             !.fee_recipient = Given(recipient, @)]
  /\ UNCHANGED <<opened, trees, nullifier0, nullifier1, vault, wallet, notes, surplus>>

\* update_deposit_limit: the authority recorded in that tree.
UpdateDepositLimit(caller, m, limit) ==
  /\ m \in opened
  /\ caller = trees[m].authority
  /\ trees' = [trees EXCEPT ![m].max_deposit_amount = limit]
  /\ UNCHANGED <<global_config, opened, nullifier0, nullifier1, vault, wallet, notes, surplus>>

\* create_pool: anyone, once per mint, for any mint that can move out again.
CreatePool(m) ==
  /\ SOL \in opened
  /\ m \in Tokens \ opened
  /\ m \notin NonTransferable
  /\ opened' = opened \cup {m}
  /\ trees' = [trees EXCEPT ![m] = NewTree(global_config.authority)]
  /\ UNCHANGED <<global_config, nullifier0, nullifier1, vault, wallet, notes, surplus>>

-----------------------------------------------------------------------------
(* What a client proves: transaction.circom and the ext data bound to it *)

\* A proof with its witness.  `inputs` are [nullifier, amount], `outputs` the
\* amounts of the two new notes.
Proof(m, root, inputs, outputs, public, recipient, fee_recipient, ext_amount, fee) ==
  [mint |-> m, root |-> root, inputs |-> inputs, outputs |-> outputs,
   public_amount |-> public,
   ext_data |-> [recipient |-> recipient, fee_recipient |-> fee_recipient,
                 ext_amount |-> ext_amount, fee |-> fee]]

\* The Merkle path of a non-zero input leads from its commitment to the root.
OpensLeaf(p, input) ==
  \E i \in 0 .. p.root - 1 :
    /\ input.nullifier = <<"note", p.mint, i>>
    /\ i < Len(notes[p.mint])
    /\ notes[p.mint][i + 1].amount = input.amount

\* Mutant: the circuit without its sameNullifiers check.
CircuitSameNullifiers(p) ==
  /\ \A j \in {1, 2} : p.inputs[j].amount > 0 => OpensLeaf(p, p.inputs[j])
  /\ p.inputs[1].amount + p.inputs[2].amount + p.public_amount = p.outputs[1] + p.outputs[2]

Circuit(p) ==
  /\ p.inputs[1].nullifier # p.inputs[2].nullifier
  /\ \A j \in {1, 2} : p.inputs[j].amount > 0 => OpensLeaf(p, p.inputs[j])
  /\ p.inputs[1].amount + p.inputs[2].amount + p.public_amount = p.outputs[1] + p.outputs[2]

-----------------------------------------------------------------------------
(* The checks transact and transact_spl share *)

\* Mutant: only the two accounts the instruction creates are looked at.
FreshSamePrefix(p) ==
  /\ p.inputs[1].nullifier \notin nullifier0
  /\ p.inputs[2].nullifier \notin nullifier1

\* nullifier0 and nullifier1 are `init`, nullifier2 and nullifier3 (the same
\* nullifiers under the other prefix) must be accounts that do not exist.
NullifiersFresh(p) ==
  /\ p.inputs[1].nullifier \notin nullifier0 \cup nullifier1
  /\ p.inputs[2].nullifier \notin nullifier0 \cup nullifier1

PublicAmount(ext_amount, fee) == ext_amount - fee

\* check_public_amount: a deposit must exceed its fee.
CheckPublicAmount(p) ==
  LET e == p.ext_data
  IN /\ e.ext_amount > 0 => e.ext_amount > e.fee
     /\ p.public_amount = PublicAmount(e.ext_amount, e.fee)

\* Mutant: the first division by 10000 is missing.
MinFeeUnscaled(amount, rate, margin) == (amount * rate * (MaxRate - margin)) \div MaxRate

\* validate_fee: both divisions round down.
MinFee(amount, rate, margin) ==
  (((amount * rate) \div MaxRate) * (MaxRate - margin)) \div MaxRate

ValidateFee(ext_amount, fee) ==
  /\ ext_amount > 0 => fee >= MinFee(ext_amount, global_config.deposit_fee_rate,
                                     global_config.fee_error_margin)
  /\ ext_amount < 0 => fee >= MinFee(-ext_amount, global_config.withdrawal_fee_rate,
                                     global_config.fee_error_margin)

\* Mutant: the recipient is not compared with the configured one.
FeeRecipientAny(e) == e.fee_recipient \in Parties

\* The recipient is only looked at when there is a fee.
FeeRecipientOk(e) == e.fee > 0 => e.fee_recipient = global_config.fee_recipient

RentOf(m) == IF m = SOL THEN Rent ELSE 0

Positive(n) == IF n > 0 THEN n ELSE 0

Token == INSTANCE TransferFees WITH Margin <- 0

\* What reaches an account when `amount` is sent: the token program withholds
\* the mint's fee.
Net(m, amount) == IF m = SOL THEN amount ELSE amount - Token!Withheld(TransferFee[m], amount)

\* gross_for_net: what to send so that `net` arrives.
GrossForNet(m, net) == IF m = SOL THEN net ELSE Token!ProgramGross(TransferFee[m], net)

\* What a deposit sends, and what the vault receives of it.
Gross(m, e) == GrossForNet(m, Positive(e.ext_amount))
Received(m, e) == Net(m, Gross(m, e))

\* What a withdrawal takes out of the vault.  One to the vault itself, where the
\* token program moves and withholds nothing, leaves it there for nobody.
PaidOut(e) == IF e.recipient = Vault THEN 0 ELSE Positive(-e.ext_amount)
Kept(e) == IF e.recipient = Vault THEN Positive(-e.ext_amount) ELSE 0

\* Mutant: the fee stays in the vault.
VaultAfterNoFee(m, e) == vault[m] + Received(m, e) - PaidOut(e)

VaultAfter(m, e) == vault[m] + Received(m, e) - PaidOut(e) - e.fee

\* Both appends must find the tree below its capacity (MerkleTreeFull).
HasRoom(t) == t.next_index + 2 <= Capacity

\* The order of the checks does not matter: the first that fails undoes the
\* transaction.  `ext_data` are the accounts and numbers submitted with p.
Checks(p, ext_data) ==
  LET t == trees[p.mint]
      e == p.ext_data
  IN /\ p.mint \in opened
     /\ HasRoom(t)
     /\ IsKnownRoot(t, p.root)
     /\ NullifiersFresh(p)
     /\ ext_data = e                                   \* ExtDataHashMismatch
     /\ CheckPublicAmount(p)
     /\ ValidateFee(e.ext_amount, e.fee)
     /\ FeeRecipientOk(e)
     /\ Circuit(p)                                     \* verify_proof
     /\ e.ext_amount > 0 => e.ext_amount <= t.max_deposit_amount
     /\ e.ext_amount > 0 => Received(p.mint, e) = e.ext_amount  \* DepositAmountMismatch
     /\ e.ext_amount < 0 => vault[p.mint] + e.ext_amount >= RentOf(p.mint)
     /\ e.ext_amount < 0 \/ e.fee > 0 => VaultAfter(p.mint, e) >= RentOf(p.mint)

\* Mutant: one root pushed per transaction, after both leaves.
InsertOutputsOneRoot(t) == PushRoot([t EXCEPT !.next_index = @ + 2], t.next_index + 2)

\* The two appends: each pushes the root after its leaf.
InsertOutputs(t) ==
  LET first == PushRoot([t EXCEPT !.next_index = @ + 1], t.next_index + 1)
  IN PushRoot([first EXCEPT !.next_index = @ + 1], t.next_index + 2)

\* How many inputs of p are the leaf i of pool m: the circuit allows one.
Uses(p, m, i) ==
  LET n == <<"note", m, i>>
  IN (IF p.inputs[1].nullifier = n THEN 1 ELSE 0) + (IF p.inputs[2].nullifier = n THEN 1 ELSE 0)

\* The leaves of the pool after p: its inputs are counted as spent once more,
\* its outputs are new.
NotesAfter(p) ==
  LET old == notes[p.mint]
  IN [i \in 1 .. Len(old) + 2 |->
        IF i <= Len(old) THEN [old[i] EXCEPT !.spent = @ + Uses(p, p.mint, i - 1)]
        ELSE [amount |-> p.outputs[i - Len(old)], spent |-> 0]]

\* The accounts every transact creates and writes.
Settle(p) ==
  /\ nullifier0' = nullifier0 \cup {p.inputs[1].nullifier}
  /\ nullifier1' = nullifier1 \cup {p.inputs[2].nullifier}
  /\ trees' = [trees EXCEPT ![p.mint] = InsertOutputs(@)]
  /\ notes' = [notes EXCEPT ![p.mint] = NotesAfter(p)]
  /\ vault' = [vault EXCEPT ![p.mint] = VaultAfter(p.mint, p.ext_data)]
  /\ surplus' = [surplus EXCEPT ![p.mint] = @ + Kept(p.ext_data)]
  /\ UNCHANGED <<global_config, opened>>

\* x holds n more of m.
Credit(w, x, m, n) == [w EXCEPT ![x] = [w[x] EXCEPT ![m] = w[x][m] + n]]

\* The wallets of a transaction, any of which may be the same: the signer sends
\* what is deposited, the recipient and the fee recipient get what arrives.
Move(m, signer, e) ==
  LET sent == Credit(wallet, signer, m, -Gross(m, e))
      got == IF e.recipient = Vault THEN sent
             ELSE Credit(sent, e.recipient, m, Net(m, Positive(-e.ext_amount)))
  IN Credit(got, e.fee_recipient, m, Net(m, e.fee))

\* transact: native SOL.  It writes the balances of the vault and of the
\* recipient from what both were before: where they are one account, lamports
\* appear from nowhere, and the runtime refuses the transaction.
Transact(p, ext_data, signer) ==
  LET e == p.ext_data
  IN /\ p.mint = SOL
     /\ Checks(p, ext_data)
     /\ e.ext_amount < 0 => e.recipient # Vault
     /\ Gross(SOL, e) <= wallet[signer][SOL]
     /\ wallet' = Move(SOL, signer, e)
     /\ Settle(p)

\* transact_spl: any other mint.
TransactSpl(p, ext_data, signer) ==
  LET e == p.ext_data
  IN /\ p.mint \in Tokens
     /\ Checks(p, ext_data)
     /\ Gross(p.mint, e) <= wallet[signer][p.mint]
     /\ wallet' = Move(p.mint, signer, e)
     /\ Settle(p)

\* A transfer to the vault that the program has no part in.
Donate(x, m, amount) ==
  /\ m \in opened
  /\ amount <= wallet[x][m]
  /\ wallet' = Credit(wallet, x, m, -amount)
  /\ vault' = [vault EXCEPT ![m] = @ + Net(m, amount)]
  /\ surplus' = [surplus EXCEPT ![m] = @ + Net(m, amount)]
  /\ UNCHANGED <<global_config, opened, trees, nullifier0, nullifier1, notes>>

-----------------------------------------------------------------------------
(* What the clients can submit *)

\* A note of the tree with this root, or an input of amount 0: one whose
\* nullifier is new, or one of those the pool's first deposit used, which
\* stands for a proof submitted again.
Inputs(m, root, slot) ==
  {[nullifier |-> <<"note", m, i>>, amount |-> notes[m][i + 1].amount] :
     i \in {j \in 0 .. root - 1 : notes[m][j + 1].amount > 0}}
  \cup
  {[nullifier |-> <<"dummy", m, n>>, amount |-> 0] : n \in {0, 1, trees[m].next_index + slot}}

\* Only a withdrawal has a recipient that matters: any account, the vault too.
Recipients(user, ext_amount) == IF ext_amount < 0 THEN Users \cup {Vault} ELSE {user}

\* buildProof of the SDK: the outputs make up for the inputs and the public
\* amount.  A client may also get the sum wrong by one.  (Nothing is enumerated
\* for a full tree, which refuses everything.)
Submit(m) ==
  /\ HasRoom(trees[m])
  /\ \E root \in 0 .. trees[m].next_index :
     \E a \in Inputs(m, root, 0), b \in Inputs(m, root, 1) :
     \E ext_amount \in ExtAmounts, fee \in Fees, c, d \in Amounts, user \in Users :
       /\ c + d - a.amount - b.amount - PublicAmount(ext_amount, fee) \in {0, 1}
       /\ \E payee, cached \in Parties, recipient \in Recipients(user, ext_amount) :
            LET p == Proof(m, root, <<a, b>>, <<c, d>>, c + d - a.amount - b.amount,
                           recipient, payee, ext_amount, fee)
                submitted == [p.ext_data EXCEPT !.fee_recipient = cached]
            IN Transact(p, submitted, user) \/ TransactSpl(p, submitted, user)

Next ==
  \/ \E x \in Parties, rate \in Rates : Initialize(x, rate)
  \/ \E x \in Parties, d, w \in Rates \cup {None}, e \in Margins \cup {None},
        r \in Parties \cup {None} : UpdateGlobalConfig(x, d, w, e, r)
  \/ \E x \in Parties, m \in Mints, limit \in Limits : UpdateDepositLimit(x, m, limit)
  \/ \E m \in Tokens : CreatePool(m)
  \/ \E m \in opened : Submit(m)
  \/ \E x \in Users, m \in Mints, amount \in Gifts : Donate(x, m, amount)

Spec == Init /\ [][Next]_vars

-----------------------------------------------------------------------------
(* Properties *)

TypeOK ==
  /\ global_config \in GlobalConfig
  /\ opened \subseteq Mints
  /\ trees \in [Mints -> Tree]
  /\ nullifier0 \subseteq Nullifier /\ nullifier1 \subseteq Nullifier
  /\ vault \in [Mints -> Nat]
  /\ wallet \in [Parties -> [Mints -> Nat]]
  /\ notes \in [Mints -> Seq(Note)]
  /\ surplus \in [Mints -> Nat]

Spent(m, i) == <<"note", m, i>> \in nullifier0 \cup nullifier1

\* No leaf is ever consumed twice, whatever the slot, the prefix, the root it
\* was proved against and the order the transactions land in.
NoDoubleSpend == \A m \in Mints : \A i \in 1 .. Len(notes[m]) : notes[m][i].spent <= 1

\* A nullifier has an account under one prefix at most.
OnePrefixPerNullifier == nullifier0 \cap nullifier1 = {}

\* is_known_root accepts a root iff it is one of the RootHistorySize latest,
\* the empty tree and the roots between the two appends of a transaction
\* included: a proof goes stale after that many appends, and not before.
RootWindow ==
  \A m \in opened :
    LET n == trees[m].next_index
    IN /\ n = Len(notes[m])
       /\ \A r \in 0 .. n : IsKnownRoot(trees[m], r) <=> r > n - RootHistorySize

Unspent(m) == {i \in 0 .. Len(notes[m]) - 1 : ~Spent(m, i)}

\* A vault holds its rent, exactly what the unspent notes are worth, and what
\* it was given besides.
Solvency ==
  \A m \in opened :
    vault[m] = RentOf(m) + SumFunction([i \in Unspent(m) |-> notes[m][i + 1].amount]) + surplus[m]

\* As long as the tree has room for the two outputs, every unspent note can
\* leave the pool at once, whatever the configuration has been changed to,
\* short of a fee of 100 % without a margin: proved against the current root,
\* with some fee below its worth, no check of the program refuses the
\* withdrawal.
NotesNeverLocked ==
  (global_config.withdrawal_fee_rate < MaxRate \/ global_config.fee_error_margin > 0) =>
  \A m \in opened : \A i \in Unspent(m) :
    LET t == trees[m]
        worth == notes[m][i + 1].amount
        Withdrawal(fee) ==
          Proof(m, t.next_index,
                <<[nullifier |-> <<"note", m, i>>, amount |-> worth],
                  [nullifier |-> <<"dummy", m, t.next_index + 1>>, amount |-> 0]>>,
                <<0, 0>>, -worth, Anyone, global_config.fee_recipient, fee - worth, fee)
    IN worth > 0 /\ HasRoom(t) =>
         \E fee \in 0 .. worth - 1 : Checks(Withdrawal(fee), Withdrawal(fee).ext_data)

\* Nothing is created or lost between the wallets and the vault of a mint
\* that withholds no transfer fee.
ValueConserved ==
  \A m \in Mints : m = SOL \/ TransferFee[m].bps = 0 =>
    vault[m] + SumFunction([x \in Parties |-> wallet[x][m]]) = SumFunction(Funds)

\* The program enforces the fee recipient: apart from the users who withdraw,
\* no wallet but the one configured at that moment ever receives anything,
\* however old the configuration the payment was proved under.
FeesOnlyToConfigured ==
  [][\A x \in Parties \ Users, m \in Mints :
       wallet'[x][m] > wallet[x][m] => x = global_config.fee_recipient]_vars

\* What the pools owe they have, and nobody else has it.
Accounted == Solvency /\ ValueConserved

\* The pools as the notes they owe (NoteLedger): what a vault holds beyond its
\* rent and its surplus, and the notes whose nullifier is not recorded.
Ledger == INSTANCE NoteLedger WITH
  issued <- [m \in Mints |-> trees[m].next_index],
  unspent <- [m \in Mints |-> {[id |-> i, amount |-> notes[m][i + 1].amount] : i \in Unspent(m)}],
  pot <- [m \in Mints |-> IF m \in opened THEN vault[m] - RentOf(m) - surplus[m] ELSE 0]

\* Every instruction is a payment of the abstract ledger or changes nothing
\* there.
ImplementsLedger == Ledger!Spec
=============================================================================
