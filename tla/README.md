# TLA+ models of zPOOL

zPOOL is a shielded pool on Solana: an Anchor program that keeps one vault and one Merkle tree of note commitments
per token, a relayer that indexes the program's leaves, quotes fees and submits payments, and an SDK that holds a
user's notes and proves spends. This directory models the parts of it that keep state or compute amounts, checks them
with TLC on small instances and proves the central properties with TLAPS.

    tlc -config MCClient.cfg MCClient.tla      # any run: cfg and module as listed under "Runs"
    tlapm Relay_proofs.tla                     # any module *_proofs

## Inventory

| Component | State | Operations | Interacts with | Module |
|---|---|---|---|---|
| Program `shieldpool` (`lib.rs`, `utils.rs`) | `GlobalConfig`, a tree account and a vault per mint, nullifier accounts | `initialize`, `update_global_config`, `update_deposit_limit`, `create_pool`, `transact`, `transact_spl` | clients' proofs, token programs; emits leaves | `ShieldPool`, `NoteLedger` |
| Merkle tree on chain (`merkle_tree.rs`) | filled subtrees, root, ring of the 250 latest roots | `append`, `is_known_root` | `transact*` | `RootRing`, `MerkleTree` |
| Merkle mirror (`sdk/src/merkle.ts`) | all layers of the tree | `insert`, `bulkInsert`, `path`, `root` | the relayer's trees | `MerkleTree` |
| Circuits | none | the joinsplit statement | what a proof shows | `ShieldPool!Circuit` |
| Relayer: indexer (`main.ts`, `db.ts`) | SQLite `leaves`, `seen`, `cursor`; trees in memory | `poll`, `indexSignature`, `applyLeaves` | RPC node, relay requests, HTTP readers | `Indexer` |
| Relayer: relay and `sendV1` | the transaction in flight, its blockhash | check, sign, send, poll, resend, sign again | program, indexer, client | `Relay`, `RelayContract` |
| Relayer: provisioning | `pools` table, lookup tables, token accounts | `ensureSolPool`, `provisionPool`, `syncFeeRecipient`, `refreshLogos` | configuration on chain, `POST /pools` | `Provision` |
| Relayer: prices, fee check | price cache, configuration cache (30 s) | `refreshPrices`, `usdPrice`, `minFee`, `poolJson` | quotes of the SDK | `Fees` |
| Relayer: rate limiter | token buckets | `allow`, the sweeping timer | every HTTP request | `RateLimit`, `IdealBucket` |
| SDK client (`pool.ts`) | notes, spent marks, reservations, scan positions | `unlock`, `sync`, `withdraw`, `send`, merging, `prepareSend`, `submitPrepared`, `cancelPrepared` | relayer routes | `Client` |
| SDK amounts (`pool.ts`) | cached configuration and transfer fees | `depositPreview`, `depositInstructions`, `grossForCredited`, `withdrawFee`, `sendFee`, `spendable` | relayer's fees, program's fees, Token-2022 | `TransferFees`, `Deposit`, `Fees` |
| SDK keys and encodings, Groth16, scripts | none | derivations, byte formats | | not modelled |

What makes each correct. The program must not let a note be spent twice, must keep every vault equal to what it owes
and must never make a note unspendable. Both trees must compute the same root, and the ring must accept the right
roots. The indexer must store every leaf once, in order, whatever it races with. A request must be paid at most once and
be answered only if it is paid. A pool's row must name accounts that exist, those of the present fee recipient. A fee
quoted in good faith must pass relayer and program. The limiter must grant what its rates say although it forgets
buckets. The client must not count, reserve or pay a note twice, nor lose one or hide it for ever.

What is hard to test: proofs executed long after they were made, against aged roots and changed configurations; the two
accounts per nullifier; ring and subtree boundaries; calls that interleave at each `await` over shared objects and rows
(the poll and relay requests, rounds of the recipient sync, sync and payments of the SDK); crashes between SQLite
statements or between a transaction and its row; null answers, lost answers and late transactions; caches of prices,
rates and transfer fees that age between a quote and its execution; roundings in three places that must agree.
`PROJECT.json` lists each at its line under "hazards", with the properties that cover it.

## Modules

**`RootRing`** is the ring of recent roots: `PushRoot` is the end of `append`, `IsKnownRoot` the search of
`is_known_root` from `root_index`, with its wrap at slot 0. `MerkleTree` and `ShieldPool` extend it.

**`MerkleTree`** puts the program's append (`Climb`, `Filled`, `Siblings`) next to the SDK's incremental mirror
(`Rebuild`, `MirrorPath`) and compares both with `ReferenceRoot`, the root of a zero-padded tree by its definition.
Poseidon is the collision-free pairing of its arguments. Actions: `AppendLeaf`, `Insert`, `BulkInsert`.

**`ShieldPool`** is the program, one action per instruction. A chain transaction is atomic, so an instruction is one
step and the interleaving is that of clients: `Submit` picks a proof against *any* root the tree ever had, with *any*
note of that tree, spent or not, an external amount, a fee, a fee recipient and the account actually submitted, and for a
withdrawal any recipient, the vault itself included (which `transact` cannot, and `transact_spl` can pay).
`Checks` are all conditions of the handlers and the account constraints; `Settle` and `Move` are everything they write.
`Donate` is a transfer to a vault that the program has no part in; `surplus` is a history variable with what each vault
holds that nobody is owed.
A root is the number of leaves it commits to, a commitment the amount it hides; `notes` is a history variable that
counts how often each leaf was consumed. Groth16 is sound: `verify_proof` succeeds iff `Circuit` holds. Rent is tracked
for the SOL vault only. What a Token-2022 mint withholds of a transfer, and what the program sends so that a deposit
arrives whole (`GrossForNet`), are the formulas of `TransferFees` with a schedule per mint that does not change here; it does in `Deposit`.

**`NoteLedger`** is the abstract pool: a pot and the notes it owes; a payment takes at most two unspent notes, issues
two, and moves the difference. `ShieldPool!ImplementsLedger` maps `issued` to `next_index`, `unspent` to the leaves
without a nullifier account and `pot` to the vault without its rent and its surplus.

**`Indexer`**: one step is the code from one `await` to the next. `PollRead` lists signatures and filters the fresh,
`PollDecode` is one `getTransaction`, of the oldest that is left, and the last one also applies the batch, marks it and moves the cursor;
`RelayCheck` and `RelayIndex` are `indexSignature` of a relay request. `Crash` can fall anywhere, also between the
statements of one such step: `Torn` is what they can leave behind. Blocks of one or two transactions are listed in
either order; `getTransaction` may answer null `NullAnswers` times.

**`Relay`** is a request from its nullifier check to its answer: `Check`, `Sign` (fresh blockhash), `Send` and
`SendFails`, `Status`, `Measure` (the height against the deadline), `Resend`, `CallFails`, `IndexAndAnswer`. The network
keeps what was sent (`wires`), loses it (`Lose`), or lands it (`Land`) while its blockhash is valid and its notes are
unspent; `Block` moves the height. **`RelayContract`** is what a client may rely on: a note pays once, and a signature is
answered only for a payment on the chain; an error says nothing. It is what `Client` assumes of the relayer (`wires`
there may land after an error).

**`Client`** is one user's `ShieldPool` object of the SDK for one mint. Notes are mutable objects in arrays shared by the
calls under way, so arrays are cells of `heap` and a call holds references. The steps of a call follow its awaits:
`SyncStart`, `SyncPage`, `SyncMarks` (nullifiers of what may be unspent, un-marking what was marked 45 s ago), `Select`
and, after the await of the selection, `Reserve`, then `Paths` and `Root` of the proof, `Relay`, and `Answered`,
`AnsweredDropped`, `Refused`, `RequestFails` and `Landed`. A payment whose two largest notes do not do merges first: each
merge is a send of its own inside it (`frames`), with its own sync, fee, reservation and failure. A prepared payment stays
open, with the outputs it was proved for, until `SubmitPrepared` or `CancelPrepared`, and one whose submission failed may be
submitted again (`Resubmit`), holding its notes no more. A merge of notes worth less than its fee has no proof (`InRange`).
Around it the pool grows (`Receive`, `SpentElsewhere`, `Land`), the relayer indexes (`Index`), marks age in three spans (`Pass`)
and the user unlocks again (`Unlock`). The routes the client reads answer from any moment between request and use (`Served`,
`SpentAnswers`). Two constants say how the application behaves: with `Serial` it starts a call when the last one has ended,
and with `Paced` it completes a sync in every span of time (`checked`, which `Pass` waits for).

**`Fees`** follows a fee from quote to chain: `UsdPrice`, `Round2Sig` and `Flat` of `tokens.ts`, the pool list the SDK copies,
`QuotedFee` and `Spendable` of `pool.ts`, `MinFee` with its cached configuration and its tolerance in `main.ts`, and
`ProgramMinFee`. Actions move markets, refresh or lose prices, change the configuration, expire the cache, restart the relayer,
reopen the SDK, and take one request through `Quote`, `Send` (with `Admit`) and `Execute`. Times are ages in ticks.

**`TransferFees`** holds the formulas for Token-2022 transfer fees, of the library (external) and of `depositPreview`;
**`Deposit`** extends it to a deposit from the preview (`Schedule` and `Entry`, the cached fee with its epoch) over the
instructions (`Build`, `Committed`, the partner's cut) to the execution (`Land`) in whatever epoch that happens, with the
checks of the program that may refuse it: the root's age and the room in the tree, the minimum fee, the fee recipient against the one
the SDK keeps for its lifetime, the deposit limit (which the SDK does not look at), the balance and what arrives. Between
the two the mint's fee, the rate and the recipient, the limit and the tree may change. `GrossForCredited` is the search for
what to enter to be credited an amount.

**`Provision`** is the `pools` table against lookup tables and token accounts: `EnsureSolPool` and `Start` at boot,
`ReadEvent` of the poll, which starts one `provisionPool` per `PoolCreated` and does not wait for it, `EndPoll`, which marks the
transaction seen whatever became of that call, `AnswerNull` and `PollThrows`, the same call from `POST /pools`,
`SyncFeeRecipient` with `ReadConfig`, `Skip`, then `Send`, `SendReverts` or `SendThrows`, and `Store`; `RefreshLogo`
writes a whole old row back. Rounds of the timer overlap, since `setInterval` does not wait. `Crash` forgets every call. `lost` is a history
variable: the mints whose event was read in vain.

**`RateLimit`** is `allow` (`Read`, `Use`, `Request`) and the timer (`Sweep`, of any subset that is `Stale`); `Watch` moves a
history window over any stretch of time. **`IdealBucket`** is the promise: full buckets that are never deleted.

**`MC*`** name constants of instances; **`*_proofs`** hold the theorems (`Fees_proofs` those of `Deposit` too).

## Runs

| Run | Module, cfg | Instance | Properties |
|---|---|---|---|
| `merkle` | `MerkleTree`, `MCMerkleTree` | height 3, ring of 3, two leaf values | `ProgramRoots`, `AppendProofVerifies`, `MirrorFollows` |
| `pool` | `MCShieldPool`, same cfg | a SOL pool of 8 leaves and no token, ring of 3, amounts 0..2, a deposit limit that changes; 41,811 states | `NoDoubleSpend`, `RootWindow`, refinement `ImplementsLedger` |
| `pool_config` | `MCShieldPool`, `MCShieldPoolConfig` | SOL, a token withholding half of each transfer up to two units and a non-transferable mint, 4 leaves each, rates of 50, 100 and 100.01 %, margins 0 and 5 %, two possible authorities and recipients, withdrawals to the vault, gifts of one unit; 84,673 states | `Accounted`, `NotesNeverLocked`, `FeesOnlyToConfigured` |
| `indexer` | `Indexer`, `MCIndexer` | two pools, 3 transactions, one relay request, one crash, one RPC error, one null answer; 95,030 states | `StoreIsPrefix`, `CursorIsSafe`, `PollFindsNoGap`; liveness `EveryLeafIndexed` |
| `rate_limit` | `MCRateLimit`, same cfg | one client, a path with a limit of its own and two that share one, 9 ticks, buckets deleted after 4 | `WindowBound`, refinement `ImplementsIdeal` |
| `client` | `MCClient`, same cfg | one call after the other and a sync in every span, up to two payments or prepared payments of 2 or 5 (a merge), notes of 2, fee 1, 8 leaves, an error, an answered payment that is dropped, a note spent elsewhere; 6.4 million states | `ReservedExclusive`, `ReservedIsHeld`, `NotesOK`, `NothingLost`, `MarksAreRechecked`, `PaysWithLiveNotes` |
| `client_live` | `MCClient`, `MCClientLive` | one payment or prepared payment of 5 (a merge), an error, a drop, a second submission, a note spent elsewhere, an unlock; 492,463 states | liveness `BalanceConverges`, `CallsEnd` |
| `relay` | `MCRelay`, same cfg | two requests sharing a note, two signatures each, a blockhash valid for one block | `NeverTwoLive`, `OneAnswerPerNote`, refinement `ImplementsContract`, liveness `EveryRequestEnds` |
| `fees` | `MCFees`, same cfg | SOL and one token, prices 7, 8, 9 or none, three configurations, two moves; 2.1 million states | `FreshQuoteIsAccepted`, `DriftIsTolerated`, `NoMarketNoRelay`, `AdmittedIsPayable`, `SpendableFits` |
| `deposit` | `MCDeposit`, same cfg | four transfer fees with and without a cap that bites, two deposit rates, recipients and limits, a root that lives for one transaction, a tree that fills up, a partner, 15 units, 3 epochs, two changes; 1.05 million states | `DepositTypeOK`, `TakesAtMostEntered`, `FullBalanceWorks`, `GrossIsSmallest` |
| `provision` | `MCProvision`, same cfg | SOL and a token, one `provisionPool` at a time, from the poll or from a request, two rounds of the sync, one each of: change, revert, failure (a call or a poll that throws, a null answer, a closed mint), crash; 1.03 million states | `TypeOK`, `RowIsReady`; liveness `FollowsRecipient`, `CreatedIsRegistered` |
| `answered_is_indexed` | `Indexer`, `MCIndexerAnswered` | one pool, two transactions, one null answer | `AnsweredIsIndexed`, violated; see "Findings" |

Bounds, and why they are enough. The Merkle code treats every level alike: height 3 has left and right children, zero
and filled siblings and a full tree, and a ring of 3 wraps more than twice in 8 appends. Four transactions of a SOL pool
are a deposit and three more: enough to spend a note, try it again in either slot under either prefix and age a root out
of the ring. Fees are paid, rounded and refused with amounts up to 2; a rate of 10001 is there to be refused. Three
transactions let the poll hold two with a third arriving and a block listed backwards. A limiter bucket can be emptied,
deleted at the earliest moment and made again within 9 ticks. A fee of half a transfer makes
the gross of a deposit twice what is proved, and takes part of every withdrawal and fee; rounding and cap of the gross, for which
the pool's amounts are too small, are covered by `deposit` and by the proofs. The client has room for two open payments and for one
that merges first (5 of 2 + 2 + 2, with a fee of 1). Two requests and two signatures give every order of
expiry, resend and landing; a third signature repeats the second. Prices of 9 and 8 stand an eighth apart,
the edge of the tolerance, and the balances lie around the flat fees, where the spendable amount may oscillate. Two rounds
of the sync are an old and a new one.

`NotesNeverLocked` is the one to read first: whatever the configuration became, short of a fee of 100 % without a margin,
each unspent note can be withdrawn at once with *some* fee below its worth while the tree has room for two outputs. Both
restrictions are real: a full tree refuses withdrawals as well.

Several properties are conditional on what the code cannot do better: `CursorIsSafe` (that marked means stored), `PollFindsNoGap` and `EveryLeafIndexed` say
nothing after a null answer, `RowIsReady` nothing after a transaction that failed on chain, `FollowsRecipient` and
`CreatedIsRegistered` nothing of a closed mint, and `CreatedIsRegistered` nothing of a pool whose one call failed or died after
its transaction was marked seen, or whose transaction was answered null (`lost`): nothing repeats that call. `FullBalanceWorks` says that a deposit does not
fail for its *amounts*; it may fail because fee, rate or recipient moved, above the limit the SDK does not look at, with a
root that has left the ring, or in a full tree. What happens in these cases is under "Findings". `client` starts a call when the
last one has ended (prepared ones stay open), only payments fail there, not the requests of a sync (`ReadFailures`), the
wallet is unlocked once, and what was prepared is submitted once; an application that lets calls overlap keeps less, see
`MCClientOverlap` below. `MarksAreRechecked` asks for a sync in every span of time (`Paced`): a mark is checked again for three
minutes only, so a client that does not sync in them keeps a dropped payment's notes hidden (`MCClientHidden`).

Deadlock is not checked where a bound (a full tree, `MaxTx`, the clock, the events of a client, requests that have all
ended) stops the system; `fees`, `deposit` and `provision` never stop and are checked for it.

Fairness. `Indexer`: weak fairness of `Poll`, since `indexerLoop` never ends, catches every error and awaits calls that
return or throw. `Relay`: each request goes on and the height rises. `Client`: calls under way go on, the relayer
indexes, time passes, and the application calls `sync` again and again and submits or cancels what it prepared; nothing is
assumed of landing, drops or other devices. Time is strongly fair, since it stands still while an answer about nullifiers is
on its way, which takes less than a span.
`Provision`: the process is restarted, the timers fire, the poll goes on and calls return or throw; nobody needs to ask for a pool,
and a call that failed is not made again.
Crashes, errors and changes are never fair, and their number is bounded.

## Proofs

Each theorem holds for every value of the constants that satisfies the named `ASSUME`s of the module, which TLC evaluates
in the runs, and for every length of behaviour. None of the properties is inductive; each theorem rests on a stronger invariant
(`Init => IInv`, one lemma per action for `IInv /\ [Next]_vars => IInv'`, `IInv => property`). TLC checked each of these
invariants on the instance of its run before it was proved.

- **`ShieldPool_proofs`**: `NoDoubleSpendHolds`, `RootWindowHolds`, `OnePrefixHolds`, `FeesOnlyToConfiguredHolds` and
  `TypeCorrect` (no vault or wallet below zero). `IInv` adds `RingInv`, slot by slot the root that is so many appends old, and
  `SpentInv`, a count of at most one that is positive only with a nullifier account. One lemma per instruction; for
  transactions `SubmitIsTyped`, `TransactionMoves`, `TransactionWallets`, `UsesOnce`, `NotesAfterLemma`, `PushKeepsRing` and
  `InsertOutputsOk`, joined in `SettleKeeps`. What a transfer fee leaves and what the gross makes of it is bounded, not assumed to cancel
  (`NetBounds`, `GrossBounds`): the vault is credited what arrives, which the program compares with what was proved. `AccountedHolds` and `ImplementsLedgerHolds` rest on `ValueInv`: a vault holds
  its rent, the sum of its unspent notes and its surplus (`BackedInv`), the wallets and the vault of a mint without transfer fee add up to what there
  was (`ValueConserved`), and a recorded nullifier is that of a leaf or of a dummy of the past (`RecordedInv`; without it, a
  new leaf could be born spent). The refinement shows of each instruction which notes leave and enter the ledger; `NotesNeverLockedHolds`
  then gives for every note a fee with which the program accepts its withdrawal. Sums run over sets of any finite size; `SumFunction` is
  recursive, and the induction theorems of the library take an operator that no prover here can instantiate. `InductionOverNat`, from
  the well-foundedness of `<`, says the same of a *set* of numbers, and that can be cited; the next two modules use it as well.
- **`MerkleTree_proofs`**: `ProgramRootsHolds`, `AppendProofVerifiesHolds`, `MirrorFollowsHolds`, for every height, ring and sequence of
  leaves. Each recursive function first gets its equation (`PowerDef` to `RebuildDef`). Then, by induction on the level: a
  subtree without leaves has its zero as root, a full one no longer changes (`EmptyNode`, `FullNode`), so an append that hashes its
  way up through `filled_subtrees` computes the nodes of the reference tree on the path of the new leaf, and only those differ
  (`ClimbIsReference`); an incremental rebuild makes every layer that of the reference (`RebuildOk`), and the siblings on a path
  climb to the root (`PathClimbs`). `IInv` joins `TreeInv` (filled subtrees left of the next leaf are reference nodes, the ring holds the
  roots of the last appends, slot by slot) with `MirrorInv` (every layer is the reference's for the leaves it has). That a root drops out of the ring exactly
  when too old needs roots of different appends to differ (`RootsDiffer`): hashing is injective here, by construction of the nodes
  as pairs, and no tree hashes to 32 zero bytes (`RootAssumption`), the value of an unwritten slot.
- **`Indexer_proofs`**: `StoreIsPrefixHolds`, `CursorIsSafeHolds`, `PollFindsNoGapHolds`. `ChainInv`: the first leaves of a pool's
  transactions are the even numbers without a gap. `PollInv`: what a poll has listed is the run of transactions
  right after its cursor but for those marked seen, and what it has fetched of them the lower part of that. The heart is `Good`, which is asked
  of every state a write can be cut off in (`Torn`): rows are written downward closed and the cursor last, so that whatever a
  crash leaves is a store a restart can continue from. Two runs of one pool that touch are joined by `ApplyLeaves` into one.
- **`Client_proofs`**: `NotesOKHolds`, `NothingLostHolds`, `ReservedExclusiveHolds`, `ReservedIsHeldHolds`, `PaysWithLiveNotesHolds` and
  `NeverRemarkedHolds`. `IInv` is a conjunction of eight parts: `ChainInv` (leaves come and are indexed in
  pairs), `WireInv` (a landed request has spent its notes), `HeapInv` (one array of notes at most), `CallInv` (references are
  good, and of all calls at most one is on its way), `SyncInv` (the notes are those of the pages read up to the start of the sync under
  way; what it asked about, nobody reserves), `PayInv` (a request is for the notes of its call; none of them was in the answer of
  its sync), `MarkInv` (open payments hold disjoint sets of marked notes, together the reserved ones) and `ChooseInv` (between selection
  and reservation the notes picked are still unspent). The hypothesis `Sequential` is what the run `client` assumes as well: the application awaits one
  call before it starts the next, no request of a sync throws, the wallet is unlocked once and what was prepared is submitted once.
  Payments may fail anywhere, be dropped after their answer, or land after their error. Without the hypothesis these properties are
  false, as `MCClientPicked`, `MCClientTwice`, `MCClientLost`, `MCClientUnlock` and `MCClientAgain` show below.
  `MarksAreRecheckedHolds` adds `Paced` and, to `IInv`, `AgeInv`: a mark on an unspent note that no open payment holds is fresh once a
  sync was completed in this span, and one that awaits its answer has asked about the others.
  `NothingLostInOverlap` does without `Sequential`: after a first completed sync and as long as nothing is unlocked, no leaf that sync
  has gone past is missing, with any number of calls that overlap, requests that throw in any place and payments submitted again.
  Its invariant `OverlapInv` is one of its own: there is one array only, to which syncs only add, and no call is past a leaf whose
  note is not in it.
- **`RateLimit_proofs`**: `WindowBoundHolds`, `TypeCorrect`, and `ImplementsIdealHolds`, the whole refinement. `IInv` says of the
  window that what was granted and what the bucket's ideal level still holds is at most burst plus refill. The heart is
  `SweepLevel`: a bucket idle long enough to be deleted has refilled to its burst, from the assumption that the idle time
  suffices for every class.
- **`Relay_proofs`**: `NeverTwoLiveHolds`, `OneAnswerPerNoteHolds`, `TypeCorrect`, and `ImplementsContractHolds`. `IInv` says that
  all wires of earlier attempts have expired (`AttemptInv`), that a request is confirmed only if paid (`RequestInv`), and that
  landed transactions of two requests share no note (`NotesInv`).
- **`Provision_proofs`**: `RowIsReadyHolds`. A row is written from a copy that may be old, so `IInv` says of *every* row a call
  still holds that it is ready, and of what a call is about to store that account and table entry exist (`OkIn`); tables and
  accounts only grow, which keeps old copies ready (`RowsStayReady`). All under the condition that nothing failed on chain.
  `TypeCorrect` (one row per mint) holds without that condition: `RowInv` is `IInv` with every table and account there may be in place of
  those that exist, so that most of the lemmas serve both.
- **`Fees_proofs`**: `NoMarketNoRelayHolds` and `TypeCorrect` rest on `AgeInv`, which relates a price's age to how long its market has
  been gone, through refreshes, failures and restarts. `FreshQuoteIsAcceptedHolds`, `DriftIsToleratedHolds` and
  `AdmittedIsPayableHolds` rest on `PayInv`, which ties the cached configuration, the quote and the admitted request to the rates and
  prices they came from. Rounding to two digits is unique (one power of ten fits) and moves a fee by less than a tenth, so that an
  eighth between two prices stays within the tolerance of a fifth. They take for granted that a flat fee has two to eleven digits in
  the token's units (`UnitsAssumption`), and the last one a margin of 5 % or more, which is what `initialize` writes (`lib.rs:61`): with a
  narrower one the relayer's own tolerance lets through what the program refuses.
  About `Deposit`: `TakesAtMostEnteredHolds`, `FullBalanceWorksHolds` and `DepositTypeCorrect`, for any transfer fees, rates, recipients,
  limits, ring sizes and balance. The heart is `GrossDelivers`: what the program sends for `n` to arrive makes exactly `n` arrive, since the rounding up of the
  fee undoes that of the division, below the cap, at it and where they meet. `NetIs` shows that the SDK's net, lowered until its gross
  fits, exists and is none of those with a gross above the amount. `DepositInv` carries both from the preview to whatever epoch the
  transaction meets.
  `SpendableFitsHolds`: each of the six rounds of the SDK's search takes the distance between two guesses down to its share of the rate,
  rounded up (`RoundShrinks`), so that the sixth guess misses by no more than six such shares of the balance. The theorem assumes
  that this is at most 999 for every configuration and balance (`Converges`), which the thousand steps down then make good. It
  is a fact about numbers: at 0.25 % it holds up to 4 * 10^18 units, at 1 % up to 10^15, at 10 % up to 10^9, at 30 % up to 10^6, so for every
  configuration and balance of the run. Beyond it the search may stop too early.
  `GrossIsSmallestHolds`: more never arrives of less (`MoreArrives`), the net is the largest whose gross fits (`NetIsLargest`), and so
  the preview credits no less for more (`MoreIsCredited`). `Brackets` is the invariant of the search by halves: its end is enough, its
  start is not. The theorem assumes that no transfer fee is the whole amount (`TakesNotAll`; `MCDepositAll` below shows what happens then)
  and that one of the eight guesses was enough (`Sized`), where the code otherwise throws; that eight suffice is shown by the run
  alone, and is not true of a mint that takes nearly all.

Model-checked only: all liveness (fairness and `ENABLED` are out of the prover's reach; `EveryLeafIndexed`, `BalanceConverges`,
`CallsEnd`, `EveryRequestEnds`, `FollowsRecipient`, `CreatedIsRegistered`). Every other property the passing runs check is stated by a
theorem: without a condition or, where it is not true of every constant or every schedule, under the one named above.

## Findings

In `PROJECT.json`, and reproduced by these configurations. All but the first are instances kept beside the runs: TLC finds the
property violated.

| cfg (module) | Property | What it shows |
|---|---|---|
| `MCIndexerAnswered` (`Indexer`) | `AnsweredIsIndexed` | a null answer of `getTransaction` is taken for "no events" and marked seen: the request is answered, its leaves never stored, and every later leaf of the pool is missing |
| `MCIndexerMissing` (`Indexer`) | `MissingMeansNoHistory` | a request fails for missing history (`main.ts:439`) when an earlier transaction of the pool has just not been polled yet; the next poll stores both |
| `MCClientPicked` (`MCClient`) | `ReservedExclusive` | two calls overlap: both select a note before either has reserved it (`pool.ts:620`); their syncs may also push one leaf twice (`pool.ts:149`) |
| `MCClientAgain` (`MCClient`) | `ReservedExclusive` | a prepared payment whose submission failed gave its notes back; submitted again, it shares them with whoever took them since (`pool.ts:651`, against "Inputs are reserved until then", `pool.ts:613`) |
| `MCClientLost` (`MCClient`) | `NothingLost` | a first sync that throws at `/nullifiers` keeps its position but not its notes (`pool.ts:166`) |
| `MCClientTwice` (`MCClient`) | `NotesOK` | a later sync that throws at its second page leaves the first page's notes, and reads them again (`pool.ts:161`) |
| `MCClientUnlock` (`MCClient`) | `NeverRemarked` | after `unlock` the notes of an open prepared payment come back unspent (`pool.ts:83`) |
| `MCProvisionReverted` (`MCProvision`) | `AccountsExist` | `sendLegacy` ignores `value.err`: a failed transaction counts as confirmed, its row is stored and never repaired (`main.ts:324`) |
| `MCClientHidden` (`MCClient`) | `MarksAreRechecked` | a payment answered and dropped keeps its notes hidden after three minutes without a sync (`pool.ts:168`) |
| `MCClientVain` (`MCClient`) | `MergesAreNotInVain` | a payment close to the balance merges, pays for it and then throws (`pool.ts:291`) |
| `MCProvisionLost` (`MCProvision`) | `CreationsAreProvisioned` | the one `provisionPool` of a created pool fails and is not made again, since its transaction is marked seen (`main.ts:412`) |
| `MCRelayResign` (`MCRelay`) | `ResignsOnlyExpired` | an attempt that lands between the status and the height is signed again; the request ends in an error though paid (`main.ts:374`) |
| `MCDepositPartner` (`MCDeposit`) | `AmountIsAll` | a partner's cut leaves the wallet on top of the entered amount (`pool.ts:446`, against `sdk/README.md:25`) |
| `MCDepositEpoch` (`MCDeposit`) | `GrossWithinAmount` | a higher transfer fee that begins after the preview takes more than was entered (`pool.ts:338`) |
| `MCDepositAll` (`MCDeposit`) | `EveryMintHasPreview` | a transfer fee of 100 % divides by zero in `preFee` (`pool.ts:346`) |
| `MCFeesMost` (`MCFees`) | `SpendableIsMost` | just above the flat fee `spendable` offers nothing though something fits (`pool.ts:257`) |
| `MCProvisionBroken` (`MCProvision`) | `OthersFollow` | one mint that cannot have an account ends every round before the pools after it (`main.ts:312`) |

None of them spends a note twice or loses value in a vault: the program's properties hold throughout. `MCClientOverlap`
is a passing instance beside the runs: two overlapping calls, one of them after an error or a second submission, lose no note after a
first sync (`NothingLost`; 4.1 million states).

## Not modelled, and why

Key derivation, encryption, byte encodings and instruction builders (`keys.ts`, `notes.ts`, `utxo.ts`, `crypto.ts`, `extdata.ts`,
`program.ts`, `relayerApi.ts`) and the field encoding of `prover.ts` have no state and would be ideal functions here; Groth16 is
pairing arithmetic and assumed sound. Token search, names, logos, HTTP parsing and the RPC passthrough are input, output and
display. The scripts are straight-line administration. Integer widths: the program's arithmetic is checked and aborts, the SDK's is
`bigint`; both are outside the bounds. The error of floating-point prices is left out of `Fees`. Several mints of one
client are independent instances of `Client`; several relayer processes over one database are not foreseen by the code.
Circuit signatures and the prover's worker are taken for granted.

Further work the models are ready for: what the reservations still guarantee when calls overlap, which needs an application that
does not let two syncs of one mint run side by side.
