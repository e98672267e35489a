------------------------------ MODULE Provision ------------------------------
(***************************************************************************)
(* The relayer's side of a pool (relayer/src/main.ts, db.ts): a row in     *)
(* SQLite, a token account of the fee recipient and a lookup table with    *)
(* its address, set up when the poll reads that a pool was created, or     *)
(* when somebody asks for it (POST /pools), and adjusted each minute to    *)
(* the fee recipient of the chain.                                         *)
(*                                                                         *)
(* The poll starts the call of provisionPool and does not wait for it: if  *)
(* it fails, nobody starts another, for the transaction is marked seen at  *)
(* the end of the poll.                                                    *)
(*                                                                         *)
(* Calls interleave where they await the chain: a row read before an await *)
(* is written back after it.  A transaction may land although the call     *)
(* that sent it throws, and the process may die at any moment.             *)
(*                                                                         *)
(* Abstractions.  A row is its mint, table and fee account; an account is  *)
(* the pair of its owner and its mint.  Of a table only the owners of its  *)
(* fee accounts are kept.                                                  *)
(***************************************************************************)
EXTENDS Integers, Sequences

CONSTANTS
  SOL, Tokens,
  Recipients,       \* fee recipients the chain's configuration may name
  Provisioners,     \* calls of provisionPool that may be under way
  Syncers,          \* ... and of syncFeeRecipient
  Logos, Boot,      \* refreshLogos and ensureSolPool: one of each
  None,
  Breakable,        \* mints for which no account may be created any more
  MaxChanges, MaxFailures, MaxReverts, MaxCrashes  \* bounds

Mints == {SOL} \cup Tokens
Calls == Provisioners \cup Syncers \cup {Logos, Boot}

ASSUME ProvisionAssumption ==
  /\ SOL \notin Tokens /\ Breakable \subseteq Tokens
  /\ None \notin Recipients
  /\ Logos \notin Provisioners \cup Syncers \cup {Boot} /\ Boot \notin Provisioners \cup Syncers
  /\ Provisioners \cap Syncers = {}
  /\ {MaxChanges, MaxFailures, MaxReverts, MaxCrashes} \subseteq Nat

VARIABLES
  recipient,  \* chain: global_config.fee_recipient
  created,    \* chain: mints with a pool
  broken,     \* chain: mints whose accounts cannot be created
  accounts,   \* chain: fee accounts, <<owner, mint>>
  tables,     \* chain: lookup tables
  pools,      \* SQLite: the rows in order, [mint, alt, fee]
  event,      \* PoolCreated of a mint: "unread", "read" in this poll, or marked "seen"
  running,    \* the process has started and listens
  call,       \* calls under way
  lost,       \* history: mints whose event was read in vain
  budget      \* bounds: what may still happen

chain == <<recipient, created, broken, accounts, tables>>
poll == <<event, lost>>
vars == <<chain, pools, poll, running, call, budget>>

Idle == [pc |-> "idle", recipient |-> None, todo |-> <<>>, table |-> 0]
AllIdle == [c \in Calls |-> Idle]

Init ==
  /\ recipient \in Recipients /\ created = {} /\ broken = {}
  /\ accounts = {} /\ tables = <<>> /\ pools = <<>>
  /\ event = [m \in Tokens |-> "unread"] /\ lost = {}
  /\ running = FALSE /\ call = AllIdle
  /\ budget = [changes |-> MaxChanges, failures |-> MaxFailures,
               reverts |-> MaxReverts, crashes |-> MaxCrashes]

Spend(what) == budget[what] > 0 /\ budget' = [budget EXCEPT ![what] = @ - 1]

Has(m) == \E i \in DOMAIN pools : pools[i].mint = m

\* Mutant: a row is added whether or not there is one.
UpsertAlways(row) == Append(pools, row)

\* upsertPool; a table and an account are never null here.
Upsert(row) ==
  IF Has(row.mint)
  THEN [i \in DOMAIN pools |-> IF pools[i].mint = row.mint THEN row ELSE pools[i]]
  ELSE Append(pools, row)

\* setPoolAlt: an UPDATE, of the row as it was read and the new account.
SetPoolAlt(row, fee) ==
  [i \in DOMAIN pools |-> IF pools[i].mint = row.mint
                          THEN [pools[i] EXCEPT !.alt = row.alt, !.fee = fee] ELSE pools[i]]

\* A wallet is its own fee account for SOL.
Exists(owner, m) == m = SOL \/ <<owner, m>> \in accounts

Begin(c, pc, todo) ==
  /\ call[c].pc = "idle"
  /\ call' = [call EXCEPT ![c] = [pc |-> pc, recipient |-> None, todo |-> todo, table |-> 0]]

NewRow(m) == [mint |-> m, alt |-> 0, fee |-> None]

\* ensureSolPool, at startup and before each poll.
EnsureSolPool ==
  /\ ~Has(SOL) /\ Begin(Boot, "config", <<NewRow(SOL)>>)
  /\ UNCHANGED <<chain, pools, poll, running, budget>>

\* The end of startup; the icons are refreshed once.
Start ==
  /\ Has(SOL) /\ ~running /\ running' = TRUE
  /\ Begin(Logos, "meta", pools)
  /\ UNCHANGED <<chain, pools, poll, budget>>

\* Mutant: a fee account that exists counts as provisioned.
CompleteWithAccount(m) == Has(m) \/ \E owner \in Recipients : <<owner, m>> \in accounts

\* There is nothing to do for a row that is complete, as every row is.
Complete(m) == Has(m)

\* provisionPool, up to its first await.
ProvisionPool(c, m) ==
  IF Complete(m) THEN UNCHANGED call ELSE Begin(c, "config", <<NewRow(m)>>)

\* POST /pools: anybody may ask.
RegisterPool(c, m) ==
  /\ running /\ m \in created /\ ~Complete(m) /\ ProvisionPool(c, m)
  /\ UNCHANGED <<chain, pools, poll, running, budget>>

\* decodeSignature: the poll has read PoolCreated, and does not wait.
ReadEvent(c, m) ==
  /\ Has(SOL) /\ m \in created /\ event[m] = "unread"
  /\ event' = [event EXCEPT ![m] = "read"] /\ lost' = lost \ {m}
  /\ ProvisionPool(c, m)
  /\ UNCHANGED <<chain, pools, running, budget>>

\* ... or getTransaction answers null, and the poll goes on without it.
AnswerNull(m) ==
  /\ Has(SOL) /\ m \in created /\ event[m] = "unread" /\ Spend("failures")
  /\ event' = [event EXCEPT ![m] = "read"] /\ lost' = lost \cup {m}
  /\ UNCHANGED <<chain, pools, running, call>>

ReadBecomes(mark) == [m \in Tokens |-> IF event[m] = "read" THEN mark ELSE event[m]]

\* The end of poll: what it has read is marked seen.
EndPoll ==
  /\ \E m \in Tokens : event[m] = "read"
  /\ event' = ReadBecomes("seen")
  /\ UNCHANGED <<chain, pools, lost, running, call, budget>>

UnderWay(m) ==
  \E c \in Provisioners : call[c].pc # "idle" /\ call[c].todo[1].mint = m

\* The process dies, with the poll and all calls.
Die ==
  /\ call' = AllIdle /\ running' = FALSE
  /\ event' = ReadBecomes("unread")
  /\ lost' = lost \cup {m \in Tokens : event[m] = "seen" /\ UnderWay(m)}

\* A later transaction of the poll cannot be read or stored: all are read again,
\* in the next poll or, at startup, by the next process.
PollThrows ==
  /\ \E m \in Tokens : event[m] = "read"
  /\ Spend("failures")
  /\ IF running THEN event' = ReadBecomes("unread") /\ UNCHANGED <<lost, running, call>> ELSE Die
  /\ UNCHANGED <<chain, pools>>

\* Mutant: a pool that has an account is left alone.
CurrentAnyhow(row, owner) == row.fee # None

Current(row, owner) == row.fee = owner

\* The timer, which does not wait for the last round: after fetchGlobalConfig a
\* round takes all rows, as they are then, and is over if none is due.
SyncFeeRecipient(c) ==
  /\ Has(SOL) /\ call[c].pc = "idle"
  /\ IF \A i \in DOMAIN pools : Current(pools[i], recipient) THEN UNCHANGED call
     ELSE call' = [call EXCEPT ![c] =
            [pc |-> "send", recipient |-> recipient, todo |-> pools, table |-> 0]]
  /\ UNCHANGED <<chain, pools, poll, running, budget>>

\* After fetchGlobalConfig.
ReadConfig(c) ==
  /\ call[c].pc = "config"
  /\ call' = [call EXCEPT ![c] =
       [pc |-> "send", recipient |-> recipient, todo |-> call[c].todo, table |-> 0]]
  /\ UNCHANGED <<chain, pools, poll, running, budget>>

\* The next row of a loop, or its end.
NextRow(k, pc) ==
  IF Len(k.todo) = 1 THEN Idle
  ELSE [pc |-> pc, recipient |-> k.recipient, todo |-> Tail(k.todo), table |-> k.table]

Advanced(c, pc) == [call EXCEPT ![c] = NextRow(call[c], pc)]

\* A row with the right account is passed over.
Skip(c) ==
  /\ call[c].pc = "send" /\ Current(call[c].todo[1], call[c].recipient)
  /\ call' = Advanced(c, "send")
  /\ UNCHANGED <<chain, pools, poll, running, budget>>

\* Mutant: an existing table is not extended.
ExtendedNot(row, owner) ==
  IF row.alt = 0 THEN Append(tables, {owner}) ELSE tables

\* createLookupTable and extendLookupTable, or the latter only.
Extended(row, owner) ==
  IF row.alt = 0 THEN Append(tables, {owner})
  ELSE [tables EXCEPT ![row.alt] = @ \cup {owner}]

\* sendLegacy: the account and the table, in one transaction.
Land(row, owner) ==
  /\ row.mint \notin broken
  /\ accounts' = IF row.mint = SOL THEN accounts ELSE accounts \cup {<<owner, row.mint>>}
  /\ tables' = Extended(row, owner)
  /\ UNCHANGED <<recipient, created, broken>>

\* The address of a table is known before the table is there.
Sent(c) ==
  LET k == call[c]
  IN [call EXCEPT ![c] = [pc |-> "store", recipient |-> k.recipient, todo |-> k.todo,
        table |-> IF k.todo[1].alt = 0 THEN Len(tables) + 1 ELSE k.todo[1].alt]]

Due(c) == call[c].pc = "send" /\ ~Current(call[c].todo[1], call[c].recipient)

Send(c) ==
  /\ Due(c) /\ Land(call[c].todo[1], call[c].recipient) /\ call' = Sent(c)
  /\ UNCHANGED <<pools, poll, running, budget>>

\* It passed its preflight and fails on chain: confirmTransaction returns the
\* error in its value, which sendLegacy does not look at.
SendReverts(c) ==
  /\ Due(c) /\ Spend("reverts") /\ call' = Sent(c)
  /\ UNCHANGED <<chain, pools, poll, running>>

\* What is not read again, if this call fails.
Given(m) == IF event[m] = "unread" THEN {} ELSE {m}

\* It throws, landed or not: the call ends, and with ensureSolPool the startup.
SendThrows(c) ==
  /\ Due(c)
  /\ \/ Land(call[c].todo[1], call[c].recipient) /\ Spend("failures")
     \/ Spend("failures") /\ UNCHANGED chain
     \/ call[c].todo[1].mint \in broken /\ UNCHANGED <<chain, budget>>
  /\ call' = IF c = Boot /\ ~running THEN AllIdle ELSE [call EXCEPT ![c] = Idle]
  /\ lost' = IF c \in Provisioners THEN lost \cup Given(call[c].todo[1].mint) ELSE lost
  /\ UNCHANGED <<pools, event, running>>

\* What follows the confirmation.
Store(c) ==
  LET row == call[c].todo[1]
      stored == [row EXCEPT !.alt = call[c].table, !.fee = call[c].recipient]
  IN /\ call[c].pc = "store"
     /\ pools' = IF c \in Syncers THEN SetPoolAlt(row, call[c].recipient) ELSE Upsert(stored)
     /\ call' = Advanced(c, "send")
     /\ UNCHANGED <<chain, poll, running, budget>>

\* refreshLogos: the row is written back as it was read, or nothing was found.
RefreshLogo ==
  /\ call[Logos].pc = "meta"
  /\ pools' \in {pools, Upsert(call[Logos].todo[1])}
  /\ call' = Advanced(Logos, "meta")
  /\ UNCHANGED <<chain, poll, running, budget>>

-----------------------------------------------------------------------------
(* The chain and the process *)

CreatePool(m) ==
  /\ m \notin created /\ created' = created \cup {m}
  /\ UNCHANGED <<recipient, broken, accounts, tables, pools, poll, running, call, budget>>

UpdateConfig(owner) ==
  /\ owner # recipient /\ Spend("changes") /\ recipient' = owner
  /\ UNCHANGED <<created, broken, accounts, tables, pools, poll, running, call>>

\* A mint is closed: it takes no new accounts, a failure among the others.
Break(m) ==
  /\ m \notin broken /\ broken' = broken \cup {m}
  /\ Spend("failures")
  /\ UNCHANGED <<recipient, created, accounts, tables, pools, poll, running, call>>

Crash ==
  /\ Spend("crashes") /\ Die
  /\ UNCHANGED <<chain, pools>>

Step(c) ==
  ReadConfig(c) \/ Skip(c) \/ Send(c) \/ SendReverts(c) \/ SendThrows(c) \/ Store(c)

Next ==
  \/ EnsureSolPool
  \/ Start
  \/ \E c \in Provisioners, m \in Tokens : RegisterPool(c, m)
  \/ \E c \in Provisioners, m \in Tokens : ReadEvent(c, m)
  \/ \E m \in Tokens : AnswerNull(m)
  \/ EndPoll
  \/ PollThrows
  \/ \E c \in Syncers : SyncFeeRecipient(c)
  \/ \E c \in Calls : Step(c)
  \/ RefreshLogo
  \/ \E m \in Tokens : CreatePool(m)
  \/ \E owner \in Recipients : UpdateConfig(owner)
  \/ \E m \in Breakable : Break(m)
  \/ Crash

Spec == Init /\ [][Next]_vars

\* The process is restarted, its timers fire, its poll goes on and its requests
\* are answered.  Nobody needs to ask for a pool.
Fairness ==
  /\ WF_vars(EnsureSolPool) /\ WF_vars(Start) /\ WF_vars(RefreshLogo)
  /\ \A c \in Syncers : WF_vars(SyncFeeRecipient(c))
  /\ \A c \in Calls : WF_vars(Step(c))
  /\ \A m \in Tokens : WF_vars(\E c \in Provisioners : ReadEvent(c, m))
  /\ WF_vars(EndPoll)

FairSpec == Spec /\ Fairness

-----------------------------------------------------------------------------
(* Properties *)

TypeOK ==
  /\ recipient \in Recipients /\ created \subseteq Tokens /\ broken \subseteq Breakable
  /\ accounts \subseteq Recipients \X Tokens
  /\ \A i \in DOMAIN tables : tables[i] \subseteq Recipients
  /\ \A i \in DOMAIN pools :
       /\ pools[i].mint \in Mints
       /\ \A j \in DOMAIN pools : pools[i].mint = pools[j].mint => i = j
  /\ event \in [Tokens -> {"unread", "read", "seen"}] /\ lost \subseteq created
  /\ running \in BOOLEAN
  /\ \A c \in Calls : call[c].pc \in {"idle", "config", "send", "store", "meta"}

\* The fee account a row names exists and is in the row's table.
AccountsOf(row) ==
  /\ row.alt \in DOMAIN tables
  /\ Exists(row.fee, row.mint)
  /\ row.fee \in tables[row.alt]

\* While no transaction has failed on chain, what a row says is there, though
\* calls for one mint overlap, write back rows they read before an await, or
\* die between the transaction and the row (main.ts:240, 271-286, 175, 312-313).
RowIsReady ==
  budget.reverts = MaxReverts => \A i \in DOMAIN pools : AccountsOf(pools[i])

\* main.ts:237: "make sure our fee token account and the lookup table exist".
\* Not so once a transaction has failed on chain: its row is written all the same.
AccountsExist == \A i \in DOMAIN pools : AccountsOf(pools[i])

\* Each pool ends up with the fee account of the recipient the chain names,
\* however old the rows and recipients are that calls under way still write
\* (main.ts:292), unless the account of one cannot be created.
FollowsRecipient ==
  <>[](broken # {} \/ \A i \in DOMAIN pools : pools[i].fee = recipient)

\* A pool that was created gets its row without anybody asking for it, unless
\* its mint is closed, or the one call made for it fails or dies after the poll
\* that made it, or the transaction was answered null.  A process that dies
\* before the poll has ended, or a poll that throws, starts over (main.ts:404-412,
\* 467-471).
CreatedIsRegistered ==
  \A m \in Tokens : <>[](m \in created => Has(m) \/ m \in broken \/ m \in lost)

\* main.ts:399: "pool creations are provisioned as a side effect".  Not so if the
\* side effect fails: the transaction is marked seen all the same.
CreationsAreProvisioned == \A m \in Tokens : m \in created ~> (Has(m) \/ m \in broken)

\* main.ts:292: "make sure every pool has its token account and lookup-table
\* entry".  Not so for the pools after one whose account cannot be created.
OthersFollow ==
  <>[](\A i \in DOMAIN pools : pools[i].mint \notin broken => pools[i].fee = recipient)
=============================================================================
