------------------------------- MODULE Indexer -------------------------------
(***************************************************************************)
(* The relayer's indexer (relayer/src/main.ts, relayer/src/db.ts): it      *)
(* copies the leaves the program emits into a SQLite table and into one    *)
(* Merkle tree per pool in memory, from which the clients take their notes *)
(* and paths.                                                              *)
(*                                                                         *)
(* Two things write concurrently.  The indexer loop polls: it lists the    *)
(* signatures newer than its cursor, decodes them one RPC call at a time,  *)
(* and stores the batch.  A relay request indexes the transaction it just  *)
(* landed by itself.  JavaScript interleaves them only where one awaits,   *)
(* so what follows an await up to the next one is one step here; the       *)
(* process can die anywhere, also between two writes of such a step.       *)
(*                                                                         *)
(* Abstractions.  A signature is its position in the RPC node's listing of *)
(* the program's transactions; the listing of one block need not follow    *)
(* the order of execution.  A leaf is named by its transaction.  The pages *)
(* of getSignaturesForAddress are one answer, and the arrays of signatures *)
(* poll makes of them are sets, taken oldest first.  Confirmed blocks stay.*)
(***************************************************************************)
EXTENDS Integers, Sequences, FiniteSets, FiniteSetsExt, SequencesExt

CONSTANTS
  Mints,        \* pools
  Relays,       \* concurrent relay requests
  None,         \* stands for the pool of a transaction without leaves
  MaxTx,        \* bound: transactions of the program
  MaxCrashes,   \* bound: times the process dies
  MaxErrors,    \* bound: RPC calls of the poll that throw
  NullAnswers   \* bound: getTransaction calls answered with null

ASSUME BoundsAssumption ==
  /\ None \notin Mints
  /\ MaxTx \in Nat /\ MaxCrashes \in Nat /\ MaxErrors \in Nat /\ NullAnswers \in Nat

VARIABLES
  chain,    \* the node's listing, oldest first: [mint, idx of the first leaf]
  db,       \* SQLite: leaves table `rows`, `seen` table, `cursor` row
  trees,    \* `trees` in memory: the leaves of each pool, by signature
  poller,   \* the poll under way
  relays,   \* each relay request: [pc, sig]
  crashes, errors, nulls   \* how often each has happened

vars == <<chain, db, trees, poller, relays, crashes, errors, nulls>>

Signature == 1 .. MaxTx
Leaf == [mint : Mints, idx : Nat, signature : Signature]

Idle == [todo |-> {}, batch |-> {}, events |-> <<>>, last |-> 0]

\* The leaf events of a transaction: its two outputs.
Emitted(s) ==
  LET tx == chain[s]
  IN IF tx.mint = None THEN <<>>
     ELSE <<[mint |-> tx.mint, idx |-> tx.idx, signature |-> s],
            [mint |-> tx.mint, idx |-> tx.idx + 1, signature |-> s]>>

Stored(rows, m) == {row \in rows : row.mint = m}

\* The signatures of some leaves of one pool, ordered by index.
InOrder(leaves) ==
  [i \in 1 .. Cardinality(leaves) |->
     (CHOOSE e \in leaves : Cardinality({f \in leaves : f.idx < e.idx}) = i - 1).signature]

\* tree(mint): a tree not in memory is built from the table, ORDER BY idx.
Loaded(rows) == [m \in Mints |-> InOrder(Stored(rows, m))]

Init ==
  /\ chain = <<>>
  /\ db = [rows |-> {}, seen |-> {}, cursor |-> 0]
  /\ trees = Loaded({})
  /\ poller = Idle
  /\ relays = [r \in Relays |-> [pc |-> "none", sig |-> 0]]
  /\ crashes = 0 /\ errors = 0 /\ nulls = 0

-----------------------------------------------------------------------------
(* The chain, seen through the RPC node *)

NextIndex(m) == 2 * Cardinality({s \in DOMAIN chain : chain[s].mint = m})

\* The transaction of pool m that `before` others of its block precede.
Tx(m, before) == [mint |-> m, idx |-> NextIndex(m) + 2 * before]

\* The next block, in listing order: one or two transactions.
Blocks ==
  LET any == Mints \cup {None}
  IN {<<Tx(m, 0)>> : m \in any}
     \cup {<<Tx(m, 0), Tx(n, IF m = n THEN 1 ELSE 0)>> : m, n \in any}
     \cup {<<Tx(m, 1), Tx(m, 0)>> : m \in Mints}

\* A block is confirmed; one of its transactions may be what a relay request
\* was waiting for in sendV1.
Land(block) ==
  /\ Len(chain) + Len(block) <= MaxTx
  /\ chain' = chain \o block
  /\ \/ UNCHANGED relays
     \/ \E r \in Relays, k \in DOMAIN block :
          /\ relays[r].pc = "none"
          /\ block[k].mint # None
          /\ relays' = [relays EXCEPT ![r] = [pc |-> "landed", sig |-> Len(chain) + k]]
  /\ UNCHANGED <<db, trees, poller, crashes, errors, nulls>>

\* decodeSignature: the events of the transaction, or none at all when the
\* node answers null.
Decode(s, events) ==
  \/ events = Emitted(s) /\ UNCHANGED nulls
  \/ events = <<>> /\ Emitted(s) # <<>> /\ nulls < NullAnswers /\ nulls' = nulls + 1

-----------------------------------------------------------------------------
(* applyLeaves *)

EventsOf(events, m) == {e \in ToSet(events) : e.mint = m}

\* Pools are taken in the order their first event comes.
Rank(events, m) == Min({i \in DOMAIN events : events[i].mint = m} \cup {Len(events) + 1})

\* Mutant: whatever is not held yet is stored, gap or not.
InsertedAnyway(events, m) == {e \in EventsOf(events, m) : e.idx >= Len(trees[m])}

\* The leaves of m that extend its tree without a gap.  INSERT OR IGNORE does
\* not replace a row, and only a leaf whose row is new enters the tree.
Inserted(events, m) ==
  LET new == {e \in EventsOf(events, m) : e.idx >= Len(trees[m])}
      free == {e.idx : e \in new} \ {row.idx : row \in Stored(db.rows, m)}
  IN {e \in new : Len(trees[m]) .. e.idx \subseteq free}

\* A leaf of m lies beyond the next index: applyLeaves throws there.
Missing(events, m) ==
  LET next == Len(trees[m]) + Cardinality(Inserted(events, m))
  IN \E e \in EventsOf(events, m) : e.idx > next

Complete(events) == \A m \in Mints : ~Missing(events, m)

\* What applyLeaves inserts before it returns or throws: nothing of the
\* pools after the first that misses a leaf.
Applied(events) ==
  LET until == Min({Rank(events, m) : m \in {n \in Mints : Missing(events, n)}}
                   \cup {Len(events)})
  IN UNION {Inserted(events, m) : m \in {n \in Mints : Rank(events, n) <= until}}

Grown(events) == [m \in Mints |-> trees[m] \o InOrder(Stored(Applied(events), m))]

\* Mutant: the signatures are marked although a leaf was missing.
CommittedAnyway(events, batch, last) ==
  [rows |-> db.rows \cup Applied(events), seen |-> db.seen \cup batch,
   cursor |-> IF Complete(events) THEN last ELSE db.cursor]

\* applyLeaves, then markSeen for the batch, then setCursor; the latter two
\* are not reached when it throws.
Committed(events, batch, last) ==
  IF Complete(events)
  THEN [rows |-> db.rows \cup Applied(events), seen |-> db.seen \cup batch,
        cursor |-> last]
  ELSE [db EXCEPT !.rows = @ \cup Applied(events)]

Store(events, batch, last) ==
  /\ db' = Committed(events, batch, last)
  /\ trees' = Grown(events)

-----------------------------------------------------------------------------
(* poll *)

\* getSignaturesForAddress until the cursor.
Newer(cursor) == cursor + 1 .. Len(chain)

\* The listing; `fresh` is what was not seen when it arrived.  With nothing
\* fresh only the cursor moves.
PollRead ==
  LET fresh == Newer(db.cursor) \ db.seen
  IN /\ poller = Idle
     /\ Newer(db.cursor) # {}
     /\ IF fresh = {}
        THEN db' = [db EXCEPT !.cursor = Len(chain)] /\ UNCHANGED poller
        ELSE /\ poller' = [todo |-> fresh, batch |-> fresh, events |-> <<>>, last |-> Len(chain)]
             /\ UNCHANGED db
     /\ UNCHANGED <<chain, trees, relays, crashes, errors, nulls>>

\* One getTransaction, oldest first; after the last one the whole batch is
\* stored.
PollDecode ==
  LET s == Min(poller.todo)
  IN /\ poller # Idle
     /\ \E answer \in {<<>>, Emitted(s)} :
          /\ Decode(s, answer)
          /\ LET events == poller.events \o answer
             IN IF poller.todo # {s}
                THEN /\ poller' = [poller EXCEPT !.todo = @ \ {s}, !.events = events]
                     /\ UNCHANGED <<db, trees>>
                ELSE /\ Store(events, poller.batch, poller.last)
                     /\ poller' = Idle
     /\ UNCHANGED <<chain, relays, crashes, errors>>

Poll == PollRead \/ PollDecode

\* An RPC call throws: indexerLoop logs it and starts over.
PollError ==
  /\ poller # Idle
  /\ errors < MaxErrors
  /\ poller' = Idle
  /\ errors' = errors + 1
  /\ UNCHANGED <<chain, db, trees, relays, crashes, nulls>>

-----------------------------------------------------------------------------
(* The end of relay: indexSignature *)

\* Already seen: the request is answered with the signature.
RelayCheck(r) ==
  /\ relays[r].pc = "landed"
  /\ relays' = [relays EXCEPT ![r].pc = IF relays[r].sig \in db.seen THEN "answered"
                                                                     ELSE "decoding"]
  /\ UNCHANGED <<chain, db, trees, poller, crashes, errors, nulls>>

\* A leaf that is missing before its own makes the request fail.
RelayIndex(r) ==
  /\ relays[r].pc = "decoding"
  /\ \E answer \in {<<>>, Emitted(relays[r].sig)} :
       /\ Decode(relays[r].sig, answer)
       /\ Store(answer, {relays[r].sig}, db.cursor)
       /\ relays' = [relays EXCEPT ![r].pc = IF Complete(answer) THEN "answered" ELSE "failed"]
  /\ UNCHANGED <<chain, poller, crashes, errors>>

-----------------------------------------------------------------------------
(* The process dies and is started again *)

\* The order applyLeaves inserts in: by pool, by index within a pool.
Before(events, e, f) ==
  \/ Rank(events, e.mint) < Rank(events, f.mint)
  \/ e.mint = f.mint /\ e.idx < f.idx

\* What is about to be written: [events, batch, last].
Pending ==
  {[events |-> poller.events \o Emitted(s), batch |-> poller.batch, last |-> poller.last] :
     s \in {t \in Signature : poller.todo = {t}}}
  \cup
  {[events |-> Emitted(relays[r].sig), batch |-> {relays[r].sig}, last |-> db.cursor] :
     r \in {q \in Relays : relays[q].pc = "decoding"}}

\* Mutant: the cursor is written before the leaves.
TornCursorFirst(w) ==
  {[db EXCEPT !.cursor = w.last, !.rows = @ \cup cut] : cut \in SUBSET Applied(w.events)}

\* The states the database can be left in by a write that is cut off: some of
\* the leaves, then some of the seen marks.  Every statement is durable.
Torn(w) ==
  {[db EXCEPT !.rows = @ \cup {e \in Applied(w.events) : ~Before(w.events, last, e)}] :
     last \in Applied(w.events)}
  \cup
  {Committed(w.events, {s \in w.batch : s <= k}, db.cursor) : k \in 0 .. MaxTx}

Crash ==
  /\ crashes < MaxCrashes
  /\ \E left \in {db} \cup UNION {Torn(w) : w \in Pending} :
       db' = left /\ trees' = Loaded(left.rows)
  /\ poller' = Idle
  /\ relays' = [r \in Relays |-> [pc |-> "none", sig |-> 0]]
  /\ crashes' = crashes + 1
  /\ UNCHANGED <<chain, errors, nulls>>

Next ==
  \/ \E block \in Blocks : Land(block)
  \/ Poll
  \/ PollError
  \/ \E r \in Relays : RelayCheck(r) \/ RelayIndex(r)
  \/ Crash

Spec == Init /\ [][Next]_vars

\* indexerLoop polls for ever, and a poll goes on until it ends or throws.
FairSpec == Spec /\ WF_vars(Poll)

-----------------------------------------------------------------------------
(* Properties *)

TypeOK ==
  /\ chain \in Seq([mint : Mints \cup {None}, idx : Nat])
  /\ db \in [rows : SUBSET Leaf, seen : SUBSET Signature, cursor : 0 .. MaxTx]
  /\ trees \in [Mints -> Seq(Signature)]
  /\ poller \in [todo : SUBSET Signature, batch : SUBSET Signature, events : Seq(Leaf),
                 last : 0 .. MaxTx]
  /\ relays \in [Relays -> [pc : {"none", "landed", "decoding", "answered", "failed"},
                            sig : 0 .. MaxTx]]
  /\ crashes \in 0 .. MaxCrashes /\ errors \in 0 .. MaxErrors /\ nulls \in 0 .. NullAnswers

\* What the chain holds: every leaf of every transaction.
ChainLeaves == UNION {ToSet(Emitted(s)) : s \in DOMAIN chain}

\* The table of a pool holds the first n leaves of the chain, without a hole
\* and each at its own index, whatever was interleaved, answered with null or
\* cut off: /utxos may serve a full page as immutable (main.ts:731).
TableIsPrefix ==
  /\ db.rows \subseteq ChainLeaves
  /\ \A m \in Mints : {row.idx : row \in Stored(db.rows, m)}
                        = 0 .. Cardinality(Stored(db.rows, m)) - 1

\* The tree in memory is the tree of the table: the root /utxos answers with
\* belongs to the rows next to it, and INSERT OR IGNORE never ignores.
TreeIsTable == trees = Loaded(db.rows)

\* What /utxos serves, rows and root, is the chain's leaves from the first on.
StoreIsPrefix == TypeOK /\ TableIsPrefix /\ TreeIsTable

\* poll may start at the cursor: no transaction up to it is still unseen.
NothingUnseenBehindCursor == 1 .. db.cursor \subseteq db.seen

\* A transaction marked as seen, which is never decoded again, has all its
\* leaves in the table, unless the node answered null for one it had.
SeenIsStored == nulls = 0 => \A s \in db.seen : ToSet(Emitted(s)) \subseteq db.rows

\* Nothing is left behind for good: what a poll or a crash at any statement
\* moves the cursor past is marked seen, and what is marked seen is stored
\* (main.ts:470-475).
CursorIsSafe == NothingUnseenBehindCursor /\ SeenIsStored

\* The batch a poll is about to store has no gap: `missing leaves` is not
\* something the indexer loop can run into by itself, as long as the node
\* answers for the transactions it has.
PollFindsNoGap ==
  nulls = 0 =>
    \A s \in Signature : poller.todo = {s} => Complete(poller.events \o Emitted(s))

\* The table catches up with the chain again and again, so that every leaf
\* reaches it, whatever the relay requests do meanwhile and however the process
\* dies, unless the node answered null for a transaction it had.
EveryLeafIndexed == []<>(nulls > 0 \/ ChainLeaves \subseteq db.rows)

\* The comment on applyLeaves, main.ts:430: "a leaf beyond the next index
\* means missing history".  A request then fails only if the node did not
\* have a transaction.
MissingMeansNoHistory == (\E r \in Relays : relays[r].pc = "failed") => nulls > 0

\* The comment in relay, main.ts:581: "index right away so the client sees
\* its change note".  A request that is answered has its leaves stored.
AnsweredIsIndexed ==
  \A r \in Relays : relays[r].pc = "answered" => ToSet(Emitted(relays[r].sig)) \subseteq db.rows
=============================================================================
