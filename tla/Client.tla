------------------------------- MODULE Client -------------------------------
(***************************************************************************)
(* The SDK's ShieldPool object (sdk/src/pool.ts): what one user's client   *)
(* knows of its notes of one mint, while it syncs, pays, merges and        *)
(* prepares payments, against the leaves the relayer serves and the        *)
(* nullifiers on the chain.                                                *)
(*                                                                         *)
(* Calls are asynchronous; JavaScript interleaves them where one awaits    *)
(* the network, a timer or another asynchronous method.  What follows such *)
(* an await up to the next one is one step here; time passes only while a  *)
(* call awaits the network or a timer.                                     *)
(* An answer is computed some time between the request and the step that   *)
(* uses it.  Note objects are mutable and shared: an array of notes is a   *)
(* cell of `heap`, and a first sync makes one of its own.                  *)
(*                                                                         *)
(* Abstractions.  Leaves are numbered from 1 and hold the amount of the    *)
(* note if it is the user's, 0 otherwise.  `need` is an amount with its    *)
(* fee.  The age of a spent mark is one of three spans.  An answer about   *)
(* nullifiers takes less than 45 s.                                        *)
(***************************************************************************)
EXTENDS Integers, Sequences, FiniteSets, FiniteSetsExt, SequencesExt

CONSTANTS
  Calls,        \* calls that can be under way at a time
  Payments,     \* operations offered besides sync: "pay" (withdraw, send), "prepare"
  Incoming,     \* amounts of the notes that arrive
  Needs,        \* amount plus fee of a payment
  Fee,          \* sendFee, what a merge costs
  Rounds,       \* merges one payment may try (6)
  Serial,       \* the application starts a call only when the last one has ended
  Warm,         \* a first sync was completed when the pool was still empty
  Paced,        \* the application completes a sync in every span of time
  ReadFailures, \* a request of sync may throw
  MaxLeaves,    \* bound: leaves of the pool
  Bounds        \* bounds: how often each event of Happens may occur

Happens == {"pays", "errors", "others", "drops", "unlocks", "again"}

ASSUME ClientAssumption ==
  /\ Incoming \subseteq Nat \ {0} /\ Needs \subseteq Nat \ {0}
  /\ Fee \in Nat /\ Rounds \in Nat /\ MaxLeaves \in Nat
  /\ Bounds \in [Happens -> Nat]
  /\ {Serial, Warm, Paced, ReadFailures} \subseteq BOOLEAN

VARIABLES
  leaves,    \* the chain: what each leaf is worth to the user
  consumed,  \* the chain: leaves whose nullifier exists
  indexed,   \* the relayer: how many leaves it serves
  wires,     \* the relayer: requests it was given, [ins, outs, state]
  heap,      \* note arrays
  current,   \* notes.get(mint): a cell of heap, 0 for none
  reserved,  \* the reserved set
  scanned,   \* scanned.get(mint)
  checked,   \* a sync was completed in this span of time
  call,      \* each call under way
  happened   \* how often each event occurred

chain == <<leaves, consumed, indexed>>
client == <<heap, current, reserved, scanned, checked>>
vars == <<chain, client, wires, call, happened>>

Leaf == 1 .. MaxLeaves

\* Ages of spentAt: none, less than 45 s, up to 3 minutes, more.
NoMark == 0
Fresh == 1
Recent == 2
Old == 3

NoCall ==
  [pc |-> "idle", op |-> "sync", frames |-> <<>>, arr |-> 0, start |-> 0, asof |-> 0,
   asked |-> {}, spentThen |-> {}, picked |-> {}, inputs |-> <<>>, sizes |-> {}, outs |-> <<0, 0>>,
   wire |-> 0, result |-> "none", merges |-> 0]

Init ==
  /\ leaves = <<>> /\ consumed = {} /\ indexed = 0 /\ wires = <<>>
  /\ heap = IF Warm THEN <<<<>>>> ELSE <<>>
  /\ current = Len(heap)
  /\ reserved = {} /\ scanned = 0 /\ checked = TRUE
  /\ call = [c \in Calls |-> NoCall]
  /\ happened = [h \in Happens |-> 0]

Count(h) ==
  /\ happened[h] < Bounds[h]
  /\ happened' = [happened EXCEPT ![h] = @ + 1]

-----------------------------------------------------------------------------
(* Notes *)

NewNote(leaf) == [leaf |-> leaf, spent |-> FALSE, age |-> NoMark]

\* notes.get(mint)
Notes == IF current = 0 THEN <<>> ELSE heap[current]

\* A note object: cell and position.
LeafAt(ref) == heap[ref[1]][ref[2]].leaf

\* What reserve and release make of a note.
Marked(note) == [note EXCEPT !.spent = TRUE, !.age = Fresh]
Unmarked(note) == [note EXCEPT !.spent = FALSE, !.age = NoMark]

\* Apply Op to the notes of some references.
Updated(h, refs, Op(_)) ==
  [a \in DOMAIN h |-> [p \in DOMAIN h[a] |->
     IF <<a, p>> \in refs THEN Op(h[a][p]) ELSE h[a][p]]]

\* The positions of an array that count for the balance.
Unspent(notes) == {p \in DOMAIN notes : ~notes[p].spent}

Worth(notes, positions) == MapThenSumSet(LAMBDA p : leaves[notes[p].leaf], positions)

\* The two largest unspent notes; sort leaves the order of equals open.
TopTwo(notes) ==
  {s \in kSubset(2, Unspent(notes)) :
     \A p \in s, q \in Unspent(notes) \ s : leaves[notes[p].leaf] >= leaves[notes[q].leaf]}

Largest(notes) ==
  {p \in Unspent(notes) : \A q \in Unspent(notes) : leaves[notes[p].leaf] >= leaves[notes[q].leaf]}

\* selectInputs: the largest note if it is enough, else the two largest.
Picks(notes, need) ==
  LET one == {{p} : p \in {q \in Largest(notes) : leaves[notes[q].leaf] >= need}}
  IN IF one # {} THEN one ELSE {s \in TopTwo(notes) : Worth(notes, s) >= need}

-----------------------------------------------------------------------------
(* Calls *)

Set(c, next) == call' = [call EXCEPT ![c] = next]
Ended(c, result) == [NoCall EXCEPT !.result = result, !.merges = call[c].merges]

Top(c) == Last(call[c].frames)
Held(c) == ToSet(call[c].inputs)
HeldLeaves(c) == {LeafAt(ref) : ref \in Held(c)}

\* How many leaves the relayer may have had when it answered a request for a
\* page, a path or the root.
Served(c) == call[c].asof .. indexed

\* Which of the notes asked about /nullifiers may have found spent: it reads
\* the accounts piece by piece, those of one prefix after those of the other.
SpentAnswers(c, asked) ==
  {call[c].spentThen \cup late : late \in SUBSET ((consumed \cap asked) \ call[c].spentThen)}

\* Nobody is between two steps; prepared payments may lie about.
Resting == {"idle", "prepared", "failed"}
Quiet == \A c \in Calls : call[c].pc \in Resting

\* sync, withdraw, send or prepareSend is called; it first awaits the
\* configuration and the fee.
Begin(c, op, frames) ==
  /\ call[c].pc \in {"idle", "failed"}
  /\ Serial => Quiet
  /\ Set(c, [NoCall EXCEPT !.pc = "sync", !.op = op, !.frames = frames])
  /\ UNCHANGED <<chain, wires, client>>

BeginSync(c) == Begin(c, "sync", <<>>) /\ UNCHANGED happened

BeginPay(c) ==
  \E op \in Payments, need \in Needs :
    Begin(c, op, <<[need |-> need, round |-> 0]>>) /\ Count("pays")

\* Mutant: a failed call leaves its reservations behind.
ReleaseLeaky(c) ==
  /\ heap' = Updated(heap, Held(c), Unmarked)
  /\ UNCHANGED reserved

\* release(inputs, false)
ReleaseUnspent(c) ==
  /\ heap' = Updated(heap, Held(c), Unmarked)
  /\ reserved' = reserved \ HeldLeaves(c)

\* release(inputs, true)
ReleaseSpent(c) ==
  /\ heap' = Updated(heap, Held(c), Marked)
  /\ reserved' = reserved \ HeldLeaves(c)

\* The application keeps a prepared payment that failed, to submit it again.
Kept(c) ==
  /\ call[c].op = "prepare" /\ Len(call[c].frames) = 1
  /\ call[c].pc \in {"relaying", "landing"}
  /\ happened["again"] < Bounds["again"]

\* The catch blocks: release, and throw.
Fail(c, result) ==
  /\ ReleaseUnspent(c)
  /\ Set(c, IF Kept(c) THEN [call[c] EXCEPT !.pc = "failed"] ELSE Ended(c, result))
  /\ UNCHANGED <<current, scanned, checked>>

-----------------------------------------------------------------------------
(* sync *)

\* Up to the first request: the array and the position are captured.
SyncStart(c) ==
  /\ call[c].pc = "sync"
  /\ heap' = IF current = 0 THEN Append(heap, <<>>) ELSE heap
  /\ Set(c, [call[c] EXCEPT !.pc = "page", !.start = scanned, !.asof = indexed,
                            !.arr = IF current = 0 THEN Len(heap) + 1 ELSE current])
  /\ UNCHANGED <<chain, wires, current, reserved, scanned, checked, happened>>

\* notes.set, the end of sync.
Synced(c, h) ==
  /\ heap' = h /\ current' = call[c].arr /\ checked' = TRUE
  /\ Set(c, IF call[c].op = "sync" THEN Ended(c, "done") ELSE [call[c] EXCEPT !.pc = "select"])
  /\ UNCHANGED reserved

\* Mutant: every mark is checked again, those of open payments as well.
CandidatesReserved(notes) ==
  {p \in DOMAIN notes : ~notes[p].spent \/ notes[p].age # NoMark}

\* Mutant: a mark is final.
CandidatesUnspent(notes) == {p \in DOMAIN notes : ~notes[p].spent}

\* The notes sync asks about: unspent ones, and the ones marked in the last
\* three minutes that no open payment holds.
Candidates(notes) ==
  {p \in DOMAIN notes :
     ~notes[p].spent \/ (notes[p].age \in {Fresh, Recent} /\ notes[p].leaf \notin reserved)}

\* Mutant: a page begins one leaf late.
NewLeavesSkipping(start, n) == {i \in start + 2 .. n : leaves[i] > 0}

\* Mutant: a page begins with the last leaf of the one before.
NewLeavesAgain(start, n) == {i \in start .. n : i > 0 /\ leaves[i] > 0}

\* The leaves of a page that the keys open, as zero-value notes are dropped.
NewLeaves(start, n) == {i \in start + 1 .. n : leaves[i] > 0}

\* A page: the leaves from start up to what the relayer served.  An empty one
\* ends the loop, and the nullifiers are asked for.  The order of an array says
\* nothing: notes are picked by their amounts.
SyncPage(c) ==
  /\ call[c].pc = "page"
  /\ UNCHANGED <<chain, wires, happened>>
  /\ \E n \in Served(c) :
       LET arr == call[c].arr
           start == call[c].start
           mine == SetToSeq(NewLeaves(start, n))
           asked == Candidates(heap[arr])
       IN IF n > start
          THEN /\ heap' = [heap EXCEPT ![arr] = @ \o [i \in DOMAIN mine |-> NewNote(mine[i])]]
               /\ Set(c, [call[c] EXCEPT !.start = n, !.asof = indexed])
               /\ UNCHANGED <<current, reserved, scanned, checked>>
          ELSE /\ scanned' = start
               /\ IF asked = {}
                  THEN Synced(c, heap)
                  ELSE /\ Set(c, [call[c] EXCEPT !.pc = "marks", !.asked = asked,
                              !.spentThen = consumed \cap {heap[arr][p].leaf : p \in asked}])
                       /\ UNCHANGED <<heap, current, reserved, checked>>

\* Mutant: the answer only confirms marks the client made itself.
CheckedOwn(note, spentNow) ==
  IF note.leaf \in spentNow /\ note.spent THEN [note EXCEPT !.age = NoMark]
  ELSE IF note.age = Fresh THEN note
  ELSE [note EXCEPT !.spent = FALSE]

\* What the answer makes of a note that was asked about: a nullifier on the
\* chain is final, a mark without one stands for 45 s.
Checked(note, spentNow) ==
  IF note.leaf \in spentNow THEN [note EXCEPT !.spent = TRUE, !.age = NoMark]
  ELSE IF note.age = Fresh THEN note
  ELSE [note EXCEPT !.spent = FALSE]

\* The answer of /nullifiers.
SyncMarks(c) ==
  /\ call[c].pc = "marks"
  /\ LET arr == call[c].arr
         asked == {heap[arr][p].leaf : p \in call[c].asked}
     IN \E spentNow \in SpentAnswers(c, asked) :
          Synced(c, Updated(heap, {<<arr, p>> : p \in call[c].asked},
                            LAMBDA note : Checked(note, spentNow)))
  /\ UNCHANGED <<chain, wires, scanned, happened>>

-----------------------------------------------------------------------------
(* selectInputsMerging, then reserve *)

\* A payment picks inputs, or merges the two largest notes first (consolidate,
\* a send of its own), or gives up.
Select(c) ==
  LET need == Top(c).need
      short == Worth(Notes, Unspent(Notes)) < need
      picks == Picks(Notes, need)
  IN /\ call[c].pc = "select"
     /\ \/ /\ Top(c).round = Rounds
           /\ Set(c, Ended(c, "not gathered"))
        \/ /\ Top(c).round < Rounds /\ short
           /\ Set(c, Ended(c, "exceeds"))
        \/ /\ Top(c).round < Rounds /\ ~short
           /\ \E picked \in picks :
                Set(c, [call[c] EXCEPT !.pc = "picked", !.arr = current, !.picked = picked])
        \/ /\ Top(c).round < Rounds /\ ~short /\ picks = {}
           /\ \E two \in TopTwo(Notes) :
                Set(c, [call[c] EXCEPT !.pc = "sync", !.arr = 0, !.start = 0, !.asked = {},
                          !.spentThen = {}, !.frames = Append(@, [need |-> Worth(Notes, two), round |-> 0])])
  /\ UNCHANGED <<chain, wires, client, happened>>

\* What was picked is reserved, once the selection has returned.
Reserve(c) ==
  LET refs == {<<call[c].arr, p>> : p \in call[c].picked}
  IN /\ call[c].pc = "picked"
     /\ heap' = Updated(heap, refs, Marked)
     /\ reserved' = reserved \cup {LeafAt(ref) : ref \in refs}
     /\ Set(c, [call[c] EXCEPT !.pc = "paths", !.picked = {}, !.inputs = SetToSeq(refs),
                               !.asof = indexed])
  /\ UNCHANGED <<chain, wires, current, scanned, checked, happened>>

-----------------------------------------------------------------------------
(* buildProof, relaying, and what follows *)

\* The paths of the inputs, each served from the tree of its moment.
Paths(c) ==
  /\ call[c].pc = "paths"
  /\ \E sizes \in SUBSET Served(c) :
       /\ sizes # {} /\ Cardinality(sizes) <= Len(call[c].inputs)
       /\ Set(c, [call[c] EXCEPT !.pc = "root", !.sizes = sizes, !.asof = indexed])
  /\ UNCHANGED <<chain, wires, client, happened>>

InSum(c) == MapThenSumSet(LAMBDA ref : leaves[LeafAt(ref)], Held(c))

\* The notes a payment creates: a merge pays the user, and change comes back.
Outputs(c) ==
  <<IF Len(call[c].frames) > 1 THEN Top(c).need - Fee ELSE 0, InSum(c) - Top(c).need>>

\* The request to the relayer, with the proof of these outputs.
Relay(c, outs) ==
  /\ wires' = Append(wires, [ins |-> [k \in DOMAIN call[c].inputs |-> LeafAt(call[c].inputs[k])],
                             outs |-> outs, state |-> "open"])
  /\ Set(c, [call[c] EXCEPT !.pc = "relaying", !.wire = Len(wires) + 1, !.sizes = {}])

\* The circuit checks every path against the one root.
Agree(sizes, root) == sizes = {root}

\* The circuit takes no negative amount: a merge of notes worth less than its
\* fee fails.
InRange(outs) == ToSet(outs) \subseteq Nat

\* The root, then the proof, which fails unless root and paths agree.
Root(c) ==
  /\ call[c].pc = "root"
  /\ \E root \in Served(c) :
       IF ~Agree(call[c].sizes, root) \/ ~InRange(Outputs(c))
       THEN Fail(c, "failed") /\ UNCHANGED wires
       ELSE /\ IF call[c].op = "prepare" /\ Len(call[c].frames) = 1
               THEN /\ Set(c, [call[c] EXCEPT !.pc = "prepared", !.sizes = {}, !.outs = Outputs(c)])
                    /\ UNCHANGED wires
               ELSE Relay(c, Outputs(c))
            /\ UNCHANGED client
  /\ UNCHANGED <<chain, happened>>

SubmitPrepared(c) ==
  /\ call[c].pc = "prepared"
  /\ Serial => Quiet
  /\ Relay(c, call[c].outs)
  /\ UNCHANGED <<chain, client, happened>>

\* A prepared payment that failed is submitted again.  Its notes were released,
\* and submitPrepared reserves none.
Resubmit(c) ==
  /\ call[c].pc = "failed"
  /\ Serial => Quiet
  /\ Count("again")
  /\ Relay(c, call[c].outs)
  /\ UNCHANGED <<chain, client>>

CancelPrepared(c) ==
  /\ call[c].pc = "prepared"
  /\ Fail(c, "cancelled")
  /\ UNCHANGED <<chain, wires, happened>>

\* The relayer answers with a signature: the transaction is confirmed.
Answered(c) ==
  /\ call[c].pc = "relaying"
  /\ wires[call[c].wire].state = "landed"
  /\ Set(c, [call[c] EXCEPT !.pc = "landing"])
  /\ UNCHANGED <<chain, wires, client, happened>>

\* It answers, and the transaction is then dropped after all.
AnsweredDropped(c) ==
  /\ call[c].pc = "relaying"
  /\ wires[call[c].wire].state = "open"
  /\ Count("drops")
  /\ wires' = [wires EXCEPT ![call[c].wire].state = "dropped"]
  /\ Set(c, [call[c] EXCEPT !.pc = "landing"])
  /\ UNCHANGED <<chain, client>>

\* Mutant: the request is awaited until its transaction has landed.
RefusedNever(c) == FALSE /\ Fail(c, "failed") /\ UNCHANGED <<chain, wires, happened>>

\* It answers with an error, or not at all; the transaction may land all the
\* same, now or later.
Refused(c) ==
  /\ call[c].pc = "relaying"
  /\ Fail(c, "failed")
  /\ UNCHANGED <<chain, wires, happened>>

\* assertLanded returns, be it because it gave up.  A merge goes on with the
\* payment it is for, after a timer and another sync.
Landed(c) ==
  /\ call[c].pc = "landing"
  /\ ReleaseSpent(c)
  /\ IF Len(call[c].frames) = 1
     THEN Set(c, Ended(c, "done"))
     ELSE LET outer == Front(call[c].frames)
          IN Set(c, [NoCall EXCEPT !.pc = "sync", !.op = call[c].op, !.merges = call[c].merges + 1,
                       !.frames = [outer EXCEPT ![Len(outer)].round = @ + 1]])
  /\ UNCHANGED <<chain, wires, current, scanned, checked, happened>>

\* A request throws, outside relay and outside sync or in it.
RequestFails(c) ==
  /\ call[c].pc \in {"sync", "paths", "root", "landing"}
                    \cup IF ReadFailures THEN {"page", "marks"} ELSE {}
  /\ Count("errors")
  /\ Fail(c, "failed")
  /\ UNCHANGED <<chain, wires>>

Progress(c) ==
  \/ SyncStart(c) \/ SyncPage(c) \/ SyncMarks(c) \/ Select(c) \/ Reserve(c)
  \/ Paths(c) \/ Root(c) \/ Answered(c) \/ Refused(c) \/ Landed(c)

-----------------------------------------------------------------------------
(* Everybody else *)

Grow(outs) ==
  /\ Len(leaves) + 2 <= MaxLeaves
  /\ leaves' = leaves \o outs

\* A deposit of the user, or a payment to them.
Receive ==
  /\ \E amount \in Incoming : Grow(<<amount, 0>>)
  /\ UNCHANGED <<consumed, indexed, wires, client, call, happened>>

\* The same keys on another device spend a note.
SpentElsewhere ==
  /\ \E i \in DOMAIN leaves \ consumed : leaves[i] > 0 /\ consumed' = consumed \cup {i}
  /\ Grow(<<0, 0>>)
  /\ Count("others")
  /\ UNCHANGED <<indexed, wires, client, call>>

\* A relayed transaction lands, once, if its notes are still unspent.
Land(w) ==
  /\ wires[w].state = "open"
  /\ IsInjective(wires[w].ins) /\ ToSet(wires[w].ins) \cap consumed = {}
  /\ Grow(wires[w].outs)
  /\ consumed' = consumed \cup ToSet(wires[w].ins)
  /\ wires' = [wires EXCEPT ![w].state = "landed"]
  /\ UNCHANGED <<indexed, client, call, happened>>

\* The relayer's indexer stores the leaves of a transaction.
Index ==
  /\ indexed < Len(leaves)
  /\ indexed' = indexed + 2
  /\ UNCHANGED <<leaves, consumed, wires, client, call, happened>>

Older(age) == IF age \in {Fresh, Recent} THEN age + 1 ELSE age

\* Time passes, and every mark gets older.
Pass ==
  /\ \A c \in Calls : call[c].pc \notin {"marks", "select", "picked"}
  /\ checked /\ checked' = ~Paced
  /\ heap' = [a \in DOMAIN heap |-> [p \in DOMAIN heap[a] |->
                [heap[a][p] EXCEPT !.age = Older(@)]]]
  /\ UNCHANGED <<chain, wires, current, reserved, scanned, call, happened>>

\* unlock forgets the notes, not the reservations.
Unlock ==
  /\ Quiet
  /\ Count("unlocks")
  /\ current' = 0 /\ scanned' = 0
  /\ UNCHANGED <<chain, wires, heap, reserved, checked, call>>

Next ==
  \/ \E c \in Calls :
       \/ BeginSync(c) \/ BeginPay(c)
       \/ SubmitPrepared(c) \/ CancelPrepared(c) \/ Resubmit(c)
       \/ SyncStart(c) \/ SyncPage(c) \/ SyncMarks(c) \/ Select(c) \/ Reserve(c)
       \/ Paths(c) \/ Root(c)
       \/ Answered(c) \/ AnsweredDropped(c) \/ Refused(c) \/ Landed(c)
       \/ RequestFails(c)
  \/ Receive \/ SpentElsewhere \/ Index \/ Pass \/ Unlock
  \/ \E w \in DOMAIN wires : Land(w)

Spec == Init /\ [][Next]_vars

\* Requests are answered or throw, the relayer indexes, time passes, and the
\* application syncs again and again and submits or cancels what it prepared.
FairSpec ==
  /\ Spec
  /\ \A c \in Calls : WF_vars(Progress(c)) /\ WF_vars(SubmitPrepared(c) \/ CancelPrepared(c))
  /\ WF_vars(Index)
  /\ SF_vars(Pass)
  /\ WF_vars(\E c \in Calls : BeginSync(c))

-----------------------------------------------------------------------------
(* Properties *)

Note == [leaf : Leaf, spent : BOOLEAN, age : NoMark .. Old]

\* What a variable may hold; and no leaf is two notes: "Your balance is the sum
\* of your unspent notes" (README.md:36).  This holds while calls run one after
\* another and no request of sync throws: pages that were read before a throw
\* are read again (MCClientTwice), and so are those of syncs that overlap.
NotesOK ==
  /\ leaves \in Seq(Nat) /\ Len(leaves) <= MaxLeaves
  /\ consumed \subseteq Leaf /\ indexed \in 0 .. Len(leaves)
  /\ \A a \in DOMAIN heap : heap[a] \in Seq(Note)
  /\ current \in 0 .. Len(heap) /\ reserved \subseteq Leaf /\ scanned \in 0 .. indexed
  /\ \A c \in Calls :
       /\ call[c].pc \in Resting \cup
            {"sync", "page", "marks", "select", "picked", "paths", "root", "relaying", "landing"}
       /\ call[c].arr \in 0 .. Len(heap) /\ call[c].wire \in 0 .. Len(wires)
       /\ Held(c) \subseteq UNION {{a} \X DOMAIN heap[a] : a \in DOMAIN heap}
  /\ \A p, q \in DOMAIN Notes : p # q => Notes[p].leaf # Notes[q].leaf

\* The open payments.
Holding == {c \in Calls : call[c].inputs # <<>> /\ call[c].pc # "failed"}

\* The comment in prepareSend, pool.ts:621: "from here nobody else can pick
\* these notes".  No two open payments spend one note, and none spends a note
\* twice.
ReservedExclusive ==
  /\ \A c \in Holding : Cardinality(HeldLeaves(c)) = Len(call[c].inputs)
  /\ \A c, d \in Holding : c # d => HeldLeaves(c) \cap HeldLeaves(d) = {}

\* The comment on `reserved`, pool.ts:56: the notes of an open payment are
\* "never re-marked unspent by sync", however long it stays open.
NeverRemarked == \A p \in DOMAIN Notes : Notes[p].leaf \in reserved => Notes[p].spent

\* Whatever throws where, a note is reserved as long as an open payment holds
\* it and no longer.
ReservedIsHeld == reserved = UNION {HeldLeaves(c) : c \in Holding}

\* allNotes, pool.ts:181: "every note the keys own in a pool, spent or not".
\* What sync has gone past, and does not ask for again, is in the notes, or in
\* the array that a sync is about to make them.  This holds while calls run one
\* after another and no request of sync throws; and after a first sync whatever
\* overlaps or throws, as long as nothing is unlocked again.
NothingLost ==
  LET arrays == ({current} \cup {call[c].arr : c \in {d \in Calls : call[d].pc = "marks"}}) \ {0}
  IN \A i \in 1 .. scanned : leaves[i] > 0 =>
       \E a \in arrays : \E p \in DOMAIN heap[a] : heap[a][p].leaf = i

\* The comment in sync, pool.ts:167: "a dropped or failed relay must not hide
\* funds".  As long as the application completes a sync in every span, a mark on
\* a note that is not spent will be checked again, or is that of an open payment.
MarksAreRechecked ==
  \A p \in DOMAIN Notes :
    Notes[p].spent /\ Notes[p].leaf \notin consumed =>
      Notes[p].age \in {Fresh, Recent} \/ Notes[p].leaf \in reserved

\* A payment never takes a note that its own sync could have seen spent.
PaysWithLiveNotes == \A c \in Holding : HeldLeaves(c) \cap call[c].spentThen = {}

\* Whatever the user does, and whatever is indexed late, refused, dropped after
\* an answer or spent elsewhere, the balance comes to be the notes that are
\* really unspent.
BalanceConverges ==
  <>[](\A i \in DOMAIN leaves : leaves[i] > 0 =>
         ((\E p \in DOMAIN Notes : Notes[p].leaf = i /\ ~Notes[p].spent) <=> i \notin consumed))

\* Every call returns or throws.
CallsEnd == \A c \in Calls : call[c].pc \notin Resting ~> call[c].pc \in Resting

\* A balance split over several notes is merged "when the amount needs them,
\* one flat fee per merge" (pool.ts:258): a payment does not pay for merges
\* and then find its balance too small.
MergesAreNotInVain ==
  \A c \in Calls : call[c].result \in {"exceeds", "not gathered"} => call[c].merges = 0
=============================================================================
