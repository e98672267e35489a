-------------------------- MODULE Provision_proofs --------------------------
(***************************************************************************)
(* Proofs about Provision, for any number of pools, recipients and calls   *)
(* under way: what a row names exists, while no transaction has failed on  *)
(* chain; and there is one row for each mint, whatever fails.              *)
(*                                                                         *)
(* The inductive invariant says of each call what the rows it carries and  *)
(* the table it is about to store are worth.  It is inductive because      *)
(* accounts and tables only grow: a row that was ready when it was read is *)
(* ready when it is written back, however old it is.                       *)
(*                                                                         *)
(* The rows' types hold after a failed transaction as well, when the above *)
(* does not.  They need that a row in the database has a table and a       *)
(* recipient at all: the same lemmas with every table and account there    *)
(* may be in the place of those that exist.                                *)
(*                                                                         *)
(* What was read in vain was created: a call of provisionPool is for one   *)
(* pool that was.                                                          *)
(***************************************************************************)
EXTENDS Provision, SequenceTheorems, TLAPS

Row == [mint : Mints, alt : Nat, fee : Recipients \cup {None}]
CallState == [pc : {"idle", "config", "send", "store", "meta"},
              recipient : Recipients \cup {None}, todo : Seq(Row), table : Nat]

TypeInv ==
  /\ recipient \in Recipients
  /\ accounts \subseteq Recipients \X Tokens
  /\ tables \in Seq(SUBSET Recipients)
  /\ pools \in Seq(Row)
  /\ call \in [Calls -> CallState]

BudgetOk ==
  /\ budget \in [{"changes", "failures", "reverts", "crashes"} -> Nat]
  /\ budget.reverts <= MaxReverts

\* A row is ready with tables t and accounts a.
ReadyIn(t, a, row) ==
  /\ row.alt \in DOMAIN t
  /\ row.mint = SOL \/ <<row.fee, row.mint>> \in a
  /\ row.fee \in t[row.alt]

AllReadyIn(t, a, rows) == \A i \in DOMAIN rows : ReadyIn(t, a, rows[i])

Makers == Provisioners \cup {Boot}
Writers == Syncers \cup {Logos}

\* The call c in the state k.
OkIn(t, a, c, k) ==
  /\ k.pc \in {"send", "store", "meta"} => k.todo # <<>>
  /\ k.pc \in {"config", "send", "store"} => c # Logos
  /\ k.pc \in {"send", "store"} => k.recipient \in Recipients
  /\ c \in Writers => AllReadyIn(t, a, k.todo)
  /\ c \in Makers => \A i \in DOMAIN k.todo : k.todo[i].alt = 0
  /\ c \in Makers /\ k.pc = "config" => k.todo # <<>>
  /\ c \in Syncers => k.pc # "config"
  /\ k.pc = "store" =>
       /\ k.table \in DOMAIN t /\ k.recipient \in t[k.table]
       /\ k.todo[1].mint = SOL \/ <<k.recipient, k.todo[1].mint>> \in a
       /\ c \in Syncers => k.table = k.todo[1].alt

CallsOk == \A c \in Calls : OkIn(tables, accounts, c, call[c])

Good == TypeInv /\ AllReadyIn(tables, accounts, pools) /\ CallsOk

IInv == BudgetOk /\ (budget.reverts = MaxReverts => Good)

-----------------------------------------------------------------------------
(* Accounts and tables only grow *)

Grows(t, a, t2, a2) ==
  /\ DOMAIN t \subseteq DOMAIN t2 /\ a \subseteq a2
  /\ \A i \in DOMAIN t : t[i] \subseteq t2[i]

\* A row that is ready stays ready (main.ts:166-182, 293-316).
LEMMA ReadyStays ==
  ASSUME NEW t, NEW a, NEW t2, NEW a2, Grows(t, a, t2, a2), NEW row, ReadyIn(t, a, row)
  PROVE ReadyIn(t2, a2, row)
BY DEF Grows, ReadyIn

\* So do the rows a call carries, and what it is about to store.
LEMMA OkStays ==
  ASSUME NEW t, NEW a, NEW t2, NEW a2, Grows(t, a, t2, a2), NEW c, NEW k, OkIn(t, a, c, k)
  PROVE OkIn(t2, a2, c, k)
<1>1. c \in Writers => AllReadyIn(t2, a2, k.todo)
  BY ReadyStays DEF OkIn, AllReadyIn
<1>2. k.pc = "store" =>
        /\ k.table \in DOMAIN t2 /\ k.recipient \in t2[k.table]
        /\ k.todo[1].mint = SOL \/ <<k.recipient, k.todo[1].mint>> \in a2
  BY DEF OkIn, Grows
<1> QED BY <1>1, <1>2 DEF OkIn

\* One transaction: what existed still does, and the row it was for may be
\* stored (main.ts:252-271, 299-312).
LEMMA LandGrows ==
  ASSUME TypeInv, NEW row \in Row, row.alt = 0 \/ row.alt \in DOMAIN tables,
         NEW owner \in Recipients, Land(row, owner)
  PROVE /\ Grows(tables, accounts, tables', accounts')
        /\ accounts' \subseteq Recipients \X Tokens /\ tables' \in Seq(SUBSET Recipients)
        /\ recipient' = recipient
        /\ LET table == IF row.alt = 0 THEN Len(tables) + 1 ELSE row.alt
           IN /\ table \in DOMAIN tables' /\ owner \in tables'[table] /\ table \in Nat
              /\ row.mint = SOL \/ <<owner, row.mint>> \in accounts'
<1>1. accounts \subseteq accounts' /\ (row.mint = SOL \/ <<owner, row.mint>> \in accounts')
  BY DEF Land
<1>2. accounts' \subseteq Recipients \X Tokens
  BY DEF Land, TypeInv, Row, Mints
<1>3. CASE row.alt = 0
  <2>1. tables' = Append(tables, {owner})
    BY <1>3 DEF Land, Extended
  <2>2. /\ tables' \in Seq(SUBSET Recipients)
        /\ DOMAIN tables \subseteq DOMAIN tables'
        /\ \A i \in DOMAIN tables : tables[i] \subseteq tables'[i]
        /\ Len(tables) + 1 \in DOMAIN tables' /\ owner \in tables'[Len(tables) + 1]
        /\ Len(tables) + 1 \in Nat
    BY <2>1 DEF TypeInv
  <2> QED BY <1>1, <1>2, <1>3, <2>2 DEF Grows, Land
<1>4. CASE row.alt # 0
  <2>1. tables' = [tables EXCEPT ![row.alt] = @ \cup {owner}]
    BY <1>4 DEF Land, Extended
  <2>2. row.alt \in DOMAIN tables /\ row.alt \in Nat
    BY <1>4 DEF Row
  <2>3. /\ tables' \in Seq(SUBSET Recipients)
        /\ DOMAIN tables' = DOMAIN tables
        /\ \A i \in DOMAIN tables : tables[i] \subseteq tables'[i]
        /\ owner \in tables'[row.alt]
    BY <2>1, <2>2 DEF TypeInv
  <2> QED BY <1>1, <1>2, <1>4, <2>2, <2>3 DEF Grows, Land
<1> QED BY <1>3, <1>4

-----------------------------------------------------------------------------
(* The database and the loops *)

\* What upsertPool and setPoolAlt write is ready if the row is (db.ts:36-46).
LEMMA RowsStayReady ==
  ASSUME TypeInv, NEW t, NEW a, AllReadyIn(t, a, pools), NEW row \in Row
  PROVE /\ ReadyIn(t, a, row) =>
             Upsert(row) \in Seq(Row) /\ AllReadyIn(t, a, Upsert(row))
        /\ \A fee \in Recipients :
             ReadyIn(t, a, [row EXCEPT !.fee = fee]) =>
               SetPoolAlt(row, fee) \in Seq(Row) /\ AllReadyIn(t, a, SetPoolAlt(row, fee))
<1>1. ASSUME ReadyIn(t, a, row)
      PROVE Upsert(row) \in Seq(Row) /\ AllReadyIn(t, a, Upsert(row))
  <2>1. CASE Has(row.mint)
    <3>1. Upsert(row) = [i \in 1 .. Len(pools) |->
                           IF pools[i].mint = row.mint THEN row ELSE pools[i]]
      BY <2>1 DEF Upsert, TypeInv
    <3>2. Upsert(row) \in Seq(Row) /\ DOMAIN Upsert(row) = DOMAIN pools
      BY <3>1 DEF TypeInv
    <3>3. AllReadyIn(t, a, Upsert(row))
      BY <1>1, <3>1, <3>2 DEF AllReadyIn, TypeInv
    <3> QED BY <3>2, <3>3
  <2>2. CASE ~Has(row.mint)
    <3>1. Upsert(row) = Append(pools, row)
      BY <2>2 DEF Upsert
    <3> QED BY <1>1, <3>1 DEF AllReadyIn, TypeInv
  <2> QED BY <2>1, <2>2
<1>2. ASSUME NEW fee \in Recipients, ReadyIn(t, a, [row EXCEPT !.fee = fee])
      PROVE SetPoolAlt(row, fee) \in Seq(Row) /\ AllReadyIn(t, a, SetPoolAlt(row, fee))
  <2> DEFINE new(i) == IF pools[i].mint = row.mint
                       THEN [pools[i] EXCEPT !.alt = row.alt, !.fee = fee] ELSE pools[i]
  <2>1. SetPoolAlt(row, fee) = [i \in 1 .. Len(pools) |-> new(i)]
    BY DEF SetPoolAlt, TypeInv
  <2>2. \A i \in 1 .. Len(pools) : new(i) \in Row /\ ReadyIn(t, a, new(i))
    <3> SUFFICES ASSUME NEW i \in 1 .. Len(pools)
                 PROVE new(i) \in Row /\ ReadyIn(t, a, new(i))
      OBVIOUS
    <3>1. pools[i] \in Row /\ ReadyIn(t, a, pools[i])
      BY DEF TypeInv, AllReadyIn
    <3>2. CASE pools[i].mint = row.mint
      BY <1>2, <3>1, <3>2 DEF Row, ReadyIn
    <3>3. CASE pools[i].mint # row.mint
      BY <3>1, <3>3
    <3> QED BY <3>2, <3>3
  <2> HIDE DEF new
  <2>3. SetPoolAlt(row, fee) \in Seq(Row) /\ DOMAIN SetPoolAlt(row, fee) = 1 .. Len(pools)
    BY <2>1, <2>2 DEF TypeInv
  <2> QED BY <2>1, <2>2, <2>3 DEF AllReadyIn, TypeInv
<1> QED BY <1>1, <1>2

\* A call that is over carries nothing.
LEMMA IdleOk ==
  ASSUME NEW t, NEW a, NEW c
  PROVE Idle \in CallState /\ OkIn(t, a, c, Idle)
BY DEF Idle, CallState, OkIn, AllReadyIn

\* The next row of a loop, or its end (main.ts:167, 296).
LEMMA NextRowOk ==
  ASSUME NEW t, NEW a, NEW c, NEW pc \in {"send", "meta"}, NEW k \in CallState,
         OkIn(t, a, c, k), k.todo # <<>>,
         pc = "send" => c # Logos /\ k.recipient \in Recipients
  PROVE NextRow(k, pc) \in CallState /\ OkIn(t, a, c, NextRow(k, pc))
<1> DEFINE k2 == NextRow(k, pc)
           rest == Tail(k.todo)
<1>1. k.todo \in Seq(Row) /\ k.recipient \in Recipients \cup {None} /\ k.table \in Nat
  BY DEF CallState
<1>2. CASE Len(k.todo) = 1
  <2>1. k2 = Idle
    BY <1>2 DEF NextRow
  <2>2. Idle \in CallState /\ OkIn(t, a, c, Idle)
    BY IdleOk
  <2> QED BY <2>1, <2>2
<1>3. CASE Len(k.todo) # 1
  <2>1. /\ rest \in Seq(Row) /\ Len(rest) = Len(k.todo) - 1
        /\ \A i \in 1 .. Len(rest) : rest[i] = k.todo[i + 1]
    BY <1>1, HeadTailProperties
  <2>2. Len(k.todo) \in Nat /\ Len(k.todo) > 1
    <3>1. \A seq \in Seq(Row) : (seq = <<>>) <=> (Len(seq) = 0)
      BY EmptySeq, Zenon
    <3>2. Len(k.todo) # 0
      BY <1>1, <3>1
    <3>3. Len(k.todo) \in Nat
      BY <1>1
    <3>4. \A n \in Nat : n # 0 /\ n # 1 => n > 1
      OBVIOUS
    <3> QED BY <1>3, <3>2, <3>3, <3>4, Zenon
  <2>3. rest # <<>>
    <3>1. Len(<<>>) = 0
      OBVIOUS
    <3> HIDE DEF rest
    <3> QED BY <2>1, <2>2, <3>1
  <2>4. DOMAIN rest = 1 .. Len(rest) /\ DOMAIN k.todo = 1 .. Len(k.todo)
    BY <1>1, <2>1
  <2>5. \A i \in DOMAIN rest : i + 1 \in DOMAIN k.todo /\ rest[i] = k.todo[i + 1]
    BY <2>1, <2>2, <2>4
  <2> HIDE DEF rest
  <2>6. k2 = [pc |-> pc, recipient |-> k.recipient, todo |-> rest, table |-> k.table]
    BY <1>3 DEF NextRow, rest
  <2>7. k2 \in CallState
    BY <1>1, <2>1, <2>6 DEF CallState
  <2>8. k2.pc = pc /\ k2.todo = rest /\ k2.recipient = k.recipient
    BY <2>6
  <2> HIDE DEF k2
  <2>9. c \in Writers => AllReadyIn(t, a, rest)
    BY <2>5 DEF OkIn, AllReadyIn
  <2>10. c \in Makers => \A i \in DOMAIN rest : rest[i].alt = 0
    BY <2>5 DEF OkIn
  <2>11. OkIn(t, a, c, k2)
    BY <2>3, <2>8, <2>9, <2>10 DEF OkIn
  <2> QED BY <2>7, <2>11 DEF k2
<1> QED BY <1>2, <1>3

\* A step may disturb one call: the others are as good as they were.
LEMMA StepOk ==
  ASSUME Good, TypeInv', Grows(tables, accounts, tables', accounts'),
         AllReadyIn(tables', accounts', pools'),
         \A d \in Calls : \/ call'[d] = call[d]
                          \/ OkIn(tables', accounts', d, call'[d])
  PROVE Good'
<1> SUFFICES ASSUME NEW d \in Calls
             PROVE OkIn(tables', accounts', d, call'[d])
  BY DEF Good, CallsOk
<1>1. OkIn(tables, accounts, d, call[d])
  BY DEF Good, CallsOk
<1>2. OkIn(tables', accounts', d, call[d])
  BY <1>1, OkStays
<1> QED BY <1>2

\* The same for a step that changes neither chain nor rows.
LEMMA CallStepOk ==
  ASSUME Good, UNCHANGED <<accounts, tables, pools>>, recipient' \in Recipients,
         call' \in [Calls -> CallState],
         \A d \in Calls : \/ call'[d] = call[d]
                          \/ OkIn(tables, accounts, d, call'[d])
  PROVE Good'
<1>1. TypeInv'
  BY DEF Good, TypeInv
<1>2. Grows(tables, accounts, tables', accounts')
  BY DEF Grows
<1>3. AllReadyIn(tables', accounts', pools')
  BY DEF Good
<1> QED BY <1>1, <1>2, <1>3, StepOk

-----------------------------------------------------------------------------
(* The steps *)

\* Starting a call (main.ts:203, 238, 293, 167).
LEMMA BeginOk ==
  ASSUME Good, NEW c \in Calls, NEW pc \in {"config", "meta"}, NEW todo \in Seq(Row),
         Begin(c, pc, todo), UNCHANGED <<chain, pools>>,
         c = Logos <=> pc = "meta",
         c \in Makers => todo # <<>> /\ \A i \in DOMAIN todo : todo[i].alt = 0,
         c \in Writers => AllReadyIn(tables, accounts, todo),
         c \notin Syncers,
         pc = "meta" => todo # <<>>
  PROVE Good'
<1> DEFINE k == [pc |-> pc, recipient |-> None, todo |-> todo, table |-> 0]
<1>1. call' = [call EXCEPT ![c] = k]
  BY DEF Begin
<1>2. k \in CallState
  BY DEF CallState
<1>3. OkIn(tables, accounts, c, k)
  BY DEF OkIn
<1>4. call \in [Calls -> CallState] /\ recipient \in Recipients
  BY DEF Good, TypeInv
<1> HIDE DEF k
<1>5. call' \in [Calls -> CallState] /\ call'[c] = k /\ \A d \in Calls \ {c} : call'[d] = call[d]
  BY <1>1, <1>2, <1>4
<1> QED BY <1>3, <1>4, <1>5, CallStepOk DEF chain

\* A call that was read from the table of rows, or carries a new one.
LEMMA NewRowOk ==
  ASSUME NEW m \in Mints
  PROVE /\ <<NewRow(m)>> \in Seq(Row) /\ <<NewRow(m)>> # <<>>
        /\ \A i \in DOMAIN <<NewRow(m)>> : <<NewRow(m)>>[i].alt = 0
<1>1. NewRow(m) \in Row /\ NewRow(m).alt = 0
  BY DEF NewRow, Row
<1> HIDE DEF NewRow
<1> QED BY <1>1

LEMMA EnsureSolPoolOk ==
  ASSUME Good, EnsureSolPool
  PROVE Good'
<1>1. SOL \in Mints /\ Boot \in Calls /\ Boot \in Makers /\ Boot \notin Writers /\ Boot # Logos
  BY ProvisionAssumption DEF Mints, Calls, Makers, Writers
<1> QED BY <1>1, NewRowOk, BeginOk DEF EnsureSolPool, Writers

LEMMA StartOk ==
  ASSUME Good, Start
  PROVE Good'
<1>1. Logos \in Calls /\ Logos \notin Makers /\ Logos \notin Syncers
  BY ProvisionAssumption DEF Calls, Makers
<1>2. pools \in Seq(Row) /\ pools # <<>> /\ AllReadyIn(tables, accounts, pools)
  BY DEF Good, TypeInv, Start, Has
<1> QED BY <1>1, <1>2, BeginOk DEF Start

LEMMA ProvisionPoolOk ==
  ASSUME Good, NEW c \in Provisioners, NEW m \in Tokens,
         RegisterPool(c, m) \/ ReadEvent(c, m)
  PROVE Good'
<1>1. /\ call' = call \/ Begin(c, "config", <<NewRow(m)>>)
      /\ UNCHANGED <<chain, pools>>
  BY DEF RegisterPool, ReadEvent, ProvisionPool
<1>2. m \in Mints /\ c \in Calls /\ c \in Makers /\ c \notin Writers /\ c # Logos /\ c \notin Syncers
  BY ProvisionAssumption DEF Mints, Calls, Makers, Writers
<1>3. CASE Begin(c, "config", <<NewRow(m)>>)
  BY <1>1, <1>2, <1>3, NewRowOk, BeginOk
<1>4. CASE call' = call
  <2>1. call' \in [Calls -> CallState] /\ recipient' \in Recipients
    BY <1>1, <1>4 DEF Good, TypeInv, chain
  <2> QED BY <1>1, <1>4, <2>1, CallStepOk DEF chain
<1> QED BY <1>1, <1>3, <1>4

\* A round of the timer starts with the rows as they are (main.ts:293-296).
LEMMA RoundOk ==
  ASSUME TypeInv, NEW t, NEW a, AllReadyIn(t, a, pools),
         NEW c \in Syncers, SyncFeeRecipient(c)
  PROVE /\ call' \in [Calls -> CallState]
        /\ \A d \in Calls : \/ call'[d] = call[d]
                            \/ OkIn(t, a, d, call'[d])
<1> DEFINE k == [pc |-> "send", recipient |-> recipient, todo |-> pools, table |-> 0]
<1>1. c \in Calls /\ c \notin Makers /\ c # Logos
  BY ProvisionAssumption DEF Calls, Makers
<1>2. pools \in Seq(Row) /\ pools # <<>> /\ recipient \in Recipients /\ call \in [Calls -> CallState]
  BY DEF SyncFeeRecipient, Has, TypeInv
<1>3. k \in CallState
  BY <1>2 DEF CallState
<1>4. OkIn(t, a, c, k)
  BY <1>1, <1>2 DEF OkIn
<1>5. call' = call \/ call' = [call EXCEPT ![c] = k]
  BY DEF SyncFeeRecipient
<1> HIDE DEF k
<1> QED BY <1>1, <1>2, <1>3, <1>4, <1>5

LEMMA SyncFeeRecipientOk ==
  ASSUME Good, NEW c \in Syncers, SyncFeeRecipient(c)
  PROVE Good'
<1>1. TypeInv /\ AllReadyIn(tables, accounts, pools) /\ recipient \in Recipients
  BY DEF Good, TypeInv
<1>2. /\ call' \in [Calls -> CallState]
      /\ \A d \in Calls : \/ call'[d] = call[d]
                          \/ OkIn(tables, accounts, d, call'[d])
  BY <1>1, RoundOk
<1>3. UNCHANGED <<chain, pools>>
  BY DEF SyncFeeRecipient
<1> QED BY <1>1, <1>2, <1>3, CallStepOk DEF chain

\* After fetchGlobalConfig (main.ts:242).
LEMMA ConfigRead ==
  ASSUME TypeInv, NEW t, NEW a, NEW c \in Calls, OkIn(t, a, c, call[c]), ReadConfig(c)
  PROVE /\ call' \in [Calls -> CallState]
        /\ \A d \in Calls : \/ call'[d] = call[d]
                            \/ OkIn(t, a, d, call'[d])
<1> DEFINE k == [pc |-> "send", recipient |-> recipient, todo |-> call[c].todo, table |-> 0]
<1>1. call[c].pc = "config" /\ call' = [call EXCEPT ![c] = k]
  BY DEF ReadConfig
<1>2. call \in [Calls -> CallState] /\ call[c] \in CallState /\ recipient \in Recipients
  BY DEF TypeInv
<1>3. k \in CallState
  BY <1>2 DEF CallState
<1>4. c # Logos /\ c \in Makers /\ c \notin Syncers
  BY <1>1 DEF OkIn, Calls, Makers
<1>5. OkIn(t, a, c, k)
  BY <1>1, <1>2, <1>4 DEF OkIn
<1> HIDE DEF k
<1> QED BY <1>1, <1>2, <1>3, <1>5

LEMMA ReadConfigOk ==
  ASSUME Good, NEW c \in Calls, ReadConfig(c)
  PROVE Good'
<1>1. TypeInv /\ OkIn(tables, accounts, c, call[c]) /\ recipient \in Recipients
  BY DEF Good, CallsOk, TypeInv
<1>2. /\ call' \in [Calls -> CallState]
      /\ \A d \in Calls : \/ call'[d] = call[d]
                          \/ OkIn(tables, accounts, d, call'[d])
  BY <1>1, ConfigRead
<1>3. UNCHANGED <<chain, pools>>
  BY DEF ReadConfig
<1> QED BY <1>1, <1>2, <1>3, CallStepOk DEF chain

\* The end of one round of a loop.
LEMMA AdvancedOk ==
  ASSUME TypeInv, NEW t, NEW a, NEW c \in Calls, NEW pc \in {"send", "meta"},
         OkIn(t, a, c, call[c]), call[c].todo # <<>>,
         pc = "send" => c # Logos /\ call[c].recipient \in Recipients
  PROVE /\ Advanced(c, pc) \in [Calls -> CallState]
        /\ \A d \in Calls : \/ Advanced(c, pc)[d] = call[d]
                            \/ OkIn(t, a, d, Advanced(c, pc)[d])
<1>1. call \in [Calls -> CallState] /\ call[c] \in CallState
  BY DEF TypeInv
<1>2. NextRow(call[c], pc) \in CallState /\ OkIn(t, a, c, NextRow(call[c], pc))
  BY <1>1, NextRowOk
<1>3. Advanced(c, pc) = [call EXCEPT ![c] = NextRow(call[c], pc)]
  BY DEF Advanced
<1> QED BY <1>1, <1>2, <1>3

LEMMA SkipOk ==
  ASSUME Good, NEW c \in Calls, Skip(c)
  PROVE Good'
<1>1. call[c].pc = "send" /\ call' = Advanced(c, "send") /\ UNCHANGED <<chain, pools>>
  BY DEF Skip
<1>2. TypeInv /\ OkIn(tables, accounts, c, call[c])
  BY DEF Good, CallsOk
<1>3. call[c].todo # <<>> /\ c # Logos /\ call[c].recipient \in Recipients
  BY <1>1, <1>2 DEF OkIn
<1>4. /\ Advanced(c, "send") \in [Calls -> CallState]
      /\ \A d \in Calls : \/ Advanced(c, "send")[d] = call[d]
                          \/ OkIn(tables, accounts, d, Advanced(c, "send")[d])
  BY <1>2, <1>3, AdvancedOk
<1>5. recipient' \in Recipients
  BY <1>1, <1>2 DEF chain, TypeInv
<1> QED BY <1>1, <1>4, <1>5, CallStepOk DEF chain

\* A transaction lands, or is taken to have.
LEMMA SendOk ==
  ASSUME Good, NEW c \in Calls, Send(c)
  PROVE Good'
<1> DEFINE row == call[c].todo[1]
           owner == call[c].recipient
           table == IF row.alt = 0 THEN Len(tables) + 1 ELSE row.alt
           k == [pc |-> "store", recipient |-> owner, todo |-> call[c].todo, table |-> table]
<1>1. /\ call[c].pc = "send" /\ Land(row, owner) /\ call' = [call EXCEPT ![c] = k]
      /\ pools' = pools
  BY DEF Send, Due, Sent
<1>2. /\ TypeInv /\ OkIn(tables, accounts, c, call[c])
      /\ AllReadyIn(tables, accounts, pools) /\ call[c] \in CallState
  BY DEF Good, CallsOk, TypeInv
<1>3. c # Logos /\ owner \in Recipients /\ call[c].todo # <<>>
  BY <1>1, <1>2 DEF OkIn
<1>4. 1 \in DOMAIN call[c].todo /\ row \in Row
  BY <1>2, <1>3 DEF CallState
<1>5. c \in Makers \/ c \in Writers
  BY DEF Calls, Makers, Writers
<1>6. row.alt = 0 \/ row.alt \in DOMAIN tables
  BY <1>2, <1>4, <1>5 DEF OkIn, AllReadyIn, ReadyIn
<1>7. /\ Grows(tables, accounts, tables', accounts')
      /\ accounts' \subseteq Recipients \X Tokens /\ tables' \in Seq(SUBSET Recipients)
      /\ recipient' = recipient
      /\ table \in DOMAIN tables' /\ owner \in tables'[table] /\ table \in Nat
      /\ row.mint = SOL \/ <<owner, row.mint>> \in accounts'
  BY <1>1, <1>2, <1>3, <1>4, <1>6, LandGrows
<1>8. c \in Syncers => table = row.alt
  <2>1. c \in Syncers => row.alt \in DOMAIN tables
    BY <1>2, <1>4 DEF OkIn, Writers, AllReadyIn, ReadyIn
  <2>2. 0 \notin DOMAIN tables
    BY <1>2 DEF TypeInv
  <2> QED BY <2>1, <2>2
<1>9. k \in CallState
  BY <1>2, <1>3, <1>7 DEF CallState
<1>10. OkIn(tables', accounts', c, call[c])
  BY <1>1, <1>2, <1>7, OkStays
<1> HIDE DEF table
<1>11. OkIn(tables', accounts', c, k)
  BY <1>3, <1>7, <1>8, <1>10 DEF OkIn
<1> HIDE DEF k
<1>12. call' \in [Calls -> CallState] /\ call'[c] = k /\ \A d \in Calls \ {c} : call'[d] = call[d]
  BY <1>1, <1>2, <1>9 DEF TypeInv
<1>13. TypeInv'
  BY <1>1, <1>2, <1>7, <1>12 DEF TypeInv
<1>14. AllReadyIn(tables', accounts', pools')
  BY <1>1, <1>2, <1>7, ReadyStays DEF AllReadyIn
<1> QED BY <1>1, <1>7, <1>11, <1>12, <1>13, <1>14, StepOk

\* The call ends, whether its transaction landed or not.
LEMMA SendThrowsOk ==
  ASSUME Good, NEW c \in Calls, SendThrows(c)
  PROVE Good'
<1> DEFINE row == call[c].todo[1]
           owner == call[c].recipient
<1>1. /\ call[c].pc = "send" /\ pools' = pools
      /\ Land(row, owner) \/ UNCHANGED chain
      /\ call' = IF c = Boot /\ ~running THEN AllIdle ELSE [call EXCEPT ![c] = Idle]
  BY DEF SendThrows, Due
<1>2. /\ TypeInv /\ OkIn(tables, accounts, c, call[c])
      /\ AllReadyIn(tables, accounts, pools) /\ call[c] \in CallState
  BY DEF Good, CallsOk, TypeInv
<1>3. c # Logos /\ owner \in Recipients /\ call[c].todo # <<>>
  BY <1>1, <1>2 DEF OkIn
<1>4. 1 \in DOMAIN call[c].todo /\ row \in Row
  BY <1>2, <1>3 DEF CallState
<1>5. c \in Makers \/ c \in Writers
  BY DEF Calls, Makers, Writers
<1>6. row.alt = 0 \/ row.alt \in DOMAIN tables
  BY <1>2, <1>4, <1>5 DEF OkIn, AllReadyIn, ReadyIn
<1>7. /\ Grows(tables, accounts, tables', accounts') /\ recipient' = recipient
      /\ accounts' \subseteq Recipients \X Tokens /\ tables' \in Seq(SUBSET Recipients)
  <2>1. CASE Land(row, owner)
    BY <1>2, <1>3, <1>4, <1>6, <2>1, LandGrows
  <2>2. CASE UNCHANGED chain
    BY <1>2, <2>2 DEF chain, Grows, TypeInv
  <2> QED BY <1>1, <2>1, <2>2
<1>8. \A d \in Calls : Idle \in CallState /\ OkIn(tables', accounts', d, Idle)
  BY IdleOk
<1>9. /\ call' \in [Calls -> CallState]
      /\ \A d \in Calls : call'[d] = call[d] \/ call'[d] = Idle
  <2>1. CASE call' = AllIdle
    BY <1>8, <2>1 DEF AllIdle
  <2>2. CASE call' = [call EXCEPT ![c] = Idle]
    BY <1>2, <1>8, <2>2 DEF TypeInv
  <2> QED BY <1>1, <2>1, <2>2
<1>10. TypeInv'
  BY <1>1, <1>2, <1>7, <1>9 DEF TypeInv
<1>11. AllReadyIn(tables', accounts', pools')
  BY <1>1, <1>2, <1>7, ReadyStays DEF AllReadyIn
<1>12. \A d \in Calls : \/ call'[d] = call[d]
                        \/ OkIn(tables', accounts', d, call'[d])
  BY <1>8, <1>9
<1> QED BY <1>1, <1>7, <1>10, <1>11, <1>12, StepOk

\* A row is written and the loop goes on.
LEMMA WriteOk ==
  ASSUME Good, NEW c \in Calls, NEW pc \in {"send", "meta"}, UNCHANGED chain,
         call[c].todo # <<>>, pc = "send" => c # Logos /\ call[c].recipient \in Recipients,
         pools' \in Seq(Row), AllReadyIn(tables, accounts, pools'), call' = Advanced(c, pc)
  PROVE Good'
<1>1. /\ TypeInv /\ OkIn(tables, accounts, c, call[c])
      /\ recipient' = recipient /\ accounts' = accounts /\ tables' = tables
  BY DEF Good, CallsOk, chain
<1>2. Grows(tables, accounts, tables', accounts')
  BY <1>1 DEF Grows
<1>3. OkIn(tables', accounts', c, call[c])
  BY <1>1, <1>2, OkStays
<1>4. /\ Advanced(c, pc) \in [Calls -> CallState]
      /\ \A d \in Calls : \/ Advanced(c, pc)[d] = call[d]
                          \/ OkIn(tables', accounts', d, Advanced(c, pc)[d])
  BY <1>1, <1>3, AdvancedOk
<1>5. TypeInv'
  BY <1>1, <1>4 DEF TypeInv
<1> QED BY <1>1, <1>2, <1>4, <1>5, StepOk

LEMMA StoreOk ==
  ASSUME Good, NEW c \in Calls, Store(c)
  PROVE Good'
<1> DEFINE row == call[c].todo[1]
           owner == call[c].recipient
           stored == [row EXCEPT !.alt = call[c].table, !.fee = owner]
<1>1. /\ call[c].pc = "store" /\ UNCHANGED chain /\ call' = Advanced(c, "send")
      /\ pools' = IF c \in Syncers THEN SetPoolAlt(row, owner) ELSE Upsert(stored)
  BY DEF Store
<1>2. /\ TypeInv /\ OkIn(tables, accounts, c, call[c])
      /\ AllReadyIn(tables, accounts, pools) /\ call[c] \in CallState
  BY DEF Good, CallsOk, TypeInv
<1>3. c # Logos /\ owner \in Recipients /\ call[c].todo # <<>>
  BY <1>1, <1>2 DEF OkIn
<1>4. 1 \in DOMAIN call[c].todo /\ row \in Row /\ call[c].table \in Nat
  BY <1>2, <1>3 DEF CallState
<1>5. /\ call[c].table \in DOMAIN tables /\ owner \in tables[call[c].table]
      /\ row.mint = SOL \/ <<owner, row.mint>> \in accounts
      /\ c \in Syncers => call[c].table = row.alt
  BY <1>1, <1>2 DEF OkIn
<1>6. /\ pools' \in Seq(Row)
      /\ AllReadyIn(tables, accounts, pools')
  <2>1. CASE c \in Syncers
    <3>1. ReadyIn(tables, accounts, [row EXCEPT !.fee = owner])
      BY <1>4, <1>5, <2>1 DEF ReadyIn, Row
    <3> HIDE DEF row, owner
    <3> QED BY <1>1, <1>2, <1>3, <1>4, <2>1, <3>1, RowsStayReady
  <2>2. CASE c \notin Syncers
    <3>1. stored \in Row
      BY <1>3, <1>4 DEF Row
    <3>2. ReadyIn(tables, accounts, stored)
      BY <1>4, <1>5 DEF ReadyIn, Row
    <3> HIDE DEF stored
    <3> QED BY <1>1, <1>2, <2>2, <3>1, <3>2, RowsStayReady
  <2> QED BY <2>1, <2>2
<1> QED BY <1>1, <1>3, <1>6, WriteOk

LEMMA RefreshLogoOk ==
  ASSUME Good, RefreshLogo
  PROVE Good'
<1> DEFINE row == call[Logos].todo[1]
<1>1. /\ call[Logos].pc = "meta" /\ UNCHANGED chain /\ call' = Advanced(Logos, "meta")
      /\ pools' = pools \/ pools' = Upsert(row)
  BY DEF RefreshLogo
<1>2. Logos \in Calls /\ Logos \in Writers
  BY DEF Calls, Writers
<1>3. /\ TypeInv /\ OkIn(tables, accounts, Logos, call[Logos])
      /\ AllReadyIn(tables, accounts, pools) /\ call[Logos] \in CallState
      /\ pools \in Seq(Row)
  BY <1>2 DEF Good, CallsOk, TypeInv
<1>4. call[Logos].todo # <<>>
  BY <1>1, <1>3 DEF OkIn
<1>5. 1 \in DOMAIN call[Logos].todo /\ row \in Row
  BY <1>3, <1>4 DEF CallState
<1>6. ReadyIn(tables, accounts, row)
  BY <1>2, <1>3, <1>5 DEF OkIn, AllReadyIn
<1> HIDE DEF row
<1>7. /\ Upsert(row) \in Seq(Row)
      /\ AllReadyIn(tables, accounts, Upsert(row))
  BY <1>3, <1>5, <1>6, RowsStayReady
<1>8. /\ pools' \in Seq(Row)
      /\ AllReadyIn(tables, accounts, pools')
  BY <1>1, <1>3, <1>7
<1> QED BY <1>1, <1>2, <1>4, <1>8, WriteOk

\* What goes on outside the relayer, and its death.
LEMMA WorldOk ==
  ASSUME Good,
         \/ \E m \in Tokens : CreatePool(m) \/ AnswerNull(m)
         \/ \E owner \in Recipients : UpdateConfig(owner)
         \/ \E m \in Breakable : Break(m)
         \/ EndPoll \/ PollThrows \/ Crash
         \/ UNCHANGED vars
  PROVE Good'
<1>1. /\ UNCHANGED <<accounts, tables, pools>> /\ recipient' \in Recipients
      /\ call' = call \/ call' = AllIdle
  BY DEF CreatePool, AnswerNull, UpdateConfig, Break, EndPoll, PollThrows, Crash, Die, chain,
         vars, Good, TypeInv
<1>2. \A d \in Calls : Idle \in CallState /\ OkIn(tables, accounts, d, Idle)
  BY IdleOk
<1>3. /\ call' \in [Calls -> CallState]
      /\ \A d \in Calls : call'[d] = call[d] \/ call'[d] = Idle
  BY <1>1, <1>2 DEF AllIdle, Good, TypeInv
<1> QED BY <1>1, <1>2, <1>3, CallStepOk

-----------------------------------------------------------------------------
(* The invariant *)

LEMMA InitOk == Init => IInv
<1> SUFFICES ASSUME Init PROVE IInv
  OBVIOUS
<1>1. BudgetOk
  BY ProvisionAssumption DEF Init, BudgetOk
<1>2. \A d \in Calls : Idle \in CallState /\ OkIn(tables, accounts, d, Idle)
  BY IdleOk
<1>3. call \in [Calls -> CallState] /\ \A d \in Calls : call[d] = Idle
  BY <1>2 DEF Init, AllIdle
<1>4. TypeInv
  BY <1>3 DEF Init, TypeInv
<1>5. AllReadyIn(tables, accounts, pools)
  BY DEF Init, AllReadyIn
<1>6. CallsOk
  BY <1>2, <1>3 DEF CallsOk
<1> QED BY <1>1, <1>4, <1>5, <1>6 DEF IInv, Good

\* What was spent does not come back.
LEMMA SpendOk ==
  ASSUME BudgetOk, NEW what \in {"changes", "failures", "reverts", "crashes"}, Spend(what)
  PROVE /\ BudgetOk' /\ budget'.reverts <= budget.reverts
        /\ what = "reverts" => budget'.reverts < budget.reverts
<1> DEFINE kinds == {"changes", "failures", "reverts", "crashes"}
<1>1. /\ budget \in [kinds -> Nat] /\ budget["reverts"] <= MaxReverts /\ budget[what] > 0
      /\ budget' = [budget EXCEPT ![what] = budget[what] - 1]
  BY DEF BudgetOk, Spend
<1>2. MaxReverts \in Nat /\ budget[what] - 1 \in Nat
  BY <1>1, ProvisionAssumption
<1>3. budget' \in [kinds -> Nat]
  BY <1>1, <1>2
<1>4. budget'["reverts"] = IF what = "reverts" THEN budget["reverts"] - 1 ELSE budget["reverts"]
  BY <1>1
<1>5. /\ budget'["reverts"] <= budget["reverts"] /\ budget'["reverts"] <= MaxReverts
      /\ what = "reverts" => budget'["reverts"] < budget["reverts"]
  BY <1>1, <1>2, <1>4
<1> QED BY <1>3, <1>5 DEF BudgetOk

LEMMA BudgetStays ==
  ASSUME BudgetOk, [Next]_vars
  PROVE BudgetOk' /\ budget'.reverts <= budget.reverts
<1>1. \/ budget' = budget
      \/ \E what \in {"changes", "failures", "reverts", "crashes"} : Spend(what)
  BY DEF Next, vars, EnsureSolPool, Start, RegisterPool, ReadEvent, AnswerNull, EndPoll,
         PollThrows, SyncFeeRecipient, Step, ReadConfig,
         Skip, Send, SendReverts, SendThrows, Store, RefreshLogo, CreatePool, UpdateConfig,
         Break, Crash
<1>2. CASE budget' = budget
  BY <1>2 DEF BudgetOk
<1>3. CASE \E what \in {"changes", "failures", "reverts", "crashes"} : Spend(what)
  BY <1>3, SpendOk
<1> QED BY <1>1, <1>2, <1>3

LEMMA StepKeepsGood ==
  ASSUME Good, NEW c \in Calls, Step(c), BudgetOk, budget'.reverts = budget.reverts
  PROVE Good'
<1>1. ~SendReverts(c)
  BY SpendOk DEF SendReverts, BudgetOk
<1>2. CASE ReadConfig(c)
  BY <1>2, ReadConfigOk
<1>3. CASE Skip(c)
  BY <1>3, SkipOk
<1>4. CASE Send(c)
  BY <1>4, SendOk
<1>5. CASE SendThrows(c)
  BY <1>5, SendThrowsOk
<1>6. CASE Store(c)
  BY <1>6, StoreOk
<1> QED BY <1>1, <1>2, <1>3, <1>4, <1>5, <1>6 DEF Step

LEMMA NextOk == IInv /\ [Next]_vars => IInv'
<1> SUFFICES ASSUME IInv, [Next]_vars PROVE IInv'
  OBVIOUS
<1>1. BudgetOk' /\ budget'.reverts <= budget.reverts
  BY BudgetStays DEF IInv
<1> SUFFICES ASSUME budget'.reverts = MaxReverts PROVE Good'
  BY <1>1 DEF IInv
<1>2. budget'.reverts = budget.reverts /\ BudgetOk /\ Good
  BY <1>1, ProvisionAssumption DEF IInv, BudgetOk
<1>3. CASE EnsureSolPool
  BY <1>2, <1>3, EnsureSolPoolOk
<1>4. CASE Start
  BY <1>2, <1>4, StartOk
<1>5. CASE \E c \in Provisioners, m \in Tokens : RegisterPool(c, m) \/ ReadEvent(c, m)
  BY <1>2, <1>5, ProvisionPoolOk
<1>6. CASE \E c \in Syncers : SyncFeeRecipient(c)
  BY <1>2, <1>6, SyncFeeRecipientOk
<1>7. CASE \E c \in Calls : Step(c)
  BY <1>2, <1>7, StepKeepsGood
<1>8. CASE RefreshLogo
  BY <1>2, <1>8, RefreshLogoOk
<1>9. CASE \/ \E m \in Tokens : CreatePool(m) \/ AnswerNull(m)
           \/ \E owner \in Recipients : UpdateConfig(owner)
           \/ \E m \in Breakable : Break(m)
           \/ EndPoll \/ PollThrows \/ Crash
           \/ UNCHANGED vars
  BY <1>2, <1>9, WorldOk
<1> QED BY <1>3, <1>4, <1>5, <1>6, <1>7, <1>8, <1>9 DEF Next

\* Calls under way carry rows that were ready when they were read, and what
\* they are about to store is on chain (main.ts:203-316).
THEOREM Invariant == Spec => []IInv
BY InitOk, NextOk, PTL DEF Spec

\* Until a transaction fails on chain, the account and the table of every row
\* exist, for any number of overlapping calls (main.ts:240, 271-286, 175, 312).
THEOREM RowIsReadyHolds == Spec => []RowIsReady
<1>1. IInv => RowIsReady
  BY DEF IInv, Good, AllReadyIn, ReadyIn, RowIsReady, AccountsOf, Exists
<1> QED BY <1>1, Invariant, PTL

-----------------------------------------------------------------------------
(* Types, and one row for each mint *)

\* The tables and accounts that may ever be: a row that is ready with these
\* names a table and a recipient, whether or not they exist.
AnyTables == [n \in Nat \ {0} |-> Recipients]
AnyAccounts == Recipients \X Tokens

OneRowEach(rows) ==
  \A i, j \in DOMAIN rows : rows[i].mint = rows[j].mint => i = j

RowInv ==
  /\ TypeInv /\ created \subseteq Tokens /\ broken \subseteq Breakable /\ running \in BOOLEAN
  /\ OneRowEach(pools) /\ AllReadyIn(AnyTables, AnyAccounts, pools)
  /\ \A c \in Calls : OkIn(AnyTables, AnyAccounts, c, call[c])

\* upsertPool adds a row for a mint without one only (db.ts:36-46).
LEMMA OneRowStays ==
  ASSUME TypeInv, OneRowEach(pools), NEW row \in Row
  PROVE  /\ OneRowEach(Upsert(row))
         /\ \A fee \in Recipients : OneRowEach(SetPoolAlt(row, fee))
<1> DEFINE n == Len(pools)
<1>1. pools \in Seq(Row) /\ DOMAIN pools = 1 .. n /\ n \in Nat
  BY DEF TypeInv
<1>2. ASSUME Has(row.mint)
      PROVE  OneRowEach(Upsert(row))
  <2>1. /\ DOMAIN Upsert(row) = 1 .. n
        /\ \A i \in 1 .. n : Upsert(row)[i].mint = pools[i].mint
    BY <1>1, <1>2 DEF Upsert
  <2> QED BY <1>1, <2>1 DEF OneRowEach
<1>3. ASSUME ~Has(row.mint)
      PROVE  OneRowEach(Upsert(row))
  <2>1. Upsert(row) = Append(pools, row)
    BY <1>3 DEF Upsert
  <2>2. /\ DOMAIN Upsert(row) = 1 .. n + 1 /\ Upsert(row)[n + 1] = row
        /\ \A i \in 1 .. n : Upsert(row)[i] = pools[i]
    BY <1>1, <2>1
  <2>3. \A i \in 1 .. n : pools[i].mint # row.mint
    BY <1>1, <1>3 DEF Has
  <2> QED BY <1>1, <2>2, <2>3 DEF OneRowEach
<1>4. ASSUME NEW fee \in Recipients
      PROVE  OneRowEach(SetPoolAlt(row, fee))
  <2>1. /\ DOMAIN SetPoolAlt(row, fee) = 1 .. n
        /\ \A i \in 1 .. n : SetPoolAlt(row, fee)[i].mint = pools[i].mint
    <3>1. \A i \in 1 .. n : [pools[i] EXCEPT !.alt = row.alt, !.fee = fee].mint = pools[i].mint
      BY <1>1 DEF Row
    <3> QED BY <1>1, <3>1 DEF SetPoolAlt
  <2> QED BY <1>1, <2>1 DEF OneRowEach
<1> QED BY <1>2, <1>3, <1>4

\* A step that leaves the rows, and changes calls to what they may be.
LEMMA RowsKept ==
  ASSUME RowInv, UNCHANGED pools,
         recipient' \in Recipients, created' \subseteq Tokens, broken' \subseteq Breakable,
         accounts' \subseteq Recipients \X Tokens, tables' \in Seq(SUBSET Recipients),
         running' \in BOOLEAN, call' \in [Calls -> CallState],
         \A d \in Calls : \/ call'[d] = call[d]
                          \/ OkIn(AnyTables, AnyAccounts, d, call'[d])
  PROVE  RowInv'
<1>1. TypeInv'
  BY DEF RowInv, TypeInv
<1>2. \A d \in Calls : OkIn(AnyTables, AnyAccounts, d, call'[d])
  BY Zenon DEF RowInv
<1>3. pools' = pools
  OBVIOUS
<1>4. OneRowEach(pools') /\ AllReadyIn(AnyTables, AnyAccounts, pools')
  BY <1>3 DEF RowInv
<1>5. \A d \in Calls : OkIn(AnyTables, AnyAccounts, d, call'[d])
  BY <1>2, <1>3
<1> QED BY <1>1, <1>4, <1>5 DEF RowInv

LEMMA BeginTyped ==
  ASSUME RowInv, NEW c \in Calls, NEW pc \in {"config", "meta"}, NEW todo \in Seq(Row),
         Begin(c, pc, todo), UNCHANGED <<chain, pools>>, running' \in BOOLEAN,
         c = Logos <=> pc = "meta",
         c \in Makers => todo # <<>> /\ \A i \in DOMAIN todo : todo[i].alt = 0,
         c \in Writers => AllReadyIn(AnyTables, AnyAccounts, todo),
         c \notin Syncers,
         pc = "meta" => todo # <<>>
  PROVE  RowInv'
<1> DEFINE k == [pc |-> pc, recipient |-> None, todo |-> todo, table |-> 0]
<1>1. call' = [call EXCEPT ![c] = k]
  BY DEF Begin
<1>2. k \in CallState
  BY DEF CallState
<1>3. OkIn(AnyTables, AnyAccounts, c, k)
  BY DEF OkIn
<1>4. call \in [Calls -> CallState]
  BY DEF RowInv, TypeInv
<1> HIDE DEF k
<1>5. call' \in [Calls -> CallState] /\ call'[c] = k /\ \A d \in Calls \ {c} : call'[d] = call[d]
  BY <1>1, <1>2, <1>4
<1>6. /\ recipient' \in Recipients /\ created' \subseteq Tokens /\ broken' \subseteq Breakable
      /\ accounts' \subseteq Recipients \X Tokens /\ tables' \in Seq(SUBSET Recipients)
  BY DEF RowInv, TypeInv, chain
<1> QED BY <1>3, <1>5, <1>6, RowsKept

\* ... or leaves the chain as well.
LEMMA StillTyped ==
  ASSUME RowInv, UNCHANGED <<chain, pools>>, running' \in BOOLEAN,
         \/ call' = call
         \/ /\ call' \in [Calls -> CallState]
            /\ \A d \in Calls : \/ call'[d] = call[d]
                                \/ OkIn(AnyTables, AnyAccounts, d, call'[d])
  PROVE  RowInv'
<1>1. /\ recipient' \in Recipients /\ created' \subseteq Tokens /\ broken' \subseteq Breakable
      /\ accounts' \subseteq Recipients \X Tokens /\ tables' \in Seq(SUBSET Recipients)
  BY DEF RowInv, TypeInv, chain
<1>2. call \in [Calls -> CallState]
  BY DEF RowInv, TypeInv
<1> QED BY <1>1, <1>2, RowsKept

LEMMA CallsBeginTyped ==
  ASSUME RowInv,
         \/ EnsureSolPool \/ Start
         \/ \E c \in Provisioners, m \in Tokens : RegisterPool(c, m) \/ ReadEvent(c, m)
         \/ \E c \in Syncers : SyncFeeRecipient(c)
  PROVE  RowInv'
<1>1. CASE EnsureSolPool
  <2>1. SOL \in Mints /\ Boot \in Calls /\ Boot \in Makers /\ Boot \notin Writers /\ Boot # Logos
        /\ Boot \notin Syncers
    BY ProvisionAssumption DEF Mints, Calls, Makers, Writers
  <2>2. running' \in BOOLEAN
    BY <1>1 DEF EnsureSolPool, RowInv
  <2> QED BY <1>1, <2>1, <2>2, NewRowOk, BeginTyped DEF EnsureSolPool
<1>2. CASE Start
  <2>1. Logos \in Calls /\ Logos \notin Makers /\ Logos \notin Syncers
    BY ProvisionAssumption DEF Calls, Makers
  <2>2. pools \in Seq(Row) /\ pools # <<>> /\ AllReadyIn(AnyTables, AnyAccounts, pools)
    BY <1>2 DEF RowInv, TypeInv, Start, Has
  <2>3. running' \in BOOLEAN
    BY <1>2 DEF Start
  <2> QED BY <1>2, <2>1, <2>2, <2>3, BeginTyped DEF Start
<1>3. ASSUME NEW c \in Provisioners, NEW m \in Tokens, RegisterPool(c, m) \/ ReadEvent(c, m)
      PROVE  RowInv'
  <2>1. m \in Mints /\ c \in Calls /\ c \in Makers /\ c \notin Writers /\ c # Logos
        /\ c \notin Syncers
    BY ProvisionAssumption DEF Mints, Calls, Makers, Writers
  <2>2. /\ call' = call \/ Begin(c, "config", <<NewRow(m)>>)
        /\ UNCHANGED <<chain, pools>> /\ running' \in BOOLEAN
    BY <1>3 DEF RegisterPool, ReadEvent, ProvisionPool, RowInv
  <2>3. CASE Begin(c, "config", <<NewRow(m)>>)
    BY <2>1, <2>2, <2>3, NewRowOk, BeginTyped
  <2>4. CASE call' = call
    BY <2>2, <2>4, StillTyped
  <2> QED BY <2>2, <2>3, <2>4
<1>4. ASSUME NEW c \in Syncers, SyncFeeRecipient(c)
      PROVE  RowInv'
  <2>1. TypeInv /\ AllReadyIn(AnyTables, AnyAccounts, pools)
    BY DEF RowInv
  <2>2. /\ call' \in [Calls -> CallState]
        /\ \A d \in Calls : \/ call'[d] = call[d]
                            \/ OkIn(AnyTables, AnyAccounts, d, call'[d])
    BY <1>4, <2>1, RoundOk
  <2>3. UNCHANGED <<chain, pools>> /\ running' \in BOOLEAN
    BY <1>4 DEF SyncFeeRecipient, RowInv
  <2> QED BY <2>2, <2>3, StillTyped
<1> QED BY <1>1, <1>2, <1>3, <1>4

\* After fetchGlobalConfig, and over a row with the right account.
LEMMA LoopsTyped ==
  ASSUME RowInv, NEW c \in Calls, ReadConfig(c) \/ Skip(c)
  PROVE  RowInv'
<1>1. UNCHANGED <<chain, pools, running>>
  BY DEF ReadConfig, Skip
<1>2. /\ recipient' \in Recipients /\ created' \subseteq Tokens /\ broken' \subseteq Breakable
      /\ accounts' \subseteq Recipients \X Tokens /\ tables' \in Seq(SUBSET Recipients)
      /\ running' \in BOOLEAN
  BY <1>1 DEF RowInv, TypeInv, chain
<1>3. /\ TypeInv /\ call \in [Calls -> CallState] /\ recipient \in Recipients
      /\ pools \in Seq(Row) /\ AllReadyIn(AnyTables, AnyAccounts, pools)
      /\ OkIn(AnyTables, AnyAccounts, c, call[c])
  BY DEF RowInv, TypeInv
<1>4. CASE ReadConfig(c)
  <2>1. /\ call' \in [Calls -> CallState]
        /\ \A d \in Calls : \/ call'[d] = call[d]
                            \/ OkIn(AnyTables, AnyAccounts, d, call'[d])
    BY <1>3, <1>4, ConfigRead
  <2> QED BY <1>1, <1>2, <2>1, RowsKept
<1>5. CASE Skip(c)
  <2>1. call[c].pc = "send" /\ call' = Advanced(c, "send")
    BY <1>5 DEF Skip
  <2>2. call[c].todo # <<>> /\ c # Logos /\ call[c].recipient \in Recipients
    BY <1>3, <2>1 DEF OkIn
  <2>3. /\ Advanced(c, "send") \in [Calls -> CallState]
        /\ \A d \in Calls :
             \/ Advanced(c, "send")[d] = call[d]
             \/ OkIn(AnyTables, AnyAccounts, d, Advanced(c, "send")[d])
    BY <1>3, <2>2, AdvancedOk
  <2> QED BY <1>1, <1>2, <2>1, <2>3, RowsKept
<1> QED BY <1>4, <1>5

\* What one transaction may do, whatever table it is for.
LEMMA LandTyped ==
  ASSUME TypeInv, NEW row \in Row, NEW owner \in Recipients, Land(row, owner)
  PROVE  accounts' \subseteq Recipients \X Tokens /\ tables' \in Seq(SUBSET Recipients)
<1>1. accounts' \subseteq Recipients \X Tokens
  BY DEF Land, TypeInv, Row, Mints
<1>2. CASE row.alt = 0
  <2>1. tables' = Append(tables, {owner})
    BY <1>2 DEF Land, Extended
  <2> QED BY <1>1, <2>1 DEF TypeInv
<1>3. CASE row.alt # 0
  <2>1. tables' = [tables EXCEPT ![row.alt] = tables[row.alt] \cup {owner}]
    BY <1>3 DEF Land, Extended
  <2>2. /\ DOMAIN tables = 1 .. Len(tables) /\ Len(tables) \in Nat
        /\ \A i \in 1 .. Len(tables) : tables[i] \subseteq Recipients
    BY DEF TypeInv
  <2>3. tables' = [i \in 1 .. Len(tables) |->
                     IF i = row.alt THEN tables[row.alt] \cup {owner} ELSE tables[i]]
    BY <2>1, <2>2
  <2>4. tables' \in Seq(SUBSET Recipients)
    BY <2>2, <2>3
  <2> QED BY <1>1, <2>4
<1> QED BY <1>2, <1>3

\* A transaction was sent: it landed, it failed on chain, or the call throws.
LEMMA SendsTyped ==
  ASSUME RowInv, NEW c \in Calls, Send(c) \/ SendReverts(c) \/ SendThrows(c)
  PROVE  RowInv'
<1> DEFINE row == call[c].todo[1]
           owner == call[c].recipient
           table == IF row.alt = 0 THEN Len(tables) + 1 ELSE row.alt
           k == [pc |-> "store", recipient |-> owner, todo |-> call[c].todo, table |-> table]
<1>1. /\ call[c].pc = "send" /\ UNCHANGED <<pools, running>>
      /\ Land(row, owner) \/ UNCHANGED chain
      /\ \/ call' = [call EXCEPT ![c] = k]
         \/ call' = [call EXCEPT ![c] = Idle]
         \/ call' = AllIdle
  BY DEF Send, SendReverts, SendThrows, Due, Sent
<1>2. /\ TypeInv /\ OkIn(AnyTables, AnyAccounts, c, call[c])
      /\ call \in [Calls -> CallState] /\ call[c] \in CallState
  BY DEF RowInv, TypeInv
<1>3. c # Logos /\ owner \in Recipients /\ call[c].todo # <<>>
  BY <1>1, <1>2 DEF OkIn
<1>4. 1 \in DOMAIN call[c].todo /\ row \in Row
  BY <1>2, <1>3 DEF CallState
<1>5. /\ accounts' \subseteq Recipients \X Tokens /\ tables' \in Seq(SUBSET Recipients)
      /\ recipient' \in Recipients /\ created' \subseteq Tokens /\ broken' \subseteq Breakable
      /\ running' \in BOOLEAN
  <2>1. CASE Land(row, owner)
    <3>1. UNCHANGED <<recipient, created, broken>>
      BY <2>1 DEF Land
    <3> HIDE DEF row, owner
    <3> QED BY <1>1, <1>2, <1>3, <1>4, <2>1, <3>1, LandTyped DEF RowInv, TypeInv
  <2>2. CASE UNCHANGED chain
    BY <1>1, <2>2 DEF RowInv, TypeInv, chain
  <2> QED BY <1>1, <2>1, <2>2
<1>6. table \in Nat \ {0} /\ (c \in Syncers => table = row.alt)
  <2>1. Len(tables) \in Nat /\ row.alt \in Nat
    BY <1>2, <1>4 DEF TypeInv, Row
  <2>2. c \in Syncers => row.alt # 0
    BY <1>2, <1>4 DEF OkIn, Writers, AllReadyIn, ReadyIn, AnyTables
  <2> QED BY <2>1, <2>2
<1>7. k \in CallState
  BY <1>2, <1>3, <1>6 DEF CallState
<1>8. OkIn(AnyTables, AnyAccounts, c, k)
  <2>1. /\ table \in DOMAIN AnyTables /\ owner \in AnyTables[table]
        /\ row.mint = SOL \/ <<owner, row.mint>> \in AnyAccounts
    BY <1>3, <1>4, <1>6 DEF AnyTables, AnyAccounts, Row, Mints
  <2> HIDE DEF table
  <2> QED BY <1>2, <1>3, <1>6, <2>1 DEF OkIn
<1> HIDE DEF k
<1>9. \A d \in Calls : Idle \in CallState /\ OkIn(AnyTables, AnyAccounts, d, Idle)
  BY IdleOk
<1>10. /\ call' \in [Calls -> CallState]
       /\ \A d \in Calls : \/ call'[d] = call[d]
                           \/ OkIn(AnyTables, AnyAccounts, d, call'[d])
  <2>1. CASE call' = [call EXCEPT ![c] = k]
    BY <1>2, <1>7, <1>8, <2>1
  <2>2. CASE call' = [call EXCEPT ![c] = Idle]
    BY <1>2, <1>9, <2>2
  <2>3. CASE call' = AllIdle
    BY <1>9, <2>3 DEF AllIdle
  <2> QED BY <1>1, <2>1, <2>2, <2>3
<1> QED BY <1>1, <1>5, <1>10, RowsKept

\* The rows are written, and a loop goes on.
LEMMA WriteTyped ==
  ASSUME RowInv, NEW c \in Calls, NEW pc \in {"send", "meta"}, UNCHANGED <<chain, running>>,
         call[c].todo # <<>>, pc = "send" => c # Logos /\ call[c].recipient \in Recipients,
         pools' \in Seq(Row), OneRowEach(pools'),
         AllReadyIn(AnyTables, AnyAccounts, pools'), call' = Advanced(c, pc)
  PROVE  RowInv'
<1>1. /\ TypeInv /\ UNCHANGED <<recipient, created, broken, accounts, tables>>
      /\ \A d \in Calls : OkIn(AnyTables, AnyAccounts, d, call[d])
  BY DEF RowInv, chain
<1>2. Grows(AnyTables, AnyAccounts, AnyTables, AnyAccounts)
  BY DEF Grows
<1>3. \A d \in Calls : OkIn(AnyTables, AnyAccounts, d, call[d])
  BY <1>1, <1>2, OkStays
<1>4. /\ Advanced(c, pc) \in [Calls -> CallState]
      /\ \A d \in Calls : \/ Advanced(c, pc)[d] = call[d]
                          \/ OkIn(AnyTables, AnyAccounts, d, Advanced(c, pc)[d])
  BY <1>1, <1>3, AdvancedOk
<1>5. TypeInv'
  BY <1>1, <1>4 DEF TypeInv
<1>6. \A d \in Calls : OkIn(AnyTables, AnyAccounts, d, call'[d])
  BY <1>3, <1>4
<1> QED BY <1>1, <1>5, <1>6 DEF RowInv

LEMMA StoreTyped ==
  ASSUME RowInv, NEW c \in Calls, Store(c)
  PROVE  RowInv'
<1> DEFINE row == call[c].todo[1]
           owner == call[c].recipient
           stored == [row EXCEPT !.alt = call[c].table, !.fee = owner]
<1>1. /\ call[c].pc = "store" /\ UNCHANGED <<chain, running>> /\ call' = Advanced(c, "send")
      /\ pools' = IF c \in Syncers THEN SetPoolAlt(row, owner) ELSE Upsert(stored)
  BY DEF Store
<1>2. /\ TypeInv /\ OkIn(AnyTables, AnyAccounts, c, call[c])
      /\ AllReadyIn(AnyTables, AnyAccounts, pools) /\ call[c] \in CallState
      /\ OneRowEach(pools)
  BY DEF RowInv, TypeInv
<1>3. c # Logos /\ owner \in Recipients /\ call[c].todo # <<>>
  BY <1>1, <1>2 DEF OkIn
<1>4. 1 \in DOMAIN call[c].todo /\ row \in Row /\ call[c].table \in Nat
  BY <1>2, <1>3 DEF CallState
<1>5. /\ call[c].table \in DOMAIN AnyTables /\ owner \in AnyTables[call[c].table]
      /\ row.mint = SOL \/ <<owner, row.mint>> \in AnyAccounts
      /\ c \in Syncers => call[c].table = row.alt
  BY <1>1, <1>2 DEF OkIn
<1>6. /\ pools' \in Seq(Row)
      /\ AllReadyIn(AnyTables, AnyAccounts, pools') /\ OneRowEach(pools')
  <2>1. CASE c \in Syncers
    <3>1. ReadyIn(AnyTables, AnyAccounts, [row EXCEPT !.fee = owner])
      BY <1>4, <1>5, <2>1 DEF ReadyIn, Row
    <3> HIDE DEF row, owner
    <3> QED BY <1>1, <1>2, <1>3, <1>4, <2>1, <3>1, RowsStayReady, OneRowStays
  <2>2. CASE c \notin Syncers
    <3>1. stored \in Row
      BY <1>3, <1>4 DEF Row
    <3>2. ReadyIn(AnyTables, AnyAccounts, stored)
      BY <1>4, <1>5 DEF ReadyIn, Row
    <3> HIDE DEF stored
    <3> QED BY <1>1, <1>2, <2>2, <3>1, <3>2, RowsStayReady, OneRowStays
  <2> QED BY <2>1, <2>2
<1> QED BY <1>1, <1>3, <1>6, WriteTyped

LEMMA LogoTyped ==
  ASSUME RowInv, RefreshLogo
  PROVE  RowInv'
<1> DEFINE row == call[Logos].todo[1]
<1>1. /\ call[Logos].pc = "meta" /\ UNCHANGED <<chain, running>>
      /\ call' = Advanced(Logos, "meta")
      /\ pools' = pools \/ pools' = Upsert(row)
  BY DEF RefreshLogo
<1>2. Logos \in Calls /\ Logos \in Writers
  BY DEF Calls, Writers
<1>3. /\ TypeInv /\ OkIn(AnyTables, AnyAccounts, Logos, call[Logos])
      /\ AllReadyIn(AnyTables, AnyAccounts, pools) /\ call[Logos] \in CallState
      /\ pools \in Seq(Row) /\ OneRowEach(pools)
  BY <1>2 DEF RowInv, TypeInv
<1>4. call[Logos].todo # <<>>
  BY <1>1, <1>3 DEF OkIn
<1>5. 1 \in DOMAIN call[Logos].todo /\ row \in Row
  BY <1>3, <1>4 DEF CallState
<1>6. ReadyIn(AnyTables, AnyAccounts, row)
  BY <1>2, <1>3, <1>5 DEF OkIn, AllReadyIn
<1> HIDE DEF row
<1>7. /\ Upsert(row) \in Seq(Row) /\ OneRowEach(Upsert(row))
      /\ AllReadyIn(AnyTables, AnyAccounts, Upsert(row))
  BY <1>3, <1>5, <1>6, RowsStayReady, OneRowStays
<1>8. /\ pools' \in Seq(Row) /\ OneRowEach(pools')
      /\ AllReadyIn(AnyTables, AnyAccounts, pools')
  BY <1>1, <1>3, <1>7
<1> QED BY <1>1, <1>2, <1>4, <1>8, WriteTyped

LEMMA WorldTyped ==
  ASSUME RowInv,
         \/ \E m \in Tokens : CreatePool(m) \/ AnswerNull(m)
         \/ \E owner \in Recipients : UpdateConfig(owner)
         \/ \E m \in Breakable : Break(m)
         \/ EndPoll \/ PollThrows \/ Crash
         \/ UNCHANGED vars
  PROVE  RowInv'
<1>1. /\ UNCHANGED <<accounts, tables, pools>> /\ recipient' \in Recipients
      /\ created' \subseteq Tokens /\ broken' \subseteq Breakable /\ running' \in BOOLEAN
      /\ call' = call \/ call' = AllIdle
  BY DEF CreatePool, AnswerNull, UpdateConfig, Break, EndPoll, PollThrows, Crash, Die, chain,
         vars, RowInv, TypeInv
<1>2. \A d \in Calls : Idle \in CallState /\ OkIn(AnyTables, AnyAccounts, d, Idle)
  BY IdleOk
<1>3. /\ call' \in [Calls -> CallState]
      /\ \A d \in Calls : call'[d] = call[d] \/ call'[d] = Idle
  BY <1>1, <1>2 DEF AllIdle, RowInv, TypeInv
<1>4. accounts' \subseteq Recipients \X Tokens /\ tables' \in Seq(SUBSET Recipients)
  BY <1>1 DEF RowInv, TypeInv
<1> QED BY <1>1, <1>2, <1>3, <1>4, RowsKept

LEMMA InitTyped == Init => RowInv
<1> SUFFICES ASSUME Init PROVE RowInv
  OBVIOUS
<1>1. \A d \in Calls : Idle \in CallState /\ OkIn(AnyTables, AnyAccounts, d, Idle)
  BY IdleOk
<1>2. call \in [Calls -> CallState] /\ \A d \in Calls : call[d] = Idle
  BY <1>1 DEF Init, AllIdle
<1>3. TypeInv
  BY <1>2 DEF Init, TypeInv
<1>4. OneRowEach(pools) /\ AllReadyIn(AnyTables, AnyAccounts, pools)
  BY DEF Init, OneRowEach, AllReadyIn
<1> QED BY <1>1, <1>2, <1>3, <1>4 DEF Init, RowInv

LEMMA NextTyped == RowInv /\ [Next]_vars => RowInv'
<1> SUFFICES ASSUME RowInv, [Next]_vars PROVE RowInv'
  OBVIOUS
<1>1. CASE \/ EnsureSolPool \/ Start
           \/ \E c \in Provisioners, m \in Tokens : RegisterPool(c, m) \/ ReadEvent(c, m)
           \/ \E c \in Syncers : SyncFeeRecipient(c)
  BY <1>1, CallsBeginTyped
<1>2. ASSUME NEW c \in Calls, Step(c)
      PROVE  RowInv'
  <2>1. CASE ReadConfig(c) \/ Skip(c)
    BY <2>1, LoopsTyped
  <2>2. CASE Send(c) \/ SendReverts(c) \/ SendThrows(c)
    BY <2>2, SendsTyped
  <2>3. CASE Store(c)
    BY <2>3, StoreTyped
  <2> QED BY <1>2, <2>1, <2>2, <2>3 DEF Step
<1>3. CASE RefreshLogo
  BY <1>3, LogoTyped
<1>4. CASE \/ \E m \in Tokens : CreatePool(m) \/ AnswerNull(m)
           \/ \E owner \in Recipients : UpdateConfig(owner)
           \/ \E m \in Breakable : Break(m)
           \/ EndPoll \/ PollThrows \/ Crash
           \/ UNCHANGED vars
  BY <1>4, WorldTyped
<1> QED BY <1>1, <1>2, <1>3, <1>4 DEF Next

-----------------------------------------------------------------------------
(* What was read *)

\* A call of provisionPool is for one pool, which was created.
EventInv ==
  /\ event \in [Tokens -> {"unread", "read", "seen"}] /\ lost \subseteq created
  /\ \A c \in Provisioners :
       call[c].pc = "idle" \/ \E m \in created : call[c].todo = <<NewRow(m)>>

\* After a step that leaves the calls, ends some, or lets one go on.
LEMMA EventsKept ==
  ASSUME EventInv, created \subseteq created',
         event' \in [Tokens -> {"unread", "read", "seen"}], lost' \subseteq created',
         \A c \in Provisioners :
           \/ call'[c].pc = "idle"
           \/ call[c].pc # "idle" /\ call'[c].todo = call[c].todo
           \/ \E m \in created' : call'[c].todo = <<NewRow(m)>>
  PROVE  EventInv'
BY Zenon DEF EventInv

\* provisionPool ends with the one row it is for (main.ts:286-290).
LEMMA OneRowDone ==
  ASSUME NEW k, NEW m, k.todo = <<NewRow(m)>>, NEW pc
  PROVE  NextRow(k, pc) = Idle /\ k.todo[1].mint = m
<1>1. Len(k.todo) = 1 /\ k.todo[1] = NewRow(m)
  OBVIOUS
<1> QED BY <1>1 DEF NextRow, NewRow

LEMMA MarksTyped ==
  ASSUME EventInv, NEW mark \in {"unread", "read", "seen"}
  PROVE  ReadBecomes(mark) \in [Tokens -> {"unread", "read", "seen"}]
BY DEF EventInv, ReadBecomes

LEMMA DieEvents ==
  ASSUME EventInv, UNCHANGED created, Die
  PROVE  EventInv'
<1>1. event' \in [Tokens -> {"unread", "read", "seen"}]
  BY MarksTyped DEF Die
<1>2. ASSUME NEW m \in Tokens, UnderWay(m)
      PROVE  m \in created
  <2>1. PICK c \in Provisioners : call[c].pc # "idle" /\ call[c].todo[1].mint = m
    BY <1>2 DEF UnderWay
  <2>2. PICK n \in created : call[c].todo = <<NewRow(n)>>
    BY <2>1 DEF EventInv
  <2>3. call[c].todo[1].mint = n
    BY <2>2, OneRowDone
  <2> QED BY <2>1, <2>2, <2>3
<1>3. lost' \subseteq created'
  BY <1>2 DEF Die, EventInv
<1>4. \A c \in Provisioners : call'[c].pc = "idle"
  BY DEF Die, AllIdle, Idle, Calls
<1> QED BY <1>1, <1>3, <1>4, EventsKept

\* A step of a call, whatever becomes of it.
LEMMA StepEvents ==
  ASSUME RowInv, EventInv, NEW c \in Calls, Step(c)
  PROVE  EventInv'
<1>1. call \in [Calls -> CallState] /\ event' = event /\ created' = created
  BY DEF RowInv, TypeInv, Step, ReadConfig, Skip, Send, SendReverts, SendThrows, Store, Land, chain,
         poll
<1>2. event' \in [Tokens -> {"unread", "read", "seen"}] /\ created \subseteq created'
  BY <1>1 DEF EventInv
<1>3. call[c].pc # "idle"
  BY DEF Step, ReadConfig, Skip, Send, SendReverts, SendThrows, Store, Due
<1>4. lost' \subseteq created'
  <2>1. CASE SendThrows(c) /\ c \in Provisioners
    <3>1. call[c].todo[1].mint \in created
      BY <1>3, <2>1, OneRowDone DEF EventInv
    <3> QED BY <1>1, <2>1, <3>1 DEF SendThrows, Given, EventInv
  <2>2. CASE ~(SendThrows(c) /\ c \in Provisioners)
    <3>1. lost' = lost
      BY <2>2 DEF Step, ReadConfig, Skip, Send, SendReverts, SendThrows, Store, poll
    <3> QED BY <1>1, <3>1 DEF EventInv
  <2> QED BY <2>1, <2>2
<1>5. ASSUME NEW d \in Provisioners
      PROVE  \/ call'[d].pc = "idle"
             \/ call[d].pc = "idle" /\ call'[d] = call[d]
             \/ call[d].pc # "idle" /\ call'[d].todo = call[d].todo
  <2>1. d \in Calls /\ Idle.pc = "idle"
    BY DEF Calls, Idle
  <2>2. CASE SendThrows(c)
    BY <1>1, <2>1, <2>2 DEF SendThrows, AllIdle
  <2>3. CASE ReadConfig(c) \/ Send(c) \/ SendReverts(c)
    BY <1>1, <1>3, <2>1, <2>3 DEF ReadConfig, Send, SendReverts, Sent
  <2>4. CASE Skip(c) \/ Store(c)
    <3>1. call' = [call EXCEPT ![c] = NextRow(call[c], "send")]
      BY <2>4 DEF Skip, Store, Advanced
    <3>2. d = c => NextRow(call[c], "send") = Idle
      BY <1>3, OneRowDone DEF EventInv
    <3> QED BY <1>1, <2>1, <3>1, <3>2
  <2> QED BY <2>2, <2>3, <2>4 DEF Step
<1>6. \A d \in Provisioners : call[d].pc = "idle" /\ call'[d] = call[d] => call'[d].pc = "idle"
  OBVIOUS
<1> QED BY <1>2, <1>4, <1>5, <1>6, EventsKept

LEMMA InitEvents == Init => EventInv
BY DEF Init, EventInv, AllIdle, Idle, Calls

LEMMA NextEvents == RowInv /\ EventInv /\ [Next]_vars => EventInv'
<1> SUFFICES ASSUME RowInv, EventInv, [Next]_vars PROVE EventInv'
  OBVIOUS
<1>1. /\ call \in [Calls -> CallState]
      /\ event \in [Tokens -> {"unread", "read", "seen"}] /\ lost \subseteq created
      /\ Provisioners \subseteq Calls
      /\ Logos \notin Provisioners /\ Boot \notin Provisioners
      /\ \A c \in Syncers : c \notin Provisioners
  BY ProvisionAssumption DEF RowInv, TypeInv, EventInv, Calls
<1>2. ASSUME NEW c \in Calls, UNCHANGED <<created, poll>>,
             call' = call \/ \E k : call' = [call EXCEPT ![c] = k],
             c \notin Provisioners
      PROVE  EventInv'
  <2>1. \A d \in Provisioners : call'[d] = call[d]
    BY <1>1, <1>2
  <2> QED BY <1>1, <1>2, <2>1, Zenon DEF EventInv, poll
<1>3. CASE EnsureSolPool \/ Start \/ RefreshLogo \/ \E c \in Syncers : SyncFeeRecipient(c)
  <2>1. \E c \in Calls : /\ UNCHANGED <<created, poll>> /\ c \notin Provisioners
                         /\ call' = call \/ \E k : call' = [call EXCEPT ![c] = k]
    <3>1. CASE EnsureSolPool
      BY <1>1, <3>1 DEF EnsureSolPool, Begin, Calls, chain
    <3>2. CASE Start
      BY <1>1, <3>2 DEF Start, Begin, Calls, chain
    <3>3. CASE RefreshLogo
      BY <1>1, <3>3 DEF RefreshLogo, Advanced, Calls, chain
    <3>4. CASE \E c \in Syncers : SyncFeeRecipient(c)
      BY <1>1, <3>4 DEF SyncFeeRecipient, Calls, chain
    <3> QED BY <1>3, <3>1, <3>2, <3>3, <3>4
  <2> QED BY <1>2, <2>1
<1>4. ASSUME NEW c \in Provisioners, NEW m \in Tokens, RegisterPool(c, m) \/ ReadEvent(c, m)
      PROVE  EventInv'
  <2>1. /\ m \in created /\ created' = created /\ lost' \subseteq created'
        /\ event' \in [Tokens -> {"unread", "read", "seen"}]
        /\ call' = call \/ call' = [call EXCEPT ![c] =
             [pc |-> "config", recipient |-> None, todo |-> <<NewRow(m)>>, table |-> 0]]
    BY <1>1, <1>4 DEF RegisterPool, ReadEvent, ProvisionPool, Begin, chain, poll
  <2>2. CASE call' = call
    BY <2>1, <2>2, Zenon DEF EventInv
  <2>3. CASE call' # call
    <3>1. call'[c].todo = <<NewRow(m)>> /\ \A d \in Provisioners \ {c} : call'[d] = call[d]
      BY <1>1, <2>1, <2>3
    <3> QED BY <2>1, <3>1, Zenon DEF EventInv
  <2> QED BY <2>2, <2>3
<1>5. CASE \E m \in Tokens : AnswerNull(m) \/ CreatePool(m)
  <2>1. /\ call' = call /\ created \subseteq created' /\ lost' \subseteq created'
        /\ event' \in [Tokens -> {"unread", "read", "seen"}]
    BY <1>1, <1>5 DEF AnswerNull, CreatePool, chain, poll
  <2> QED BY <2>1, Zenon DEF EventInv
<1>6. CASE EndPoll \/ PollThrows \/ Crash
  <2>1. CASE Die
    BY <1>6, <2>1, DieEvents DEF EndPoll, PollThrows, Crash, chain
  <2>2. CASE ~Die
    <3>1. UNCHANGED <<created, lost, call>>
      BY <1>6, <2>2 DEF EndPoll, PollThrows, Crash, chain
    <3>2. event' \in [Tokens -> {"unread", "read", "seen"}]
      BY <1>6, <2>2, MarksTyped DEF EndPoll, PollThrows, Crash
    <3> QED BY <3>1, <3>2, Zenon DEF EventInv
  <2> QED BY <2>1, <2>2
<1>7. CASE \E c \in Calls : Step(c)
  BY <1>7, StepEvents
<1>8. CASE \/ \E owner \in Recipients : UpdateConfig(owner)
           \/ \E m \in Breakable : Break(m)
           \/ UNCHANGED vars
  <2>1. UNCHANGED <<event, lost, call, created>>
    BY <1>8 DEF UpdateConfig, Break, vars, chain, poll
  <2> QED BY <2>1, Zenon DEF EventInv
<1> QED BY <1>3, <1>4, <1>5, <1>6, <1>7, <1>8 DEF Next

\* One row per mint, of the right shape, whichever calls overlap, fail, revert or
\* die: a row is added only for a mint without one, and setPoolAlt only updates
\* (db.ts:36-46).
THEOREM TypeCorrect == Spec => []TypeOK
<1>1. RowInv /\ EventInv => TypeOK
  <2> SUFFICES ASSUME RowInv, EventInv PROVE TypeOK
    OBVIOUS
  <2>1. /\ recipient \in Recipients /\ created \subseteq Tokens /\ broken \subseteq Breakable
        /\ accounts \subseteq Recipients \X Tokens /\ running \in BOOLEAN
        /\ \A i \in DOMAIN tables : tables[i] \subseteq Recipients
    BY DEF RowInv, TypeInv
  <2>2. ASSUME NEW i \in DOMAIN pools
        PROVE  pools[i].mint \in Mints
    <3>1. pools \in Seq(Row)
      BY DEF RowInv, TypeInv
    <3>2. pools[i] \in Row
      BY <3>1
    <3> QED BY <3>2 DEF Row
  <2>3. \A i, j \in DOMAIN pools : pools[i].mint = pools[j].mint => i = j
    BY DEF RowInv, OneRowEach
  <2>4. \A c \in Calls : call[c].pc \in {"idle", "config", "send", "store", "meta"}
    BY DEF RowInv, TypeInv, CallState
  <2> QED BY <2>1, <2>2, <2>3, <2>4 DEF TypeOK, EventInv
<1> QED BY <1>1, InitTyped, NextTyped, InitEvents, NextEvents, PTL DEF Spec
=============================================================================
