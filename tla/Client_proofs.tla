---------------------------- MODULE Client_proofs ----------------------------
EXTENDS Client, FiniteSetTheorems, TLAPS

\* What the proofs ask of the application and its requests: calls come one after
\* another, what was prepared lies about and is submitted once, the session stays
\* unlocked, and the requests inside sync are answered.
Sequential ==
  Serial /\ ~ReadFailures /\ Bounds["unlocks"] = 0 /\ Bounds["again"] = 0

-----------------------------------------------------------------------------
(* The invariant *)

\* The note a reference names, and all references there are.
NoteAt(h, ref) == h[ref[1]][ref[2]]
Refs(h) == UNION {{a} \X DOMAIN h[a] : a \in DOMAIN h}

\* Leaves come and are indexed in pairs.
Even(n) == \E m \in 0 .. MaxLeaves : n = 2 * m

ChainInv ==
  /\ leaves \in Seq(Nat) /\ Len(leaves) <= MaxLeaves
  /\ indexed \in Nat /\ indexed <= Len(leaves)
  /\ Even(Len(leaves)) /\ Even(indexed)
  /\ consumed \subseteq DOMAIN leaves
  /\ happened \in [Happens -> Nat]

Pair == {outs \in Seq(Nat) : Len(outs) = 2}
Wire == [ins : Seq(Nat), outs : Pair, state : {"open", "landed", "dropped"}]

WireInv ==
  /\ wires \in Seq(Wire)
  /\ \A w \in DOMAIN wires :
       /\ ToSet(wires[w].ins) \subseteq DOMAIN leaves
       /\ wires[w].state = "landed" => ToSet(wires[w].ins) \subseteq consumed

HeapInv ==
  /\ heap \in Seq(Seq(Note)) /\ Len(heap) <= 1 /\ current \in 0 .. Len(heap)
  /\ scanned \in Nat /\ scanned <= indexed

Pcs == {"idle", "sync", "page", "marks", "select", "picked",
        "paths", "root", "prepared", "relaying", "landing"}
Paying == {"paths", "root", "prepared", "relaying", "landing"}
Reading == {"page", "marks"}
Choosing == {"select", "picked"}

\* A call k when the notes are h, i leaves are indexed and n requests are out.
Shape(k, h, i, n) ==
  /\ DOMAIN k = DOMAIN NoCall
  /\ k.pc \in Pcs /\ k.arr \in 0 .. Len(h) /\ k.wire \in 0 .. n
  /\ k.start \in Nat /\ k.asof \in 0 .. i
  /\ k.inputs \in Seq(Refs(h)) /\ IsInjective(k.inputs) /\ k.outs \in Pair
  /\ k.pc \notin Paying => k.inputs = <<>>
  /\ k.pc \in Reading \cup Choosing => k.arr = 1
  /\ k.pc \in {"sync", "page"} => k.spentThen = {}

CallInv ==
  /\ DOMAIN call = Calls
  /\ \A c \in Calls : Shape(call[c], heap, indexed, Len(wires))
  /\ \A c, d \in Calls : call[c].pc \notin Resting /\ call[d].pc \notin Resting => c = d

\* The array of notes, also while a first sync is making it.
Cell(h) == IF h = <<>> THEN <<>> ELSE h[1]

\* The notes are those of the first n leaves, each once.
Pages(ls, notes, n) ==
  /\ \A p, q \in DOMAIN notes : notes[p].leaf = notes[q].leaf => p = q
  /\ {notes[p].leaf : p \in DOMAIN notes} = {i \in 1 .. n : ls[i] > 0}

\* A call that reads pages has come to its start.
Reads(k, h, s, i, ls) ==
  k.pc = "page" => s <= k.start /\ k.start <= i /\ Pages(ls, h[1], k.start)

\* One that awaits the nullifiers asked for notes that no open payment holds.
Asks(k, h, con, res) ==
  k.pc = "marks" =>
    /\ k.asked \subseteq DOMAIN h[1]
    /\ k.spentThen \subseteq con \cap {h[1][p].leaf : p \in k.asked}
    /\ \A p \in k.asked : h[1][p].leaf \notin res

SyncInv ==
  /\ current = 0 => heap = <<>> \/ \E c \in Calls : call[c].pc \in Reading
  /\ current = 0 /\ (\A c \in Calls : call[c].pc # "marks") => scanned = 0
  /\ (\A c \in Calls : call[c].pc # "page") => Pages(leaves, Cell(heap), scanned)
  /\ \A c \in Calls : Reads(call[c], heap, scanned, indexed, leaves)
  /\ \A c \in Calls : Asks(call[c], heap, consumed, reserved)

LeavesAt(h, refs) == {NoteAt(h, ref).leaf : ref \in refs}

\* A call with a request out: the request is for its inputs, which are spent
\* when it has landed.  No call holds a note it could have seen spent.
Pays(k, h, ws) ==
  /\ k.pc = "relaying" =>
       /\ k.wire \in DOMAIN ws
       /\ ToSet(ws[k.wire].ins) = LeavesAt(h, ToSet(k.inputs))
  /\ LeavesAt(h, ToSet(k.inputs)) \cap k.spentThen = {}

PayInv == \A c \in Calls : Pays(call[c], heap, wires)

\* In the notes h, those that open payments hold are marked, each is held once,
\* and res are theirs.
Marks(h, res) ==
  /\ \A c \in Calls : \A ref \in Held(c) : NoteAt(h, ref).spent = TRUE
  /\ \A c, d \in Calls : c # d => Held(c) \cap Held(d) = {}
  /\ res = UNION {LeavesAt(h, Held(c)) : c \in Calls}

MarkInv == Marks(heap, reserved)

\* A call that chooses its notes does so among those its sync did not find spent,
\* and nobody else touches them.
Chooses(k, h, res) ==
  k.pc \in Choosing =>
    /\ \A ref \in Refs(h) : NoteAt(h, ref).leaf \in k.spentThen => NoteAt(h, ref).spent = TRUE
    /\ k.spentThen \cap res = {}
    /\ k.pc = "picked" => k.picked \subseteq Unspent(h[1])

ChooseInv == \A c \in Calls : Chooses(call[c], heap, reserved)

IInv ==
  /\ ChainInv /\ WireInv /\ HeapInv /\ CallInv /\ SyncInv /\ PayInv /\ MarkInv /\ ChooseInv

-----------------------------------------------------------------------------
(* Sequences and sets *)

LEMMA SetAsSeq ==
  ASSUME NEW S, IsFiniteSet(S)
  PROVE  /\ SetToSeq(S) \in Seq(S) /\ Len(SetToSeq(S)) = Cardinality(S)
         /\ Cardinality(S) \in Nat
         /\ IsInjective(SetToSeq(S)) /\ ToSet(SetToSeq(S)) = S
<1> DEFINE n == Cardinality(S)
           s == SetToSeq(S)
<1>1. n \in Nat /\ ExistsBijection(1 .. n, S)
  BY FS_CardinalityType
<1>2. \E f \in [1 .. n -> S] : IsInjective(f)
  BY <1>1 DEF ExistsBijection, Bijection, Injection
<1>3. s \in [1 .. n -> S] /\ IsInjective(s)
  BY <1>2 DEF SetToSeq
<1>4. s \in Injection(1 .. n, S)
  BY <1>3 DEF Injection
<1>5. Cardinality(1 .. n) = n
  BY <1>1, FS_Interval
<1> HIDE DEF s, n
<1>6. s \in Surjection(1 .. n, S)
  BY <1>4, <1>5, FS_Injection DEF n
<1>7. s \in Seq(S) /\ Len(s) = n
  BY <1>1, <1>3
<1>8. ToSet(s) = S
  BY <1>3, <1>6 DEF ToSet, Surjection
<1> QED BY <1>1, <1>3, <1>7, <1>8 DEF s, n

LEMMA CardOfInputs ==
  ASSUME NEW S, NEW s \in Seq(S), IsInjective(s)
  PROVE  IsFiniteSet(ToSet(s)) /\ Cardinality(ToSet(s)) = Len(s)
<1>1. s \in Surjection(1 .. Len(s), ToSet(s)) /\ s \in Injection(1 .. Len(s), ToSet(s))
  BY DEF Surjection, Injection, ToSet
<1>2. IsFiniteSet(1 .. Len(s)) /\ Cardinality(1 .. Len(s)) = Len(s)
  <2> DEFINE n == Len(s)
  <2>1. n \in Int /\ n >= 0 /\ 1 \in Int
    OBVIOUS
  <2> HIDE DEF n
  <2>2. IsFiniteSet(1 .. n) /\ Cardinality(1 .. n) = n
    BY <2>1, FS_Interval
  <2> QED BY <2>2 DEF n
<1> QED BY <1>1, <1>2, FS_Surjection

LEMMA ItemOf ==
  ASSUME NEW S, NEW s \in Seq(S), NEW i \in DOMAIN s
  PROVE  s[i] \in S
OBVIOUS

LEMMA JoinedSeq ==
  ASSUME NEW S, NEW s \in Seq(S), NEW t \in Seq(S)
  PROVE  /\ s \o t \in Seq(S) /\ Len(s \o t) = Len(s) + Len(t)
         /\ \A i \in 1 .. Len(s) : (s \o t)[i] = s[i]
         /\ \A i \in 1 .. Len(t) : (s \o t)[Len(s) + i] = t[i]
OBVIOUS

-----------------------------------------------------------------------------
(* Notes and references *)

\* The notes of g are those of h, marked otherwise.
SameNotes(h, g) ==
  /\ g \in Seq(Seq(Note)) /\ Len(g) = Len(h)
  /\ \A a \in DOMAIN h :
       /\ Len(g[a]) = Len(h[a])
       /\ \A p \in DOMAIN h[a] : g[a][p].leaf = h[a][p].leaf

LEMMA NoteTyped ==
  ASSUME NEW n \in Note
  PROVE  n.leaf \in Nat /\ n.leaf \in Leaf /\ n.spent \in BOOLEAN /\ n.age \in NoMark .. Old
BY ClientAssumption DEF Note, Leaf

LEMMA RefOf ==
  ASSUME NEW h \in Seq(Seq(Note)), NEW a \in DOMAIN h, NEW p \in DOMAIN h[a]
  PROVE  <<a, p>> \in Refs(h) /\ NoteAt(h, <<a, p>>) = h[a][p] /\ h[a][p] \in Note
BY DEF Refs, NoteAt

LEMMA RefIs ==
  ASSUME NEW h \in Seq(Seq(Note)), NEW ref \in Refs(h)
  PROVE  /\ ref = <<ref[1], ref[2]>> /\ ref[1] \in DOMAIN h /\ ref[2] \in DOMAIN h[ref[1]]
         /\ NoteAt(h, ref) \in Note
<1>1. PICK a \in DOMAIN h : ref \in {a} \X DOMAIN h[a]
  BY DEF Refs
<1>2. ref = <<ref[1], ref[2]>> /\ ref[1] = a /\ ref[2] \in DOMAIN h[a]
  BY <1>1
<1>3. h[a] \in Seq(Note) /\ h[a][ref[2]] \in Note
  BY <1>1, <1>2
<1> QED BY <1>2, <1>3 DEF NoteAt

LEMMA OneRefs ==
  ASSUME NEW h \in Seq(Seq(Note)), Len(h) = 1
  PROVE  /\ \A ref \in Refs(h) : /\ ref = <<1, ref[2]>> /\ ref[2] \in DOMAIN h[1]
                                 /\ NoteAt(h, ref) = h[1][ref[2]]
         /\ \A p \in DOMAIN h[1] : <<1, p>> \in Refs(h) /\ NoteAt(h, <<1, p>>) = h[1][p]
<1>1. 1 \in DOMAIN h /\ \A a \in DOMAIN h : a = 1
  OBVIOUS
<1>2. ASSUME NEW ref \in Refs(h)
      PROVE  ref = <<1, ref[2]>> /\ ref[2] \in DOMAIN h[1] /\ NoteAt(h, ref) = h[1][ref[2]]
  <2>1. ref = <<ref[1], ref[2]>> /\ ref[1] \in DOMAIN h /\ ref[2] \in DOMAIN h[ref[1]]
    BY RefIs
  <2>2. ref[1] = 1
    BY <1>1, <2>1
  <2> QED BY <2>1, <2>2 DEF NoteAt
<1>3. \A p \in DOMAIN h[1] : <<1, p>> \in Refs(h) /\ NoteAt(h, <<1, p>>) = h[1][p]
  BY <1>1, RefOf
<1> QED BY <1>2, <1>3

LEMMA SameRefs ==
  ASSUME NEW h \in Seq(Seq(Note)), NEW g, SameNotes(h, g)
  PROVE  /\ Refs(g) = Refs(h) /\ DOMAIN g = DOMAIN h
         /\ \A a \in DOMAIN h : DOMAIN g[a] = DOMAIN h[a]
         /\ \A ref \in Refs(h) : NoteAt(g, ref).leaf = NoteAt(h, ref).leaf
<1>1. DOMAIN g = DOMAIN h /\ g \in Seq(Seq(Note))
  BY DEF SameNotes
<1>2. ASSUME NEW a \in DOMAIN h
      PROVE  DOMAIN g[a] = DOMAIN h[a]
  <2>1. g[a] \in Seq(Note) /\ h[a] \in Seq(Note) /\ Len(g[a]) = Len(h[a])
    BY <1>1 DEF SameNotes
  <2> QED BY <2>1
<1>3. Refs(g) = Refs(h)
  BY <1>1, <1>2 DEF Refs
<1>4. ASSUME NEW ref \in Refs(h)
      PROVE  NoteAt(g, ref).leaf = NoteAt(h, ref).leaf
  BY RefIs DEF SameNotes, NoteAt
<1> QED BY <1>1, <1>2, <1>3, <1>4

\* g is h where the notes that refs names are replaced by f.
IsReplaced(h, refs, f, g) ==
  g = [a \in DOMAIN h |-> [p \in DOMAIN h[a] |->
         IF <<a, p>> \in refs THEN f[<<a, p>>] ELSE h[a][p]]]

LEMMA Replaced ==
  ASSUME NEW h \in Seq(Seq(Note)), NEW refs, NEW f \in [Refs(h) -> Note],
         \A ref \in Refs(h) : f[ref].leaf = NoteAt(h, ref).leaf,
         NEW g, IsReplaced(h, refs, f, g)
  PROVE  /\ SameNotes(h, g)
         /\ \A ref \in Refs(h) :
              NoteAt(g, ref) = IF ref \in refs THEN f[ref] ELSE NoteAt(h, ref)
<1>1. ASSUME NEW a \in DOMAIN h, NEW p \in DOMAIN h[a]
      PROVE  /\ g[a][p] = IF <<a, p>> \in refs THEN f[<<a, p>>] ELSE h[a][p]
             /\ g[a][p] \in Note /\ g[a][p].leaf = h[a][p].leaf
  <2>1. g[a][p] = IF <<a, p>> \in refs THEN f[<<a, p>>] ELSE h[a][p]
    BY DEF IsReplaced
  <2>2. <<a, p>> \in Refs(h) /\ NoteAt(h, <<a, p>>) = h[a][p] /\ h[a][p] \in Note
    BY RefOf
  <2>3. f[<<a, p>>] \in Note /\ f[<<a, p>>].leaf = h[a][p].leaf
    BY <2>2
  <2> QED BY <2>1, <2>2, <2>3
<1>2. ASSUME NEW a \in DOMAIN h
      PROVE  g[a] \in Seq(Note) /\ Len(g[a]) = Len(h[a])
  <2>1. h[a] \in Seq(Note) /\ DOMAIN g[a] = DOMAIN h[a]
    BY DEF IsReplaced
  <2>2. DOMAIN g[a] = 1 .. Len(h[a]) /\ Len(h[a]) \in Nat
    BY <2>1
  <2>3. g[a] = [p \in 1 .. Len(h[a]) |-> g[a][p]]
    BY <2>2 DEF IsReplaced
  <2>4. \A p \in 1 .. Len(h[a]) : g[a][p] \in Note
    BY <1>1, <2>1, <2>2
  <2> QED BY <2>2, <2>3, <2>4
<1>3. g \in Seq(Seq(Note)) /\ Len(g) = Len(h)
  <2>1. DOMAIN g = 1 .. Len(h) /\ Len(h) \in Nat
    BY DEF IsReplaced
  <2>2. g = [a \in 1 .. Len(h) |-> g[a]]
    BY <2>1 DEF IsReplaced
  <2>3. \A a \in 1 .. Len(h) : g[a] \in Seq(Note)
    BY <1>2
  <2> QED BY <2>1, <2>2, <2>3
<1>4. SameNotes(h, g)
  BY <1>1, <1>2, <1>3 DEF SameNotes
<1>5. ASSUME NEW ref \in Refs(h)
      PROVE  NoteAt(g, ref) = IF ref \in refs THEN f[ref] ELSE NoteAt(h, ref)
  BY <1>1, RefIs DEF NoteAt
<1> QED BY <1>4, <1>5

\* Notes with other marks.
LEMMA MarkedNote ==
  ASSUME NEW n \in Note, NEW b \in BOOLEAN, NEW a \in NoMark .. Old
  PROVE  /\ [n EXCEPT !.spent = b, !.age = a] \in Note
         /\ [n EXCEPT !.spent = b, !.age = a].leaf = n.leaf
         /\ [n EXCEPT !.spent = b, !.age = a].spent = b
         /\ [n EXCEPT !.spent = b, !.age = a].age = a
BY DEF Note

LEMMA ReserveMarks ==
  ASSUME NEW n \in Note
  PROVE  /\ Marked(n) \in Note /\ Marked(n).leaf = n.leaf /\ Marked(n).spent = TRUE
         /\ Marked(n).age = Fresh
         /\ Unmarked(n) \in Note /\ Unmarked(n).leaf = n.leaf /\ Unmarked(n).spent = FALSE
<1>1. TRUE \in BOOLEAN /\ FALSE \in BOOLEAN /\ Fresh \in NoMark .. Old /\ NoMark \in NoMark .. Old
  BY DEF NoMark, Old, Fresh
<1>2. /\ Marked(n) \in Note /\ Marked(n).leaf = n.leaf /\ Marked(n).spent = TRUE
      /\ Marked(n).age = Fresh
  BY <1>1, MarkedNote, Zenon DEF Marked
<1>3. Unmarked(n) \in Note /\ Unmarked(n).leaf = n.leaf /\ Unmarked(n).spent = FALSE
  BY <1>1, MarkedNote, Zenon DEF Unmarked
<1> QED BY <1>2, <1>3

\* g is h with the notes that refs names marked.
IsMarked(h, refs, g) ==
  g = [a \in DOMAIN h |-> [p \in DOMAIN h[a] |->
         IF <<a, p>> \in refs THEN Marked(h[a][p]) ELSE h[a][p]]]

LEMMA MarkedNotes ==
  ASSUME NEW h \in Seq(Seq(Note)), NEW refs, NEW g, IsMarked(h, refs, g)
  PROVE  /\ SameNotes(h, g)
         /\ \A ref \in Refs(h) : ref \in refs => /\ NoteAt(g, ref).spent = TRUE
                                                 /\ NoteAt(g, ref).age = Fresh
         /\ \A ref \in Refs(h) : ref \notin refs => NoteAt(g, ref) = NoteAt(h, ref)
<1> DEFINE f == [ref \in Refs(h) |-> Marked(NoteAt(h, ref))]
<1>1. \A ref \in Refs(h) : NoteAt(h, ref) \in Note
  BY RefIs
<1>2. /\ f \in [Refs(h) -> Note]
      /\ \A ref \in Refs(h) : f[ref].leaf = NoteAt(h, ref).leaf
  BY <1>1, ReserveMarks
<1>3. IsReplaced(h, refs, f, g)
  <2>1. \A a \in DOMAIN h : \A p \in DOMAIN h[a] : f[<<a, p>>] = Marked(h[a][p])
    BY RefOf
  <2> HIDE DEF f
  <2> QED BY <2>1 DEF IsMarked, IsReplaced
<1> HIDE DEF f
<1>4. /\ SameNotes(h, g)
      /\ \A ref \in Refs(h) :
           NoteAt(g, ref) = IF ref \in refs THEN f[ref] ELSE NoteAt(h, ref)
  BY <1>2, <1>3, Replaced
<1>5. \A ref \in Refs(h) : f[ref].spent = TRUE /\ f[ref].age = Fresh
  BY <1>1, ReserveMarks DEF f
<1> QED BY <1>4, <1>5

\* g is h with the notes that refs names released.
IsUnmarked(h, refs, g) ==
  g = [a \in DOMAIN h |-> [p \in DOMAIN h[a] |->
         IF <<a, p>> \in refs THEN Unmarked(h[a][p]) ELSE h[a][p]]]

LEMMA UnmarkedNotes ==
  ASSUME NEW h \in Seq(Seq(Note)), NEW refs, NEW g, IsUnmarked(h, refs, g)
  PROVE  /\ SameNotes(h, g)
         /\ \A ref \in Refs(h) : ref \in refs => NoteAt(g, ref).spent = FALSE
         /\ \A ref \in Refs(h) : ref \notin refs => NoteAt(g, ref) = NoteAt(h, ref)
<1> DEFINE f == [ref \in Refs(h) |-> Unmarked(NoteAt(h, ref))]
<1>1. \A ref \in Refs(h) : NoteAt(h, ref) \in Note
  BY RefIs
<1>2. /\ f \in [Refs(h) -> Note]
      /\ \A ref \in Refs(h) : f[ref].leaf = NoteAt(h, ref).leaf
  BY <1>1, ReserveMarks
<1>3. IsReplaced(h, refs, f, g)
  <2>1. \A a \in DOMAIN h : \A p \in DOMAIN h[a] : f[<<a, p>>] = Unmarked(h[a][p])
    BY RefOf
  <2> HIDE DEF f
  <2> QED BY <2>1 DEF IsUnmarked, IsReplaced
<1> HIDE DEF f
<1>4. /\ SameNotes(h, g)
      /\ \A ref \in Refs(h) :
           NoteAt(g, ref) = IF ref \in refs THEN f[ref] ELSE NoteAt(h, ref)
  BY <1>2, <1>3, Replaced
<1>5. \A ref \in Refs(h) : f[ref].spent = FALSE
  BY <1>1, ReserveMarks DEF f
<1> QED BY <1>4, <1>5

\* What the answer about nullifiers makes of notes: those it found spent are
\* marked, and of the others only those marked a moment ago.
LEMMA CheckedNote ==
  ASSUME NEW n \in Note, NEW spentNow
  PROVE  /\ Checked(n, spentNow) \in Note /\ Checked(n, spentNow).leaf = n.leaf
         /\ n.leaf \in spentNow => Checked(n, spentNow).spent = TRUE
         /\ n.leaf \notin spentNow =>
              Checked(n, spentNow).spent = FALSE \/ Checked(n, spentNow).age = Fresh
<1>1. TRUE \in BOOLEAN /\ FALSE \in BOOLEAN /\ NoMark \in NoMark .. Old /\ n.age \in NoMark .. Old
  BY NoteTyped DEF NoMark, Old
<1>2. CASE n.leaf \in spentNow
  <2>1. Checked(n, spentNow) = [n EXCEPT !.spent = TRUE, !.age = NoMark]
    BY <1>2 DEF Checked
  <2>2. /\ Checked(n, spentNow) \in Note /\ Checked(n, spentNow).leaf = n.leaf
        /\ Checked(n, spentNow).spent = TRUE
    <3>1. LET m == [n EXCEPT !.spent = TRUE, !.age = NoMark]
          IN m \in Note /\ m.leaf = n.leaf /\ m.spent = TRUE
      BY <1>1, MarkedNote, Zenon
    <3> QED BY <2>1, <3>1, Zenon
  <2> QED BY <1>2, <2>2
<1>3. CASE n.leaf \notin spentNow /\ n.age = Fresh
  <2>1. Checked(n, spentNow) = n
    BY <1>3 DEF Checked
  <2> QED BY <1>3, <2>1
<1>4. CASE n.leaf \notin spentNow /\ n.age # Fresh
  <2>1. Checked(n, spentNow) = [n EXCEPT !.spent = FALSE]
    BY <1>4 DEF Checked
  <2>2. \A b \in BOOLEAN : /\ [n EXCEPT !.spent = b] \in Note /\ [n EXCEPT !.spent = b].leaf = n.leaf
                           /\ [n EXCEPT !.spent = b].spent = b
    BY DEF Note
  <2>3. /\ Checked(n, spentNow) \in Note /\ Checked(n, spentNow).leaf = n.leaf
        /\ Checked(n, spentNow).spent = FALSE
    BY <1>1, <2>1, <2>2, Zenon
  <2> QED BY <1>4, <2>3
<1> QED BY <1>2, <1>3, <1>4

\* g is h where the notes that refs names were checked.
IsChecked(h, refs, spentNow, g) ==
  g = [a \in DOMAIN h |-> [p \in DOMAIN h[a] |->
         IF <<a, p>> \in refs THEN Checked(h[a][p], spentNow) ELSE h[a][p]]]

LEMMA CheckedNotes ==
  ASSUME NEW h \in Seq(Seq(Note)), NEW refs, NEW spentNow, NEW g,
         IsChecked(h, refs, spentNow, g)
  PROVE  /\ SameNotes(h, g)
         /\ \A ref \in Refs(h) : ref \in refs => NoteAt(g, ref) = Checked(NoteAt(h, ref), spentNow)
         /\ \A ref \in Refs(h) : ref \notin refs => NoteAt(g, ref) = NoteAt(h, ref)
<1> DEFINE f == [ref \in Refs(h) |-> Checked(NoteAt(h, ref), spentNow)]
<1>1. \A ref \in Refs(h) : NoteAt(h, ref) \in Note
  BY RefIs
<1>2. /\ f \in [Refs(h) -> Note]
      /\ \A ref \in Refs(h) : f[ref].leaf = NoteAt(h, ref).leaf
  BY <1>1, CheckedNote
<1>3. IsReplaced(h, refs, f, g)
  <2>1. \A a \in DOMAIN h : \A p \in DOMAIN h[a] : f[<<a, p>>] = Checked(h[a][p], spentNow)
    BY RefOf
  <2> HIDE DEF f
  <2> QED BY <2>1 DEF IsReplaced, IsChecked
<1> HIDE DEF f
<1>4. /\ SameNotes(h, g)
      /\ \A ref \in Refs(h) :
           NoteAt(g, ref) = IF ref \in refs THEN f[ref] ELSE NoteAt(h, ref)
  BY <1>2, <1>3, Replaced
<1>5. \A ref \in Refs(h) : f[ref] = Checked(NoteAt(h, ref), spentNow)
  BY DEF f
<1> QED BY <1>4, <1>5

IsAged(h, g) ==
  g = [a \in DOMAIN h |-> [p \in DOMAIN h[a] |-> [h[a][p] EXCEPT !.age = Older(@)]]]

LEMMA AgedNotes ==
  ASSUME NEW h \in Seq(Seq(Note)), NEW g, IsAged(h, g)
  PROVE  /\ SameNotes(h, g)
         /\ \A ref \in Refs(h) : /\ NoteAt(g, ref).spent = NoteAt(h, ref).spent
                                /\ NoteAt(g, ref).age = Older(NoteAt(h, ref).age)
<1> DEFINE old(n) == [n EXCEPT !.age = Older(@)]
           f == [ref \in Refs(h) |-> old(NoteAt(h, ref))]
<1>1. ASSUME NEW n \in Note
      PROVE  /\ old(n) \in Note /\ old(n).leaf = n.leaf /\ old(n).spent = n.spent
             /\ old(n).age = Older(n.age)
  <2>1. n.age \in NoMark .. Old
    BY NoteTyped
  <2>2. Older(n.age) \in NoMark .. Old
    BY <2>1 DEF Older, NoMark, Fresh, Recent, Old
  <2>3. old(n) = [n EXCEPT !.age = Older(n.age)]
    OBVIOUS
  <2> HIDE DEF old
  <2> QED BY <2>2, <2>3 DEF Note
<1>2. \A ref \in Refs(h) : NoteAt(h, ref) \in Note
  BY RefIs
<1>3. IsReplaced(h, Refs(h), f, g)
  <2>1. \A a \in DOMAIN h : \A p \in DOMAIN h[a] :
          <<a, p>> \in Refs(h) /\ f[<<a, p>>] = old(h[a][p])
    BY RefOf
  <2> HIDE DEF f
  <2> QED BY <2>1 DEF IsReplaced, IsAged
<1> HIDE DEF old
<1>4. \A ref \in Refs(h) : f[ref] = old(NoteAt(h, ref))
  OBVIOUS
<1>5. f \in [Refs(h) -> Note] /\ \A ref \in Refs(h) : f[ref].leaf = NoteAt(h, ref).leaf
  BY <1>1, <1>2
<1> HIDE DEF f
<1>6. SameNotes(h, g) /\ \A ref \in Refs(h) : NoteAt(g, ref) = f[ref]
  BY <1>3, <1>5, Replaced
<1> QED BY <1>1, <1>2, <1>4, <1>6

-----------------------------------------------------------------------------
(* What the parts of the invariant depend on *)

LEMMA ShapeGrows ==
  ASSUME NEW k, NEW h \in Seq(Seq(Note)), NEW g \in Seq(Seq(Note)),
         Len(h) <= Len(g), Refs(h) \subseteq Refs(g),
         NEW i \in Nat, NEW j \in Nat, i <= j, NEW n \in Nat, NEW m \in Nat, n <= m,
         Shape(k, h, i, n)
  PROVE  Shape(k, g, j, m)
<1>1. k.arr \in 0 .. Len(g) /\ k.wire \in 0 .. m /\ k.asof \in 0 .. j
  BY DEF Shape
<1>2. k.inputs \in Seq(Refs(g))
  <2>1. k.inputs \in Seq(Refs(h))
    BY DEF Shape
  <2> QED BY <2>1
<1> QED BY <1>1, <1>2 DEF Shape

LEMMA PagesGrow ==
  ASSUME NEW ls \in Seq(Nat), NEW more, \A x \in DOMAIN ls : more[x] = ls[x],
         NEW n \in Nat, n <= Len(ls), NEW notes, Pages(ls, notes, n)
  PROVE  Pages(more, notes, n)
<1>1. \A x \in 1 .. n : x \in DOMAIN ls
  OBVIOUS
<1>2. {x \in 1 .. n : more[x] > 0} = {x \in 1 .. n : ls[x] > 0}
  BY <1>1
<1> QED BY <1>2 DEF Pages

LEMMA PagesSame ==
  ASSUME NEW h \in Seq(Seq(Note)), NEW g, SameNotes(h, g), NEW a \in DOMAIN h,
         NEW ls, NEW n, Pages(ls, h[a], n)
  PROVE  Pages(ls, g[a], n)
<1>1. DOMAIN g[a] = DOMAIN h[a] /\ \A p \in DOMAIN h[a] : g[a][p].leaf = h[a][p].leaf
  BY SameRefs DEF SameNotes
<1>2. {g[a][p].leaf : p \in DOMAIN g[a]} = {h[a][p].leaf : p \in DOMAIN h[a]}
  BY <1>1
<1> QED BY <1>1, <1>2 DEF Pages

LEMMA CellSame ==
  ASSUME NEW h \in Seq(Seq(Note)), NEW g, SameNotes(h, g), NEW ls, NEW n, Pages(ls, Cell(h), n)
  PROVE  Pages(ls, Cell(g), n)
<1>1. CASE h = <<>>
  BY <1>1 DEF SameNotes, Cell
<1>2. CASE h # <<>>
  <2>1. 1 \in DOMAIN h /\ g # <<>>
    BY <1>2 DEF SameNotes
  <2> QED BY <1>2, <2>1, PagesSame DEF Cell
<1> QED BY <1>1, <1>2

LEMMA LeavesSame ==
  ASSUME NEW h \in Seq(Seq(Note)), NEW g, SameNotes(h, g), NEW refs \in SUBSET Refs(h)
  PROVE  LeavesAt(g, refs) = LeavesAt(h, refs)
<1>1. \A ref \in refs : NoteAt(g, ref).leaf = NoteAt(h, ref).leaf
  BY SameRefs
<1> QED BY <1>1 DEF LeavesAt

LEMMA InputRefs ==
  ASSUME NEW k, NEW h, NEW i, NEW n, Shape(k, h, i, n)
  PROVE  ToSet(k.inputs) \subseteq Refs(h)
<1>1. k.inputs \in Seq(Refs(h))
  BY DEF Shape
<1> QED BY <1>1 DEF ToSet

LEMMA HeldRefs ==
  ASSUME CallInv, NEW c \in Calls
  PROVE  Held(c) \subseteq Refs(heap) /\ HeldLeaves(c) = LeavesAt(heap, Held(c))
<1>1. Held(c) \subseteq Refs(heap)
  BY InputRefs DEF CallInv, Held
<1>2. HeldLeaves(c) = LeavesAt(heap, Held(c))
  BY DEF HeldLeaves, LeafAt, LeavesAt, NoteAt
<1> QED BY <1>1, <1>2

\* There is one array, and a leaf is in it once.
LEMMA OneRefEach ==
  ASSUME HeapInv, SyncInv, NEW r \in Refs(heap), NEW s \in Refs(heap),
         NoteAt(heap, r).leaf = NoteAt(heap, s).leaf
  PROVE  r = s
<1>1. heap \in Seq(Seq(Note)) /\ Len(heap) <= 1
  BY DEF HeapInv
<1>2. /\ r = <<r[1], r[2]>> /\ r[1] \in DOMAIN heap /\ r[2] \in DOMAIN heap[r[1]]
      /\ s = <<s[1], s[2]>> /\ s[1] \in DOMAIN heap /\ s[2] \in DOMAIN heap[s[1]]
  BY <1>1, RefIs
<1>3. r[1] = 1 /\ s[1] = 1 /\ heap # <<>>
  BY <1>1, <1>2
<1>4. Cell(heap) = heap[1]
  BY <1>3 DEF Cell
<1>5. \E n : Pages(leaves, heap[1], n)
  BY <1>4 DEF SyncInv, Reads
<1>6. heap[1][r[2]].leaf = heap[1][s[2]].leaf
  BY <1>3 DEF NoteAt
<1>7. r[2] = s[2]
  BY <1>2, <1>3, <1>5, <1>6 DEF Pages
<1> QED BY <1>2, <1>3, <1>7

LEMMA CallSet ==
  ASSUME DOMAIN call = Calls, NEW c \in Calls, NEW k, NEW next, next = [call EXCEPT ![c] = k]
  PROVE  /\ DOMAIN next = Calls /\ next[c] = k
         /\ \A d \in Calls : d # c => next[d] = call[d]
OBVIOUS

-----------------------------------------------------------------------------
(* The chain, the relayer and the clock *)

LEMMA WorldKeeps ==
  ASSUME IInv, ChainInv', WireInv', UNCHANGED <<client, call>>,
         \A x \in DOMAIN leaves : leaves'[x] = leaves[x],
         consumed \subseteq consumed', indexed <= indexed', Len(wires') = Len(wires),
         \A w \in DOMAIN wires : wires'[w].ins = wires[w].ins
  PROVE  IInv'
<1>1. /\ heap' = heap /\ current' = current /\ reserved' = reserved /\ scanned' = scanned
      /\ call' = call
  BY DEF client
<1>2. /\ leaves \in Seq(Nat) /\ indexed \in Nat /\ indexed <= Len(leaves) /\ indexed' \in Nat
      /\ heap \in Seq(Seq(Note)) /\ scanned \in Nat /\ scanned <= indexed
      /\ wires \in Seq(Wire) /\ wires' \in Seq(Wire)
  BY DEF IInv, ChainInv, HeapInv, WireInv
<1>3. HeapInv'
  BY <1>1, <1>2 DEF IInv, HeapInv
<1>4. CallInv'
  <2>1. \A c \in Calls : Shape(call[c], heap, indexed', Len(wires'))
    <3> SUFFICES ASSUME NEW c \in Calls PROVE Shape(call[c], heap, indexed', Len(wires'))
      OBVIOUS
    <3>1. Shape(call[c], heap, indexed, Len(wires))
      BY DEF IInv, CallInv
    <3>2. Len(wires) \in Nat
      BY <1>2
    <3> QED BY <1>2, <3>1, <3>2, ShapeGrows
  <2> QED BY <1>1, <2>1 DEF IInv, CallInv
<1>5. ASSUME NEW notes, NEW n \in Nat, n <= indexed, Pages(leaves, notes, n)
      PROVE  Pages(leaves', notes, n)
  <2>1. n <= Len(leaves) /\ leaves \in Seq(Nat) /\ Pages(leaves, notes, n)
    BY <1>2, <1>5
  <2> QED BY <2>1, PagesGrow, Zenon
<1>6. SyncInv'
  <2>1. /\ current = 0 => heap = <<>> \/ \E c \in Calls : call[c].pc \in Reading
        /\ current = 0 /\ (\A c \in Calls : call[c].pc # "marks") => scanned = 0
        /\ (\A c \in Calls : call[c].pc # "page") => Pages(leaves, Cell(heap), scanned)
    BY DEF IInv, SyncInv
  <2>2. (\A c \in Calls : call[c].pc # "page") => Pages(leaves', Cell(heap), scanned)
    BY <1>2, <1>5, <2>1
  <2>3. ASSUME NEW c \in Calls
        PROVE  Reads(call[c], heap, scanned, indexed', leaves')
    <3>1. Reads(call[c], heap, scanned, indexed, leaves) /\ call[c].start \in Nat
      BY DEF IInv, SyncInv, CallInv, Shape
    <3>2. CASE call[c].pc = "page"
      <4>1. call[c].start <= indexed /\ Pages(leaves, heap[1], call[c].start)
        BY <3>1, <3>2 DEF Reads
      <4>2. Pages(leaves', heap[1], call[c].start)
        BY <1>5, <3>1, <4>1
      <4>3. call[c].start <= indexed'
        BY <1>2, <3>1, <4>1
      <4> QED BY <3>1, <3>2, <4>2, <4>3 DEF Reads
    <3>3. CASE call[c].pc # "page"
      BY <3>3 DEF Reads
    <3> QED BY <3>2, <3>3
  <2>4. ASSUME NEW c \in Calls
        PROVE  Asks(call[c], heap, consumed', reserved)
    <3>1. Asks(call[c], heap, consumed, reserved)
      BY DEF IInv, SyncInv
    <3> QED BY <3>1 DEF Asks
  <2> QED BY <1>1, <2>1, <2>2, <2>3, <2>4 DEF SyncInv
<1>7. PayInv'
  <2> SUFFICES ASSUME NEW c \in Calls PROVE Pays(call[c], heap, wires')
    BY <1>1 DEF PayInv
  <2>1. Pays(call[c], heap, wires)
    BY DEF IInv, PayInv
  <2>2. DOMAIN wires' = DOMAIN wires
    BY <1>2
  <2> QED BY <2>1, <2>2 DEF Pays
<1>8. MarkInv'
  <2>1. \A c \in Calls : Held(c)' = Held(c)
    BY <1>1 DEF Held
  <2> QED BY <1>1, <2>1 DEF IInv, MarkInv, Marks
<1>9. ChooseInv'
  BY <1>1 DEF IInv, ChooseInv
<1> QED BY <1>3, <1>4, <1>6, <1>7, <1>8, <1>9 DEF IInv

LEMMA GrowKeeps ==
  ASSUME leaves \in Seq(Nat), Even(Len(leaves)), NEW outs \in Pair, Grow(outs)
  PROVE  /\ leaves' \in Seq(Nat) /\ Len(leaves') = Len(leaves) + 2 /\ Len(leaves') <= MaxLeaves
         /\ DOMAIN leaves \subseteq DOMAIN leaves'
         /\ \A x \in DOMAIN leaves : leaves'[x] = leaves[x]
         /\ Even(Len(leaves'))
<1>1. leaves \in Seq(Nat) /\ outs \in Seq(Nat) /\ Len(outs) = 2
  BY DEF Pair
<1>2. leaves' = leaves \o outs /\ Len(leaves) + 2 <= MaxLeaves
  BY DEF Grow
<1>3. /\ leaves' \in Seq(Nat) /\ Len(leaves') = Len(leaves) + 2 /\ Len(leaves') <= MaxLeaves
      /\ \A x \in DOMAIN leaves : leaves'[x] = leaves[x]
      /\ DOMAIN leaves \subseteq DOMAIN leaves'
  <2>1. /\ leaves' \in Seq(Nat) /\ Len(leaves') = Len(leaves) + 2
        /\ \A x \in 1 .. Len(leaves) : leaves'[x] = leaves[x]
    <3>1. /\ leaves \o outs \in Seq(Nat) /\ Len(leaves \o outs) = Len(leaves) + Len(outs)
          /\ \A x \in 1 .. Len(leaves) : (leaves \o outs)[x] = leaves[x]
      BY <1>1, JoinedSeq, Zenon
    <3> QED BY <1>1, <1>2, <3>1
  <2>2. DOMAIN leaves = 1 .. Len(leaves) /\ DOMAIN leaves' = 1 .. Len(leaves') /\ Len(leaves) \in Nat
    BY <1>1, <2>1
  <2> QED BY <1>2, <2>1, <2>2
<1>4. PICK n \in 0 .. MaxLeaves : Len(leaves) = 2 * n
  BY DEF Even
<1>5. Len(leaves') = 2 * (n + 1) /\ n + 1 \in 0 .. MaxLeaves
  BY <1>3, <1>4, ClientAssumption
<1> QED BY <1>3, <1>5 DEF Even

LEMMA GrownChain ==
  ASSUME ChainInv, leaves' \in Seq(Nat), Len(leaves') = Len(leaves) + 2, Len(leaves') <= MaxLeaves,
         Even(Len(leaves')), indexed' = indexed, consumed' \subseteq DOMAIN leaves',
         happened' \in [Happens -> Nat]
  PROVE  ChainInv'
<1>1. leaves \in Seq(Nat) /\ indexed \in Nat /\ indexed <= Len(leaves) /\ Even(indexed)
  BY DEF ChainInv
<1>2. indexed' \in Nat /\ Even(indexed') /\ indexed' <= Len(leaves')
  <2>1. Len(leaves) \in Nat
    BY <1>1
  <2> QED BY <1>1, <2>1
<1> QED BY <1>2 DEF ChainInv

LEMMA CountKeeps ==
  ASSUME happened \in [Happens -> Nat], NEW h \in Happens, Count(h)
  PROVE  happened' \in [Happens -> Nat]
<1>1. happened \in [Happens -> Nat] /\ happened' = [happened EXCEPT ![h] = happened[h] + 1]
  BY DEF Count
<1> HIDE DEF Happens
<1> QED BY <1>1

LEMMA ReceiveKeeps ==
  ASSUME IInv, Receive
  PROVE  IInv'
<1>1. PICK amount \in Incoming : Grow(<<amount, 0>>)
  BY DEF Receive
<1>2. <<amount, 0>> \in Pair
  <2>1. amount \in Nat
    BY ClientAssumption
  <2> QED BY <2>1 DEF Pair
<1>3. /\ leaves' \in Seq(Nat) /\ Len(leaves') = Len(leaves) + 2 /\ Len(leaves') <= MaxLeaves
      /\ DOMAIN leaves \subseteq DOMAIN leaves'
      /\ \A x \in DOMAIN leaves : leaves'[x] = leaves[x]
      /\ Even(Len(leaves'))
  BY <1>1, <1>2, GrowKeeps DEF IInv, ChainInv
<1>4. UNCHANGED <<consumed, indexed, wires, client, call, happened>>
  BY DEF Receive
<1>5. leaves \in Seq(Nat)
  BY DEF IInv, ChainInv
<1>6. ChainInv'
  <2>1. /\ consumed \subseteq DOMAIN leaves /\ happened \in [Happens -> Nat] /\ ChainInv
        /\ consumed' = consumed /\ happened' = happened /\ indexed' = indexed
    BY <1>4 DEF IInv, ChainInv
  <2>2. consumed' \subseteq DOMAIN leaves' /\ happened' \in [Happens -> Nat]
    BY <1>3, <2>1
  <2> QED BY <1>3, <2>1, <2>2, GrownChain
<1>7. WireInv'
  BY <1>3, <1>4 DEF IInv, WireInv
<1>8. indexed \in Nat /\ indexed' = indexed /\ consumed' = consumed /\ wires' = wires
      /\ UNCHANGED <<client, call>>
  BY <1>4 DEF IInv, ChainInv
<1> QED BY <1>3, <1>6, <1>7, <1>8, WorldKeeps

LEMMA SpentElsewhereKeeps ==
  ASSUME IInv, SpentElsewhere
  PROVE  IInv'
<1>1. PICK i \in DOMAIN leaves : consumed' = consumed \cup {i}
  BY DEF SpentElsewhere
<1>2. Grow(<<0, 0>>) /\ <<0, 0>> \in Pair
  BY DEF SpentElsewhere, Pair
<1>3. /\ leaves' \in Seq(Nat) /\ Len(leaves') = Len(leaves) + 2 /\ Len(leaves') <= MaxLeaves
      /\ DOMAIN leaves \subseteq DOMAIN leaves'
      /\ \A x \in DOMAIN leaves : leaves'[x] = leaves[x]
      /\ Even(Len(leaves'))
  BY <1>2, GrowKeeps DEF IInv, ChainInv
<1>4. UNCHANGED <<indexed, wires, client, call>>
  BY DEF SpentElsewhere
<1>5. happened' \in [Happens -> Nat]
  <2>1. "others" \in Happens /\ Count("others") /\ ChainInv
    BY DEF SpentElsewhere, Happens, IInv
  <2> QED BY <2>1, CountKeeps DEF ChainInv
<1>6. ChainInv'
  <2>1. leaves \in Seq(Nat) /\ consumed \subseteq DOMAIN leaves
    BY DEF IInv, ChainInv
  <2>2. consumed' \subseteq DOMAIN leaves'
    BY <1>1, <1>3, <2>1
  <2> QED BY <1>3, <1>4, <1>5, <2>2, GrownChain DEF IInv
<1>7. WireInv'
  BY <1>1, <1>3, <1>4 DEF IInv, WireInv
<1>8. indexed \in Nat /\ indexed' = indexed /\ consumed \subseteq consumed' /\ wires' = wires
      /\ UNCHANGED <<client, call>>
  BY <1>1, <1>4 DEF IInv, ChainInv
<1> QED BY <1>3, <1>6, <1>7, <1>8, WorldKeeps

\* A request that lands leaves its notes spent.
LEMMA LandKeeps ==
  ASSUME IInv, NEW w \in DOMAIN wires, Land(w)
  PROVE  IInv'
<1>1. /\ Grow(wires[w].outs) /\ consumed' = consumed \cup ToSet(wires[w].ins)
      /\ wires' = [wires EXCEPT ![w].state = "landed"]
      /\ UNCHANGED <<indexed, client, call, happened>>
  BY DEF Land
<1>2. wires \in Seq(Wire) /\ wires[w] \in Wire /\ wires[w].outs \in Pair
  <2>1. wires \in Seq(Wire)
    BY DEF IInv, WireInv
  <2>2. wires[w] \in Wire
    BY <2>1
  <2> QED BY <2>1, <2>2 DEF Wire
<1>3. /\ leaves' \in Seq(Nat) /\ Len(leaves') = Len(leaves) + 2 /\ Len(leaves') <= MaxLeaves
      /\ DOMAIN leaves \subseteq DOMAIN leaves'
      /\ \A x \in DOMAIN leaves : leaves'[x] = leaves[x]
      /\ Even(Len(leaves'))
  BY <1>1, <1>2, GrowKeeps DEF IInv, ChainInv
<1>4. /\ wires' \in Seq(Wire) /\ Len(wires') = Len(wires)
      /\ \A v \in DOMAIN wires : wires'[v].ins = wires[v].ins
      /\ \A v \in DOMAIN wires : v # w => wires'[v] = wires[v]
  <2> DEFINE wire == [wires[w] EXCEPT !.state = "landed"]
  <2>1. wire \in Wire /\ wire.ins = wires[w].ins
    BY <1>2 DEF Wire
  <2>2. wires' = [wires EXCEPT ![w] = wire]
    BY <1>1
  <2> HIDE DEF wire
  <2> QED BY <1>2, <2>1, <2>2
<1>5. ToSet(wires[w].ins) \subseteq DOMAIN leaves /\ consumed \subseteq DOMAIN leaves
  BY DEF IInv, WireInv, ChainInv
<1>6. ChainInv'
  <2>1. leaves \in Seq(Nat) /\ indexed' = indexed /\ happened' = happened
    BY <1>1 DEF IInv, ChainInv
  <2>2. consumed' \subseteq DOMAIN leaves'
    BY <1>1, <1>3, <1>5
  <2>3. happened' \in [Happens -> Nat]
    BY <2>1 DEF IInv, ChainInv
  <2> QED BY <1>3, <2>1, <2>2, <2>3, GrownChain DEF IInv
<1>7. WireInv'
  <2> SUFFICES ASSUME NEW v \in DOMAIN wires'
               PROVE  /\ ToSet(wires'[v].ins) \subseteq DOMAIN leaves'
                      /\ wires'[v].state = "landed" => ToSet(wires'[v].ins) \subseteq consumed'
    BY <1>4 DEF WireInv
  <2>1. v \in DOMAIN wires /\ wires'[v].ins = wires[v].ins
    BY <1>2, <1>4
  <2>2. ToSet(wires[v].ins) \subseteq DOMAIN leaves
    BY <2>1 DEF IInv, WireInv
  <2>3. CASE v = w
    BY <1>1, <1>3, <2>1, <2>2, <2>3
  <2>4. CASE v # w
    <3>1. wires'[v] = wires[v]
      BY <1>4, <2>1, <2>4
    <3> QED BY <1>1, <1>3, <2>1, <2>2, <3>1 DEF IInv, WireInv
  <2> QED BY <2>3, <2>4
<1>8. indexed \in Nat /\ indexed' = indexed /\ consumed \subseteq consumed' /\ UNCHANGED <<client, call>>
  BY <1>1 DEF IInv, ChainInv
<1> QED BY <1>3, <1>4, <1>6, <1>7, <1>8, WorldKeeps

LEMMA IndexKeeps ==
  ASSUME IInv, Index
  PROVE  IInv'
<1>1. /\ indexed < Len(leaves) /\ indexed' = indexed + 2
      /\ UNCHANGED <<leaves, consumed, wires, client, call, happened>>
  BY DEF Index
<1>2. leaves \in Seq(Nat) /\ Len(leaves) <= MaxLeaves /\ indexed \in Nat /\ Len(leaves) \in Nat
  BY DEF IInv, ChainInv
<1>3. PICK n \in 0 .. MaxLeaves : Len(leaves) = 2 * n
  BY DEF IInv, ChainInv, Even
<1>4. PICK m \in 0 .. MaxLeaves : indexed = 2 * m
  BY DEF IInv, ChainInv, Even
<1>5. m + 1 \in 0 .. MaxLeaves /\ indexed' = 2 * (m + 1) /\ indexed' <= Len(leaves)
  BY <1>1, <1>2, <1>3, <1>4, ClientAssumption
<1>6. ChainInv'
  <2>1. indexed' \in Nat /\ Even(indexed')
    BY <1>1, <1>2, <1>5 DEF Even
  <2> QED BY <1>1, <1>5, <2>1 DEF IInv, ChainInv
<1>7. WireInv'
  BY <1>1 DEF IInv, WireInv
<1>8. indexed <= indexed'
  BY <1>1, <1>2
<1> QED BY <1>1, <1>6, <1>7, <1>8, WorldKeeps

-----------------------------------------------------------------------------
(* Steps that read nothing *)

LEMMA SameHeap ==
  ASSUME HeapInv, SameNotes(heap, heap'), UNCHANGED <<current, scanned, indexed>>
  PROVE  HeapInv' /\ Refs(heap') = Refs(heap)
<1>1. heap \in Seq(Seq(Note)) /\ heap' \in Seq(Seq(Note)) /\ Len(heap') = Len(heap)
  BY DEF HeapInv, SameNotes
<1>2. Refs(heap') = Refs(heap)
  BY <1>1, SameRefs
<1> QED BY <1>1, <1>2 DEF HeapInv

LEMMA ShapeSame ==
  ASSUME NEW h \in Seq(Seq(Note)), NEW g, SameNotes(h, g), NEW k,
         NEW i \in Nat, NEW n \in Nat, NEW m \in Nat, n <= m, Shape(k, h, i, n)
  PROVE  Shape(k, g, i, m)
<1>1. g \in Seq(Seq(Note)) /\ Len(h) <= Len(g) /\ Refs(h) \subseteq Refs(g)
  <2>1. g \in Seq(Seq(Note)) /\ Len(g) = Len(h) /\ Len(h) \in Nat
    BY DEF SameNotes
  <2> QED BY <2>1, SameRefs
<1> QED BY <1>1, ShapeGrows

LEMMA ReadsSame ==
  ASSUME NEW h \in Seq(Seq(Note)), NEW g, SameNotes(h, g), NEW k, NEW s, NEW i, NEW ls,
         1 \in DOMAIN h, Reads(k, h, s, i, ls)
  PROVE  Reads(k, g, s, i, ls)
BY PagesSame DEF Reads

LEMMA AsksSame ==
  ASSUME NEW h \in Seq(Seq(Note)), NEW g, SameNotes(h, g), NEW k, NEW con, NEW res,
         NEW less \in SUBSET res, 1 \in DOMAIN h, Asks(k, h, con, res)
  PROVE  Asks(k, g, con, less)
<1> SUFFICES ASSUME k.pc = "marks" PROVE Asks(k, g, con, less)
  BY DEF Asks
<1>1. DOMAIN g[1] = DOMAIN h[1] /\ \A p \in DOMAIN h[1] : g[1][p].leaf = h[1][p].leaf
  <2>1. DOMAIN g[1] = DOMAIN h[1]
    BY SameRefs
  <2>2. \A p \in DOMAIN h[1] : g[1][p].leaf = h[1][p].leaf
    BY Zenon DEF SameNotes
  <2> QED BY <2>1, <2>2
<1>2. k.asked \subseteq DOMAIN h[1] /\ \A p \in k.asked : h[1][p].leaf \notin res
  BY DEF Asks
<1>3. {g[1][p].leaf : p \in k.asked} = {h[1][p].leaf : p \in k.asked}
  BY <1>1, <1>2
<1> QED BY <1>1, <1>2, <1>3 DEF Asks

LEMMA PaysSame ==
  ASSUME NEW h \in Seq(Seq(Note)), NEW g, SameNotes(h, g), NEW k,
         NEW ws \in Seq(Wire), NEW us \in Seq(Wire), Len(ws) <= Len(us),
         \A w \in DOMAIN ws : us[w].ins = ws[w].ins,
         ToSet(k.inputs) \subseteq Refs(h), Pays(k, h, ws)
  PROVE  Pays(k, g, us)
<1>1. LeavesAt(g, ToSet(k.inputs)) = LeavesAt(h, ToSet(k.inputs))
  BY LeavesSame
<1>2. DOMAIN ws \subseteq DOMAIN us
  BY DEF Wire
<1> QED BY <1>1, <1>2 DEF Pays

\* An array is there when a call reads it.
LEMMA ReadingArray ==
  ASSUME HeapInv, CallInv, NEW c \in Calls, call[c].pc \in Reading \cup Choosing
  PROVE  1 \in DOMAIN heap /\ heap # <<>> /\ Len(heap) = 1 /\ call[c].arr = 1
<1>1. call[c].arr = 1 /\ call[c].arr \in 0 .. Len(heap)
  BY DEF CallInv, Shape
<1>2. heap \in Seq(Seq(Note)) /\ Len(heap) <= 1 /\ Len(heap) \in Nat
  BY DEF HeapInv
<1>3. Len(heap) = 1
  <2> DEFINE n == Len(heap)
  <2>1. 1 \in 0 .. n /\ n \in Nat /\ n <= 1
    BY <1>1, <1>2
  <2> HIDE DEF n
  <2>2. n = 1
    BY <2>1
  <2> QED BY <2>2 DEF n
<1>4. 1 \in DOMAIN heap
  <2>1. DOMAIN heap = 1 .. Len(heap)
    BY <1>2
  <2>2. 1 \in 1 .. 1
    OBVIOUS
  <2> QED BY <1>3, <2>1, <2>2
<1>5. heap # <<>>
  <2>1. DOMAIN <<>> = {}
    OBVIOUS
  <2> QED BY <1>4, <2>1
<1> QED BY <1>1, <1>3, <1>4, <1>5

LEMMA CallsMove ==
  ASSUME IInv, UNCHANGED <<chain, current, scanned>>, happened' \in [Happens -> Nat],
         WireInv', Len(wires) <= Len(wires'),
         \A w \in DOMAIN wires : wires'[w].ins = wires[w].ins,
         SameNotes(heap, heap'), reserved' \subseteq reserved, DOMAIN call' = Calls,
         \A d \in Calls : \/ call'[d] = call[d]
                          \/ /\ Shape(call'[d], heap, indexed, Len(wires'))
                             /\ call[d].pc \notin Reading /\ call'[d].pc \notin Reading
                             /\ Pays(call'[d], heap, wires'),
         \A c, d \in Calls : call'[c].pc \notin Resting /\ call'[d].pc \notin Resting => c = d,
         MarkInv', ChooseInv'
  PROVE  IInv'
<1>1. /\ leaves' = leaves /\ consumed' = consumed /\ indexed' = indexed
      /\ current' = current /\ scanned' = scanned
  BY DEF chain
<1>2. /\ heap \in Seq(Seq(Note)) /\ heap' \in Seq(Seq(Note)) /\ Len(heap') = Len(heap)
      /\ indexed \in Nat /\ wires \in Seq(Wire) /\ wires' \in Seq(Wire)
      /\ Len(wires) \in Nat /\ Len(wires') \in Nat
  BY DEF IInv, ChainInv, HeapInv, WireInv, SameNotes
<1>3. ChainInv'
  BY <1>1 DEF IInv, ChainInv
<1>4. HeapInv'
  BY <1>1, SameHeap DEF IInv
<1>5. \A d \in Calls : call'[d].pc \in Reading \/ call[d].pc \in Reading => call'[d] = call[d]
  OBVIOUS
<1>6. CallInv'
  <2>1. ASSUME NEW d \in Calls
        PROVE  Shape(call'[d], heap', indexed, Len(wires'))
    <3>1. CASE call'[d] = call[d]
      <4>1. Shape(call[d], heap, indexed, Len(wires))
        BY DEF IInv, CallInv
      <4> QED BY <1>2, <3>1, <4>1, ShapeSame
    <3>2. CASE Shape(call'[d], heap, indexed, Len(wires'))
      <4>1. Len(wires') <= Len(wires')
        BY <1>2
      <4> QED BY <1>2, <3>2, <4>1, ShapeSame
    <3> QED BY <3>1, <3>2
  <2> QED BY <1>1, <2>1 DEF CallInv
<1>7. SyncInv'
  <2>1. \A d \in Calls : call'[d].pc \in Reading <=> call[d].pc \in Reading
    BY <1>5
  <2>2. \A d \in Calls : /\ call'[d].pc = "page" <=> call[d].pc = "page"
                         /\ call'[d].pc = "marks" <=> call[d].pc = "marks"
    BY <1>5 DEF Reading
  <2>3. heap' = <<>> <=> heap = <<>>
    BY <1>2
  <2>4. current = 0 => heap = <<>> \/ \E d \in Calls : call[d].pc \in Reading
    BY DEF IInv, SyncInv
  <2>5. current' = 0 => heap' = <<>> \/ \E d \in Calls : call'[d].pc \in Reading
    BY <1>1, <2>1, <2>3, <2>4
  <2>6. current' = 0 /\ (\A d \in Calls : call'[d].pc # "marks") => scanned' = 0
    BY <1>1, <2>2 DEF IInv, SyncInv
  <2>7. (\A d \in Calls : call'[d].pc # "page") => Pages(leaves', Cell(heap'), scanned')
    <3> SUFFICES ASSUME \A d \in Calls : call'[d].pc # "page"
                 PROVE  Pages(leaves, Cell(heap'), scanned)
      BY <1>1
    <3>1. Pages(leaves, Cell(heap), scanned)
      BY <2>2 DEF IInv, SyncInv
    <3> QED BY <1>2, <3>1, CellSame
  <2>8. ASSUME NEW d \in Calls
        PROVE  Reads(call'[d], heap', scanned, indexed, leaves)
    <3>1. CASE call[d].pc = "page"
      <4>1. call'[d] = call[d] /\ 1 \in DOMAIN heap
        BY <1>5, <3>1, ReadingArray DEF Reading, IInv
      <4>2. Reads(call[d], heap, scanned, indexed, leaves)
        BY DEF IInv, SyncInv
      <4> QED BY <1>2, <4>1, <4>2, ReadsSame
    <3>2. CASE call[d].pc # "page"
      BY <2>2, <3>2 DEF Reads
    <3> QED BY <3>1, <3>2
  <2>9. ASSUME NEW d \in Calls
        PROVE  Asks(call'[d], heap', consumed, reserved')
    <3>1. CASE call[d].pc = "marks"
      <4>1. call'[d] = call[d] /\ 1 \in DOMAIN heap
        BY <1>5, <3>1, ReadingArray DEF Reading, IInv
      <4>2. Asks(call[d], heap, consumed, reserved)
        BY DEF IInv, SyncInv
      <4> QED BY <1>2, <4>1, <4>2, AsksSame
    <3>2. CASE call[d].pc # "marks"
      BY <2>2, <3>2 DEF Asks
    <3> QED BY <3>1, <3>2
  <2> QED BY <1>1, <2>5, <2>6, <2>7, <2>8, <2>9 DEF SyncInv
<1>8. PayInv'
  <2> SUFFICES ASSUME NEW d \in Calls PROVE Pays(call'[d], heap', wires')
    BY <1>1 DEF PayInv
  <2>1. CASE call'[d] = call[d]
    <3>1. Pays(call[d], heap, wires) /\ ToSet(call[d].inputs) \subseteq Refs(heap)
      BY InputRefs DEF IInv, PayInv, CallInv
    <3> QED BY <1>2, <2>1, <3>1, PaysSame
  <2>2. CASE Pays(call'[d], heap, wires') /\ Shape(call'[d], heap, indexed, Len(wires'))
    <3>1. ToSet(call'[d].inputs) \subseteq Refs(heap) /\ Len(wires') <= Len(wires')
          /\ \A w \in DOMAIN wires' : wires'[w].ins = wires'[w].ins
      BY <1>2, <2>2, InputRefs
    <3> QED BY <1>2, <2>2, <3>1, PaysSame
  <2> QED BY <2>1, <2>2
<1> QED BY <1>3, <1>4, <1>6, <1>7, <1>8 DEF IInv

LEMMA MarksKept ==
  ASSUME MarkInv, UNCHANGED <<heap, reserved>>,
         \A d \in Calls : call'[d].inputs = call[d].inputs
  PROVE  MarkInv'
<1>1. \A d \in Calls : Held(d)' = Held(d)
  BY DEF Held
<1> QED BY <1>1 DEF MarkInv, Marks

\* Notes that are released are no longer reserved, and no others are.
LEMMA MarksReleased ==
  ASSUME HeapInv, CallInv, SyncInv, MarkInv, NEW c \in Calls,
         SameNotes(heap, heap'), reserved' = reserved \ HeldLeaves(c),
         \A ref \in Refs(heap) : ref \notin Held(c) => NoteAt(heap', ref) = NoteAt(heap, ref),
         call'[c].inputs = <<>>, \A d \in Calls : d # c => call'[d] = call[d]
  PROVE  MarkInv'
<1>1. Held(c)' = {} /\ \A d \in Calls : d # c => Held(d)' = Held(d)
  BY DEF Held, ToSet
<1>2. /\ heap \in Seq(Seq(Note)) /\ Refs(heap') = Refs(heap)
      /\ \A ref \in Refs(heap) : NoteAt(heap', ref).leaf = NoteAt(heap, ref).leaf
  BY SameRefs DEF HeapInv
<1>3. \A d \in Calls : Held(d) \subseteq Refs(heap) /\ HeldLeaves(d) = LeavesAt(heap, Held(d))
  BY HeldRefs
<1>4. \A d, e \in Calls : d # e => Held(d) \cap Held(e) = {}
  BY DEF MarkInv, Marks
<1>5. \A d \in Calls : \A ref \in Held(d) : NoteAt(heap, ref).spent = TRUE
  BY DEF MarkInv, Marks
<1>6. reserved = UNION {LeavesAt(heap, Held(d)) : d \in Calls}
  BY DEF MarkInv, Marks
<1>7. \A d \in Calls : d # c => LeavesAt(heap', Held(d)') = LeavesAt(heap, Held(d))
  BY <1>1, <1>2, <1>3, LeavesSame
<1>8. LeavesAt(heap', Held(c)') = {}
  BY <1>1 DEF LeavesAt
<1>9. ASSUME NEW d \in Calls, d # c
      PROVE  LeavesAt(heap, Held(d)) \cap LeavesAt(heap, Held(c)) = {}
  <2> SUFFICES ASSUME NEW r \in Held(d), NEW s \in Held(c), NoteAt(heap, r).leaf = NoteAt(heap, s).leaf
               PROVE  FALSE
    BY DEF LeavesAt
  <2>1. r = s
    BY <1>3, OneRefEach
  <2> QED BY <1>4, <1>9, <2>1
<1>10. reserved' = UNION {LeavesAt(heap', Held(d)') : d \in Calls}
  <2>1. reserved' = (UNION {LeavesAt(heap, Held(d)) : d \in Calls}) \ LeavesAt(heap, Held(c))
    BY <1>3, <1>6
  <2>2. ASSUME NEW x
        PROVE  x \in reserved' <=> x \in UNION {LeavesAt(heap', Held(d)') : d \in Calls}
    <3>1. ASSUME x \in reserved'
          PROVE  \E d \in Calls : x \in LeavesAt(heap', Held(d)')
      <4>1. PICK d \in Calls : x \in LeavesAt(heap, Held(d)) /\ d # c
        BY <2>1, <3>1
      <4> QED BY <1>7, <4>1
    <3>2. ASSUME NEW d \in Calls, x \in LeavesAt(heap', Held(d)')
          PROVE  x \in reserved'
      <4>1. d # c /\ x \in LeavesAt(heap, Held(d))
        BY <1>7, <1>8, <3>2
      <4> QED BY <1>9, <2>1, <4>1
    <3> QED BY <3>1, <3>2
  <2> QED BY <2>2
<1>11. ASSUME NEW d \in Calls, NEW ref \in Held(d)'
       PROVE  NoteAt(heap', ref).spent = TRUE
  <2>1. d # c /\ ref \in Held(d)
    BY <1>1, <1>11
  <2>2. ref \in Refs(heap) /\ ref \notin Held(c)
    BY <1>3, <1>4, <2>1
  <2>3. NoteAt(heap', ref) = NoteAt(heap, ref)
    BY <2>2
  <2>4. NoteAt(heap, ref).spent = TRUE
    BY <1>5, <2>1
  <2> QED BY <2>3, <2>4
<1>12. ASSUME NEW d \in Calls, NEW e \in Calls, d # e
       PROVE  Held(d)' \cap Held(e)' = {}
  BY <1>1, <1>4, <1>12
<1> QED BY <1>2, <1>10, <1>11, <1>12 DEF MarkInv, Marks

\* A call at its start or end is in order whatever there is.
LEMMA PlainCall ==
  ASSUME NEW k, DOMAIN k = DOMAIN NoCall, k.pc \in {"idle", "sync"}, k.inputs = <<>>,
         k.arr = 0, k.start = 0, k.spentThen = {}, k.outs = <<0, 0>>, NEW i \in Nat, k.asof \in 0 .. i, NEW n \in Nat, k.wire \in 0 .. n,
         NEW h \in Seq(Seq(Note)), NEW ws
  PROVE  /\ Shape(k, h, i, n) /\ k.pc \notin Reading /\ k.pc \notin Choosing /\ Pays(k, h, ws)
<1>1. k.pc \in Pcs /\ k.pc \notin Paying /\ k.pc \notin Reading /\ k.pc \notin Choosing
  BY DEF Pcs, Paying, Reading, Choosing
<1>2. k.arr \in 0 .. Len(h) /\ k.start \in Nat
  OBVIOUS
<1>3. k.inputs \in Seq(Refs(h)) /\ IsInjective(k.inputs) /\ k.outs \in Pair
  BY DEF IsInjective, Pair
<1>4. Shape(k, h, i, n)
  BY <1>1, <1>2, <1>3 DEF Shape
<1>5. ToSet(k.inputs) = {} /\ LeavesAt(h, ToSet(k.inputs)) = {}
  BY DEF ToSet, LeavesAt
<1>6. k.pc # "relaying" /\ k.pc # "landing"
  OBVIOUS
<1> QED BY <1>1, <1>4, <1>5, <1>6 DEF Pays

\* Where one call changes, and at most one is on its way.
LEMMA OneAtATime ==
  ASSUME CallInv, NEW c \in Calls, \A d \in Calls : d # c => call'[d] = call[d],
         \/ call'[c].pc \in Resting \/ call[c].pc \notin Resting
         \/ \A d \in Calls : call[d].pc \in Resting
  PROVE  \A d, e \in Calls : call'[d].pc \notin Resting /\ call'[e].pc \notin Resting => d = e
<1> SUFFICES ASSUME NEW d \in Calls, NEW e \in Calls, call'[d].pc \notin Resting,
                    call'[e].pc \notin Resting, d # e
             PROVE  FALSE
  OBVIOUS
<1>1. \A a, b \in Calls : call[a].pc \notin Resting /\ call[b].pc \notin Resting => a = b
  BY DEF CallInv
<1>2. CASE d = c
  BY <1>1, <1>2
<1>3. CASE e = c
  BY <1>1, <1>3
<1>4. CASE d # c /\ e # c
  BY <1>1, <1>4
<1> QED BY <1>2, <1>3, <1>4

\* Notes, reservations and requests are as before, and one call has gone on.
LEMMA CallMoves ==
  ASSUME IInv, NEW c \in Calls, NEW k, Set(c, k), UNCHANGED <<chain, client>>,
         happened' \in [Happens -> Nat], WireInv', Len(wires) <= Len(wires'),
         \A w \in DOMAIN wires : wires'[w].ins = wires[w].ins,
         Shape(k, heap, indexed, Len(wires')), call[c].pc \notin Reading, k.pc \notin Reading,
         Pays(k, heap, wires'), Chooses(k, heap, reserved), k.inputs = call[c].inputs,
         \/ k.pc \in Resting \/ call[c].pc \notin Resting
         \/ \A d \in Calls : call[d].pc \in Resting
  PROVE  IInv'
<1>1. /\ DOMAIN call' = Calls /\ call'[c] = k
      /\ \A d \in Calls : d # c => call'[d] = call[d]
  BY CallSet DEF IInv, CallInv, Set
<1>2. /\ heap' = heap /\ reserved' = reserved /\ consumed' = consumed
      /\ current' = current /\ scanned' = scanned
  BY DEF chain, client
<1>3. SameNotes(heap, heap')
  BY <1>2 DEF SameNotes, IInv, HeapInv
<1>4. MarkInv'
  BY <1>1, <1>2, MarksKept DEF IInv
<1>5. \A d \in Calls : \/ call'[d] = call[d]
                       \/ /\ Shape(call'[d], heap, indexed, Len(wires'))
                          /\ call[d].pc \notin Reading /\ call'[d].pc \notin Reading
                          /\ Pays(call'[d], heap, wires')
  BY <1>1
<1>6. \A d, e \in Calls : call'[d].pc \notin Resting /\ call'[e].pc \notin Resting => d = e
  BY <1>1, OneAtATime DEF IInv
<1>7. UNCHANGED <<chain, current, scanned>> /\ reserved' \subseteq reserved
  BY <1>2
<1>8. ChooseInv'
  BY <1>1, <1>2 DEF IInv, ChooseInv
<1> QED BY <1>1, <1>3, <1>4, <1>5, <1>6, <1>7, <1>8, CallsMove

\* Nothing is kept to be submitted again.
LEMMA KeptNever ==
  ASSUME Sequential, ChainInv, NEW c \in Calls
  PROVE  ~Kept(c)
<1>1. happened["again"] \in Nat
  BY DEF ChainInv, Happens
<1> QED BY <1>1 DEF Kept, Sequential

LEMMA BeginKeeps ==
  ASSUME Sequential, IInv, NEW c \in Calls, BeginSync(c) \/ BeginPay(c)
  PROVE  IInv'
<1>1. PICK op, frames : Begin(c, op, frames)
  BY DEF BeginSync, BeginPay
<1> DEFINE k == [NoCall EXCEPT !.pc = "sync", !.op = op, !.frames = frames]
<1>2. /\ call[c].pc = "idle" /\ Set(c, k) /\ UNCHANGED <<chain, wires, client>>
      /\ \A d \in Calls : call[d].pc \in Resting
  <2>1. call[c].pc \in Pcs
    BY DEF IInv, CallInv, Shape
  <2>2. call[c].pc = "idle"
    BY <1>1, <2>1 DEF Begin, Pcs
  <2> QED BY <1>1, <2>2 DEF Begin, Sequential, Quiet
<1>3. happened' \in [Happens -> Nat]
  <2>1. CASE BeginSync(c)
    BY <2>1 DEF BeginSync, IInv, ChainInv
  <2>2. CASE BeginPay(c)
    <3>1. Count("pays") /\ "pays" \in Happens /\ ChainInv
      BY <2>2 DEF BeginPay, Happens, IInv
    <3> QED BY <3>1, CountKeeps DEF ChainInv
  <2> QED BY <2>1, <2>2
<1>4. /\ heap \in Seq(Seq(Note)) /\ indexed \in Nat /\ wires \in Seq(Wire) /\ Len(wires) \in Nat
      /\ wires' = wires /\ WireInv'
  <2>1. wires' = wires /\ leaves' = leaves /\ consumed' = consumed
    BY <1>2 DEF chain
  <2> QED BY <2>1 DEF IInv, HeapInv, ChainInv, WireInv
<1>5. /\ DOMAIN k = DOMAIN NoCall /\ k.pc = "sync" /\ k.inputs = <<>> /\ k.arr = 0 /\ k.start = 0
      /\ k.asof = 0 /\ k.wire = 0 /\ k.outs = <<0, 0>> /\ k.spentThen = {}
  BY DEF NoCall
<1>6. call[c].inputs = <<>> /\ call[c].pc \notin Reading
  BY <1>2 DEF IInv, CallInv, Shape, Paying, Reading
<1> HIDE DEF k
<1>7. 0 \in 0 .. indexed /\ 0 \in 0 .. Len(wires)
  BY <1>4
<1>8. Shape(k, heap, indexed, Len(wires)) /\ k.pc \notin Reading /\ Pays(k, heap, wires)
  BY <1>4, <1>5, <1>7, PlainCall
<1>9. Len(wires) <= Len(wires') /\ UNCHANGED <<chain, client>> /\ Chooses(k, heap, reserved)
  BY <1>2, <1>4, <1>5 DEF Chooses, Choosing
<1> QED BY <1>2, <1>3, <1>4, <1>5, <1>6, <1>8, <1>9, CallMoves

\* A call that goes on with its payment.
LEMMA PayingOn ==
  ASSUME NEW k, NEW h, NEW i \in Nat, NEW n \in Nat, NEW m \in Nat, n <= m, Shape(k, h, i, n),
         k.pc \in Paying, NEW next, DOMAIN next = DOMAIN k, next.pc \in Paying,
         next.arr = k.arr, next.start = k.start, next.inputs = k.inputs,
         next.asof \in 0 .. i, next.wire \in 0 .. m, next.outs \in Pair
  PROVE  /\ Shape(next, h, i, m) /\ next.pc \notin Reading /\ k.pc \notin Reading
         /\ \A g, res : Chooses(next, g, res)
<1>1. /\ next.pc \in Pcs /\ next.pc \notin Reading /\ k.pc \notin Reading
      /\ next.pc \notin Choosing /\ next.pc \notin {"sync", "page"}
  BY DEF Pcs, Paying, Reading, Choosing
<1> QED BY <1>1 DEF Shape, Chooses

LEMMA PathsKeeps ==
  ASSUME IInv, NEW c \in Calls, Paths(c)
  PROVE  IInv'
<1>1. PICK sizes \in SUBSET Served(c) :
        Set(c, [call[c] EXCEPT !.pc = "root", !.sizes = sizes, !.asof = indexed])
  BY DEF Paths
<1> DEFINE k == [call[c] EXCEPT !.pc = "root", !.sizes = sizes, !.asof = indexed]
<1>2. call[c].pc = "paths" /\ Set(c, k) /\ UNCHANGED <<chain, wires, client, happened>>
  BY <1>1 DEF Paths
<1>3. /\ indexed \in Nat /\ wires' = wires /\ Len(wires) \in Nat /\ WireInv'
      /\ happened' \in [Happens -> Nat]
  BY <1>2 DEF IInv, ChainInv, WireInv, chain
<1>4. Shape(call[c], heap, indexed, Len(wires)) /\ Pays(call[c], heap, wires)
  BY DEF IInv, CallInv, PayInv
<1>5. /\ DOMAIN k = DOMAIN call[c] /\ k.pc = "root" /\ k.asof = indexed
      /\ k.arr = call[c].arr /\ k.start = call[c].start /\ k.inputs = call[c].inputs
      /\ k.wire = call[c].wire /\ k.outs = call[c].outs /\ k.spentThen = call[c].spentThen
  BY <1>4 DEF Shape, NoCall
<1> HIDE DEF k
<1>6. /\ Shape(k, heap, indexed, Len(wires)) /\ k.pc \notin Reading /\ call[c].pc \notin Reading
      /\ Chooses(k, heap, reserved)
  <2>1. /\ "root" \in Paying /\ "paths" \in Paying /\ indexed \in 0 .. indexed
        /\ call[c].wire \in 0 .. Len(wires) /\ call[c].outs \in Pair /\ Len(wires) <= Len(wires)
    BY <1>3, <1>4 DEF Paying, Shape
  <2> QED BY <1>2, <1>3, <1>4, <1>5, <2>1, PayingOn
<1>7. Pays(k, heap, wires)
  BY <1>2, <1>4, <1>5 DEF Pays
<1>8. Len(wires) <= Len(wires') /\ call[c].pc \notin Resting /\ UNCHANGED <<chain, client>>
  BY <1>2, <1>3 DEF Resting
<1> QED BY <1>2, <1>3, <1>5, <1>6, <1>7, <1>8, CallMoves

\* A request is for the leaves of the inputs.
LEMMA RequestOf ==
  ASSUME NEW h \in Seq(Seq(Note)), NEW s \in Seq(Refs(h)), NEW ins,
         ins = [x \in DOMAIN s |-> NoteAt(h, s[x]).leaf]
  PROVE  ins \in Seq(Nat) /\ ToSet(ins) = LeavesAt(h, ToSet(s))
<1>1. \A x \in DOMAIN s : s[x] \in Refs(h)
  OBVIOUS
<1>2. \A x \in DOMAIN s : NoteAt(h, s[x]).leaf \in Nat
  BY <1>1, RefIs, NoteTyped
<1>3. ins \in Seq(Nat)
  <2>1. DOMAIN s = 1 .. Len(s) /\ Len(s) \in Nat
    OBVIOUS
  <2>2. ins = [x \in 1 .. Len(s) |-> ins[x]] /\ \A x \in 1 .. Len(s) : ins[x] \in Nat
    BY <1>2, <2>1
  <2> QED BY <2>1, <2>2
<1>4. ToSet(ins) = LeavesAt(h, ToSet(s))
  BY DEF ToSet, LeavesAt
<1> QED BY <1>3, <1>4

\* The notes are leaves that the relayer has.
LEMMA NotesAreLeaves ==
  ASSUME ChainInv, HeapInv, CallInv, SyncInv, NEW ref \in Refs(heap)
  PROVE  NoteAt(heap, ref).leaf \in 1 .. indexed /\ NoteAt(heap, ref).leaf \in DOMAIN leaves
<1>1. heap \in Seq(Seq(Note)) /\ Len(heap) <= 1 /\ scanned \in Nat /\ scanned <= indexed
  BY DEF HeapInv
<1>2. ref \in Refs(heap) /\ ref[1] \in DOMAIN heap /\ ref[2] \in DOMAIN heap[ref[1]]
  BY <1>1, RefIs
<1>3. ref[1] = 1 /\ heap # <<>> /\ Cell(heap) = heap[1]
  BY <1>1, <1>2 DEF Cell
<1>4. \E n \in Nat : n <= indexed /\ Pages(leaves, heap[1], n)
  <2>1. CASE \E c \in Calls : call[c].pc = "page"
    <3>1. PICK c \in Calls : call[c].pc = "page"
      BY <2>1
    <3>2. call[c].start \in Nat
      BY DEF CallInv, Shape
    <3>3. call[c].start <= indexed /\ Pages(leaves, heap[1], call[c].start)
      BY <3>1 DEF SyncInv, Reads
    <3> QED BY <3>2, <3>3
  <2>2. CASE ~\E c \in Calls : call[c].pc = "page"
    BY <1>1, <1>3, <2>2 DEF SyncInv
  <2> QED BY <2>1, <2>2
<1>5. PICK n \in Nat : n <= indexed /\ Pages(leaves, heap[1], n)
  BY <1>4
<1>6. NoteAt(heap, ref).leaf \in {x \in 1 .. n : leaves[x] > 0}
  <2>1. NoteAt(heap, ref).leaf = heap[1][ref[2]].leaf /\ ref[2] \in DOMAIN heap[1]
    BY <1>2, <1>3 DEF NoteAt
  <2>2. {heap[1][p].leaf : p \in DOMAIN heap[1]} = {x \in 1 .. n : leaves[x] > 0}
    BY <1>5 DEF Pages
  <2> QED BY <2>1, <2>2
<1>7. indexed \in Nat /\ indexed <= Len(leaves) /\ leaves \in Seq(Nat)
  BY DEF ChainInv
<1>8. NoteAt(heap, ref).leaf \in 1 .. n
  BY <1>6
<1>9. Len(leaves) \in Nat /\ DOMAIN leaves = 1 .. Len(leaves)
  BY <1>7
<1> HIDE DEF NoteAt
<1> DEFINE x == NoteAt(heap, ref).leaf
           l == Len(leaves)
<1>10. x \in 1 .. n /\ l \in Nat /\ indexed \in Nat /\ indexed <= l /\ n \in Nat /\ n <= indexed
  BY <1>5, <1>7, <1>8, <1>9
<1> HIDE DEF x, l
<1>11. x \in 1 .. indexed /\ x \in 1 .. l
  BY <1>10
<1> QED BY <1>9, <1>11 DEF x, l

LEMMA SentWires ==
  ASSUME NEW ws \in Seq(Wire), NEW w \in Wire, NEW us, us = Append(ws, w)
  PROVE  /\ us \in Seq(Wire) /\ Len(us) = Len(ws) + 1 /\ Len(us) \in Nat
         /\ DOMAIN us = DOMAIN ws \cup {Len(us)} /\ us[Len(us)] = w
         /\ \A x \in DOMAIN ws : us[x] = ws[x]
OBVIOUS

LEMMA RelayKeeps ==
  ASSUME IInv, NEW c \in Calls, NEW outs \in Pair, Relay(c, outs), call[c].pc \in {"root", "prepared"},
         call[c].pc = "prepared" => \A d \in Calls : call[d].pc \in Resting,
         UNCHANGED <<chain, client, happened>>
  PROVE  IInv'
<1> DEFINE wire == [ins |-> [x \in DOMAIN call[c].inputs |-> LeafAt(call[c].inputs[x])],
                    outs |-> outs, state |-> "open"]
           n == Len(wires) + 1
           k == [call[c] EXCEPT !.pc = "relaying", !.wire = n, !.sizes = {}]
<1>1. wires' = Append(wires, wire) /\ Set(c, k)
  BY DEF Relay
<1>2. Shape(call[c], heap, indexed, Len(wires)) /\ Pays(call[c], heap, wires)
  BY DEF IInv, CallInv, PayInv
<1>3. wires \in Seq(Wire) /\ heap \in Seq(Seq(Note)) /\ Len(wires) \in Nat /\ indexed \in Nat
  BY DEF IInv, WireInv, HeapInv, ChainInv
<1>4. call[c].inputs \in Seq(Refs(heap))
  BY <1>2 DEF Shape
<1>5. wire.ins \in Seq(Nat) /\ ToSet(wire.ins) = LeavesAt(heap, ToSet(call[c].inputs))
  <2> DEFINE s == call[c].inputs
             ins == [x \in DOMAIN s |-> NoteAt(heap, s[x]).leaf]
  <2>1. wire.ins = ins
    BY DEF LeafAt, NoteAt
  <2>2. s \in Seq(Refs(heap)) /\ ins = [x \in DOMAIN s |-> NoteAt(heap, s[x]).leaf]
    BY <1>4
  <2> HIDE DEF s, ins, wire
  <2>3. ins \in Seq(Nat) /\ ToSet(ins) = LeavesAt(heap, ToSet(s))
    BY <1>3, <2>2, RequestOf
  <2> QED BY <2>1, <2>3 DEF s
<1>6. wire \in Wire /\ wire.state = "open"
  BY <1>5 DEF Wire
<1>7. ToSet(wire.ins) \subseteq DOMAIN leaves
  <2>1. ToSet(call[c].inputs) \subseteq Refs(heap)
    BY <1>2, InputRefs
  <2>2. \A ref \in ToSet(call[c].inputs) : NoteAt(heap, ref).leaf \in DOMAIN leaves
    BY <2>1, NotesAreLeaves DEF IInv
  <2> QED BY <1>5, <2>2 DEF LeavesAt
<1>8. /\ DOMAIN k = DOMAIN call[c] /\ k.pc = "relaying" /\ k.asof = call[c].asof
      /\ k.arr = call[c].arr /\ k.start = call[c].start /\ k.inputs = call[c].inputs
      /\ k.wire = n /\ k.outs = call[c].outs /\ k.spentThen = call[c].spentThen
  BY <1>2 DEF Shape, NoCall
<1> HIDE DEF k, wire
<1>9. /\ wires' \in Seq(Wire) /\ Len(wires') = n /\ n \in Nat /\ DOMAIN wires' = DOMAIN wires \cup {n}
      /\ wires'[n] = wire /\ \A x \in DOMAIN wires : wires'[x] = wires[x]
  BY <1>1, <1>3, <1>6, SentWires
<1>10. leaves' = leaves /\ consumed' = consumed /\ happened' \in [Happens -> Nat]
  BY DEF chain, IInv, ChainInv
<1>11. WireInv'
  <2> SUFFICES ASSUME NEW w \in DOMAIN wires'
               PROVE  /\ ToSet(wires'[w].ins) \subseteq DOMAIN leaves
                      /\ wires'[w].state = "landed" => ToSet(wires'[w].ins) \subseteq consumed
    BY <1>9, <1>10 DEF WireInv
  <2>1. CASE w = n
    BY <1>6, <1>7, <1>9, <2>1
  <2>2. CASE w # n
    <3>1. w \in DOMAIN wires /\ wires'[w] = wires[w]
      BY <1>9, <2>2
    <3> QED BY <3>1 DEF IInv, WireInv
  <2> QED BY <2>1, <2>2
<1>12. /\ Shape(k, heap, indexed, Len(wires')) /\ k.pc \notin Reading /\ call[c].pc \notin Reading
       /\ Chooses(k, heap, reserved)
  <2>1. /\ "relaying" \in Paying /\ call[c].pc \in Paying /\ call[c].asof \in 0 .. indexed
        /\ n \in 0 .. n /\ call[c].outs \in Pair /\ Len(wires) <= n
    BY <1>2, <1>3 DEF Paying, Shape
  <2> HIDE DEF n
  <2>2. /\ k.pc \in Paying /\ k.asof \in 0 .. indexed /\ k.wire \in 0 .. Len(wires')
        /\ k.outs \in Pair /\ Len(wires) <= Len(wires') /\ Len(wires') \in Nat
    BY <1>8, <1>9, <2>1
  <2> QED BY <1>2, <1>3, <1>8, <2>1, <2>2, PayingOn
<1>13. Pays(k, heap, wires')
  <2>1. n \in DOMAIN wires' /\ ToSet(wires'[n].ins) = LeavesAt(heap, ToSet(k.inputs))
    BY <1>5, <1>8, <1>9
  <2>2. LeavesAt(heap, ToSet(k.inputs)) \cap k.spentThen = {}
    BY <1>2, <1>8 DEF Pays
  <2> QED BY <1>8, <2>1, <2>2 DEF Pays
<1>14. /\ Len(wires) <= Len(wires') /\ UNCHANGED <<chain, client>>
       /\ call[c].pc \notin Resting \/ \A d \in Calls : call[d].pc \in Resting
       /\ \A w \in DOMAIN wires : wires'[w].ins = wires[w].ins
  BY <1>3, <1>9 DEF Resting
<1> QED BY <1>1, <1>8, <1>10, <1>11, <1>12, <1>13, <1>14, CallMoves

LEMMA SubmitKeeps ==
  ASSUME Sequential, IInv, NEW c \in Calls, SubmitPrepared(c)
  PROVE  IInv'
<1>1. call[c].outs \in Pair
  BY DEF IInv, CallInv, Shape
<1>2. \A d \in Calls : call[d].pc \in Resting
  BY DEF SubmitPrepared, Sequential, Quiet
<1>3. /\ call[c].pc = "prepared" /\ Relay(c, call[c].outs)
      /\ UNCHANGED <<chain, client, happened>>
  BY DEF SubmitPrepared
<1> QED BY <1>1, <1>2, <1>3, RelayKeeps

LEMMA ResubmitNever ==
  ASSUME Sequential, IInv, NEW c \in Calls, Resubmit(c)
  PROVE  FALSE
<1>1. happened["again"] < 0
  BY DEF Resubmit, Count, Sequential
<1>2. happened["again"] \in Nat
  BY DEF IInv, ChainInv, Happens
<1> QED BY <1>1, <1>2

\* The relayer's answer, with its transaction on the chain or dropped.
LEMMA AnsweredKeeps ==
  ASSUME IInv, NEW c \in Calls, Answered(c) \/ AnsweredDropped(c)
  PROVE  IInv'
<1> DEFINE v == call[c].wire
           k == [call[c] EXCEPT !.pc = "landing"]
<1>1. call[c].pc = "relaying" /\ Set(c, k) /\ UNCHANGED <<chain, client>>
  BY DEF Answered, AnsweredDropped
<1>2. Shape(call[c], heap, indexed, Len(wires)) /\ Pays(call[c], heap, wires)
  BY DEF IInv, CallInv, PayInv
<1>3. wires \in Seq(Wire) /\ Len(wires) \in Nat /\ indexed \in Nat
  BY DEF IInv, WireInv, ChainInv
<1>4. v \in DOMAIN wires /\ ToSet(wires[v].ins) = LeavesAt(heap, ToSet(call[c].inputs))
  BY <1>1, <1>2 DEF Pays
<1>5. /\ DOMAIN k = DOMAIN call[c] /\ k.pc = "landing" /\ k.asof = call[c].asof
      /\ k.arr = call[c].arr /\ k.start = call[c].start /\ k.inputs = call[c].inputs
      /\ k.wire = call[c].wire /\ k.outs = call[c].outs /\ k.spentThen = call[c].spentThen
  BY <1>2 DEF Shape, NoCall
<1> HIDE DEF k
<1>6. leaves' = leaves /\ consumed' = consumed
  BY <1>1 DEF chain
<1>7. /\ happened' \in [Happens -> Nat] /\ WireInv' /\ Len(wires') = Len(wires)
      /\ \A w \in DOMAIN wires : wires'[w].ins = wires[w].ins
  <2>1. CASE Answered(c)
    <3>1. wires[v].state = "landed" /\ wires' = wires /\ happened' = happened
      BY <2>1 DEF Answered
    <3>2. WireInv'
      BY <1>6, <3>1 DEF IInv, WireInv
    <3> QED BY <3>1, <3>2 DEF IInv, ChainInv
  <2>2. CASE AnsweredDropped(c)
    <3>1. wires' = [wires EXCEPT ![v].state = "dropped"] /\ Count("drops")
      BY <2>2 DEF AnsweredDropped
    <3>2. ChainInv /\ "drops" \in Happens
      BY DEF IInv, Happens
    <3>3. happened' \in [Happens -> Nat]
      BY <3>1, <3>2, CountKeeps DEF ChainInv
    <3>5. /\ wires' \in Seq(Wire) /\ Len(wires') = Len(wires) /\ DOMAIN wires' = DOMAIN wires
          /\ \A w \in DOMAIN wires : wires'[w].ins = wires[w].ins
          /\ \A w \in DOMAIN wires : wires'[w] = wires[w] \/ wires'[w].state = "dropped"
      <4> DEFINE wire == [wires[v] EXCEPT !.state = "dropped"]
      <4>1. wires[v] \in Wire
        BY <1>3, <1>4
      <4>2. wire \in Wire /\ wire.ins = wires[v].ins /\ wire.state = "dropped"
        BY <4>1 DEF Wire
      <4>3. wires' = [wires EXCEPT ![v] = wire]
        BY <3>1
      <4> HIDE DEF wire, v
      <4> QED BY <1>3, <1>4, <4>2, <4>3
    <3>6. WireInv'
      <4> SUFFICES ASSUME NEW w \in DOMAIN wires
                   PROVE  /\ ToSet(wires'[w].ins) \subseteq DOMAIN leaves
                          /\ wires'[w].state = "landed" => ToSet(wires'[w].ins) \subseteq consumed
        BY <1>6, <3>5 DEF WireInv
      <4>1. /\ ToSet(wires[w].ins) \subseteq DOMAIN leaves
            /\ wires[w].state = "landed" => ToSet(wires[w].ins) \subseteq consumed
        BY DEF IInv, WireInv
      <4>2. wires'[w].ins = wires[w].ins /\ (wires'[w] = wires[w] \/ wires'[w].state = "dropped")
        BY <3>5
      <4> QED BY <4>1, <4>2
    <3> QED BY <3>3, <3>5, <3>6
  <2> QED BY <2>1, <2>2
<1>8. Len(wires) <= Len(wires') /\ Len(wires') \in Nat
  BY <1>3, <1>7
<1>9. /\ Shape(k, heap, indexed, Len(wires')) /\ k.pc \notin Reading /\ call[c].pc \notin Reading
      /\ Chooses(k, heap, reserved)
  <2>1. /\ "landing" \in Paying /\ call[c].pc \in Paying /\ call[c].asof \in 0 .. indexed
        /\ call[c].wire \in 0 .. Len(wires') /\ call[c].outs \in Pair
    BY <1>1, <1>2, <1>7 DEF Paying, Shape
  <2> QED BY <1>2, <1>3, <1>5, <1>8, <2>1, PayingOn
<1>10. Pays(k, heap, wires')
  BY <1>2, <1>5, <1>7 DEF Pays
<1>11. call[c].pc \notin Resting
  BY <1>1 DEF Resting
<1> QED BY <1>1, <1>5, <1>7, <1>8, <1>9, <1>10, <1>11, CallMoves

-----------------------------------------------------------------------------
(* Steps that give notes back *)

\* As NoCall is, but for what it is to do next.
Blank(k) ==
  /\ DOMAIN k = DOMAIN NoCall /\ k.pc \in {"idle", "sync"} /\ k.inputs = <<>> /\ k.arr = 0
  /\ k.start = 0 /\ k.outs = <<0, 0>> /\ k.asof = 0 /\ k.wire = 0 /\ k.spentThen = {}

LEMMA ReleaseKeeps ==
  ASSUME IInv, NEW c \in Calls, NEW k, Blank(k), Set(c, k), call[c].pc \notin Reading,
         k.pc = "idle" \/ call[c].pc \notin Resting,
         UNCHANGED <<chain, wires, current, scanned>>, happened' \in [Happens -> Nat],
         SameNotes(heap, heap'), reserved' = reserved \ HeldLeaves(c),
         \A ref \in Refs(heap) : ref \notin Held(c) => NoteAt(heap', ref) = NoteAt(heap, ref),
         \/ \A ref \in Held(c) : NoteAt(heap', ref).spent = FALSE
         \/ call[c].pc \notin Resting
  PROVE  IInv'
<1>1. /\ DOMAIN call' = Calls /\ call'[c] = k
      /\ \A d \in Calls : d # c => call'[d] = call[d]
  BY CallSet DEF IInv, CallInv, Set
<1>2. /\ heap \in Seq(Seq(Note)) /\ indexed \in Nat /\ wires \in Seq(Wire) /\ Len(wires) \in Nat
      /\ wires' = wires /\ consumed' = consumed /\ leaves' = leaves
  BY DEF IInv, HeapInv, ChainInv, WireInv, chain
<1>3. WireInv'
  BY <1>2 DEF IInv, WireInv
<1>4. Shape(k, heap, indexed, Len(wires')) /\ k.pc \notin Reading /\ Pays(k, heap, wires')
  <2>1. k.asof \in 0 .. indexed /\ k.wire \in 0 .. Len(wires')
    BY <1>2 DEF Blank
  <2> QED BY <1>2, <2>1, PlainCall DEF Blank
<1>5. MarkInv'
  <2>1. call'[c].inputs = <<>>
    BY <1>1 DEF Blank
  <2> QED BY <1>1, <1>2, <2>1, MarksReleased DEF IInv
<1>6. \A d, e \in Calls : call'[d].pc \notin Resting /\ call'[e].pc \notin Resting => d = e
  <2>1. call'[c].pc \in Resting \/ call[c].pc \notin Resting
    BY <1>1 DEF Resting
  <2> QED BY <1>1, <2>1, OneAtATime DEF IInv
<1>7. \A d \in Calls : \/ call'[d] = call[d]
                       \/ /\ Shape(call'[d], heap, indexed, Len(wires'))
                          /\ call[d].pc \notin Reading /\ call'[d].pc \notin Reading
                          /\ Pays(call'[d], heap, wires')
  BY <1>1, <1>4
<1>8. UNCHANGED <<chain, current, scanned>> /\ reserved' \subseteq reserved
  BY <1>2
<1>9. Len(wires) <= Len(wires') /\ \A w \in DOMAIN wires : wires'[w].ins = wires[w].ins
  BY <1>2
<1>10. ChooseInv'
  <2> SUFFICES ASSUME NEW d \in Calls, call'[d].pc \in Choosing
               PROVE  Chooses(call[d], heap', reserved') /\ call'[d] = call[d]
    BY DEF ChooseInv, Chooses
  <2>1. d # c
    BY <1>1 DEF Blank, Choosing
  <2>2. call'[d] = call[d] /\ call[d].pc \in Choosing /\ call[d].pc \notin Resting
    BY <1>1, <2>1 DEF Choosing, Resting
  <2>3. \A ref \in Held(c) : NoteAt(heap', ref).spent = FALSE
    BY <2>1, <2>2 DEF IInv, CallInv
  <2>4. Chooses(call[d], heap, reserved) /\ Held(c) \subseteq Refs(heap)
    BY HeldRefs DEF IInv, ChooseInv
  <2>5. LeavesAt(heap, Held(c)) \subseteq reserved
    BY DEF IInv, MarkInv, Marks
  <2>6. call[d].spentThen \cap reserved' = {}
    BY <1>8, <2>2, <2>4 DEF Chooses
  <2>7. /\ Refs(heap') = Refs(heap)
        /\ \A ref \in Refs(heap) : NoteAt(heap', ref).leaf = NoteAt(heap, ref).leaf
    BY <1>2, SameRefs
  <2>8. ASSUME NEW ref \in Refs(heap'), NoteAt(heap', ref).leaf \in call[d].spentThen
        PROVE  NoteAt(heap', ref).spent = TRUE
    <3>1. ref \in Refs(heap) /\ NoteAt(heap, ref).leaf \in call[d].spentThen
      BY <2>7, <2>8
    <3>2. ref \notin Held(c)
      BY <2>2, <2>4, <2>5, <3>1 DEF LeavesAt, Chooses
    <3>3. NoteAt(heap, ref).spent = TRUE
      BY <2>2, <2>4, <3>1 DEF Chooses
    <3> QED BY <3>1, <3>2, <3>3
  <2>9. call[d].pc = "picked" => call[d].picked \subseteq Unspent(heap'[1])
    <3> SUFFICES ASSUME call[d].pc = "picked", NEW p \in call[d].picked
                 PROVE  p \in Unspent(heap'[1])
      OBVIOUS
    <3>1. p \in DOMAIN heap[1] /\ ~heap[1][p].spent
      BY <2>2, <2>4 DEF Chooses, Unspent
    <3>2. Len(heap) = 1
      BY <2>2, ReadingArray DEF IInv
    <3>3. <<1, p>> \in Refs(heap) /\ NoteAt(heap, <<1, p>>) = heap[1][p]
      BY <1>2, <3>1, <3>2, OneRefs
    <3>4. heap' \in Seq(Seq(Note)) /\ Len(heap') = 1 /\ DOMAIN heap'[1] = DOMAIN heap[1]
      BY <1>2, <3>2, SameRefs DEF SameNotes
    <3>5. NoteAt(heap', <<1, p>>) = heap'[1][p]
      BY <3>1, <3>4, OneRefs
    <3>6. ~NoteAt(heap', <<1, p>>).spent
      <4>1. CASE <<1, p>> \in Held(c)
        BY <2>3, <4>1
      <4>2. CASE <<1, p>> \notin Held(c)
        BY <3>1, <3>3, <4>2
      <4> QED BY <4>1, <4>2
    <3> QED BY <3>1, <3>4, <3>5, <3>6 DEF Unspent
  <2> QED BY <2>2, <2>6, <2>8, <2>9 DEF Chooses
<1> QED BY <1>1, <1>3, <1>5, <1>6, <1>7, <1>8, <1>9, <1>10, CallsMove

LEMMA FailKeeps ==
  ASSUME Sequential, IInv, NEW c \in Calls, NEW result, Fail(c, result), call[c].pc \notin Reading,
         UNCHANGED <<chain, wires>>, happened' \in [Happens -> Nat]
  PROVE  IInv'
<1>1. /\ heap' = Updated(heap, Held(c), Unmarked) /\ reserved' = reserved \ HeldLeaves(c)
      /\ Set(c, Ended(c, result)) /\ UNCHANGED <<current, scanned>>
  BY KeptNever DEF Fail, ReleaseUnspent, IInv
<1>2. Blank(Ended(c, result)) /\ Ended(c, result).pc = "idle"
  BY DEF Blank, Ended, NoCall
<1>3. Held(c) \subseteq Refs(heap) /\ heap \in Seq(Seq(Note))
  BY HeldRefs DEF IInv, HeapInv
<1>4. /\ SameNotes(heap, heap')
      /\ \A ref \in Refs(heap) : ref \in Held(c) => NoteAt(heap', ref).spent = FALSE
      /\ \A ref \in Refs(heap) : ref \notin Held(c) => NoteAt(heap', ref) = NoteAt(heap, ref)
  <2>1. IsUnmarked(heap, Held(c), heap')
    BY <1>1 DEF IsUnmarked, Updated
  <2> QED BY <2>1, <1>3, UnmarkedNotes, Zenon
<1>5. /\ \A ref \in Refs(heap) : ref \notin Held(c) => NoteAt(heap', ref) = NoteAt(heap, ref)
      /\ \A ref \in Held(c) : NoteAt(heap', ref).spent = FALSE
  BY <1>3, <1>4
<1>6. UNCHANGED <<chain, wires, current, scanned>>
  BY <1>1
<1> QED BY <1>1, <1>2, <1>4, <1>5, <1>6, ReleaseKeeps

LEMMA CancelKeeps ==
  ASSUME Sequential, IInv, NEW c \in Calls, CancelPrepared(c) \/ Refused(c)
  PROVE  IInv'
<1>1. PICK result : Fail(c, result)
  BY DEF CancelPrepared, Refused
<1>2. call[c].pc \notin Reading /\ UNCHANGED <<chain, wires, happened>>
  BY DEF CancelPrepared, Refused, Reading
<1>3. happened' \in [Happens -> Nat]
  BY <1>2 DEF IInv, ChainInv
<1> QED BY <1>1, <1>2, <1>3, FailKeeps

LEMMA RequestFailsKeeps ==
  ASSUME Sequential, IInv, NEW c \in Calls, RequestFails(c)
  PROVE  IInv'
<1>1. /\ call[c].pc \notin Reading /\ Fail(c, "failed") /\ UNCHANGED <<chain, wires>>
      /\ Count("errors")
  BY DEF RequestFails, Sequential, Reading
<1>2. happened' \in [Happens -> Nat]
  <2>1. "errors" \in Happens /\ ChainInv
    BY DEF Happens, IInv
  <2> QED BY <1>1, <2>1, CountKeeps DEF ChainInv
<1> QED BY <1>1, <1>2, FailKeeps

LEMMA LandedKeeps ==
  ASSUME IInv, NEW c \in Calls, Landed(c)
  PROVE  IInv'
<1>1. /\ heap' = Updated(heap, Held(c), Marked) /\ reserved' = reserved \ HeldLeaves(c)
      /\ call[c].pc = "landing" /\ UNCHANGED <<chain, wires, current, scanned, happened>>
  BY DEF Landed, ReleaseSpent
<1>2. \E k : Blank(k) /\ Set(c, k)
  <2>1. CASE Len(call[c].frames) = 1
    <3>1. Set(c, Ended(c, "done"))
      BY <2>1 DEF Landed
    <3>2. Blank(Ended(c, "done"))
      BY DEF Blank, Ended, NoCall
    <3> QED BY <3>1, <3>2
  <2>2. CASE Len(call[c].frames) # 1
    <3> DEFINE outer == Front(call[c].frames)
               frames == [outer EXCEPT ![Len(outer)].round = @ + 1]
               k == [NoCall EXCEPT !.pc = "sync", !.op = call[c].op,
                                   !.merges = call[c].merges + 1, !.frames = frames]
    <3>1. Set(c, k)
      BY <2>2 DEF Landed
    <3> HIDE DEF frames
    <3>2. Blank(k)
      BY DEF Blank, NoCall
    <3> QED BY <3>1, <3>2
  <2> QED BY <2>1, <2>2
<1>3. PICK k : Blank(k) /\ Set(c, k)
  BY <1>2
<1>4. Held(c) \subseteq Refs(heap) /\ heap \in Seq(Seq(Note)) /\ happened' \in [Happens -> Nat]
  BY <1>1, HeldRefs DEF IInv, HeapInv, ChainInv
<1>5. /\ SameNotes(heap, heap')
      /\ \A ref \in Refs(heap) : ref \in Held(c) => NoteAt(heap', ref).spent = TRUE
      /\ \A ref \in Refs(heap) : ref \notin Held(c) => NoteAt(heap', ref) = NoteAt(heap, ref)
  <2>1. IsMarked(heap, Held(c), heap')
    BY <1>1 DEF IsMarked, Updated
  <2> QED BY <2>1, <1>4, MarkedNotes, Zenon
<1>6. \A ref \in Refs(heap) : ref \notin Held(c) => NoteAt(heap', ref) = NoteAt(heap, ref)
  BY <1>5
<1>8. /\ call[c].pc \notin Reading /\ call[c].pc \notin Resting
      /\ UNCHANGED <<chain, wires, current, scanned>>
  BY <1>1 DEF Reading, Resting
<1> QED BY <1>1, <1>3, <1>4, <1>5, <1>6, <1>8, ReleaseKeeps

LEMMA RootKeeps ==
  ASSUME Sequential, IInv, NEW c \in Calls, Root(c)
  PROVE  IInv'
<1>1. /\ call[c].pc = "root" /\ UNCHANGED <<chain, happened>>
      /\ \/ Fail(c, "failed") /\ UNCHANGED wires
         \/ /\ InRange(Outputs(c)) /\ UNCHANGED client
            /\ \/ /\ Set(c, [call[c] EXCEPT !.pc = "prepared", !.sizes = {}, !.outs = Outputs(c)])
                  /\ UNCHANGED wires
               \/ Relay(c, Outputs(c))
  BY DEF Root
<1>2. happened' \in [Happens -> Nat] /\ call[c].pc \notin Reading /\ call[c].pc \notin Resting
  BY <1>1 DEF IInv, ChainInv, Reading, Resting
<1>3. CASE Fail(c, "failed") /\ UNCHANGED wires
  BY <1>1, <1>2, <1>3, FailKeeps
<1>4. ASSUME InRange(Outputs(c))
      PROVE  Outputs(c) \in Pair
  <2>1. PICK a, b : Outputs(c) = <<a, b>>
    BY DEF Outputs
  <2>2. a \in Nat /\ b \in Nat
    <3>1. {a, b} \subseteq ToSet(<<a, b>>)
      BY DEF ToSet
    <3> QED BY <1>4, <2>1, <3>1 DEF InRange
  <2> QED BY <2>1, <2>2 DEF Pair
<1>5. CASE InRange(Outputs(c)) /\ UNCHANGED client /\ Relay(c, Outputs(c))
  <2>1. Outputs(c) \in Pair
    BY <1>4, <1>5
  <2> QED BY <1>1, <1>5, <2>1, RelayKeeps
<1>6. CASE /\ InRange(Outputs(c)) /\ UNCHANGED client /\ UNCHANGED wires
           /\ Set(c, [call[c] EXCEPT !.pc = "prepared", !.sizes = {}, !.outs = Outputs(c)])
  <2> DEFINE k == [call[c] EXCEPT !.pc = "prepared", !.sizes = {}, !.outs = Outputs(c)]
  <2>1. Outputs(c) \in Pair /\ Set(c, k) /\ UNCHANGED <<chain, client>>
    BY <1>1, <1>4, <1>6
  <2>2. /\ wires' = wires /\ Len(wires) \in Nat /\ indexed \in Nat /\ Len(wires) <= Len(wires')
        /\ \A w \in DOMAIN wires : wires'[w].ins = wires[w].ins
    BY <1>6 DEF IInv, WireInv, ChainInv
  <2>3. WireInv'
    BY <1>1, <2>2 DEF IInv, WireInv, chain
  <2>4. Shape(call[c], heap, indexed, Len(wires)) /\ Pays(call[c], heap, wires)
    BY DEF IInv, CallInv, PayInv
  <2>5. /\ DOMAIN k = DOMAIN call[c] /\ k.pc = "prepared" /\ k.asof = call[c].asof
        /\ k.arr = call[c].arr /\ k.start = call[c].start /\ k.inputs = call[c].inputs
        /\ k.wire = call[c].wire /\ k.outs = Outputs(c) /\ k.spentThen = call[c].spentThen
    BY <2>4 DEF Shape, NoCall
  <2> HIDE DEF k
  <2>6. Shape(k, heap, indexed, Len(wires')) /\ k.pc \notin Reading /\ Chooses(k, heap, reserved)
    <3>1. /\ k.pc \in Paying /\ call[c].pc \in Paying /\ k.asof \in 0 .. indexed
          /\ k.wire \in 0 .. Len(wires') /\ k.outs \in Pair
      BY <1>1, <2>1, <2>2, <2>4, <2>5 DEF Paying, Shape
    <3> QED BY <2>2, <2>4, <2>5, <3>1, PayingOn
  <2>7. Pays(k, heap, wires')
    BY <2>2, <2>4, <2>5 DEF Pays
  <2> QED BY <1>2, <2>1, <2>2, <2>3, <2>5, <2>6, <2>7, CallMoves
<1> QED BY <1>1, <1>3, <1>5, <1>6

LEMMA PassKeeps ==
  ASSUME IInv, Pass
  PROVE  IInv'
<1>1. IsAged(heap, heap') /\ UNCHANGED <<chain, wires, current, reserved, scanned, call, happened>>
  BY DEF Pass, IsAged
<1>2. /\ heap \in Seq(Seq(Note)) /\ wires \in Seq(Wire) /\ Len(wires) \in Nat
      /\ wires' = wires /\ consumed' = consumed /\ leaves' = leaves /\ call' = call
      /\ happened' \in [Happens -> Nat] /\ reserved' = reserved
  BY <1>1 DEF IInv, HeapInv, WireInv, ChainInv, chain
<1>3. /\ SameNotes(heap, heap')
      /\ \A ref \in Refs(heap) : NoteAt(heap', ref).spent = NoteAt(heap, ref).spent
  BY <1>1, <1>2, AgedNotes, Zenon
<1>4. /\ Refs(heap') = Refs(heap)
      /\ \A ref \in Refs(heap) : NoteAt(heap', ref).leaf = NoteAt(heap, ref).leaf
  BY <1>2, <1>3, SameRefs
<1>5. MarkInv'
  <2>1. \A d \in Calls : Held(d)' = Held(d) /\ Held(d) \subseteq Refs(heap)
    BY <1>2, HeldRefs DEF Held, IInv
  <2>2. \A d \in Calls : LeavesAt(heap', Held(d)) = LeavesAt(heap, Held(d))
    BY <1>2, <1>3, <2>1, LeavesSame
  <2>3. reserved' = UNION {LeavesAt(heap', Held(d)') : d \in Calls}
    <3>1. reserved = UNION {LeavesAt(heap, Held(d)) : d \in Calls}
      BY DEF IInv, MarkInv, Marks
    <3> QED BY <1>2, <2>1, <2>2, <3>1
  <2>4. ASSUME NEW d \in Calls, NEW ref \in Held(d)'
        PROVE  NoteAt(heap', ref).spent = TRUE
    <3>1. ref \in Held(d) /\ ref \in Refs(heap)
      BY <2>1, <2>4
    <3>2. NoteAt(heap, ref).spent = TRUE
      BY <3>1 DEF IInv, MarkInv, Marks
    <3> QED BY <1>3, <3>1, <3>2, Zenon
  <2>5. \A d, e \in Calls : d # e => Held(d)' \cap Held(e)' = {}
    BY <2>1 DEF IInv, MarkInv, Marks
  <2> QED BY <2>3, <2>4, <2>5 DEF MarkInv, Marks
<1>6. WireInv'
  BY <1>2 DEF IInv, WireInv
<1>7. /\ DOMAIN call' = Calls
      /\ \A c, d \in Calls : call'[c].pc \notin Resting /\ call'[d].pc \notin Resting => c = d
  BY <1>2 DEF IInv, CallInv
<1>8. UNCHANGED <<chain, current, scanned>>
  BY <1>1
<1>9. /\ Len(wires) <= Len(wires') /\ reserved' \subseteq reserved
      /\ \A w \in DOMAIN wires : wires'[w].ins = wires[w].ins
      /\ \A d \in Calls : call'[d] = call[d]
  BY <1>2
<1>10. ChooseInv'
  BY <1>2 DEF Pass, Choosing, ChooseInv, Chooses
<1> QED BY <1>2, <1>3, <1>5, <1>6, <1>7, <1>8, <1>9, <1>10, CallsMove

LEMMA UnlockNever ==
  ASSUME Sequential, IInv, Unlock
  PROVE  FALSE
<1>1. happened["unlocks"] < 0
  BY DEF Unlock, Count, Sequential
<1>2. happened["unlocks"] \in Nat
  BY DEF IInv, ChainInv, Happens
<1> QED BY <1>1, <1>2

LEMMA StutterKeeps ==
  ASSUME IInv, UNCHANGED vars
  PROVE  IInv'
<1>1. /\ leaves' = leaves /\ consumed' = consumed /\ indexed' = indexed /\ wires' = wires
      /\ happened' = happened /\ UNCHANGED <<client, call>>
  BY DEF vars, chain
<1>2. ChainInv' /\ WireInv' /\ indexed \in Nat
  BY <1>1 DEF IInv, ChainInv, WireInv
<1>3. /\ \A x \in DOMAIN leaves : leaves'[x] = leaves[x]
      /\ consumed \subseteq consumed' /\ indexed <= indexed' /\ Len(wires') = Len(wires)
      /\ \A w \in DOMAIN wires : wires'[w].ins = wires[w].ins
  BY <1>1, <1>2
<1> QED BY <1>1, <1>2, <1>3, WorldKeeps

-----------------------------------------------------------------------------
(* Reading pages *)

LEMMA OthersRest ==
  ASSUME CallInv, NEW c \in Calls, call[c].pc \notin Resting
  PROVE  \A d \in Calls : d # c =>
           /\ call[d].pc \in Resting /\ call[d].pc # "page" /\ call[d].pc # "marks"
           /\ call[d].pc \notin Choosing
BY DEF CallInv, Resting, Choosing

\* A call reads on: notes are added, none of them marked.
LEMMA PageKeeps ==
  ASSUME IInv, NEW c \in Calls, call[c].pc \in {"sync", "page"}, NEW k, Set(c, k),
         UNCHANGED <<chain, wires, current, reserved, scanned, happened>>,
         heap' \in Seq(Seq(Note)), Len(heap') = 1, Refs(heap) \subseteq Refs(heap'),
         \A ref \in Refs(heap) : NoteAt(heap', ref) = NoteAt(heap, ref),
         \A ref \in Refs(heap') : ref \notin Refs(heap) => NoteAt(heap', ref).spent = FALSE,
         k.pc = "page", k.inputs = <<>>, Shape(k, heap', indexed, Len(wires)),
         scanned <= k.start, k.start <= indexed, Pages(leaves, heap'[1], k.start)
  PROVE  IInv'
<1>1. /\ DOMAIN call' = Calls /\ call'[c] = k
      /\ \A d \in Calls : d # c => call'[d] = call[d]
  BY CallSet DEF IInv, CallInv, Set
<1>2. /\ leaves' = leaves /\ consumed' = consumed /\ indexed' = indexed /\ wires' = wires
      /\ current' = current /\ reserved' = reserved /\ scanned' = scanned /\ happened' = happened
  BY DEF chain
<1>3. /\ heap \in Seq(Seq(Note)) /\ wires \in Seq(Wire) /\ Len(wires) \in Nat
      /\ Len(heap) <= 1 /\ Len(heap) \in Nat /\ indexed \in Nat
      /\ current \in 0 .. Len(heap) /\ scanned \in Nat /\ scanned <= indexed
  BY DEF IInv, HeapInv, ChainInv, WireInv
<1>4. ChainInv' /\ WireInv'
  BY <1>2 DEF IInv, ChainInv, WireInv
<1>5. HeapInv'
  <2>1. current \in 0 .. Len(heap')
    BY <1>3
  <2> QED BY <1>2, <1>3, <2>1 DEF HeapInv
<1>6. call[c].pc \notin Resting /\ call[c].pc # "marks"
  BY DEF Resting
<1>7. \A d \in Calls : d # c => /\ call[d].pc \in Resting /\ call[d].pc # "page" /\ call[d].pc # "marks"
                                  /\ call[d].pc \notin Choosing
  BY <1>6, OthersRest DEF IInv
<1>8. CallInv'
  <2>1. ASSUME NEW d \in Calls
        PROVE  Shape(call'[d], heap', indexed, Len(wires))
    <3>1. CASE d = c
      BY <1>1, <3>1
    <3>2. CASE d # c
      <4>1. Shape(call[d], heap, indexed, Len(wires)) /\ call'[d] = call[d]
        BY <1>1, <3>2 DEF IInv, CallInv
      <4>2. Len(heap) <= Len(heap') /\ indexed <= indexed /\ Len(wires) <= Len(wires)
        BY <1>3
      <4> QED BY <1>3, <4>1, <4>2, ShapeGrows
    <3> QED BY <3>1, <3>2
  <2>2. \A d, e \in Calls : call'[d].pc \notin Resting /\ call'[e].pc \notin Resting => d = e
    BY <1>1, <1>6, OneAtATime DEF IInv
  <2> QED BY <1>1, <1>2, <2>1, <2>2 DEF CallInv
<1>9. SyncInv'
  <2>1. current' = 0 => \E d \in Calls : call'[d].pc \in Reading
    BY <1>1 DEF Reading
  <2>2. current' = 0 => scanned' = 0
    BY <1>2, <1>6, <1>7 DEF IInv, SyncInv
  <2>3. ~ \A d \in Calls : call'[d].pc # "page"
    BY <1>1
  <2>4. \A d \in Calls : Reads(call'[d], heap', scanned, indexed, leaves)
    BY <1>1, <1>7 DEF Reads
  <2>5. \A d \in Calls : Asks(call'[d], heap', consumed, reserved)
    BY <1>1, <1>7 DEF Asks
  <2> QED BY <1>2, <2>1, <2>2, <2>3, <2>4, <2>5 DEF SyncInv
<1>10. \A d \in Calls : Held(d)' = Held(d) /\ Held(d) \subseteq Refs(heap)
  <2>1. Held(c) = {}
    <3>1. call[c].inputs = <<>>
      BY DEF IInv, CallInv, Shape, Paying
    <3> QED BY <3>1 DEF Held, ToSet
  <2>2. Held(c)' = {}
    BY <1>1 DEF Held, ToSet
  <2> QED BY <1>1, <2>1, <2>2, HeldRefs DEF Held, IInv
<1>11. \A d \in Calls : LeavesAt(heap', Held(d)) = LeavesAt(heap, Held(d))
  BY <1>10 DEF LeavesAt
<1>12. PayInv'
  <2> SUFFICES ASSUME NEW d \in Calls PROVE Pays(call'[d], heap', wires)
    BY <1>2 DEF PayInv
  <2>1. CASE d = c
    <3>1. LeavesAt(heap', ToSet(k.inputs)) = {}
      BY DEF LeavesAt, ToSet
    <3> QED BY <1>1, <2>1, <3>1 DEF Pays
  <2>2. CASE d # c
    <3>1. Pays(call[d], heap, wires) /\ call'[d] = call[d]
      BY <1>1, <2>2 DEF IInv, PayInv
    <3>2. LeavesAt(heap', ToSet(call[d].inputs)) = LeavesAt(heap, ToSet(call[d].inputs))
      BY <1>11 DEF Held
    <3> QED BY <3>1, <3>2 DEF Pays
  <2> QED BY <2>1, <2>2
<1>13. MarkInv'
  <2>1. ASSUME NEW d \in Calls, NEW ref \in Held(d)'
        PROVE  NoteAt(heap', ref).spent = TRUE
    <3>1. ref \in Held(d) /\ NoteAt(heap', ref) = NoteAt(heap, ref)
      BY <1>10, <2>1
    <3>2. NoteAt(heap, ref).spent = TRUE
      BY <3>1 DEF IInv, MarkInv, Marks
    <3> QED BY <3>1, <3>2
  <2>2. \A d, e \in Calls : d # e => Held(d)' \cap Held(e)' = {}
    BY <1>10 DEF IInv, MarkInv, Marks
  <2>3. reserved' = UNION {LeavesAt(heap', Held(d)') : d \in Calls}
    <3>1. reserved = UNION {LeavesAt(heap, Held(d)) : d \in Calls}
      BY DEF IInv, MarkInv, Marks
    <3> QED BY <1>2, <1>10, <1>11, <3>1
  <2> QED BY <2>1, <2>2, <2>3 DEF MarkInv, Marks
<1>14. ChooseInv'
  BY <1>1, <1>7 DEF ChooseInv, Chooses, Choosing
<1> QED BY <1>4, <1>5, <1>8, <1>9, <1>12, <1>13, <1>14 DEF IInv

\* The notes of h are as they were, and those that came are not marked.
Added(h) ==
  \A ref \in Refs(h) :
    \/ /\ ref \in Refs(heap)
       /\ NoteAt(h, ref) = NoteAt(heap, ref)
    \/ NoteAt(h, ref).spent = FALSE

LEMMA SyncStartKeeps ==
  ASSUME IInv, NEW c \in Calls, SyncStart(c)
  PROVE  IInv' /\ Added(heap')
<1> DEFINE k == [call[c] EXCEPT !.pc = "page", !.start = scanned, !.asof = indexed,
                                !.arr = IF current = 0 THEN Len(heap) + 1 ELSE current]
<1>1. /\ call[c].pc = "sync" /\ Set(c, k)
      /\ heap' = IF current = 0 THEN Append(heap, <<>>) ELSE heap
      /\ UNCHANGED <<chain, wires, current, reserved, scanned, happened>>
  BY DEF SyncStart
<1>2. /\ heap \in Seq(Seq(Note)) /\ Len(wires) \in Nat /\ Len(heap) <= 1 /\ Len(heap) \in Nat
      /\ indexed \in Nat /\ current \in 0 .. Len(heap) /\ scanned \in Nat /\ scanned <= indexed
  BY DEF IInv, HeapInv, ChainInv, WireInv
<1>3. \A d \in Calls : call[d].pc # "page" /\ call[d].pc # "marks"
  <2>1. call[c].pc \notin Resting /\ call[c].pc # "page" /\ call[c].pc # "marks"
    BY <1>1 DEF Resting
  <2> QED BY <2>1, OthersRest DEF IInv
<1>4. Pages(leaves, Cell(heap), scanned)
  BY <1>3 DEF IInv, SyncInv
<1>5. current = 0 => heap = <<>>
  BY <1>3 DEF IInv, SyncInv, Reading
<1>6. /\ heap' \in Seq(Seq(Note)) /\ Len(heap') = 1 /\ heap'[1] = Cell(heap)
      /\ Refs(heap') = Refs(heap)
      /\ \A ref \in Refs(heap) : NoteAt(heap', ref) = NoteAt(heap, ref)
      /\ k.arr = 1
  <2>1. CASE current = 0
    <3>1. heap = <<>> /\ heap' = <<<<>>>> /\ Len(heap) = 0
      BY <1>1, <1>5, <2>1
    <3>2. Refs(heap) = {} /\ Refs(heap') = {}
      BY <3>1 DEF Refs
    <3>3. heap' \in Seq(Seq(Note)) /\ Len(heap') = 1 /\ heap'[1] = <<>> /\ Cell(heap) = <<>>
      BY <3>1 DEF Cell
    <3>4. k.arr = 1
      BY <2>1, <3>1 DEF IInv, CallInv, Shape, NoCall
    <3> QED BY <3>2, <3>3, <3>4
  <2>2. CASE current # 0
    <3> DEFINE n == Len(heap)
    <3>3. n \in Nat /\ n <= 1 /\ current \in 0 .. n
      BY <1>2
    <3> HIDE DEF n
    <3>4. n = 1 /\ current = 1
      BY <2>2, <3>3
    <3>1. heap' = heap /\ Len(heap) = 1 /\ heap # <<>> /\ current = 1
      <4>1. Len(<<>>) = 0
        OBVIOUS
      <4> QED BY <1>1, <2>2, <3>4, <4>1 DEF n
    <3>2. k.arr = 1
      BY <2>2, <3>1 DEF IInv, CallInv, Shape, NoCall
    <3> QED BY <1>2, <3>1, <3>2 DEF Cell
  <2> QED BY <2>1, <2>2
<1>7. Shape(call[c], heap, indexed, Len(wires)) /\ call[c].inputs = <<>> /\ call[c].spentThen = {}
  BY <1>1 DEF IInv, CallInv, Shape, Paying
<1>8. /\ DOMAIN k = DOMAIN call[c] /\ k.pc = "page" /\ k.start = scanned /\ k.asof = indexed
      /\ k.inputs = <<>> /\ k.wire = call[c].wire /\ k.outs = call[c].outs /\ k.spentThen = {}
  BY <1>7 DEF Shape, NoCall
<1> HIDE DEF k
<1>9. Shape(k, heap', indexed, Len(wires))
  <2>1. k.arr \in 0 .. Len(heap') /\ k.asof \in 0 .. indexed /\ k.start \in Nat
    BY <1>2, <1>6, <1>8
  <2>2. k.pc \in Pcs /\ k.pc \notin Paying
    BY <1>8 DEF Pcs, Paying
  <2>3. k.inputs \in Seq(Refs(heap')) /\ IsInjective(k.inputs)
    BY <1>8 DEF IsInjective
  <2> QED BY <1>6, <1>7, <1>8, <2>1, <2>2, <2>3 DEF Shape
<1>10. scanned <= k.start /\ k.start <= indexed /\ Pages(leaves, heap'[1], k.start)
  BY <1>2, <1>4, <1>6, <1>8
<1>11. /\ Refs(heap) \subseteq Refs(heap') /\ call[c].pc \in {"sync", "page"}
       /\ \A ref \in Refs(heap') : ref \notin Refs(heap) => NoteAt(heap', ref).spent = FALSE
  BY <1>1, <1>6
<1>12. Added(heap')
  BY <1>6 DEF Added
<1> QED BY <1>1, <1>6, <1>8, <1>9, <1>10, <1>11, <1>12, PageKeeps

\* Notes for the leaves of a set.
LEMMA NewNotes ==
  ASSUME NEW mine \in Seq(Leaf), NEW g, g = [x \in DOMAIN mine |-> NewNote(mine[x])]
  PROVE  /\ g \in Seq(Note) /\ Len(g) = Len(mine)
         /\ \A x \in DOMAIN mine : g[x].leaf = mine[x] /\ g[x].spent = FALSE
<1>1. \A b \in BOOLEAN, a \in NoMark .. Old, l \in Leaf :
        /\ [leaf |-> l, spent |-> b, age |-> a] \in Note
        /\ [leaf |-> l, spent |-> b, age |-> a].leaf = l
        /\ [leaf |-> l, spent |-> b, age |-> a].spent = b
  BY DEF Note
<1>2. FALSE \in BOOLEAN /\ NoMark \in NoMark .. Old
  BY DEF NoMark, Old
<1>3. \A l \in Leaf : NewNote(l) \in Note /\ NewNote(l).leaf = l /\ NewNote(l).spent = FALSE
  BY <1>1, <1>2, Zenon DEF NewNote
<1>4. \A x \in DOMAIN mine : mine[x] \in Leaf
  OBVIOUS
<1>5. \A x \in DOMAIN mine : g[x] \in Note /\ g[x].leaf = mine[x] /\ g[x].spent = FALSE
  <2>1. \A x \in DOMAIN mine : g[x] = NewNote(mine[x])
    OBVIOUS
  <2> QED BY <1>3, <1>4, <2>1, Zenon
<1>6. g \in Seq(Note) /\ Len(g) = Len(mine)
  <2>1. DOMAIN mine = 1 .. Len(mine) /\ Len(mine) \in Nat
    OBVIOUS
  <2>2. g = [x \in 1 .. Len(mine) |-> g[x]] /\ \A x \in 1 .. Len(mine) : g[x] \in Note
    BY <1>5, <2>1
  <2> QED BY <2>1, <2>2
<1> QED BY <1>5, <1>6

\* Notes of the leaves after m up to n.
NextPage(ls, m, n, more) ==
  /\ more \in Seq(Note)
  /\ \A x, y \in DOMAIN more : more[x].leaf = more[y].leaf => x = y
  /\ {more[x].leaf : x \in DOMAIN more} = {i \in m + 1 .. n : ls[i] > 0}
  /\ \A x \in DOMAIN more : more[x].spent = FALSE

\* g has the notes first and then some that are not marked.
Longer(notes, g) ==
  /\ DOMAIN notes \subseteq DOMAIN g /\ \A p \in DOMAIN notes : g[p] = notes[p]
  /\ \A p \in DOMAIN g : p \notin DOMAIN notes => g[p].spent = FALSE

LEMMA PagesExtended ==
  ASSUME NEW ls, NEW notes \in Seq(Note), NEW m \in Nat, NEW n \in Nat, m <= n,
         Pages(ls, notes, m), NEW more, NextPage(ls, m, n, more), NEW g, g = notes \o more
  PROVE  g \in Seq(Note) /\ Pages(ls, g, n) /\ Longer(notes, g)
<1> DEFINE l == Len(notes)
           r == Len(more)
<1> USE DEF NextPage
<1>1. /\ g \in Seq(Note) /\ Len(g) = l + r /\ l \in Nat /\ r \in Nat
      /\ DOMAIN notes = 1 .. l /\ DOMAIN more = 1 .. r /\ DOMAIN g = 1 .. (l + r)
      /\ \A x \in 1 .. l : g[x] = notes[x]
      /\ \A x \in 1 .. r : g[l + x] = more[x]
  BY JoinedSeq
<1> HIDE DEF l, r
<1>2. \A p \in DOMAIN g : \/ p \in DOMAIN notes /\ g[p] = notes[p]
                          \/ p - l \in DOMAIN more /\ g[p] = more[p - l] /\ p \notin DOMAIN notes
  <2> SUFFICES ASSUME NEW p \in 1 .. (l + r)
               PROVE  \/ p \in 1 .. l /\ g[p] = notes[p]
                      \/ p - l \in 1 .. r /\ g[p] = more[p - l] /\ p \notin 1 .. l
    BY <1>1
  <2>1. CASE p <= l
    BY <1>1, <2>1
  <2>2. CASE p > l
    <3>1. p - l \in 1 .. r /\ l + (p - l) = p /\ p \notin 1 .. l
      BY <1>1, <2>2
    <3> QED BY <1>1, <3>1
  <2> QED BY <1>1, <2>1, <2>2
<1>3. \A p \in DOMAIN notes : notes[p].leaf \in {i \in 1 .. m : ls[i] > 0}
  BY DEF Pages
<1>4. \A x \in DOMAIN more : more[x].leaf \in {i \in m + 1 .. n : ls[i] > 0}
  OBVIOUS
<1>5. ASSUME NEW p \in DOMAIN g, NEW q \in DOMAIN g, g[p].leaf = g[q].leaf
      PROVE  p = q
  <2>1. CASE p \in DOMAIN notes /\ q \in DOMAIN notes
    BY <1>1, <1>5, <2>1 DEF Pages
  <2>2. CASE p \notin DOMAIN notes /\ q \notin DOMAIN notes
    <3>1. p - l \in DOMAIN more /\ q - l \in DOMAIN more /\ more[p - l].leaf = more[q - l].leaf
      BY <1>2, <1>5, <2>2
    <3>2. p - l = q - l
      BY <3>1
    <3> QED BY <1>1, <3>2
  <2>3. CASE p \in DOMAIN notes /\ q \notin DOMAIN notes
    <3>1. g[p].leaf \in 1 .. m /\ g[q].leaf \in m + 1 .. n
      BY <1>2, <1>3, <1>4, <2>3
    <3> QED BY <1>5, <3>1
  <2>4. CASE p \notin DOMAIN notes /\ q \in DOMAIN notes
    <3>1. g[q].leaf \in 1 .. m /\ g[p].leaf \in m + 1 .. n
      BY <1>2, <1>3, <1>4, <2>4
    <3> QED BY <1>5, <3>1
  <2> QED BY <2>1, <2>2, <2>3, <2>4
<1>6. {g[p].leaf : p \in DOMAIN g} = {i \in 1 .. n : ls[i] > 0}
  <2>1. ASSUME NEW p \in DOMAIN g
        PROVE  g[p].leaf \in {i \in 1 .. n : ls[i] > 0}
    <3>1. \/ g[p].leaf \in {i \in 1 .. m : ls[i] > 0}
          \/ g[p].leaf \in {i \in m + 1 .. n : ls[i] > 0}
      BY <1>2, <1>3, <1>4
    <3> QED BY <3>1
  <2>2. ASSUME NEW i \in 1 .. n, ls[i] > 0
        PROVE  \E p \in DOMAIN g : g[p].leaf = i
    <3>1. CASE i \in 1 .. m
      <4>1. i \in {j \in 1 .. m : ls[j] > 0}
        BY <2>2, <3>1
      <4>2. {notes[p].leaf : p \in DOMAIN notes} = {j \in 1 .. m : ls[j] > 0}
        BY DEF Pages
      <4>3. PICK p \in DOMAIN notes : notes[p].leaf = i
        BY <4>1, <4>2, Zenon
      <4>4. p \in DOMAIN g /\ g[p] = notes[p]
        BY <1>1, <4>3
      <4> QED BY <4>3, <4>4
    <3>2. CASE i \in m + 1 .. n
      <4>1. PICK x \in DOMAIN more : more[x].leaf = i
        <5>1. i \in {j \in m + 1 .. n : ls[j] > 0}
          BY <2>2, <3>2
        <5> QED BY <5>1, Zenon
      <4>2. x \in 1 .. r /\ l + x \in DOMAIN g /\ g[l + x] = more[x]
        BY <1>1, <4>1
      <4> QED BY <4>1, <4>2
    <3>3. i \in 1 .. m \/ i \in m + 1 .. n
      OBVIOUS
    <3> QED BY <3>1, <3>2, <3>3
  <2>3. {g[p].leaf : p \in DOMAIN g} \subseteq {i \in 1 .. n : ls[i] > 0}
    BY <2>1, Zenon
  <2>4. {i \in 1 .. n : ls[i] > 0} \subseteq {g[p].leaf : p \in DOMAIN g}
    <3> SUFFICES ASSUME NEW i \in {j \in 1 .. n : ls[j] > 0}
                 PROVE  i \in {g[p].leaf : p \in DOMAIN g}
      OBVIOUS
    <3>1. i \in 1 .. n /\ ls[i] > 0
      OBVIOUS
    <3>2. PICK p \in DOMAIN g : g[p].leaf = i
      BY <2>2, <3>1
    <3> QED BY <3>2
  <2> QED BY <2>3, <2>4, Zenon
<1>7. Pages(ls, g, n)
  BY <1>5, <1>6 DEF Pages
<1>8. \A p \in DOMAIN g : p \notin DOMAIN notes => g[p].spent = FALSE
  BY <1>2
<1>9. Longer(notes, g)
  BY <1>1, <1>8 DEF Longer
<1> QED BY <1>1, <1>7, <1>9

LEMMA OneArray ==
  ASSUME NEW S, NEW h \in Seq(S), Len(h) = 1, NEW g \in S
  PROVE  /\ [h EXCEPT ![1] = g] \in Seq(S) /\ Len([h EXCEPT ![1] = g]) = 1
         /\ [h EXCEPT ![1] = g][1] = g
OBVIOUS

\* A page that holds something is put to the notes.
LEMMA PageGrowsKeeps ==
  ASSUME IInv, NEW c \in Calls, call[c].pc = "page", NEW n \in Served(c), n > call[c].start,
         NEW mine, mine = SetToSeq(NewLeaves(call[c].start, n)),
         heap' = [heap EXCEPT ![call[c].arr] = @ \o [i \in DOMAIN mine |-> NewNote(mine[i])]],
         Set(c, [call[c] EXCEPT !.start = n, !.asof = indexed]),
         UNCHANGED <<chain, wires, current, reserved, scanned, happened>>
  PROVE  IInv' /\ Added(heap')
<1> DEFINE k == [call[c] EXCEPT !.start = n, !.asof = indexed]
           start == call[c].start
           new == NewLeaves(start, n)
           more == [i \in DOMAIN mine |-> NewNote(mine[i])]
<1>1. 1 \in DOMAIN heap /\ heap # <<>> /\ Len(heap) = 1 /\ call[c].arr = 1
  BY ReadingArray DEF IInv, Reading
<1>2. /\ heap \in Seq(Seq(Note)) /\ indexed \in Nat /\ indexed <= Len(leaves)
      /\ Len(leaves) <= MaxLeaves /\ leaves \in Seq(Nat) /\ Len(leaves) \in Nat
      /\ scanned \in Nat
  BY DEF IInv, HeapInv, ChainInv
<1>3. Shape(call[c], heap, indexed, Len(wires)) /\ call[c].inputs = <<>> /\ call[c].spentThen = {}
  BY DEF IInv, CallInv, Shape, Paying
<1>4. scanned <= start /\ start <= indexed /\ Pages(leaves, heap[1], start) /\ start \in Nat
  BY <1>3 DEF IInv, SyncInv, Reads, Shape
<1>5. n \in Nat /\ n <= indexed /\ start <= n
  <2>1. call[c].asof \in Nat
    BY <1>2, <1>3 DEF Shape
  <2>2. n \in call[c].asof .. indexed
    BY DEF Served
  <2> QED BY <1>2, <1>4, <2>1, <2>2
<1> HIDE DEF start
<1>6. heap[1] \in Seq(Note)
  BY <1>1, <1>2
<1>7. /\ DOMAIN k = DOMAIN call[c] /\ k.pc = "page" /\ k.start = n /\ k.asof = indexed
      /\ k.inputs = <<>> /\ k.wire = call[c].wire /\ k.outs = call[c].outs /\ k.arr = 1
      /\ k.spentThen = {}
  BY <1>1, <1>3 DEF Shape, NoCall
<1> HIDE DEF k
<1>8. new = {i \in start + 1 .. n : leaves[i] > 0} /\ new \subseteq Leaf /\ IsFiniteSet(new)
  <2>1. new = {i \in start + 1 .. n : leaves[i] > 0}
    BY DEF NewLeaves
  <2>2. new \subseteq Leaf
    <3> DEFINE l == Len(leaves)
    <3>1. l \in Nat /\ n <= l /\ l <= MaxLeaves /\ MaxLeaves \in Nat
      BY <1>2, <1>5, ClientAssumption
    <3> HIDE DEF l
    <3>2. start + 1 .. n \subseteq 1 .. MaxLeaves
      BY <1>4, <1>5, <3>1
    <3> QED BY <2>1, <3>2 DEF Leaf
  <2>3. IsFiniteSet(start + 1 .. n) /\ new \subseteq start + 1 .. n
    <3>1. start + 1 \in Int /\ n \in Int
      BY <1>4, <1>5
    <3> QED BY <2>1, <3>1, FS_Interval
  <2> QED BY <2>1, <2>2, <2>3, FS_Subset
<1>9. mine \in Seq(new) /\ IsInjective(mine) /\ ToSet(mine) = new
  <2>1. mine = SetToSeq(new)
    BY DEF start
  <2> QED BY <1>8, <2>1, SetAsSeq
<1>10. mine \in Seq(Leaf)
  BY <1>8, <1>9
<1> HIDE DEF new
<1>11. /\ more \in Seq(Note) /\ Len(more) = Len(mine)
       /\ \A x \in DOMAIN mine : more[x].leaf = mine[x] /\ more[x].spent = FALSE
  BY <1>10, NewNotes
<1> HIDE DEF more
<1>12. DOMAIN more = DOMAIN mine
  BY <1>10, <1>11
<1>13. \A x, y \in DOMAIN more : more[x].leaf = more[y].leaf => x = y
  BY <1>9, <1>11, <1>12 DEF IsInjective
<1>14. {more[x].leaf : x \in DOMAIN more} = {i \in start + 1 .. n : leaves[i] > 0}
  <2>1. {more[x].leaf : x \in DOMAIN more} = {mine[x] : x \in DOMAIN mine}
    BY <1>11, <1>12
  <2> QED BY <1>8, <1>9, <2>1 DEF ToSet
<1>15. \A x \in DOMAIN more : more[x].spent = FALSE
  BY <1>11, <1>12
<1>27. NextPage(leaves, start, n, more)
  BY <1>11, <1>13, <1>14, <1>15 DEF NextPage
<1>16. PICK g : g = heap[1] \o more
  OBVIOUS
<1>17. /\ g \in Seq(Note) /\ Pages(leaves, g, n) /\ DOMAIN heap[1] \subseteq DOMAIN g
       /\ \A p \in DOMAIN heap[1] : g[p] = heap[1][p]
       /\ \A p \in DOMAIN g : p \notin DOMAIN heap[1] => g[p].spent = FALSE
  <2> DEFINE notes == heap[1]
  <2>1. /\ notes \in Seq(Note) /\ start \in Nat /\ n \in Nat /\ start <= n
        /\ Pages(leaves, notes, start) /\ NextPage(leaves, start, n, more) /\ g = notes \o more
    BY <1>4, <1>5, <1>6, <1>16, <1>27
  <2> HIDE DEF notes
  <2>2. g \in Seq(Note) /\ Pages(leaves, g, n) /\ Longer(notes, g)
    BY <2>1, PagesExtended
  <2> QED BY <2>2 DEF notes, Longer
<1>18. heap' = [heap EXCEPT ![1] = g]
  BY <1>1, <1>16 DEF more
<1>19. heap' \in Seq(Seq(Note)) /\ Len(heap') = 1 /\ heap'[1] = g
  <2>1. heap \in Seq(Seq(Note)) /\ Len(heap) = 1 /\ g \in Seq(Note)
    BY <1>1, <1>2, <1>17
  <2>2. /\ [heap EXCEPT ![1] = g] \in Seq(Seq(Note)) /\ Len([heap EXCEPT ![1] = g]) = 1
        /\ [heap EXCEPT ![1] = g][1] = g
    BY <2>1, OneArray
  <2> QED BY <1>18, <2>2
<1>20. \A ref \in Refs(heap) : /\ ref = <<1, ref[2]>> /\ ref[2] \in DOMAIN heap[1]
                               /\ NoteAt(heap, ref) = heap[1][ref[2]]
  BY <1>1, <1>2, OneRefs
<1>21. ASSUME NEW ref \in Refs(heap)
       PROVE  ref \in Refs(heap') /\ NoteAt(heap', ref) = NoteAt(heap, ref)
  <2>1. ref = <<1, ref[2]>> /\ ref[2] \in DOMAIN g /\ NoteAt(heap, ref) = g[ref[2]]
    BY <1>17, <1>20
  <2>2. <<1, ref[2]>> \in Refs(heap') /\ NoteAt(heap', <<1, ref[2]>>) = g[ref[2]]
    BY <1>19, <2>1, OneRefs
  <2> QED BY <2>1, <2>2
<1>22. ASSUME NEW ref \in Refs(heap'), ref \notin Refs(heap)
       PROVE  NoteAt(heap', ref).spent = FALSE
  <2>1. ref = <<1, ref[2]>> /\ ref[2] \in DOMAIN g /\ NoteAt(heap', ref) = g[ref[2]]
    BY <1>19, OneRefs
  <2>2. ref[2] \notin DOMAIN heap[1]
    BY <1>1, <1>2, <1>22, <2>1, OneRefs
  <2> QED BY <1>17, <2>1, <2>2
<1>23. Shape(k, heap', indexed, Len(wires))
  <2>1. k.arr \in 0 .. Len(heap') /\ k.asof \in 0 .. indexed /\ k.start \in Nat
    BY <1>2, <1>5, <1>7, <1>19
  <2>2. k.pc \in Pcs /\ k.pc \notin Paying
    BY <1>7 DEF Pcs, Paying
  <2>3. k.inputs \in Seq(Refs(heap')) /\ IsInjective(k.inputs)
    BY <1>7 DEF IsInjective
  <2> QED BY <1>3, <1>7, <2>1, <2>2, <2>3 DEF Shape
<1>24. scanned <= k.start /\ k.start <= indexed /\ Pages(leaves, heap'[1], k.start)
  <2>1. scanned <= n
    BY <1>2, <1>4, <1>5
  <2> QED BY <1>5, <1>7, <1>17, <1>19, <2>1
<1>25. call[c].pc \in {"sync", "page"} /\ Set(c, k)
  BY DEF k
<1>26. Refs(heap) \subseteq Refs(heap')
  BY <1>21
<1>28. Added(heap')
  BY <1>21, <1>22 DEF Added
<1> QED BY <1>7, <1>19, <1>21, <1>22, <1>23, <1>24, <1>25, <1>26, <1>28, PageKeeps

-----------------------------------------------------------------------------
(* The end of a sync *)

\* A reserved leaf is that of a note some open payment holds.
LEMMA ReservedNote ==
  ASSUME IInv, NEW ref \in Refs(heap), NoteAt(heap, ref).leaf \in reserved
  PROVE  NoteAt(heap, ref).spent = TRUE /\ \E c \in Calls : ref \in Held(c)
<1>1. PICK c \in Calls : NoteAt(heap, ref).leaf \in LeavesAt(heap, Held(c))
  BY DEF IInv, MarkInv, Marks
<1>2. PICK s \in Held(c) : NoteAt(heap, s).leaf = NoteAt(heap, ref).leaf
  BY <1>1 DEF LeavesAt
<1>3. s \in Refs(heap)
  BY <1>2, HeldRefs DEF IInv
<1>4. s = ref
  BY <1>2, <1>3, OneRefEach DEF IInv
<1>5. NoteAt(heap, s).spent = TRUE
  BY DEF IInv, MarkInv, Marks
<1> QED BY <1>2, <1>4, <1>5

\* What is asked for is in the notes and held by nobody.
LEMMA CandidatesFree ==
  ASSUME IInv, Len(heap) = 1, NEW p \in Candidates(heap[1])
  PROVE  p \in DOMAIN heap[1] /\ heap[1][p].leaf \notin reserved
<1>1. heap \in Seq(Seq(Note)) /\ p \in DOMAIN heap[1]
  BY DEF IInv, HeapInv, Candidates
<1>2. <<1, p>> \in Refs(heap) /\ NoteAt(heap, <<1, p>>) = heap[1][p]
  BY <1>1, OneRefs
<1>3. CASE heap[1][p].leaf \in reserved
  <2>1. heap[1][p].spent = TRUE
    BY <1>2, <1>3, ReservedNote
  <2>2. ~heap[1][p].spent
    BY <1>3 DEF Candidates
  <2> QED BY <2>1, <2>2
<1> QED BY <1>1, <1>3

LEMMA AskKeeps ==
  ASSUME IInv, NEW c \in Calls, call[c].pc = "page", NEW k,
         k = [call[c] EXCEPT !.pc = "marks", !.asked = Candidates(heap[1]),
                !.spentThen = consumed \cap {heap[1][p].leaf : p \in Candidates(heap[1])}],
         Set(c, k), scanned' = call[c].start,
         UNCHANGED <<chain, wires, happened, heap, current, reserved>>
  PROVE  IInv'
<1>1. Len(heap) = 1 /\ heap # <<>> /\ call[c].arr = 1
  BY ReadingArray DEF IInv, Reading
<1>2. /\ DOMAIN call' = Calls /\ call'[c] = k
      /\ \A d \in Calls : d # c => call'[d] = call[d]
  BY CallSet DEF IInv, CallInv, Set
<1>3. /\ leaves' = leaves /\ consumed' = consumed /\ indexed' = indexed /\ wires' = wires
      /\ heap' = heap /\ current' = current /\ reserved' = reserved /\ happened' = happened
  BY DEF chain
<1>4. Shape(call[c], heap, indexed, Len(wires)) /\ call[c].inputs = <<>> /\ call[c].start \in Nat
  BY DEF IInv, CallInv, Shape, Paying
<1>5. call[c].start <= indexed /\ Pages(leaves, heap[1], call[c].start)
  BY DEF IInv, SyncInv, Reads
<1>6. /\ DOMAIN k = DOMAIN call[c] /\ k.pc = "marks" /\ k.start = call[c].start
      /\ k.asof = call[c].asof /\ k.arr = call[c].arr /\ k.inputs = <<>>
      /\ k.wire = call[c].wire /\ k.outs = call[c].outs /\ k.asked = Candidates(heap[1])
      /\ k.spentThen = consumed \cap {heap[1][p].leaf : p \in k.asked}
  BY <1>4 DEF Shape, NoCall
<1>7. call[c].pc \notin Resting
  BY DEF Resting
<1>8. \A d \in Calls : d # c => /\ call[d].pc \in Resting /\ call[d].pc # "page" /\ call[d].pc # "marks"
                                  /\ call[d].pc \notin Choosing
  BY <1>7, OthersRest DEF IInv
<1>9. ChainInv' /\ WireInv'
  BY <1>3 DEF IInv, ChainInv, WireInv
<1>10. HeapInv'
  BY <1>3, <1>4, <1>5 DEF IInv, HeapInv
<1>11. CallInv'
  <2>1. Shape(k, heap, indexed, Len(wires))
    <3>1. k.pc \in Pcs /\ k.pc \notin Paying
      BY <1>6 DEF Pcs, Paying
    <3> QED BY <1>1, <1>4, <1>6, <3>1 DEF Shape
  <2>2. \A d \in Calls : Shape(call'[d], heap, indexed, Len(wires))
    BY <1>2, <2>1 DEF IInv, CallInv
  <2>3. \A d, e \in Calls : call'[d].pc \notin Resting /\ call'[e].pc \notin Resting => d = e
    BY <1>2, <1>7, OneAtATime DEF IInv
  <2> QED BY <1>2, <1>3, <2>2, <2>3 DEF CallInv
<1>12. SyncInv'
  <2>1. Pages(leaves, Cell(heap), scanned')
    BY <1>1, <1>5 DEF Cell
  <2>2. \E d \in Calls : call'[d].pc = "marks" /\ call'[d].pc \in Reading
    BY <1>2, <1>6 DEF Reading
  <2>3. \A d \in Calls : Reads(call'[d], heap, scanned', indexed, leaves)
    BY <1>2, <1>6, <1>8 DEF Reads
  <2>4. \A d \in Calls : Asks(call'[d], heap, consumed, reserved)
    <3>1. Asks(k, heap, consumed, reserved)
      BY <1>1, <1>6, CandidatesFree DEF Asks
    <3> QED BY <1>2, <1>8, <3>1 DEF Asks
  <2> QED BY <1>3, <2>1, <2>2, <2>3, <2>4 DEF SyncInv
<1>13. PayInv'
  <2>1. Pays(k, heap, wires)
    <3>1. LeavesAt(heap, ToSet(k.inputs)) = {}
      BY <1>6 DEF LeavesAt, ToSet
    <3> QED BY <1>6, <3>1 DEF Pays
  <2> QED BY <1>2, <1>3, <2>1 DEF IInv, PayInv
<1>14. MarkInv'
  <2>1. \A d \in Calls : call'[d].inputs = call[d].inputs
    BY <1>2, <1>4, <1>6
  <2> QED BY <1>3, <2>1, MarksKept DEF IInv
<1>15. ChooseInv'
  BY <1>2, <1>6, <1>8 DEF ChooseInv, Chooses, Choosing
<1> QED BY <1>9, <1>10, <1>11, <1>12, <1>13, <1>14, <1>15 DEF IInv

\* The call that read the pages, or chose its notes, goes on or ends.
LEMMA ReadKeeps ==
  ASSUME IInv, NEW c \in Calls, call[c].pc \in Reading \cup Choosing, NEW k, Set(c, k), k.pc \notin Reading,
         Shape(k, heap, indexed, Len(wires)), Pays(k, heap, wires),
         current' = 1, SameNotes(heap, heap'), MarkInv', Chooses(k, heap', reserved'),
         scanned' \in Nat, scanned' <= indexed, Pages(leaves, heap[1], scanned'),
         UNCHANGED <<chain, wires, happened>>
  PROVE  IInv'
<1>1. Len(heap) = 1 /\ heap # <<>>
  BY ReadingArray DEF IInv
<1>2. /\ DOMAIN call' = Calls /\ call'[c] = k
      /\ \A d \in Calls : d # c => call'[d] = call[d]
  BY CallSet DEF IInv, CallInv, Set
<1>3. /\ leaves' = leaves /\ consumed' = consumed /\ indexed' = indexed /\ wires' = wires
      /\ happened' = happened
  BY DEF chain
<1>4. /\ heap \in Seq(Seq(Note)) /\ heap' \in Seq(Seq(Note)) /\ Len(heap') = Len(heap)
      /\ wires \in Seq(Wire) /\ Len(wires) \in Nat /\ indexed \in Nat
  BY DEF IInv, HeapInv, WireInv, ChainInv, SameNotes
<1>5. call[c].pc \notin Resting
  BY DEF Reading, Choosing, Resting
<1>6. \A d \in Calls : d # c => /\ call[d].pc \in Resting /\ call[d].pc # "page" /\ call[d].pc # "marks"
                                  /\ call[d].pc \notin Choosing
  BY <1>5, OthersRest DEF IInv
<1>7. \A d \in Calls : call'[d].pc # "page" /\ call'[d].pc # "marks"
  BY <1>2, <1>6 DEF Reading
<1>8. ChainInv' /\ WireInv'
  BY <1>3 DEF IInv, ChainInv, WireInv
<1>9. HeapInv'
  BY <1>1, <1>3, <1>4 DEF HeapInv
<1>10. CallInv'
  <2>1. ASSUME NEW d \in Calls
        PROVE  Shape(call'[d], heap', indexed, Len(wires))
    <3>1. Shape(call'[d], heap, indexed, Len(wires))
      BY <1>2 DEF IInv, CallInv
    <3>2. Len(wires) <= Len(wires)
      BY <1>4
    <3> QED BY <1>4, <3>1, <3>2, ShapeSame
  <2>2. \A d, e \in Calls : call'[d].pc \notin Resting /\ call'[e].pc \notin Resting => d = e
    BY <1>2, <1>5, OneAtATime DEF IInv
  <2> QED BY <1>2, <1>3, <2>1, <2>2 DEF CallInv
<1>11. SyncInv'
  <2>1. Pages(leaves, Cell(heap'), scanned')
    <3>1. Pages(leaves, Cell(heap), scanned')
      BY <1>1 DEF Cell
    <3> QED BY <1>4, <3>1, CellSame
  <2>2. \A d \in Calls : Reads(call'[d], heap', scanned', indexed, leaves)
    BY <1>7 DEF Reads
  <2>3. \A d \in Calls : Asks(call'[d], heap', consumed, reserved')
    BY <1>7 DEF Asks
  <2> QED BY <1>3, <2>1, <2>2, <2>3 DEF SyncInv
<1>12. PayInv'
  <2> SUFFICES ASSUME NEW d \in Calls PROVE Pays(call'[d], heap', wires)
    BY <1>3 DEF PayInv
  <2>1. Pays(call'[d], heap, wires) /\ Shape(call'[d], heap, indexed, Len(wires))
    BY <1>2 DEF IInv, PayInv, CallInv
  <2>2. ToSet(call'[d].inputs) \subseteq Refs(heap)
    BY <2>1, InputRefs
  <2>3. Len(wires) <= Len(wires) /\ \A w \in DOMAIN wires : wires[w].ins = wires[w].ins
    BY <1>4
  <2> QED BY <1>4, <2>1, <2>2, <2>3, PaysSame
<1>13. ChooseInv'
  BY <1>2, <1>6 DEF ChooseInv, Chooses
<1> QED BY <1>8, <1>9, <1>10, <1>11, <1>12, <1>13 DEF IInv

\* What the answer about nullifiers has made of the notes, h: those of open
\* payments are as they were, and those in seen are marked.
Answer(h, seen) ==
  /\ SameNotes(heap, h)
  /\ \A ref \in Refs(heap) : NoteAt(heap, ref).leaf \in reserved => NoteAt(h, ref) = NoteAt(heap, ref)
  /\ \A ref \in Refs(heap) : NoteAt(h, ref).leaf \in seen => NoteAt(h, ref).spent = TRUE

LEMMA AnswerMarks ==
  ASSUME IInv, NEW h, NEW seen, Answer(h, seen)
  PROVE  Marks(h, reserved)
<1>1. heap \in Seq(Seq(Note)) /\ SameNotes(heap, h)
  BY DEF IInv, HeapInv, Answer
<1>2. /\ Refs(h) = Refs(heap)
      /\ \A ref \in Refs(heap) : NoteAt(h, ref).leaf = NoteAt(heap, ref).leaf
  BY <1>1, SameRefs
<1>3. \A d \in Calls : Held(d) \subseteq Refs(heap)
  BY HeldRefs DEF IInv
<1>4. \A d \in Calls : LeavesAt(h, Held(d)) = LeavesAt(heap, Held(d))
  BY <1>1, <1>3, LeavesSame
<1>5. reserved = UNION {LeavesAt(heap, Held(d)) : d \in Calls}
  BY DEF IInv, MarkInv, Marks
<1>6. reserved = UNION {LeavesAt(h, Held(d)) : d \in Calls}
  BY <1>4, <1>5
<1>7. ASSUME NEW d \in Calls, NEW ref \in Held(d)
      PROVE  NoteAt(h, ref).spent = TRUE
  <2>1. NoteAt(heap, ref).leaf \in LeavesAt(heap, Held(d))
    BY DEF LeavesAt
  <2>2. NoteAt(heap, ref).leaf \in reserved
    BY <1>5, <2>1
  <2>3. NoteAt(h, ref) = NoteAt(heap, ref)
    BY <1>3, <2>2 DEF Answer
  <2>4. NoteAt(heap, ref).spent = TRUE
    BY DEF IInv, MarkInv, Marks
  <2> QED BY <2>3, <2>4
<1>8. \A d, e \in Calls : d # e => Held(d) \cap Held(e) = {}
  BY DEF IInv, MarkInv, Marks
<1> QED BY <1>6, <1>7, <1>8 DEF Marks

LEMMA PicksUnspent ==
  ASSUME NEW notes, NEW need
  PROVE  Picks(notes, need) \subseteq SUBSET Unspent(notes)
<1>1. TopTwo(notes) \subseteq SUBSET Unspent(notes)
  BY DEF TopTwo, kSubset
<1>2. \A p \in Largest(notes) : {p} \subseteq Unspent(notes)
  BY DEF Largest
<1> QED BY <1>1, <1>2 DEF Picks

\* A sync ends, or the payment it is for begins to choose.
LEMMA SyncedKeeps ==
  ASSUME IInv, NEW c \in Calls, call[c].pc \in Reading, NEW h, Answer(h, call[c].spentThen),
         call[c].spentThen \cap reserved = {},
         Synced(c, h), scanned' \in Nat, scanned' <= indexed, Pages(leaves, heap[1], scanned'),
         UNCHANGED <<chain, wires, happened>>
  PROVE  IInv'
<1>1. Len(heap) = 1 /\ call[c].arr = 1
  BY ReadingArray DEF IInv
<1>2. current' = 1 /\ heap' = h /\ reserved' = reserved
  BY <1>1 DEF Synced
<1>3. Shape(call[c], heap, indexed, Len(wires)) /\ call[c].inputs = <<>>
  BY DEF IInv, CallInv, Shape, Paying, Reading
<1>4. /\ heap \in Seq(Seq(Note)) /\ indexed \in Nat /\ Len(wires) \in Nat /\ consumed' = consumed
      /\ SameNotes(heap, heap') /\ Refs(heap') = Refs(heap)
  <2>1. heap \in Seq(Seq(Note)) /\ SameNotes(heap, heap')
    BY <1>2 DEF IInv, HeapInv, Answer
  <2> QED BY <2>1, SameRefs DEF IInv, ChainInv, WireInv, chain
<1>5. PICK k : /\ Set(c, k) /\ k.pc \notin Reading /\ k.inputs = <<>>
               /\ Shape(k, heap, indexed, Len(wires)) /\ Pays(k, heap, wires)
               /\ Chooses(k, heap', reserved')
  <2>1. CASE call[c].op = "sync"
    <3> DEFINE k == Ended(c, "done")
    <3>1. /\ k.pc = "idle" /\ k.inputs = <<>> /\ DOMAIN k = DOMAIN NoCall /\ k.arr = 0 /\ k.start = 0
          /\ k.asof = 0 /\ k.wire = 0 /\ k.outs = <<0, 0>> /\ k.spentThen = {}
      BY DEF Ended, NoCall
    <3>2. Set(c, k)
      BY <2>1 DEF Synced
    <3> HIDE DEF k
    <3>3. k.asof \in 0 .. indexed /\ k.wire \in 0 .. Len(wires)
      BY <1>4, <3>1
    <3>4. /\ Shape(k, heap, indexed, Len(wires)) /\ k.pc \notin Reading /\ k.pc \notin Choosing
          /\ Pays(k, heap, wires)
      BY <1>4, <3>1, <3>3, PlainCall
    <3> QED BY <3>1, <3>2, <3>4 DEF Chooses
  <2>2. CASE call[c].op # "sync"
    <3> DEFINE k == [call[c] EXCEPT !.pc = "select"]
    <3>1. Set(c, k)
      BY <2>2 DEF Synced
    <3>2. /\ DOMAIN k = DOMAIN call[c] /\ k.pc = "select" /\ k.arr = 1 /\ k.inputs = <<>>
          /\ k.start = call[c].start /\ k.asof = call[c].asof /\ k.wire = call[c].wire
          /\ k.outs = call[c].outs /\ k.spentThen = call[c].spentThen
      BY <1>1, <1>3 DEF Shape, NoCall
    <3> HIDE DEF k
    <3>3. k.pc \in Pcs /\ k.pc \notin Paying /\ k.pc \notin Reading /\ k.pc \notin {"sync", "page"}
      BY <3>2 DEF Pcs, Paying, Reading
    <3>4. Shape(k, heap, indexed, Len(wires))
      BY <1>1, <1>3, <3>2, <3>3 DEF Shape
    <3>5. Pays(k, heap, wires)
      BY <3>2 DEF Pays, LeavesAt, ToSet
    <3>6. Chooses(k, heap', reserved')
      BY <1>2, <1>4, <3>2 DEF Chooses, Answer
    <3> QED BY <3>1, <3>2, <3>3, <3>4, <3>5, <3>6
  <2> QED BY <2>1, <2>2
<1>6. MarkInv'
  <2>1. Marks(heap', reserved)
    BY <1>2, AnswerMarks
  <2>2. DOMAIN call' = Calls /\ call'[c] = k /\ \A d \in Calls : d # c => call'[d] = call[d]
    BY <1>5, CallSet DEF IInv, CallInv, Set
  <2>3. \A d \in Calls : Held(d)' = Held(d)
    BY <1>3, <1>5, <2>2 DEF Held
  <2> QED BY <1>2, <2>1, <2>3 DEF MarkInv, Marks
<1> QED BY <1>2, <1>4, <1>5, <1>6, ReadKeeps

\* A call that chooses does so from the notes of its sync.
LEMMA ChoosesFrom ==
  ASSUME IInv, NEW c \in Calls, call[c].pc \in Choosing
  PROVE  /\ current = 1 /\ Len(heap) = 1 /\ call[c].arr = 1 /\ Notes = heap[1]
         /\ scanned \in Nat /\ scanned <= indexed /\ Pages(leaves, heap[1], scanned)
<1>1. Len(heap) = 1 /\ heap # <<>> /\ call[c].arr = 1
  BY ReadingArray DEF IInv
<1>2. call[c].pc \notin Resting /\ call[c].pc \notin Reading
  BY DEF Choosing, Resting, Reading
<1>3. \A d \in Calls : call[d].pc # "page" /\ call[d].pc \notin Reading
  <2>1. \A d \in Calls : d # c => call[d].pc # "page" /\ call[d].pc \notin Reading
    BY <1>2, OthersRest DEF IInv, Reading
  <2> QED BY <1>2, <2>1 DEF Reading
<1>4. current # 0 /\ Pages(leaves, Cell(heap), scanned)
  BY <1>1, <1>3 DEF IInv, SyncInv
<1>5. current \in 0 .. 1
  BY <1>1 DEF IInv, HeapInv
<1>6. current = 1
  BY <1>4, <1>5
<1> QED BY <1>1, <1>4, <1>6 DEF Notes, Cell, IInv, HeapInv

\* Choosing takes nothing yet.
LEMMA SelectKeeps ==
  ASSUME IInv, NEW c \in Calls, Select(c)
  PROVE  IInv'
<1>1. call[c].pc = "select" /\ UNCHANGED <<chain, wires, client, happened>>
  BY DEF Select
<1>2. current = 1 /\ Len(heap) = 1 /\ call[c].arr = 1 /\ Notes = heap[1]
  BY <1>1, ChoosesFrom DEF Choosing
<1>3. /\ Shape(call[c], heap, indexed, Len(wires)) /\ call[c].inputs = <<>>
      /\ Chooses(call[c], heap, reserved)
  BY <1>1 DEF IInv, CallInv, Shape, Paying, ChooseInv
<1>4. /\ heap \in Seq(Seq(Note)) /\ indexed \in Nat /\ wires' = wires /\ Len(wires) \in Nat
      /\ WireInv' /\ happened' \in [Happens -> Nat]
  BY <1>1 DEF IInv, HeapInv, ChainInv, WireInv, chain
<1>5. \/ \E result : Set(c, Ended(c, result))
      \/ \E picked \in Picks(heap[1], Top(c).need) :
           Set(c, [call[c] EXCEPT !.pc = "picked", !.arr = 1, !.picked = picked])
      \/ \E frames :
           Set(c, [call[c] EXCEPT !.pc = "sync", !.arr = 0, !.start = 0, !.asked = {},
                                  !.spentThen = {}, !.frames = frames])
  BY <1>2 DEF Select
<1>6. PICK k : /\ Set(c, k) /\ k.pc \notin Reading /\ k.inputs = <<>>
               /\ Shape(k, heap, indexed, Len(wires)) /\ Pays(k, heap, wires)
               /\ Chooses(k, heap, reserved)
  <2>1. ASSUME NEW result, Set(c, Ended(c, result))
        PROVE  \E k : /\ Set(c, k) /\ k.pc \notin Reading /\ k.inputs = <<>>
                      /\ Shape(k, heap, indexed, Len(wires)) /\ Pays(k, heap, wires)
                      /\ Chooses(k, heap, reserved)
    <3> DEFINE k == Ended(c, result)
    <3>1. /\ k.pc = "idle" /\ k.inputs = <<>> /\ DOMAIN k = DOMAIN NoCall /\ k.arr = 0 /\ k.start = 0
          /\ k.asof = 0 /\ k.wire = 0 /\ k.outs = <<0, 0>> /\ k.spentThen = {}
      BY DEF Ended, NoCall
    <3>2. Set(c, k)
      BY <2>1
    <3> HIDE DEF k
    <3>3. k.asof \in 0 .. indexed /\ k.wire \in 0 .. Len(wires)
      BY <1>4, <3>1
    <3>4. /\ Shape(k, heap, indexed, Len(wires)) /\ k.pc \notin Reading /\ k.pc \notin Choosing
          /\ Pays(k, heap, wires)
      BY <1>4, <3>1, <3>3, PlainCall
    <3> QED BY <3>1, <3>2, <3>4 DEF Chooses
  <2>2. ASSUME NEW frames,
               Set(c, [call[c] EXCEPT !.pc = "sync", !.arr = 0, !.start = 0, !.asked = {},
                                      !.spentThen = {}, !.frames = frames])
        PROVE  \E k : /\ Set(c, k) /\ k.pc \notin Reading /\ k.inputs = <<>>
                      /\ Shape(k, heap, indexed, Len(wires)) /\ Pays(k, heap, wires)
                      /\ Chooses(k, heap, reserved)
    <3> DEFINE k == [call[c] EXCEPT !.pc = "sync", !.arr = 0, !.start = 0, !.asked = {},
                                    !.spentThen = {}, !.frames = frames]
    <3>1. /\ k.pc = "sync" /\ k.inputs = <<>> /\ DOMAIN k = DOMAIN call[c] /\ k.arr = 0
          /\ k.start = 0 /\ k.asof = call[c].asof /\ k.wire = call[c].wire
          /\ k.outs = call[c].outs /\ k.spentThen = {}
      BY <1>3 DEF Shape, NoCall
    <3>2. Set(c, k)
      BY <2>2
    <3> HIDE DEF k
    <3>3. /\ k.pc \in Pcs /\ k.pc \notin Paying /\ k.pc \notin Reading /\ k.pc \notin Choosing
          /\ k.arr \in 0 .. Len(heap) /\ k.start \in Nat
      BY <1>2, <3>1 DEF Pcs, Paying, Reading, Choosing
    <3>4. Shape(k, heap, indexed, Len(wires))
      BY <1>3, <3>1, <3>3 DEF Shape
    <3>5. Pays(k, heap, wires)
      BY <3>1 DEF Pays, LeavesAt, ToSet
    <3> QED BY <3>1, <3>2, <3>3, <3>4, <3>5 DEF Chooses
  <2>3. ASSUME NEW picked \in Picks(heap[1], Top(c).need),
               Set(c, [call[c] EXCEPT !.pc = "picked", !.arr = 1, !.picked = picked])
        PROVE  \E k : /\ Set(c, k) /\ k.pc \notin Reading /\ k.inputs = <<>>
                      /\ Shape(k, heap, indexed, Len(wires)) /\ Pays(k, heap, wires)
                      /\ Chooses(k, heap, reserved)
    <3> DEFINE k == [call[c] EXCEPT !.pc = "picked", !.arr = 1, !.picked = picked]
    <3>1. /\ k.pc = "picked" /\ k.inputs = <<>> /\ DOMAIN k = DOMAIN call[c] /\ k.arr = 1
          /\ k.start = call[c].start /\ k.asof = call[c].asof /\ k.wire = call[c].wire
          /\ k.outs = call[c].outs /\ k.spentThen = call[c].spentThen /\ k.picked = picked
      BY <1>3 DEF Shape, NoCall
    <3>2. Set(c, k)
      BY <2>3
    <3> HIDE DEF k
    <3>3. k.pc \in Pcs /\ k.pc \notin Paying /\ k.pc \notin Reading /\ k.pc \notin {"sync", "page"}
      BY <3>1 DEF Pcs, Paying, Reading
    <3>4. Shape(k, heap, indexed, Len(wires))
      BY <1>2, <1>3, <3>1, <3>3 DEF Shape
    <3>5. Pays(k, heap, wires)
      BY <3>1 DEF Pays, LeavesAt, ToSet
    <3>6. picked \subseteq Unspent(heap[1])
      BY PicksUnspent
    <3>7. Chooses(k, heap, reserved)
      BY <1>1, <1>3, <3>1, <3>6 DEF Chooses, Choosing
    <3> QED BY <3>1, <3>2, <3>3, <3>4, <3>5, <3>7
  <2> QED BY <1>5, <2>1, <2>2, <2>3
<1>7. call[c].pc \notin Resting /\ call[c].pc \notin Reading
  BY <1>1 DEF Resting, Reading
<1>8. /\ UNCHANGED <<chain, client>> /\ Len(wires) <= Len(wires')
      /\ \A w \in DOMAIN wires : wires'[w].ins = wires[w].ins
  BY <1>1, <1>4
<1> QED BY <1>3, <1>4, <1>6, <1>7, <1>8, CallMoves

\* A payment takes notes that are not marked: nobody holds them, and nobody
\* will be able to take them.
LEMMA ReserveKeeps ==
  ASSUME IInv, NEW c \in Calls, Reserve(c)
  PROVE  IInv'
<1> DEFINE picked == call[c].picked
           refs == {<<call[c].arr, p>> : p \in picked}
           k == [call[c] EXCEPT !.pc = "paths", !.picked = {}, !.inputs = SetToSeq(refs),
                                !.asof = indexed]
<1>1. /\ call[c].pc = "picked" /\ heap' = Updated(heap, refs, Marked)
      /\ reserved' = reserved \cup {LeafAt(ref) : ref \in refs}
      /\ Set(c, k) /\ UNCHANGED <<chain, wires, current, scanned, happened>>
  BY DEF Reserve
<1>2. /\ current = 1 /\ Len(heap) = 1 /\ call[c].arr = 1
      /\ scanned \in Nat /\ scanned <= indexed /\ Pages(leaves, heap[1], scanned)
  BY <1>1, ChoosesFrom DEF Choosing
<1>3. heap \in Seq(Seq(Note)) /\ indexed \in Nat
  BY DEF IInv, HeapInv, ChainInv
<1>4. Chooses(call[c], heap, reserved)
  BY DEF IInv, ChooseInv
<1>5. \A p \in picked : p \in DOMAIN heap[1] /\ ~heap[1][p].spent
  BY <1>1, <1>4 DEF Chooses, Choosing, Unspent
<1>6. IsFiniteSet(refs)
  <2>1. IsFiniteSet(DOMAIN heap[1])
    <3>1. 1 \in DOMAIN heap
      BY <1>2, <1>3
    <3>2. heap[1] \in Seq(Note)
      BY <1>3, <3>1, ItemOf
    <3>3. DOMAIN heap[1] = 1 .. Len(heap[1]) /\ 1 \in Int /\ Len(heap[1]) \in Int
      BY <3>2
    <3> QED BY <3>3, FS_Interval
  <2>2. IsFiniteSet(picked)
    BY <1>5, <2>1, FS_Subset
  <2> DEFINE f == [p \in picked |-> <<call[c].arr, p>>]
  <2>3. f \in Surjection(picked, refs)
    BY DEF Surjection
  <2> HIDE DEF f, refs, picked
  <2> QED BY <2>2, <2>3, FS_Surjection
<1> HIDE DEF picked
<1>7. ASSUME NEW ref \in refs
      PROVE  ref \in Refs(heap) /\ NoteAt(heap, ref).spent # TRUE
  <2>1. PICK p \in picked : ref = <<1, p>>
    BY <1>2
  <2>2. ref \in Refs(heap) /\ NoteAt(heap, ref) = heap[1][p]
    BY <1>2, <1>3, <1>5, <2>1, OneRefs
  <2> QED BY <1>5, <2>2
<1>8. /\ SetToSeq(refs) \in Seq(refs) /\ IsInjective(SetToSeq(refs))
      /\ ToSet(SetToSeq(refs)) = refs
  BY <1>6, SetAsSeq
<1>9. Shape(call[c], heap, indexed, Len(wires)) /\ call[c].inputs = <<>>
  BY <1>1 DEF IInv, CallInv, Shape, Paying
<1>10. /\ DOMAIN k = DOMAIN call[c] /\ k.pc = "paths" /\ k.start = call[c].start
       /\ k.asof = indexed /\ k.arr = call[c].arr /\ k.inputs = SetToSeq(refs)
       /\ k.wire = call[c].wire /\ k.outs = call[c].outs /\ k.spentThen = call[c].spentThen
  BY <1>9 DEF Shape, NoCall
<1> HIDE DEF k
<1>11. DOMAIN call' = Calls /\ call'[c] = k /\ \A d \in Calls : d # c => call'[d] = call[d]
  BY <1>1, CallSet DEF IInv, CallInv, Set
<1>12. Held(c) = {} /\ Held(c)' = refs /\ \A d \in Calls : d # c => Held(d)' = Held(d)
  BY <1>8, <1>9, <1>10, <1>11 DEF Held, ToSet
<1>13. reserved' = reserved \cup LeavesAt(heap, refs)
  BY <1>1 DEF LeavesAt, LeafAt, NoteAt
<1> HIDE DEF refs
<1>14. /\ SameNotes(heap, heap')
       /\ \A ref \in Refs(heap) : ref \in refs => NoteAt(heap', ref).spent = TRUE
       /\ \A ref \in Refs(heap) : ref \notin refs => NoteAt(heap', ref) = NoteAt(heap, ref)
  <2>1. IsMarked(heap, refs, heap')
    BY <1>1 DEF IsMarked, Updated
  <2> QED BY <1>3, <2>1, MarkedNotes, Zenon
<1>15. /\ Shape(k, heap, indexed, Len(wires)) /\ k.pc \notin Reading
       /\ Chooses(k, heap', reserved')
  <2>1. /\ k.pc \in Pcs /\ k.pc \in Paying /\ k.pc \notin Reading /\ k.pc \notin Choosing
        /\ k.pc \notin {"sync", "page"}
    BY <1>10 DEF Pcs, Paying, Reading, Choosing
  <2>2. k.inputs \in Seq(Refs(heap)) /\ IsInjective(k.inputs)
    <3>1. refs \subseteq Refs(heap)
      BY <1>7
    <3> QED BY <1>8, <1>10, <3>1
  <2>3. k.asof \in 0 .. indexed
    BY <1>3, <1>10
  <2> QED BY <1>9, <1>10, <2>1, <2>2, <2>3 DEF Shape, Chooses
<1>16. Pays(k, heap, wires)
  <2>1. ASSUME NEW ref \in refs, NoteAt(heap, ref).leaf \in call[c].spentThen
        PROVE  FALSE
    BY <1>1, <1>4, <1>7, <2>1 DEF Chooses, Choosing
  <2>2. LeavesAt(heap, ToSet(k.inputs)) \cap k.spentThen = {}
    BY <1>8, <1>10, <2>1 DEF LeavesAt
  <2> QED BY <1>10, <2>2 DEF Pays
<1>17. \A d \in Calls : \A ref \in Held(d) : ref \notin refs /\ ref \in Refs(heap)
  BY <1>7, HeldRefs DEF IInv, MarkInv, Marks
<1>18. MarkInv'
  <2>1. ASSUME NEW d \in Calls, NEW ref \in Held(d)'
        PROVE  NoteAt(heap', ref).spent = TRUE
    <3>1. CASE d = c
      BY <1>7, <1>12, <1>14, <2>1, <3>1
    <3>2. CASE d # c
      <4>1. ref \in Held(d) /\ NoteAt(heap', ref) = NoteAt(heap, ref)
        BY <1>12, <1>14, <1>17, <2>1, <3>2
      <4>2. NoteAt(heap, ref).spent = TRUE
        BY <4>1 DEF IInv, MarkInv, Marks
      <4> QED BY <4>1, <4>2
    <3> QED BY <3>1, <3>2
  <2>2. ASSUME NEW d \in Calls, NEW e \in Calls, d # e
        PROVE  Held(d)' \cap Held(e)' = {}
    <3>1. CASE d = c
      BY <1>12, <1>17, <2>2, <3>1
    <3>2. CASE e = c
      BY <1>12, <1>17, <2>2, <3>2
    <3>3. CASE d # c /\ e # c
      BY <1>12, <2>2, <3>3 DEF IInv, MarkInv, Marks
    <3> QED BY <3>1, <3>2, <3>3
  <2>3. reserved' = UNION {LeavesAt(heap', Held(d)') : d \in Calls}
    <3>1. \A ref \in Refs(heap) : NoteAt(heap', ref).leaf = NoteAt(heap, ref).leaf
      BY <1>3, <1>14, SameRefs
    <3>2. LeavesAt(heap', Held(c)') = LeavesAt(heap, refs)
      BY <1>7, <1>12, <3>1 DEF LeavesAt
    <3>3. \A d \in Calls : d # c => LeavesAt(heap', Held(d)') = LeavesAt(heap, Held(d))
      BY <1>12, <1>17, <3>1 DEF LeavesAt
    <3>4. LeavesAt(heap, Held(c)) = {}
      BY <1>12 DEF LeavesAt
    <3>5. reserved = UNION {LeavesAt(heap, Held(d)) : d \in Calls}
      BY DEF IInv, MarkInv, Marks
    <3>6. \A x : x \in reserved' <=> \E d \in Calls : x \in LeavesAt(heap', Held(d)')
      BY <1>13, <3>2, <3>3, <3>4, <3>5
    <3> QED BY <3>6
  <2> QED BY <2>1, <2>2, <2>3 DEF MarkInv, Marks
<1>19. /\ current' = 1 /\ scanned' = scanned /\ call[c].pc \in Reading \cup Choosing
       /\ UNCHANGED <<chain, wires, happened>>
  BY <1>1, <1>2 DEF Choosing
<1> QED BY <1>1, <1>2, <1>14, <1>15, <1>16, <1>18, <1>19, ReadKeeps

LEMMA SyncPageKeeps ==
  ASSUME IInv, NEW c \in Calls, SyncPage(c)
  PROVE  IInv'
<1>1. call[c].pc = "page" /\ UNCHANGED <<chain, wires, happened>>
  BY DEF SyncPage
<1>2. 1 \in DOMAIN heap /\ Len(heap) = 1 /\ call[c].arr = 1
  BY <1>1, ReadingArray DEF IInv, Reading
<1> DEFINE start == call[c].start
           asked == Candidates(heap[1])
           k == [call[c] EXCEPT !.pc = "marks", !.asked = asked,
                                !.spentThen = consumed \cap {heap[1][p].leaf : p \in asked}]
<1>3. \/ \E n \in Served(c) : \E mine :
           /\ n > start /\ mine = SetToSeq(NewLeaves(start, n))
           /\ heap' = [heap EXCEPT ![call[c].arr] = @ \o [i \in DOMAIN mine |-> NewNote(mine[i])]]
           /\ Set(c, [call[c] EXCEPT !.start = n, !.asof = indexed])
           /\ UNCHANGED <<current, reserved, scanned>>
      \/ scanned' = start /\ asked = {} /\ Synced(c, heap)
      \/ /\ scanned' = start /\ Set(c, k)
         /\ UNCHANGED <<heap, current, reserved>>
  BY <1>2 DEF SyncPage
<1>4. CASE \E n \in Served(c) : \E mine :
             /\ n > start /\ mine = SetToSeq(NewLeaves(start, n))
             /\ heap' = [heap EXCEPT ![call[c].arr] = @ \o [i \in DOMAIN mine |-> NewNote(mine[i])]]
             /\ Set(c, [call[c] EXCEPT !.start = n, !.asof = indexed])
             /\ UNCHANGED <<current, reserved, scanned>>
  <2>1. PICK n \in Served(c) : \E mine :
           /\ n > start /\ mine = SetToSeq(NewLeaves(start, n))
           /\ heap' = [heap EXCEPT ![call[c].arr] = @ \o [i \in DOMAIN mine |-> NewNote(mine[i])]]
           /\ Set(c, [call[c] EXCEPT !.start = n, !.asof = indexed])
           /\ UNCHANGED <<current, reserved, scanned>>
    BY <1>4
  <2>2. PICK mine :
           /\ n > start /\ mine = SetToSeq(NewLeaves(start, n))
           /\ heap' = [heap EXCEPT ![call[c].arr] = @ \o [i \in DOMAIN mine |-> NewNote(mine[i])]]
           /\ Set(c, [call[c] EXCEPT !.start = n, !.asof = indexed])
           /\ UNCHANGED <<current, reserved, scanned>>
    BY <2>1
  <2> QED BY <1>1, <2>2, PageGrowsKeeps
<1>5. CASE scanned' = start /\ Set(c, k) /\ UNCHANGED <<heap, current, reserved>>
  BY <1>1, <1>5, AskKeeps
<1>6. CASE scanned' = start /\ asked = {} /\ Synced(c, heap)
  <2>1. start \in Nat /\ start <= indexed /\ Pages(leaves, heap[1], start)
    BY <1>1 DEF IInv, CallInv, Shape, SyncInv, Reads
  <2>2. heap \in Seq(Seq(Note))
    BY DEF IInv, HeapInv
  <2>3. ASSUME NEW ref \in Refs(heap)
        PROVE  NoteAt(heap, ref).spent = TRUE
    <3>1. ref[2] \in DOMAIN heap[1] /\ NoteAt(heap, ref) = heap[1][ref[2]]
      BY <1>2, <2>2, OneRefs
    <3>2. NoteAt(heap, ref).spent \in BOOLEAN
      BY <2>2, RefIs, NoteTyped
    <3>3. ~ ~heap[1][ref[2]].spent
      BY <1>6, <3>1 DEF Candidates
    <3> QED BY <3>1, <3>2, <3>3
  <2>4. SameNotes(heap, heap)
    BY <2>2 DEF SameNotes
  <2>5. Answer(heap, call[c].spentThen)
    BY <2>3, <2>4 DEF Answer
  <2>6. /\ call[c].pc \in Reading /\ scanned' = start
        /\ call[c].spentThen \cap reserved = {}
    BY <1>1, <1>6 DEF Reading, IInv, CallInv, Shape
  <2> HIDE DEF start
  <2> QED BY <1>1, <1>6, <2>1, <2>5, <2>6, SyncedKeeps
<1> QED BY <1>3, <1>4, <1>5, <1>6

LEMMA SyncMarksKeeps ==
  ASSUME IInv, NEW c \in Calls, SyncMarks(c)
  PROVE  IInv'
<1>1. call[c].pc = "marks" /\ UNCHANGED <<chain, wires, scanned, happened>>
  BY DEF SyncMarks
<1>2. 1 \in DOMAIN heap /\ heap # <<>> /\ Len(heap) = 1 /\ call[c].arr = 1
  BY <1>1, ReadingArray DEF IInv, Reading
<1> DEFINE arr == call[c].arr
           asked == {heap[arr][p].leaf : p \in call[c].asked}
           refs == {<<arr, p>> : p \in call[c].asked}
<1>3. PICK spentNow \in SpentAnswers(c, asked) :
        Synced(c, [a \in DOMAIN heap |-> [p \in DOMAIN heap[a] |->
                     IF <<a, p>> \in refs THEN Checked(heap[a][p], spentNow) ELSE heap[a][p]]])
  BY DEF SyncMarks, Updated
<1>4. PICK h : IsChecked(heap, refs, spentNow, h) /\ Synced(c, h)
  BY <1>3 DEF IsChecked
<1>5. IsChecked(heap, refs, spentNow, h) /\ Synced(c, h) /\ arr = 1
  BY <1>2, <1>4
<1> HIDE DEF arr
<1>6. heap \in Seq(Seq(Note)) /\ scanned \in Nat /\ scanned <= indexed
  BY DEF IInv, HeapInv
<1>7. /\ call[c].asked \subseteq DOMAIN heap[1]
      /\ call[c].spentThen \subseteq consumed /\ call[c].spentThen \subseteq asked
      /\ \A p \in call[c].asked : heap[1][p].leaf \notin reserved
  BY <1>1, <1>5 DEF IInv, SyncInv, Asks
<1>8. call[c].spentThen \subseteq spentNow /\ spentNow \subseteq consumed
  BY <1>7 DEF SpentAnswers
<1>9. /\ SameNotes(heap, h)
      /\ \A ref \in Refs(heap) :
           ref \in refs => NoteAt(h, ref) = Checked(NoteAt(heap, ref), spentNow)
      /\ \A ref \in Refs(heap) : ref \notin refs => NoteAt(h, ref) = NoteAt(heap, ref)
  <2>1. IsChecked(heap, refs, spentNow, h) /\ heap \in Seq(Seq(Note))
    BY <1>5, <1>6
  <2> HIDE DEF refs
  <2> QED BY <2>1, CheckedNotes
<1>10. \A ref \in Refs(heap) : NoteAt(h, ref).leaf = NoteAt(heap, ref).leaf
  BY <1>6, <1>9, SameRefs
<1>11. \A ref \in Refs(heap) : NoteAt(heap, ref) \in Note
  BY <1>6, RefIs
<1>12. ASSUME NEW ref \in refs
       PROVE  ref \in Refs(heap) /\ NoteAt(heap, ref).leaf \notin reserved
  <2>1. PICK p \in call[c].asked : ref = <<1, p>>
    BY <1>5
  <2>2. ref \in Refs(heap) /\ NoteAt(heap, ref) = heap[1][p]
    BY <1>2, <1>6, <1>7, <2>1, OneRefs
  <2> QED BY <1>7, <2>2
<1>13. ASSUME NEW ref \in Refs(heap), NoteAt(heap, ref).leaf \in asked
       PROVE  ref \in refs
  <2>1. PICK p \in call[c].asked : heap[1][p].leaf = NoteAt(heap, ref).leaf
    BY <1>5, <1>13
  <2>2. <<1, p>> \in Refs(heap) /\ NoteAt(heap, <<1, p>>) = heap[1][p]
    BY <1>2, <1>6, <1>7, OneRefs
  <2>3. ref = <<1, p>>
    BY <2>1, <2>2, OneRefEach DEF IInv
  <2> QED BY <1>5, <2>3
<1> HIDE DEF refs, asked
<1>14. \A ref \in Refs(heap) :
         NoteAt(heap, ref).leaf \in reserved => NoteAt(h, ref) = NoteAt(heap, ref)
  BY <1>9, <1>12
<1>15. ASSUME NEW ref \in refs, NoteAt(heap, ref).leaf \in spentNow
       PROVE  NoteAt(h, ref).spent = TRUE
  <2>1. NoteAt(h, ref) = Checked(NoteAt(heap, ref), spentNow) /\ NoteAt(heap, ref) \in Note
    BY <1>9, <1>11, <1>12
  <2>2. Checked(NoteAt(heap, ref), spentNow).spent = TRUE
    BY <1>15, <2>1, CheckedNote, Zenon
  <2> QED BY <2>1, <2>2
<1>18. ASSUME NEW ref \in Refs(heap), NoteAt(h, ref).leaf \in call[c].spentThen
       PROVE  NoteAt(h, ref).spent = TRUE
  <2>1. NoteAt(heap, ref).leaf \in spentNow /\ NoteAt(heap, ref).leaf \in asked
    BY <1>7, <1>8, <1>10, <1>18
  <2>2. ref \in refs
    BY <1>13, <2>1
  <2> QED BY <1>15, <2>1, <2>2
<1>19. Answer(h, call[c].spentThen)
  BY <1>9, <1>14, <1>18 DEF Answer
<1>20. Pages(leaves, heap[1], scanned)
  <2>1. \A d \in Calls : call[d].pc # "page"
    <3>1. call[c].pc \notin Resting /\ call[c].pc # "page"
      BY <1>1 DEF Resting
    <3> QED BY <3>1, OthersRest DEF IInv
  <2> QED BY <1>2, <2>1 DEF IInv, SyncInv, Cell
<1>21. /\ call[c].pc \in Reading /\ scanned' = scanned
       /\ call[c].spentThen \cap reserved = {}
  BY <1>1, <1>5, <1>7 DEF Reading, asked
<1> QED BY <1>1, <1>5, <1>6, <1>19, <1>20, <1>21, SyncedKeeps

-----------------------------------------------------------------------------
(* The invariant holds *)

LEMMA InitIInv == Init => IInv
<1> SUFFICES ASSUME Init PROVE IInv
  OBVIOUS
<1> USE DEF Init
<1>1. MaxLeaves \in Nat /\ Warm \in BOOLEAN
  BY ClientAssumption
<1>2. ChainInv
  <2>1. Even(0)
    BY <1>1 DEF Even
  <2>2. happened \in [Happens -> Nat]
    <3> HIDE DEF Happens
    <3> QED OBVIOUS
  <2> QED BY <1>1, <2>1, <2>2 DEF ChainInv
<1>3. WireInv
  BY DEF WireInv
<1>4. /\ heap \in Seq(Seq(Note)) /\ Len(heap) <= 1 /\ Len(heap) \in Nat
      /\ heap = <<>> \/ heap = <<<<>>>>
  BY <1>1
<1>5. HeapInv
  BY <1>4 DEF HeapInv
<1>6. DOMAIN call = Calls /\ \A c \in Calls : call[c] = NoCall
  OBVIOUS
<1>7. /\ NoCall.pc = "idle" /\ NoCall.inputs = <<>> /\ NoCall.arr = 0 /\ NoCall.start = 0
      /\ NoCall.asof = 0 /\ NoCall.wire = 0 /\ NoCall.outs = <<0, 0>>
      /\ NoCall.spentThen = {}
  BY DEF NoCall
<1>8. /\ Shape(NoCall, heap, indexed, Len(wires)) /\ NoCall.pc \notin Reading
      /\ Pays(NoCall, heap, wires)
  <2>1. indexed \in Nat /\ NoCall.asof \in 0 .. indexed /\ Len(wires) \in Nat
        /\ NoCall.wire \in 0 .. Len(wires)
    BY <1>7
  <2> QED BY <1>4, <1>7, <2>1, PlainCall
<1>9. CallInv
  <2>1. NoCall.pc \in Resting
    BY <1>7 DEF Resting
  <2> QED BY <1>6, <1>8, <2>1 DEF CallInv
<1>10. SyncInv
  <2>1. \A c \in Calls : call[c].pc = "idle"
    BY <1>6, <1>7
  <2>2. current = 0 => heap = <<>>
    BY <1>4
  <2>3. Pages(leaves, Cell(heap), scanned)
    <3>1. Cell(heap) = <<>>
      BY <1>4 DEF Cell
    <3> QED BY <3>1 DEF Pages
  <2> QED BY <2>1, <2>2, <2>3 DEF SyncInv, Reads, Asks
<1>11. PayInv
  BY <1>6, <1>8 DEF PayInv
<1>12. MarkInv
  <2>1. \A c \in Calls : Held(c) = {}
    BY <1>6, <1>7 DEF Held, ToSet
  <2>2. \A c \in Calls : LeavesAt(heap, Held(c)) = {}
    BY <2>1 DEF LeavesAt
  <2>3. reserved = UNION {LeavesAt(heap, Held(c)) : c \in Calls}
    BY <2>2
  <2> QED BY <2>1, <2>3 DEF MarkInv, Marks
<1>13. ChooseInv
  BY <1>6, <1>7 DEF ChooseInv, Chooses, Choosing
<1> QED BY <1>2, <1>3, <1>5, <1>9, <1>10, <1>11, <1>12, <1>13 DEF IInv

LEMMA NextKeeps ==
  ASSUME Sequential, IInv, [Next]_vars
  PROVE  IInv'
<1>1. ASSUME NEW c \in Calls, BeginSync(c) \/ BeginPay(c)
      PROVE  IInv'
  BY <1>1, BeginKeeps
<1>2. ASSUME NEW c \in Calls, SubmitPrepared(c)
      PROVE  IInv'
  BY <1>2, SubmitKeeps
<1>3. ASSUME NEW c \in Calls, CancelPrepared(c) \/ Refused(c)
      PROVE  IInv'
  BY <1>3, CancelKeeps
<1>4. ASSUME NEW c \in Calls, SyncStart(c)
      PROVE  IInv'
  BY <1>4, SyncStartKeeps
<1>5. ASSUME NEW c \in Calls, SyncPage(c)
      PROVE  IInv'
  BY <1>5, SyncPageKeeps
<1>6. ASSUME NEW c \in Calls, SyncMarks(c)
      PROVE  IInv'
  BY <1>6, SyncMarksKeeps
<1>19. ASSUME NEW c \in Calls, Select(c) \/ Reserve(c)
       PROVE  IInv'
  BY <1>19, SelectKeeps, ReserveKeeps
<1>20. ASSUME NEW c \in Calls, Resubmit(c)
       PROVE  IInv'
  BY <1>20, ResubmitNever
<1>7. ASSUME NEW c \in Calls, Paths(c)
      PROVE  IInv'
  BY <1>7, PathsKeeps
<1>8. ASSUME NEW c \in Calls, Root(c)
      PROVE  IInv'
  BY <1>8, RootKeeps
<1>9. ASSUME NEW c \in Calls, Answered(c) \/ AnsweredDropped(c)
      PROVE  IInv'
  BY <1>9, AnsweredKeeps
<1>10. ASSUME NEW c \in Calls, Landed(c)
       PROVE  IInv'
  BY <1>10, LandedKeeps
<1>11. ASSUME NEW c \in Calls, RequestFails(c)
       PROVE  IInv'
  BY <1>11, RequestFailsKeeps
<1>12. CASE Receive
  BY <1>12, ReceiveKeeps
<1>13. CASE SpentElsewhere
  BY <1>13, SpentElsewhereKeeps
<1>14. CASE Index
  BY <1>14, IndexKeeps
<1>15. CASE Pass
  BY <1>15, PassKeeps
<1>16. CASE Unlock
  BY <1>16, UnlockNever
<1>17. ASSUME NEW w \in DOMAIN wires, Land(w)
       PROVE  IInv'
  BY <1>17, LandKeeps
<1>18. CASE UNCHANGED vars
  BY <1>18, StutterKeeps
<1> QED BY <1>1, <1>2, <1>3, <1>4, <1>5, <1>6, <1>7, <1>8, <1>9, <1>10, <1>11, <1>12, <1>13,
           <1>14, <1>15, <1>16, <1>17, <1>18, <1>19, <1>20 DEF Next

-----------------------------------------------------------------------------
(* The age of marks *)

\* A mark on a note that is neither spent nor that of an open payment.
Stale(note, res, con) == note.spent = TRUE /\ note.leaf \notin con /\ note.leaf \notin res

\* Such a mark is not old; it is fresh when a sync was completed in this span,
\* and one that awaits the nullifiers has asked about those that are not.
AgeInv ==
  \A ref \in Refs(heap) : Stale(NoteAt(heap, ref), reserved, consumed) =>
    /\ NoteAt(heap, ref).age \in {Fresh, Recent}
    /\ checked => NoteAt(heap, ref).age = Fresh
    /\ \A c \in Calls : call[c].pc = "marks" =>
         NoteAt(heap, ref).age = Fresh \/ ref[2] \in call[c].asked

\* A step that makes no mark but fresh ones, and leaves the others to whom they
\* belong.
LEMMA AgesStay ==
  ASSUME AgeInv, UNCHANGED checked,
         \A ref \in Refs(heap') : Stale(NoteAt(heap', ref), reserved', consumed') =>
           \/ NoteAt(heap', ref).age = Fresh
           \/ /\ ref \in Refs(heap) /\ NoteAt(heap', ref) = NoteAt(heap, ref)
              /\ Stale(NoteAt(heap, ref), reserved, consumed),
         \A c \in Calls : call'[c].pc = "marks" => call'[c] = call[c]
  PROVE  AgeInv'
<1> SUFFICES ASSUME NEW ref \in Refs(heap'), Stale(NoteAt(heap', ref), reserved', consumed')
             PROVE  /\ NoteAt(heap', ref).age \in {Fresh, Recent}
                    /\ checked => NoteAt(heap', ref).age = Fresh
                    /\ \A c \in Calls : call'[c].pc = "marks" =>
                         NoteAt(heap', ref).age = Fresh \/ ref[2] \in call'[c].asked
  BY DEF AgeInv
<1>1. CASE NoteAt(heap', ref).age = Fresh
  BY <1>1
<1>2. CASE /\ ref \in Refs(heap) /\ NoteAt(heap', ref) = NoteAt(heap, ref)
           /\ Stale(NoteAt(heap, ref), reserved, consumed)
  BY <1>2 DEF AgeInv
<1> QED BY <1>1, <1>2

\* One call has gone on, and awaits no nullifiers.
GoesOn(c) == call'[c].pc # "marks" /\ \A d \in Calls : d # c => call'[d] = call[d]

LEMMA CallGoesOn ==
  ASSUME IInv, NEW c \in Calls, NEW k, Set(c, k), k.pc # "marks"
  PROVE  GoesOn(c)
BY CallSet DEF IInv, CallInv, Set, GoesOn

LEMMA Goes ==
  ASSUME NEW c \in Calls, GoesOn(c)
  PROVE  \A d \in Calls : call'[d].pc = "marks" => call'[d] = call[d]
BY DEF GoesOn

\* The steps of a call that take it to where it awaits no nullifiers.
LEMMA StepsOn ==
  ASSUME IInv, NEW c \in Calls,
         \/ BeginSync(c) \/ BeginPay(c) \/ SyncStart(c) \/ Select(c) \/ Reserve(c) \/ Paths(c)
         \/ Answered(c) \/ AnsweredDropped(c) \/ Landed(c)
         \/ Relay(c, call[c].outs) \/ Relay(c, Outputs(c))
  PROVE  GoesOn(c)
<1>1. DOMAIN call = Calls /\ DOMAIN call[c] = DOMAIN NoCall
  BY DEF IInv, CallInv, Shape
<1>2. "pc" \in DOMAIN call[c] /\ NoCall.pc = "idle"
  BY <1>1 DEF NoCall
<1>3. CASE BeginSync(c) \/ BeginPay(c)
  <2>1. PICK op, frames : Begin(c, op, frames)
    BY <1>3 DEF BeginSync, BeginPay
  <2> DEFINE k == [NoCall EXCEPT !.pc = "sync", !.op = op, !.frames = frames]
  <2>2. k.pc = "sync"
    BY DEF NoCall
  <2>3. Set(c, k)
    BY <2>1 DEF Begin
  <2> QED BY <2>2, <2>3, CallGoesOn
<1>4. CASE SyncStart(c)
  BY <1>1, <1>2, <1>4 DEF SyncStart, Set, GoesOn
<1>5. CASE Select(c)
  <2>1. \A result : Ended(c, result).pc = "idle"
    BY DEF Ended, NoCall
  <2>2. ASSUME NEW result, Set(c, Ended(c, result))
        PROVE  GoesOn(c)
    BY <2>1, <2>2, CallGoesOn
  <2>3. ASSUME NEW picked, Set(c, [call[c] EXCEPT !.pc = "picked", !.arr = current, !.picked = picked])
        PROVE  GoesOn(c)
    BY <1>1, <1>2, <2>3 DEF Set, GoesOn
  <2>4. ASSUME NEW two,
               Set(c, [call[c] EXCEPT !.pc = "sync", !.arr = 0, !.start = 0, !.asked = {},
                         !.spentThen = {}, !.frames = Append(@, [need |-> Worth(Notes, two), round |-> 0])])
        PROVE  GoesOn(c)
    BY <1>1, <1>2, <2>4 DEF Set, GoesOn
  <2> QED BY <1>5, <2>2, <2>3, <2>4 DEF Select
<1>6. CASE Reserve(c)
  BY <1>1, <1>2, <1>6 DEF Reserve, Set, GoesOn
<1>7. CASE Paths(c) \/ Answered(c) \/ AnsweredDropped(c)
  BY <1>1, <1>2, <1>7 DEF Paths, Answered, AnsweredDropped, Set, GoesOn
<1>8. CASE Landed(c)
  <2>1. Ended(c, "done").pc = "idle"
    BY DEF Ended, NoCall
  <2>2. ASSUME NEW outer,
               Set(c, [NoCall EXCEPT !.pc = "sync", !.op = call[c].op, !.merges = call[c].merges + 1,
                         !.frames = [outer EXCEPT ![Len(outer)].round = @ + 1]])
        PROVE  GoesOn(c)
    BY <1>1, <2>2 DEF Set, GoesOn, NoCall
  <2> QED BY <1>8, <2>1, <2>2, CallGoesOn DEF Landed
<1>9. CASE Relay(c, call[c].outs) \/ Relay(c, Outputs(c))
  BY <1>1, <1>2, <1>9 DEF Relay, Set, GoesOn
<1> QED BY <1>3, <1>4, <1>5, <1>6, <1>7, <1>8, <1>9

\* A step that leaves the notes alone.
LEMMA AgesKept ==
  ASSUME AgeInv, UNCHANGED client, consumed \subseteq consumed',
         \A d \in Calls : call'[d].pc = "marks" => call'[d] = call[d]
  PROVE  AgeInv'
<1>1. heap' = heap /\ reserved' = reserved /\ checked' = checked
  BY DEF client
<1> QED BY <1>1, AgesStay DEF Stale

\* Who gives notes back gives back those the payment holds.
LEMMA AgesReleased ==
  ASSUME IInv, AgeInv, NEW c \in Calls, UNCHANGED <<consumed, checked>>,
         Refs(heap') = Refs(heap), reserved' = reserved \ HeldLeaves(c),
         \A ref \in Refs(heap) : ref \in Held(c) => \/ NoteAt(heap', ref).spent = FALSE
                                                    \/ NoteAt(heap', ref).age = Fresh,
         \A ref \in Refs(heap) : ref \notin Held(c) => NoteAt(heap', ref) = NoteAt(heap, ref),
         \A d \in Calls : call'[d].pc = "marks" => call'[d] = call[d]
  PROVE  AgeInv'
<1>1. ASSUME NEW ref \in Refs(heap'), Stale(NoteAt(heap', ref), reserved', consumed')
      PROVE  \/ NoteAt(heap', ref).age = Fresh
             \/ /\ ref \in Refs(heap) /\ NoteAt(heap', ref) = NoteAt(heap, ref)
                /\ Stale(NoteAt(heap, ref), reserved, consumed)
  <2>1. CASE ref \in Held(c)
    BY <1>1, <2>1 DEF Stale
  <2>2. CASE ref \notin Held(c)
    <3>1. NoteAt(heap', ref) = NoteAt(heap, ref)
      BY <2>2
    <3>2. NoteAt(heap, ref).leaf \notin HeldLeaves(c)
      <4> SUFFICES ASSUME NEW s \in Held(c), NoteAt(heap, s).leaf = NoteAt(heap, ref).leaf
                   PROVE  FALSE
        BY HeldRefs DEF LeavesAt, IInv
      <4>1. s = ref
        BY HeldRefs, OneRefEach DEF IInv
      <4> QED BY <2>2, <4>1
    <3> QED BY <1>1, <3>1, <3>2 DEF Stale
  <2> QED BY <2>1, <2>2
<1> QED BY <1>1, AgesStay

LEMMA FailAges ==
  ASSUME Sequential, IInv, AgeInv, NEW c \in Calls, NEW result, Fail(c, result), UNCHANGED chain
  PROVE  AgeInv'
<1>1. /\ heap' = Updated(heap, Held(c), Unmarked) /\ reserved' = reserved \ HeldLeaves(c)
      /\ Set(c, Ended(c, result)) /\ UNCHANGED <<consumed, checked>>
  BY KeptNever DEF Fail, ReleaseUnspent, IInv, chain
<1>2. /\ SameNotes(heap, heap') /\ heap \in Seq(Seq(Note))
      /\ \A ref \in Refs(heap) : ref \in Held(c) => NoteAt(heap', ref).spent = FALSE
      /\ \A ref \in Refs(heap) : ref \notin Held(c) => NoteAt(heap', ref) = NoteAt(heap, ref)
  <2>1. IsUnmarked(heap, Held(c), heap') /\ heap \in Seq(Seq(Note))
    BY <1>1 DEF IsUnmarked, Updated, IInv, HeapInv
  <2> QED BY <2>1, UnmarkedNotes, Zenon
<1>3. Refs(heap') = Refs(heap)
  BY <1>2, SameRefs
<1>4. Ended(c, result).pc # "marks"
  BY DEF Ended, NoCall
<1>5. \A d \in Calls : call'[d].pc = "marks" => call'[d] = call[d]
  BY <1>1, <1>4, CallGoesOn, Goes
<1> QED BY <1>1, <1>2, <1>3, <1>5, AgesReleased

LEMMA LandedAges ==
  ASSUME IInv, AgeInv, NEW c \in Calls, Landed(c)
  PROVE  AgeInv'
<1>1. /\ heap' = Updated(heap, Held(c), Marked) /\ reserved' = reserved \ HeldLeaves(c)
      /\ UNCHANGED <<consumed, checked>>
  BY DEF Landed, ReleaseSpent, chain
<1>2. /\ SameNotes(heap, heap') /\ heap \in Seq(Seq(Note))
      /\ \A ref \in Refs(heap) : ref \in Held(c) => NoteAt(heap', ref).age = Fresh
      /\ \A ref \in Refs(heap) : ref \notin Held(c) => NoteAt(heap', ref) = NoteAt(heap, ref)
  <2>1. IsMarked(heap, Held(c), heap') /\ heap \in Seq(Seq(Note))
    BY <1>1 DEF IsMarked, Updated, IInv, HeapInv
  <2> QED BY <2>1, MarkedNotes, Zenon
<1>3. Refs(heap') = Refs(heap)
  BY <1>2, SameRefs
<1>4. \A d \in Calls : call'[d].pc = "marks" => call'[d] = call[d]
  BY StepsOn, Goes
<1> QED BY <1>1, <1>2, <1>3, <1>4, AgesReleased

LEMMA ReserveAges ==
  ASSUME IInv, AgeInv, NEW c \in Calls, Reserve(c)
  PROVE  AgeInv'
<1>1. PICK refs : /\ heap' = Updated(heap, refs, Marked) /\ reserved \subseteq reserved'
                  /\ UNCHANGED <<consumed, checked>>
  BY DEF Reserve, chain
<1>2. /\ SameNotes(heap, heap') /\ heap \in Seq(Seq(Note))
      /\ \A ref \in Refs(heap) : ref \in refs => NoteAt(heap', ref).age = Fresh
      /\ \A ref \in Refs(heap) : ref \notin refs => NoteAt(heap', ref) = NoteAt(heap, ref)
  <2>1. IsMarked(heap, refs, heap') /\ heap \in Seq(Seq(Note))
    BY <1>1 DEF IsMarked, Updated, IInv, HeapInv
  <2> QED BY <2>1, MarkedNotes, Zenon
<1>3. Refs(heap') = Refs(heap)
  BY <1>2, SameRefs
<1>4. \A d \in Calls : call'[d].pc = "marks" => call'[d] = call[d]
  BY StepsOn, Goes
<1>5. \A ref \in Refs(heap') : Stale(NoteAt(heap', ref), reserved', consumed') =>
        \/ NoteAt(heap', ref).age = Fresh
        \/ /\ ref \in Refs(heap) /\ NoteAt(heap', ref) = NoteAt(heap, ref)
           /\ Stale(NoteAt(heap, ref), reserved, consumed)
  BY <1>1, <1>2, <1>3 DEF Stale
<1> QED BY <1>1, <1>4, <1>5, AgesStay

\* Reading pages.
LEMMA AddedAges ==
  ASSUME AgeInv, Added(heap'), UNCHANGED <<consumed, reserved, checked>>,
         \A d \in Calls : call'[d].pc = "marks" => call'[d] = call[d]
  PROVE  AgeInv'
<1>1. \A ref \in Refs(heap') : Stale(NoteAt(heap', ref), reserved', consumed') =>
        \/ NoteAt(heap', ref).age = Fresh
        \/ /\ ref \in Refs(heap) /\ NoteAt(heap', ref) = NoteAt(heap, ref)
           /\ Stale(NoteAt(heap, ref), reserved, consumed)
  BY DEF Added, Stale
<1> QED BY <1>1, AgesStay

\* A sync asks about every mark that is not old.
LEMMA StaleAsked ==
  ASSUME IInv, AgeInv, Len(heap) = 1, NEW ref \in Refs(heap),
         Stale(NoteAt(heap, ref), reserved, consumed)
  PROVE  ref[2] \in Candidates(heap[1])
<1>1. heap \in Seq(Seq(Note))
  BY DEF IInv, HeapInv
<1>2. ref[2] \in DOMAIN heap[1] /\ NoteAt(heap, ref) = heap[1][ref[2]]
  BY <1>1, OneRefs
<1>3. heap[1][ref[2]].age \in {Fresh, Recent} /\ heap[1][ref[2]].leaf \notin reserved
  BY <1>2 DEF AgeInv, Stale
<1> QED BY <1>2, <1>3 DEF Candidates

LEMMA SyncPageAges ==
  ASSUME IInv, AgeInv, NEW c \in Calls, SyncPage(c)
  PROVE  AgeInv'
<1>1. call[c].pc = "page" /\ UNCHANGED <<chain, wires, happened>>
  BY DEF SyncPage
<1>2. Len(heap) = 1 /\ call[c].arr = 1
  BY <1>1, ReadingArray DEF IInv, Reading
<1>3. call[c].pc \notin Resting
  BY <1>1 DEF Resting
<1>4. \A d \in Calls : d # c => call[d].pc # "marks"
  BY <1>3, OthersRest DEF IInv
<1> DEFINE start == call[c].start
           asked == Candidates(heap[1])
           k == [call[c] EXCEPT !.pc = "marks", !.asked = asked,
                                !.spentThen = consumed \cap {heap[1][p].leaf : p \in asked}]
<1>5. \/ \E n \in Served(c) : \E mine :
           /\ n > start /\ mine = SetToSeq(NewLeaves(start, n))
           /\ heap' = [heap EXCEPT ![call[c].arr] = @ \o [i \in DOMAIN mine |-> NewNote(mine[i])]]
           /\ Set(c, [call[c] EXCEPT !.start = n, !.asof = indexed])
           /\ UNCHANGED <<current, reserved, scanned, checked>>
      \/ asked = {} /\ Synced(c, heap)
      \/ Set(c, k) /\ UNCHANGED <<heap, current, reserved, checked>>
  BY <1>2 DEF SyncPage
<1>6. CASE \E n \in Served(c) : \E mine :
             /\ n > start /\ mine = SetToSeq(NewLeaves(start, n))
             /\ heap' = [heap EXCEPT ![call[c].arr] = @ \o [i \in DOMAIN mine |-> NewNote(mine[i])]]
             /\ Set(c, [call[c] EXCEPT !.start = n, !.asof = indexed])
             /\ UNCHANGED <<current, reserved, scanned, checked>>
  <2>1. PICK n \in Served(c) : \E mine :
           /\ n > start /\ mine = SetToSeq(NewLeaves(start, n))
           /\ heap' = [heap EXCEPT ![call[c].arr] = @ \o [i \in DOMAIN mine |-> NewNote(mine[i])]]
           /\ Set(c, [call[c] EXCEPT !.start = n, !.asof = indexed])
           /\ UNCHANGED <<current, reserved, scanned, checked>>
    BY <1>6
  <2>2. Added(heap')
    BY <1>1, <2>1, PageGrowsKeeps
  <2>3. [call[c] EXCEPT !.start = n, !.asof = indexed].pc # "marks"
    BY <1>1 DEF IInv, CallInv, Shape, NoCall
  <2>4. \A d \in Calls : call'[d].pc = "marks" => call'[d] = call[d]
    BY <2>1, <2>3, CallGoesOn, Goes
  <2> QED BY <1>1, <2>1, <2>2, <2>4, AddedAges DEF chain
<1>7. ASSUME NEW ref \in Refs(heap), Stale(NoteAt(heap, ref), reserved, consumed)
      PROVE  ref[2] \in asked
  BY <1>2, <1>7, StaleAsked
<1>8. CASE asked = {} /\ Synced(c, heap)
  <2>1. heap' = heap /\ reserved' = reserved /\ consumed' = consumed
    BY <1>1, <1>8 DEF Synced, chain
  <2> HIDE DEF asked
  <2> QED BY <1>7, <1>8, <2>1 DEF AgeInv
<1>9. CASE Set(c, k) /\ UNCHANGED <<heap, current, reserved, checked>>
  <2>1. /\ heap' = heap /\ reserved' = reserved /\ consumed' = consumed /\ checked' = checked
        /\ call'[c] = k /\ \A d \in Calls : d # c => call'[d] = call[d]
    BY <1>1, <1>9, CallSet DEF chain, IInv, CallInv, Set
  <2>2. k.asked = asked
    BY DEF IInv, CallInv, Shape, NoCall
  <2> HIDE DEF asked, k
  <2>3. \A ref \in Refs(heap) : Stale(NoteAt(heap, ref), reserved, consumed) =>
          \A d \in Calls : call'[d].pc = "marks" => ref[2] \in call'[d].asked
    BY <1>4, <1>7, <2>1, <2>2
  <2> QED BY <2>1, <2>3 DEF AgeInv
<1> QED BY <1>5, <1>6, <1>8, <1>9

\* After the answer, the marks of notes that are not spent are fresh.
LEMMA SyncMarksAges ==
  ASSUME IInv, AgeInv, NEW c \in Calls, SyncMarks(c)
  PROVE  AgeInv'
<1>1. call[c].pc = "marks" /\ UNCHANGED <<chain, wires, scanned, happened>>
  BY DEF SyncMarks
<1>2. Len(heap) = 1 /\ call[c].arr = 1 /\ heap \in Seq(Seq(Note))
  BY <1>1, ReadingArray DEF IInv, Reading, HeapInv
<1> DEFINE arr == call[c].arr
           asked == {heap[arr][p].leaf : p \in call[c].asked}
           refs == {<<arr, p>> : p \in call[c].asked}
<1>3. PICK spentNow \in SpentAnswers(c, asked) :
        Synced(c, [a \in DOMAIN heap |-> [p \in DOMAIN heap[a] |->
                     IF <<a, p>> \in refs THEN Checked(heap[a][p], spentNow) ELSE heap[a][p]]])
  BY DEF SyncMarks, Updated
<1>4. /\ IsChecked(heap, refs, spentNow, heap') /\ reserved' = reserved /\ consumed' = consumed
      /\ arr = 1 /\ \E k : Set(c, k) /\ k.pc # "marks"
  <2>1. Ended(c, "done").pc # "marks" /\ [call[c] EXCEPT !.pc = "select"].pc # "marks"
    BY DEF Ended, NoCall, IInv, CallInv, Shape
  <2>2. \E k : Set(c, k) /\ k.pc # "marks"
    BY <1>3, <2>1 DEF Synced
  <2> QED BY <1>1, <1>2, <1>3, <2>2 DEF Synced, IsChecked, chain
<1> HIDE DEF arr
<1>5. spentNow \subseteq consumed
  <2>1. call[c].spentThen \subseteq consumed
    BY <1>1 DEF IInv, SyncInv, Asks
  <2> QED BY <2>1 DEF SpentAnswers
<1>6. /\ SameNotes(heap, heap')
      /\ \A ref \in Refs(heap) :
           ref \in refs => NoteAt(heap', ref) = Checked(NoteAt(heap, ref), spentNow)
      /\ \A ref \in Refs(heap) : ref \notin refs => NoteAt(heap', ref) = NoteAt(heap, ref)
  <2> HIDE DEF refs
  <2> QED BY <1>2, <1>4, CheckedNotes
<1>7. /\ Refs(heap') = Refs(heap)
      /\ \A ref \in Refs(heap) : NoteAt(heap', ref).leaf = NoteAt(heap, ref).leaf
  BY <1>2, <1>6, SameRefs
<1>8. ASSUME NEW ref \in Refs(heap), Stale(NoteAt(heap', ref), reserved, consumed)
      PROVE  NoteAt(heap', ref).age = Fresh
  <2>1. CASE ref \in refs
    <3>1. /\ NoteAt(heap, ref) \in Note /\ NoteAt(heap, ref).leaf \notin spentNow
          /\ NoteAt(heap', ref) = Checked(NoteAt(heap, ref), spentNow)
      BY <1>2, <1>5, <1>6, <1>7, <1>8, <2>1, RefIs DEF Stale
    <3>2. \/ Checked(NoteAt(heap, ref), spentNow).spent = FALSE
          \/ Checked(NoteAt(heap, ref), spentNow).age = Fresh
      BY <3>1, CheckedNote, Zenon
    <3> QED BY <1>8, <3>1, <3>2 DEF Stale
  <2>2. CASE ref \notin refs
    <3>1. NoteAt(heap', ref) = NoteAt(heap, ref)
      BY <1>6, <2>2
    <3>2. NoteAt(heap, ref).age = Fresh \/ ref[2] \in call[c].asked
      BY <1>1, <1>8, <3>1 DEF AgeInv
    <3>3. ref = <<1, ref[2]>>
      BY <1>2, OneRefs
    <3>4. ref[2] \notin call[c].asked
      BY <1>4, <2>2, <3>3
    <3> QED BY <3>1, <3>2, <3>4
  <2> QED BY <2>1, <2>2
<1>9. \A d \in Calls : call'[d].pc # "marks"
  <2>1. call[c].pc \notin Resting
    BY <1>1 DEF Resting
  <2>2. \A d \in Calls : d # c => call[d].pc # "marks"
    BY <2>1, OthersRest DEF IInv
  <2>3. PICK k : Set(c, k) /\ k.pc # "marks"
    BY <1>4
  <2> QED BY <2>2, <2>3, CallSet DEF Set, IInv, CallInv
<1> QED BY <1>4, <1>7, <1>8, <1>9 DEF AgeInv

\* Time passes only after a sync in the span before.
LEMMA PassAges ==
  ASSUME Paced, IInv, AgeInv, Pass
  PROVE  AgeInv'
<1>1. /\ IsAged(heap, heap') /\ heap \in Seq(Seq(Note)) /\ checked /\ ~checked'
      /\ reserved' = reserved /\ consumed' = consumed /\ call' = call
      /\ \A c \in Calls : call[c].pc # "marks"
  BY DEF Pass, IsAged, IInv, HeapInv, chain
<1>2. /\ SameNotes(heap, heap')
      /\ \A ref \in Refs(heap) : /\ NoteAt(heap', ref).spent = NoteAt(heap, ref).spent
                                 /\ NoteAt(heap', ref).age = Older(NoteAt(heap, ref).age)
  BY <1>1, AgedNotes, Zenon
<1>3. /\ Refs(heap') = Refs(heap)
      /\ \A ref \in Refs(heap) : NoteAt(heap', ref).leaf = NoteAt(heap, ref).leaf
  BY <1>1, <1>2, SameRefs
<1>4. ASSUME NEW ref \in Refs(heap), Stale(NoteAt(heap', ref), reserved, consumed)
      PROVE  NoteAt(heap', ref).age = Recent
  <2>1. NoteAt(heap, ref).spent = TRUE
    BY <1>2, <1>4, Zenon DEF Stale
  <2>2. Stale(NoteAt(heap, ref), reserved, consumed)
    BY <1>3, <1>4, <2>1 DEF Stale
  <2>3. NoteAt(heap, ref).age = Fresh
    BY <1>1, <2>2 DEF AgeInv
  <2>4. Older(Fresh) = Recent
    BY DEF Older, Fresh, Recent
  <2> QED BY <1>2, <2>3, <2>4
<1> QED BY <1>1, <1>3, <1>4 DEF AgeInv

LEMMA NextAges ==
  ASSUME Sequential, Paced, IInv, AgeInv, [Next]_vars
  PROVE  AgeInv'
<1>1. ASSUME NEW c \in Calls, GoesOn(c), UNCHANGED <<chain, client>>
      PROVE  AgeInv'
  BY <1>1, Goes, AgesKept DEF chain
<1>2. ASSUME NEW c \in Calls, Relay(c, call[c].outs) \/ Relay(c, Outputs(c)),
             UNCHANGED <<chain, client>>
      PROVE  AgeInv'
  BY <1>1, <1>2, StepsOn
<1>3. ASSUME NEW c \in Calls,
             BeginSync(c) \/ BeginPay(c) \/ Select(c) \/ Paths(c) \/ Answered(c) \/ AnsweredDropped(c)
      PROVE  AgeInv'
  <2>1. UNCHANGED <<chain, client>>
    BY <1>3 DEF BeginSync, BeginPay, Begin, Select, Paths, Answered, AnsweredDropped
  <2> QED BY <1>1, <1>3, <2>1, StepsOn
<1>4. ASSUME NEW c \in Calls, Root(c)
      PROVE  AgeInv'
  <2>1. CASE Fail(c, "failed")
    BY <1>4, <2>1, FailAges DEF Root
  <2>2. CASE Relay(c, Outputs(c)) /\ UNCHANGED client
    BY <1>2, <1>4, <2>2 DEF Root
  <2>3. CASE /\ Set(c, [call[c] EXCEPT !.pc = "prepared", !.sizes = {}, !.outs = Outputs(c)])
             /\ UNCHANGED client
    <3>1. [call[c] EXCEPT !.pc = "prepared", !.sizes = {}, !.outs = Outputs(c)].pc # "marks"
      BY DEF IInv, CallInv, Shape, NoCall
    <3>2. GoesOn(c)
      BY <2>3, <3>1, CallGoesOn
    <3> QED BY <1>1, <1>4, <2>3, <3>2 DEF Root
  <2> QED BY <1>4, <2>1, <2>2, <2>3 DEF Root
<1>5. ASSUME NEW c \in Calls, SubmitPrepared(c)
      PROVE  AgeInv'
  BY <1>2, <1>5 DEF SubmitPrepared
<1>6. ASSUME NEW c \in Calls, CancelPrepared(c) \/ Refused(c) \/ RequestFails(c)
      PROVE  AgeInv'
  BY <1>6, FailAges DEF CancelPrepared, Refused, RequestFails
<1>7. ASSUME NEW c \in Calls, SyncStart(c)
      PROVE  AgeInv'
  <2>1. Added(heap') /\ UNCHANGED <<consumed, reserved, checked>>
    BY <1>7, SyncStartKeeps DEF SyncStart, chain
  <2>2. \A d \in Calls : call'[d].pc = "marks" => call'[d] = call[d]
    BY <1>7, StepsOn, Goes
  <2> QED BY <2>1, <2>2, AddedAges
<1>8. ASSUME UNCHANGED <<client, call>>, consumed \subseteq consumed'
      PROVE  AgeInv'
  BY <1>8, AgesKept
<1>9. CASE Receive \/ SpentElsewhere \/ Index \/ (\E w \in DOMAIN wires : Land(w)) \/ UNCHANGED vars
  <2>1. UNCHANGED <<client, call>> /\ consumed \subseteq consumed'
    BY <1>9 DEF Receive, SpentElsewhere, Index, Land, vars, chain
  <2> QED BY <1>8, <2>1
<1>10. ~Unlock /\ \A c \in Calls : ~Resubmit(c)
  BY UnlockNever, ResubmitNever
<1> QED BY <1>3, <1>4, <1>5, <1>6, <1>7, <1>9, <1>10, PassAges, ReserveAges, LandedAges,
           SyncPageAges, SyncMarksAges DEF Next

-----------------------------------------------------------------------------
(* Calls that overlap *)

\* After a first sync there is one array.  A call goes past no leaf that the
\* array lacks, whatever the others do to it meanwhile.
Covered(ls, notes, n) ==
  \A i \in 1 .. n : ls[i] > 0 => \E p \in DOMAIN notes : notes[p].leaf = i

CallOK(k, h, i, ls) ==
  /\ DOMAIN k = DOMAIN NoCall /\ k.outs \in Pair /\ k.start \in Nat /\ k.asof \in Nat
  /\ k.pc \in Reading => k.arr = 1
  /\ k.pc = "page" => k.start <= i /\ Covered(ls, h[1], k.start)

LeavesInv ==
  /\ leaves \in Seq(Nat) /\ Len(leaves) <= MaxLeaves
  /\ indexed \in Nat /\ indexed <= Len(leaves)
  /\ Even(Len(leaves)) /\ Even(indexed)

Requests(S) == [ins : S, outs : Pair, state : {"open", "landed", "dropped"}]

OneArrayInv == heap \in Seq(Seq(Note)) /\ Len(heap) = 1 /\ current = 1

OverlapInv ==
  /\ LeavesInv /\ OneArrayInv
  /\ \E S : wires \in Seq(Requests(S))
  /\ scanned \in Nat /\ scanned <= indexed /\ Covered(leaves, heap[1], scanned)
  /\ DOMAIN call = Calls /\ \A c \in Calls : CallOK(call[c], heap, indexed, leaves)

\* The notes stay, and others may come.
NotesStay(h, g) ==
  /\ g \in Seq(Seq(Note)) /\ Len(g) = 1
  /\ \A p \in DOMAIN h[1] : p \in DOMAIN g[1] /\ g[1][p].leaf = h[1][p].leaf

LEMMA CoveredStays ==
  ASSUME NEW ls \in Seq(Nat), NEW ms, \A x \in DOMAIN ls : ms[x] = ls[x],
         NEW h, NEW g, NotesStay(h, g), NEW n \in Nat, n <= Len(ls), Covered(ls, h[1], n)
  PROVE  Covered(ms, g[1], n)
<1> SUFFICES ASSUME NEW i \in 1 .. n, ms[i] > 0
             PROVE  \E p \in DOMAIN g[1] : g[1][p].leaf = i
  BY DEF Covered
<1>1. i \in DOMAIN ls
  <2> DEFINE l == Len(ls)
  <2>1. l \in Nat /\ n <= l /\ DOMAIN ls = 1 .. l
    OBVIOUS
  <2> HIDE DEF l
  <2> QED BY <2>1
<1>2. PICK p \in DOMAIN h[1] : h[1][p].leaf = i
  BY <1>1 DEF Covered
<1> QED BY <1>2 DEF NotesStay

LEMMA CallStays ==
  ASSUME LeavesInv, NEW ms, \A x \in DOMAIN leaves : ms[x] = leaves[x],
         NEW g, NotesStay(heap, g), NEW j \in Nat, indexed <= j,
         NEW k, CallOK(k, heap, indexed, leaves)
  PROVE  CallOK(k, g, j, ms)
<1>1. CASE k.pc = "page"
  <2>1. /\ leaves \in Seq(Nat) /\ k.start \in Nat /\ k.start <= indexed /\ indexed \in Nat
        /\ indexed <= Len(leaves) /\ Covered(leaves, heap[1], k.start)
    BY <1>1 DEF CallOK, LeavesInv
  <2>2. k.start <= Len(leaves) /\ k.start <= j
    <3> DEFINE l == Len(leaves)
    <3>1. l \in Nat /\ indexed <= l
      BY <2>1
    <3> HIDE DEF l
    <3>2. k.start <= l /\ k.start <= j
      BY <2>1, <3>1
    <3> QED BY <3>2 DEF l
  <2>3. Covered(ms, g[1], k.start)
    BY <2>1, <2>2, CoveredStays
  <2> QED BY <1>1, <2>2, <2>3 DEF CallOK
<1>2. CASE k.pc # "page"
  BY <1>2 DEF CallOK
<1> QED BY <1>1, <1>2

\* A step of one call.
LEMMA OverlapStep ==
  ASSUME OverlapInv, UNCHANGED <<leaves, indexed, current, scanned>>, NotesStay(heap, heap'),
         \E S : wires' \in Seq(Requests(S)),
         NEW c \in Calls, NEW k, Set(c, k), CallOK(k, heap', indexed, leaves)
  PROVE  OverlapInv'
<1>1. /\ LeavesInv /\ leaves \in Seq(Nat) /\ indexed \in Nat /\ indexed <= indexed
      /\ scanned \in Nat /\ scanned <= indexed /\ Covered(leaves, heap[1], scanned)
      /\ DOMAIN call = Calls /\ \A d \in Calls : CallOK(call[d], heap, indexed, leaves)
  BY DEF OverlapInv, LeavesInv
<1>2. \A d \in Calls : CallOK(call'[d], heap', indexed, leaves)
  <2> SUFFICES ASSUME NEW d \in Calls PROVE CallOK(call'[d], heap', indexed, leaves)
    OBVIOUS
  <2>1. CASE d = c
    BY <1>1, <2>1 DEF Set
  <2>2. CASE d # c
    <3>1. call'[d] = call[d]
      BY <1>1, <2>2 DEF Set
    <3> QED BY <1>1, <3>1, CallStays
  <2> QED BY <2>1, <2>2
<1>3. scanned <= Len(leaves)
  BY <1>1 DEF LeavesInv
<1>4. Covered(leaves, heap'[1], scanned)
  BY <1>1, <1>3, CoveredStays
<1>5. LeavesInv' /\ OneArrayInv'
  BY DEF OverlapInv, LeavesInv, OneArrayInv, NotesStay
<1> QED BY <1>1, <1>2, <1>4, <1>5 DEF OverlapInv, Set

\* The notes are as they were.
LEMMA StaysSame ==
  ASSUME OneArrayInv
  PROVE  NotesStay(heap, heap)
BY DEF OneArrayInv, NotesStay

LEMMA StaysMarked ==
  ASSUME OneArrayInv, NEW g, SameNotes(heap, g)
  PROVE  NotesStay(heap, g)
<1>1. heap \in Seq(Seq(Note)) /\ Len(heap) = 1 /\ 1 \in DOMAIN heap
  BY DEF OneArrayInv
<1>2. g \in Seq(Seq(Note)) /\ Len(g) = 1
  BY <1>1 DEF SameNotes
<1>3. DOMAIN g[1] = DOMAIN heap[1]
  BY <1>1, SameRefs
<1>4. \A p \in DOMAIN heap[1] : g[1][p].leaf = heap[1][p].leaf
  BY <1>1 DEF SameNotes
<1> QED BY <1>2, <1>3, <1>4 DEF NotesStay

\* Leaves come, or are indexed.
LEMMA OverlapWorld ==
  ASSUME OverlapInv, LeavesInv', UNCHANGED <<client, call>>,
         \A x \in DOMAIN leaves : leaves'[x] = leaves[x], indexed <= indexed',
         \E S : wires' \in Seq(Requests(S))
  PROVE  OverlapInv'
<1>1. /\ LeavesInv /\ leaves \in Seq(Nat) /\ indexed \in Nat /\ indexed' \in Nat
      /\ scanned \in Nat /\ scanned <= indexed /\ Covered(leaves, heap[1], scanned)
      /\ \A d \in Calls : CallOK(call[d], heap, indexed, leaves)
      /\ heap' = heap /\ current' = current /\ scanned' = scanned /\ call' = call
  BY DEF OverlapInv, LeavesInv, client
<1>2. NotesStay(heap, heap)
  BY StaysSame DEF OverlapInv
<1>3. \A d \in Calls : CallOK(call[d], heap, indexed', leaves')
  BY <1>1, <1>2, CallStays
<1>4. scanned <= Len(leaves) /\ scanned <= indexed'
  BY <1>1 DEF LeavesInv
<1>5. Covered(leaves', heap[1], scanned)
  BY <1>1, <1>2, <1>4, CoveredStays
<1> QED BY <1>1, <1>3, <1>4, <1>5 DEF OverlapInv, OneArrayInv

LEMMA OverlapGrows ==
  ASSUME OverlapInv, NEW outs \in Pair, Grow(outs), UNCHANGED <<indexed, client, call>>,
         \E S : wires' \in Seq(Requests(S))
  PROVE  OverlapInv'
<1>1. /\ leaves \in Seq(Nat) /\ Even(Len(leaves)) /\ indexed \in Nat /\ Even(indexed)
      /\ indexed <= Len(leaves) /\ Len(leaves) \in Nat
  BY DEF OverlapInv, LeavesInv
<1>2. /\ leaves' \in Seq(Nat) /\ Len(leaves') = Len(leaves) + 2 /\ Len(leaves') <= MaxLeaves
      /\ \A x \in DOMAIN leaves : leaves'[x] = leaves[x]
      /\ Even(Len(leaves'))
  BY <1>1, GrowKeeps
<1>3. indexed' = indexed /\ indexed <= indexed /\ indexed <= Len(leaves')
  BY <1>1, <1>2
<1>4. LeavesInv'
  BY <1>1, <1>2, <1>3 DEF LeavesInv
<1> QED BY <1>2, <1>3, <1>4, OverlapWorld

LEMMA OverlapLands ==
  ASSUME OverlapInv, NEW w \in DOMAIN wires, NEW state \in {"landed", "dropped"},
         wires' = [wires EXCEPT ![w].state = state]
  PROVE  wires[w].outs \in Pair /\ \E S : wires' \in Seq(Requests(S))
<1>1. PICK S : wires \in Seq(Requests(S))
  BY DEF OverlapInv
<1>2. wires[w] \in Requests(S)
  BY <1>1
<1> DEFINE wire == [wires[w] EXCEPT !.state = state]
<1>3. wire \in Requests(S) /\ wires[w].outs \in Pair
  BY <1>2 DEF Requests
<1>4. wires' = [wires EXCEPT ![w] = wire]
  OBVIOUS
<1> HIDE DEF wire
<1> QED BY <1>1, <1>3, <1>4

\* A call that reads no pages after its step.
LEMMA OverlapMoves ==
  ASSUME OverlapInv, UNCHANGED <<leaves, indexed, current, scanned>>, NotesStay(heap, heap'),
         \E S : wires' \in Seq(Requests(S)), NEW c \in Calls, NEW k, Set(c, k),
         DOMAIN k = DOMAIN NoCall, k.outs \in Pair, k.start \in Nat, k.asof \in Nat,
         k.pc \notin Reading
  PROVE  OverlapInv'
<1>1. CallOK(k, heap', indexed, leaves)
  BY DEF CallOK, Reading
<1> QED BY <1>1, OverlapStep

LEMMA OverlapCall ==
  ASSUME OverlapInv, NEW c \in Calls
  PROVE  /\ DOMAIN call[c] = DOMAIN NoCall
         /\ call[c].outs \in Pair /\ call[c].start \in Nat /\ call[c].asof \in Nat
         /\ indexed \in Nat /\ scanned \in Nat
         /\ NotesStay(heap, heap) /\ \E S : wires \in Seq(Requests(S))
  BY StaysSame DEF OverlapInv, CallOK, LeavesInv

LEMMA OverlapIdle ==
  ASSUME NEW k, DOMAIN k = DOMAIN NoCall, k.outs = <<0, 0>>, k.start = 0, k.asof = 0
  PROVE  k.outs \in Pair /\ k.start \in Nat /\ k.asof \in Nat
  BY DEF Pair

LEMMA OverlapFails ==
  ASSUME OverlapInv, NEW c \in Calls, NEW result, Fail(c, result), UNCHANGED <<chain, wires>>
  PROVE  OverlapInv'
<1>1. /\ heap' = Updated(heap, Held(c), Unmarked)
      /\ UNCHANGED <<leaves, indexed, current, scanned, wires>>
      /\ Set(c, IF Kept(c) THEN [call[c] EXCEPT !.pc = "failed"] ELSE Ended(c, result))
  BY DEF Fail, ReleaseUnspent, chain
<1>2. NotesStay(heap, heap')
  <2>1. heap \in Seq(Seq(Note)) /\ IsUnmarked(heap, Held(c), heap') /\ OneArrayInv
    BY <1>1 DEF IsUnmarked, Updated, OverlapInv, OneArrayInv
  <2>2. SameNotes(heap, heap')
    BY <2>1, UnmarkedNotes
  <2> QED BY <2>1, <2>2, StaysMarked
<1>3. CASE Set(c, [call[c] EXCEPT !.pc = "failed"])
  <2> DEFINE k == [call[c] EXCEPT !.pc = "failed"]
  <2>1. /\ DOMAIN k = DOMAIN NoCall /\ k.outs \in Pair /\ k.start \in Nat /\ k.asof \in Nat
        /\ k.pc \notin Reading
    BY OverlapCall DEF NoCall, Reading
  <2> HIDE DEF k
  <2>2. Set(c, k)
    BY <1>3 DEF k
  <2> QED BY <1>1, <1>2, <2>1, <2>2, OverlapMoves, OverlapCall
<1>4. CASE Set(c, Ended(c, result))
  <2> DEFINE k == Ended(c, result)
  <2>1. /\ DOMAIN k = DOMAIN NoCall /\ k.outs = <<0, 0>> /\ k.start = 0 /\ k.asof = 0
        /\ k.pc \notin Reading
    BY DEF Ended, NoCall, Reading
  <2> HIDE DEF k
  <2>2. Set(c, k)
    BY <1>4 DEF k
  <2> QED BY <1>1, <1>2, <2>1, <2>2, OverlapMoves, OverlapCall, OverlapIdle
<1> QED BY <1>1, <1>3, <1>4

LEMMA OverlapRelays ==
  ASSUME OverlapInv, NEW c \in Calls, NEW outs \in Pair, Relay(c, outs),
         UNCHANGED <<chain, client>>
  PROVE  OverlapInv'
<1> DEFINE ins == [j \in DOMAIN call[c].inputs |-> LeafAt(call[c].inputs[j])]
           k == [call[c] EXCEPT !.pc = "relaying", !.wire = Len(wires) + 1, !.sizes = {}]
<1>1. wires' = Append(wires, [ins |-> ins, outs |-> outs, state |-> "open"]) /\ Set(c, k)
  BY DEF Relay
<1>2. \E S : wires' \in Seq(Requests(S))
  <2> HIDE DEF ins
  <2>1. PICK S : wires \in Seq(Requests(S))
    BY DEF OverlapInv
  <2> DEFINE T == S \cup {ins}
             wire == [ins |-> ins, outs |-> outs, state |-> "open"]
  <2>2. wire \in Requests(T) /\ Requests(S) \subseteq Requests(T)
    BY DEF Requests
  <2> HIDE DEF T, wire
  <2>3. Append(wires, wire) \in Seq(Requests(T))
    BY <2>1, <2>2
  <2> QED BY <1>1, <2>3 DEF wire
<1>3. /\ DOMAIN k = DOMAIN NoCall /\ k.outs \in Pair /\ k.start \in Nat /\ k.asof \in Nat
      /\ k.pc \notin Reading
  BY OverlapCall DEF NoCall, Reading
<1>4. UNCHANGED <<leaves, indexed, current, scanned>> /\ NotesStay(heap, heap')
  BY OverlapCall DEF chain, client
<1> HIDE DEF k
<1> QED BY <1>1, <1>2, <1>3, <1>4, OverlapMoves

\* The end of a sync: the notes of h are those there were.
LEMMA OverlapSynced ==
  ASSUME OverlapInv, NEW c \in Calls, call[c].arr = 1, NEW h, Synced(c, h), NotesStay(heap, h),
         UNCHANGED <<chain, wires>>, scanned' \in Nat, scanned' <= indexed,
         Covered(leaves, heap[1], scanned')
  PROVE  OverlapInv'
<1>1. /\ LeavesInv /\ OneArrayInv /\ leaves \in Seq(Nat) /\ indexed \in Nat
      /\ DOMAIN call = Calls /\ \A d \in Calls : CallOK(call[d], heap, indexed, leaves)
      /\ heap' = h /\ current' = 1 /\ UNCHANGED <<leaves, indexed, wires>>
  BY DEF OverlapInv, LeavesInv, Synced, chain
<1>2. CallOK(call'[c], h, indexed, leaves)
  <2>1. CASE Set(c, Ended(c, "done"))
    <3> DEFINE k == Ended(c, "done")
    <3>1. /\ DOMAIN k = DOMAIN NoCall /\ k.outs = <<0, 0>> /\ k.start = 0 /\ k.asof = 0
          /\ k.pc = "idle"
      BY DEF Ended, NoCall
    <3> HIDE DEF k
    <3>2. call'[c] = k
      BY <1>1, <2>1 DEF Set, k
    <3> QED BY <3>1, <3>2, OverlapIdle DEF CallOK, Reading
  <2>2. CASE Set(c, [call[c] EXCEPT !.pc = "select"])
    <3> DEFINE k == [call[c] EXCEPT !.pc = "select"]
    <3>1. /\ DOMAIN k = DOMAIN NoCall /\ k.outs \in Pair /\ k.start \in Nat /\ k.asof \in Nat
          /\ k.pc = "select"
      BY OverlapCall DEF NoCall
    <3> HIDE DEF k
    <3>2. call'[c] = k
      BY <1>1, <2>2 DEF Set, k
    <3> QED BY <3>1, <3>2 DEF CallOK, Reading
  <2> QED BY <2>1, <2>2 DEF Synced
<1>3. \A d \in Calls : d # c => call'[d] = call[d]
  BY <1>1 DEF Synced, Set
<1>4. \A d \in Calls : CallOK(call'[d], h, indexed, leaves)
  <2>1. ASSUME NEW d \in Calls, d # c PROVE CallOK(call'[d], h, indexed, leaves)
    <3>1. CallOK(call[d], heap, indexed, leaves) /\ indexed <= indexed
      BY <1>1
    <3>2. CallOK(call[d], h, indexed, leaves)
      BY <1>1, <3>1, CallStays
    <3> QED BY <1>3, <2>1, <3>2
  <2> QED BY <1>2, <2>1
<1>5. Covered(leaves, h[1], scanned')
  <2>1. scanned' <= Len(leaves)
    BY <1>1 DEF LeavesInv
  <2> QED BY <1>1, <2>1, CoveredStays
<1>6. LeavesInv' /\ OneArrayInv'
  BY <1>1 DEF LeavesInv, OneArrayInv, NotesStay
<1>7. \E S : wires' \in Seq(Requests(S))
  BY <1>1 DEF OverlapInv
<1>8. DOMAIN call' = Calls
  BY <1>1 DEF Synced, Set
<1> QED BY <1>1, <1>4, <1>5, <1>6, <1>7, <1>8 DEF OverlapInv

\* Notes of all leaves after m up to n.
PageOf(ls, m, n, more) ==
  more \in Seq(Note) /\ {more[x].leaf : x \in DOMAIN more} = {i \in m + 1 .. n : ls[i] > 0}

LEMMA CoveredExtended ==
  ASSUME NEW ls, NEW notes \in Seq(Note), NEW m \in Nat, NEW n \in Nat, m <= n,
         Covered(ls, notes, m), NEW more, PageOf(ls, m, n, more), NEW g, g = notes \o more
  PROVE  /\ g \in Seq(Note) /\ Covered(ls, g, n)
         /\ \A p \in DOMAIN notes : p \in DOMAIN g /\ g[p] = notes[p]
<1> DEFINE l == Len(notes)
           r == Len(more)
<1> USE DEF PageOf
<1>1. /\ g \in Seq(Note) /\ l \in Nat /\ r \in Nat
      /\ DOMAIN notes = 1 .. l /\ DOMAIN more = 1 .. r /\ DOMAIN g = 1 .. (l + r)
      /\ \A x \in 1 .. l : g[x] = notes[x]
      /\ \A x \in 1 .. r : g[l + x] = more[x]
  BY JoinedSeq
<1> HIDE DEF l, r
<1>2. \A p \in DOMAIN notes : p \in DOMAIN g /\ g[p] = notes[p]
  BY <1>1
<1>3. ASSUME NEW i \in 1 .. n, ls[i] > 0
      PROVE  \E p \in DOMAIN g : g[p].leaf = i
  <2>1. CASE i \in 1 .. m
    BY <1>2, <1>3, <2>1 DEF Covered
  <2>2. CASE i \in m + 1 .. n
    <3>1. i \in {x \in m + 1 .. n : ls[x] > 0}
      BY <1>3, <2>2
    <3>2. PICK x \in DOMAIN more : more[x].leaf = i
      BY <3>1, Zenon
    <3>3. l + x \in DOMAIN g /\ g[l + x] = more[x]
      BY <1>1, <3>2
    <3> QED BY <3>2, <3>3
  <2> QED BY <2>1, <2>2
<1> QED BY <1>1, <1>2, <1>3 DEF Covered

\* A page is put to the notes, whoever else did so.
LEMMA OverlapPage ==
  ASSUME OverlapInv, NEW c \in Calls, call[c].pc = "page", NEW n \in Served(c), n > call[c].start,
         NEW mine, mine = SetToSeq(NewLeaves(call[c].start, n)),
         heap' = [heap EXCEPT ![call[c].arr] = @ \o [i \in DOMAIN mine |-> NewNote(mine[i])]],
         Set(c, [call[c] EXCEPT !.start = n, !.asof = indexed]),
         UNCHANGED <<chain, wires, current, scanned>>
  PROVE  OverlapInv'
<1> DEFINE k == [call[c] EXCEPT !.start = n, !.asof = indexed]
           start == call[c].start
           new == NewLeaves(start, n)
           more == [i \in DOMAIN mine |-> NewNote(mine[i])]
<1>1. /\ heap \in Seq(Seq(Note)) /\ Len(heap) = 1 /\ heap[1] \in Seq(Note) /\ call[c].arr = 1
      /\ leaves \in Seq(Nat) /\ indexed \in Nat /\ indexed <= Len(leaves) /\ Len(leaves) \in Nat
      /\ Len(leaves) <= MaxLeaves
  <2>1. heap \in Seq(Seq(Note)) /\ Len(heap) = 1
    BY DEF OverlapInv, OneArrayInv
  <2>2. heap[1] \in Seq(Note)
    <3>1. DOMAIN heap = 1 .. Len(heap) /\ 1 \in 1 .. 1
      BY <2>1
    <3>2. 1 \in DOMAIN heap
      BY <2>1, <3>1, Zenon
    <3> QED BY <2>1, <3>2, ItemOf, Zenon
  <2>3. call[c].arr = 1
    BY DEF OverlapInv, CallOK, Reading
  <2>4. leaves \in Seq(Nat) /\ indexed \in Nat /\ indexed <= Len(leaves) /\ Len(leaves) <= MaxLeaves
    BY DEF OverlapInv, LeavesInv
  <2>5. Len(leaves) \in Nat
    BY <2>4
  <2> QED BY <2>1, <2>2, <2>3, <2>4, <2>5
<1>2. start \in Nat /\ start <= indexed /\ Covered(leaves, heap[1], start)
  BY DEF OverlapInv, CallOK
<1>3. n \in Nat /\ n <= indexed /\ start <= n
  <2>1. call[c].asof \in Nat /\ n \in call[c].asof .. indexed
    BY OverlapCall DEF Served
  <2> QED BY <1>1, <1>2, <2>1
<1>4. k.start = n /\ k.asof = indexed /\ k.pc = "page" /\ k.arr = 1 /\ DOMAIN k = DOMAIN NoCall
      /\ k.outs \in Pair
  BY <1>1, OverlapCall DEF NoCall
<1> HIDE DEF k, start
<1>5. new = {i \in start + 1 .. n : leaves[i] > 0} /\ new \subseteq Leaf /\ IsFiniteSet(new)
  <2>1. new = {i \in start + 1 .. n : leaves[i] > 0}
    BY DEF NewLeaves
  <2>2. new \subseteq Leaf
    <3> DEFINE l == Len(leaves)
    <3>1. l \in Nat /\ n <= l /\ l <= MaxLeaves /\ MaxLeaves \in Nat
      BY <1>1, <1>3, ClientAssumption
    <3> HIDE DEF l
    <3>2. start + 1 .. n \subseteq 1 .. MaxLeaves
      BY <1>2, <1>3, <3>1
    <3> QED BY <2>1, <3>2 DEF Leaf
  <2>3. IsFiniteSet(start + 1 .. n) /\ new \subseteq start + 1 .. n
    <3>1. start + 1 \in Int /\ n \in Int
      BY <1>2, <1>3
    <3> QED BY <2>1, <3>1, FS_Interval
  <2> QED BY <2>1, <2>2, <2>3, FS_Subset
<1>6. mine \in Seq(new) /\ ToSet(mine) = new
  <2>1. mine = SetToSeq(new)
    BY DEF start
  <2> QED BY <1>5, <2>1, SetAsSeq
<1>7. mine \in Seq(Leaf)
  BY <1>5, <1>6
<1> HIDE DEF new
<1>8. more \in Seq(Note) /\ Len(more) = Len(mine) /\ \A x \in DOMAIN mine : more[x].leaf = mine[x]
  BY <1>7, NewNotes
<1> HIDE DEF more
<1>9. PageOf(leaves, start, n, more)
  <2>1. DOMAIN more = DOMAIN mine
    BY <1>7, <1>8
  <2>2. {more[x].leaf : x \in DOMAIN more} = {mine[x] : x \in DOMAIN mine}
    BY <1>8, <2>1
  <2> QED BY <1>5, <1>6, <1>8, <2>2 DEF ToSet, PageOf
<1>10. PICK g : g = heap[1] \o more
  OBVIOUS
<1>11. /\ g \in Seq(Note) /\ Covered(leaves, g, n)
       /\ \A p \in DOMAIN heap[1] : p \in DOMAIN g /\ g[p] = heap[1][p]
  <2> DEFINE notes == heap[1]
  <2>1. /\ notes \in Seq(Note) /\ start \in Nat /\ n \in Nat /\ start <= n
        /\ Covered(leaves, notes, start) /\ g = notes \o more
    BY <1>1, <1>2, <1>3, <1>10
  <2> HIDE DEF notes
  <2>2. /\ g \in Seq(Note) /\ Covered(leaves, g, n)
        /\ \A p \in DOMAIN notes : p \in DOMAIN g /\ g[p] = notes[p]
    BY <1>9, <2>1, CoveredExtended
  <2> QED BY <2>2 DEF notes
<1>12. heap' \in Seq(Seq(Note)) /\ Len(heap') = 1 /\ heap'[1] = g
  <2>1. heap' = [heap EXCEPT ![1] = g]
    BY <1>1, <1>10 DEF more
  <2>2. heap \in Seq(Seq(Note)) /\ Len(heap) = 1 /\ g \in Seq(Note)
    BY <1>1, <1>11
  <2>3. /\ [heap EXCEPT ![1] = g] \in Seq(Seq(Note)) /\ Len([heap EXCEPT ![1] = g]) = 1
        /\ [heap EXCEPT ![1] = g][1] = g
    BY <2>2, OneArray
  <2> QED BY <2>1, <2>3, Zenon
<1>13. NotesStay(heap, heap') /\ Covered(leaves, heap'[1], n)
  BY <1>11, <1>12 DEF NotesStay
<1>14. CallOK(k, heap', indexed, leaves)
  BY <1>1, <1>3, <1>4, <1>13 DEF CallOK
<1>15. UNCHANGED <<leaves, indexed, current, scanned>> /\ \E S : wires' \in Seq(Requests(S))
  BY OverlapCall DEF chain
<1>16. Set(c, k)
  BY DEF k
<1> QED BY <1>13, <1>14, <1>15, <1>16, OverlapStep

LEMMA OverlapReads ==
  ASSUME OverlapInv, NEW c \in Calls, SyncStart(c) \/ SyncPage(c) \/ SyncMarks(c)
  PROVE  OverlapInv'
<1>1. /\ OneArrayInv /\ heap \in Seq(Seq(Note)) /\ Len(heap) = 1 /\ current = 1
      /\ indexed \in Nat /\ scanned \in Nat /\ scanned <= indexed
      /\ Covered(leaves, heap[1], scanned)
  BY DEF OverlapInv, OneArrayInv, LeavesInv
<1>2. CASE SyncStart(c)
  <2> DEFINE k == [call[c] EXCEPT !.pc = "page", !.start = scanned, !.asof = indexed,
                                  !.arr = IF current = 0 THEN Len(heap) + 1 ELSE current]
  <2>1. /\ DOMAIN k = DOMAIN NoCall /\ k.outs \in Pair /\ k.start = scanned /\ k.asof = indexed
        /\ k.pc = "page" /\ k.arr = 1
    BY <1>1, OverlapCall DEF NoCall
  <2>2. Set(c, k) /\ heap' = heap /\ UNCHANGED <<leaves, indexed, current, scanned, wires>>
    BY <1>1, <1>2 DEF SyncStart, chain
  <2> HIDE DEF k
  <2>3. CallOK(k, heap', indexed, leaves)
    BY <1>1, <2>1, <2>2 DEF CallOK
  <2> QED BY <2>2, <2>3, OverlapStep, OverlapCall
<1>3. CASE SyncPage(c)
  <2>1. call[c].pc = "page" /\ UNCHANGED <<chain, wires, happened>>
    BY <1>3 DEF SyncPage
  <2>2. /\ call[c].arr = 1 /\ call[c].start \in Nat /\ call[c].start <= indexed
        /\ Covered(leaves, heap[1], call[c].start)
    BY <2>1 DEF OverlapInv, CallOK, Reading
  <2> DEFINE asked == Candidates(heap[1])
             k == [call[c] EXCEPT !.pc = "marks", !.asked = asked,
                                  !.spentThen = consumed \cap {heap[1][p].leaf : p \in asked}]
  <2>3. \/ \E n \in Served(c) : \E mine :
             /\ n > call[c].start /\ mine = SetToSeq(NewLeaves(call[c].start, n))
             /\ heap' = [heap EXCEPT ![call[c].arr] = @ \o [i \in DOMAIN mine |-> NewNote(mine[i])]]
             /\ Set(c, [call[c] EXCEPT !.start = n, !.asof = indexed])
             /\ UNCHANGED <<current, reserved, scanned, checked>>
        \/ scanned' = call[c].start /\ Synced(c, heap)
        \/ scanned' = call[c].start /\ Set(c, k) /\ UNCHANGED <<heap, current, reserved, checked>>
    BY <1>3, <2>2 DEF SyncPage
  <2>4. ASSUME NEW n \in Served(c), NEW mine,
               n > call[c].start, mine = SetToSeq(NewLeaves(call[c].start, n)),
               heap' = [heap EXCEPT ![call[c].arr] = @ \o [i \in DOMAIN mine |-> NewNote(mine[i])]],
               Set(c, [call[c] EXCEPT !.start = n, !.asof = indexed]),
               UNCHANGED <<current, reserved, scanned, checked>>
        PROVE  OverlapInv'
    BY <2>1, <2>4, OverlapPage
  <2>5. CASE scanned' = call[c].start /\ Synced(c, heap)
    BY <2>1, <2>2, <2>5, OverlapSynced, OverlapCall
  <2>6. CASE scanned' = call[c].start /\ Set(c, k) /\ UNCHANGED <<heap, current, reserved, checked>>
    <3>1. /\ DOMAIN k = DOMAIN NoCall /\ k.outs \in Pair /\ k.start \in Nat /\ k.asof \in Nat
          /\ k.pc = "marks" /\ k.arr = 1
      BY <2>2, OverlapCall DEF NoCall
    <3> HIDE DEF k
    <3>2. CallOK(k, heap, indexed, leaves)
      BY <3>1 DEF CallOK
    <3>3. \A d \in Calls : CallOK(call'[d], heap, indexed, leaves)
      BY <2>6, <3>2 DEF OverlapInv, Set
    <3>4. DOMAIN call' = Calls /\ \E S : wires' \in Seq(Requests(S))
      BY <2>1, <2>6 DEF OverlapInv, Set
    <3>5. LeavesInv' /\ OneArrayInv'
      BY <2>1, <2>6 DEF chain, OverlapInv, LeavesInv, OneArrayInv
    <3> QED BY <2>1, <2>2, <2>6, <3>3, <3>4, <3>5 DEF OverlapInv, chain
  <2> QED BY <2>3, <2>4, <2>5, <2>6
<1>4. CASE SyncMarks(c)
  <2>1. call[c].pc = "marks" /\ UNCHANGED <<chain, wires, scanned, happened>>
    BY <1>4 DEF SyncMarks
  <2>2. call[c].arr = 1
    BY <2>1 DEF OverlapInv, CallOK, Reading
  <2>3. PICK refs, spentNow, h : IsChecked(heap, refs, spentNow, h) /\ Synced(c, h)
    BY <1>4 DEF SyncMarks, Updated, IsChecked
  <2>4. SameNotes(heap, h)
    BY <1>1, <2>3, CheckedNotes
  <2>5. NotesStay(heap, h)
    BY <1>1, <2>4, StaysMarked
  <2> QED BY <1>1, <2>1, <2>2, <2>3, <2>5, OverlapSynced
<1> QED BY <1>2, <1>3, <1>4

LEMMA OverlapPays ==
  ASSUME OverlapInv, NEW c \in Calls,
         \/ BeginSync(c) \/ BeginPay(c) \/ Select(c) \/ Reserve(c) \/ Paths(c)
         \/ Answered(c) \/ AnsweredDropped(c) \/ Landed(c)
  PROVE  OverlapInv'
<1>1. /\ DOMAIN call[c] = DOMAIN NoCall
      /\ call[c].outs \in Pair /\ call[c].start \in Nat /\ call[c].asof \in Nat
      /\ indexed \in Nat /\ NotesStay(heap, heap) /\ \E S : wires \in Seq(Requests(S))
  BY OverlapCall
<1>2. heap \in Seq(Seq(Note)) /\ OneArrayInv
  BY DEF OverlapInv, OneArrayInv
\* A call anew, and one that goes on.
<1>3. ASSUME UNCHANGED <<chain, wires, current, scanned>>, NotesStay(heap, heap'), NEW k, Set(c, k),
             DOMAIN k = DOMAIN NoCall, k.pc \notin Reading,
             \/ k.outs = <<0, 0>> /\ k.start = 0 /\ k.asof = 0
             \/ k.outs = call[c].outs /\ k.start \in Nat /\ k.asof \in Nat
      PROVE  OverlapInv'
  <2>1. k.outs \in Pair /\ k.start \in Nat /\ k.asof \in Nat
    BY <1>1, <1>3, OverlapIdle
  <2>2. UNCHANGED <<leaves, indexed, current, scanned>> /\ \E S : wires' \in Seq(Requests(S))
    BY <1>1, <1>3 DEF chain
  <2> QED BY <1>3, <2>1, <2>2, OverlapMoves
<1>4. ASSUME NEW result
      PROVE  LET k == Ended(c, result)
             IN /\ DOMAIN k = DOMAIN NoCall /\ k.pc \notin Reading
                /\ k.outs = <<0, 0>> /\ k.start = 0 /\ k.asof = 0
  BY DEF Ended, NoCall, Reading
<1>5. CASE BeginSync(c) \/ BeginPay(c)
  <2>1. PICK op, frames : Begin(c, op, frames)
    BY <1>5 DEF BeginSync, BeginPay
  <2> DEFINE k == [NoCall EXCEPT !.pc = "sync", !.op = op, !.frames = frames]
  <2>2. /\ DOMAIN k = DOMAIN NoCall /\ k.pc \notin Reading
        /\ k.outs = <<0, 0>> /\ k.start = 0 /\ k.asof = 0
    BY DEF NoCall, Reading
  <2>3. Set(c, k) /\ UNCHANGED <<chain, wires, current, scanned>> /\ NotesStay(heap, heap')
    BY <1>1, <2>1 DEF Begin, client
  <2> HIDE DEF k
  <2> QED BY <1>3, <2>2, <2>3
<1>6. CASE Select(c)
  <2>1. UNCHANGED <<chain, wires, current, scanned>> /\ NotesStay(heap, heap')
    BY <1>1, <1>6 DEF Select, client
  <2>2. ASSUME NEW result, Set(c, Ended(c, result))
        PROVE  OverlapInv'
    BY <1>3, <1>4, <2>1, <2>2
  <2>3. ASSUME NEW picked, Set(c, [call[c] EXCEPT !.pc = "picked", !.arr = current, !.picked = picked])
        PROVE  OverlapInv'
    <3> DEFINE k == [call[c] EXCEPT !.pc = "picked", !.arr = current, !.picked = picked]
    <3>1. /\ DOMAIN k = DOMAIN NoCall /\ k.pc \notin Reading
          /\ k.outs = call[c].outs /\ k.start \in Nat /\ k.asof \in Nat
      BY <1>1 DEF NoCall, Reading
    <3>2. Set(c, k)
      BY <2>3
    <3> HIDE DEF k
    <3> QED BY <1>3, <2>1, <3>1, <3>2
  <2>4. ASSUME NEW two,
               Set(c, [call[c] EXCEPT !.pc = "sync", !.arr = 0, !.start = 0, !.asked = {},
                         !.spentThen = {}, !.frames = Append(@, [need |-> Worth(Notes, two), round |-> 0])])
        PROVE  OverlapInv'
    <3> DEFINE k == [call[c] EXCEPT !.pc = "sync", !.arr = 0, !.start = 0, !.asked = {},
                       !.spentThen = {}, !.frames = Append(@, [need |-> Worth(Notes, two), round |-> 0])]
    <3>1. /\ DOMAIN k = DOMAIN NoCall /\ k.pc \notin Reading
          /\ k.outs = call[c].outs /\ k.start \in Nat /\ k.asof \in Nat
      BY <1>1 DEF NoCall, Reading
    <3>2. Set(c, k)
      BY <2>4
    <3> HIDE DEF k
    <3> QED BY <1>3, <2>1, <3>1, <3>2
  <2> QED BY <1>6, <2>2, <2>3, <2>4 DEF Select
<1>7. CASE Reserve(c)
  <2> DEFINE refs == {<<call[c].arr, p>> : p \in call[c].picked}
             k == [call[c] EXCEPT !.pc = "paths", !.picked = {}, !.inputs = SetToSeq(refs),
                                  !.asof = indexed]
  <2>1. /\ heap' = Updated(heap, refs, Marked) /\ Set(c, k)
        /\ UNCHANGED <<chain, wires, current, scanned>>
    BY <1>7 DEF Reserve
  <2>2. /\ DOMAIN k = DOMAIN NoCall /\ k.pc \notin Reading
        /\ k.outs = call[c].outs /\ k.start \in Nat /\ k.asof \in Nat
    BY <1>1 DEF NoCall, Reading
  <2> HIDE DEF k, refs
  <2>3. IsMarked(heap, refs, heap')
    BY <2>1 DEF IsMarked, Updated
  <2>4. NotesStay(heap, heap')
    BY <1>2, <2>3, MarkedNotes, StaysMarked
  <2> QED BY <1>3, <2>1, <2>2, <2>4
<1>8. CASE Paths(c)
  <2>1. PICK sizes : Set(c, [call[c] EXCEPT !.pc = "root", !.sizes = sizes, !.asof = indexed])
    BY <1>8 DEF Paths
  <2> DEFINE k == [call[c] EXCEPT !.pc = "root", !.sizes = sizes, !.asof = indexed]
  <2>2. /\ DOMAIN k = DOMAIN NoCall /\ k.pc \notin Reading
        /\ k.outs = call[c].outs /\ k.start \in Nat /\ k.asof \in Nat
    BY <1>1 DEF NoCall, Reading
  <2>3. Set(c, k) /\ UNCHANGED <<chain, wires, current, scanned>> /\ NotesStay(heap, heap')
    BY <1>1, <1>8, <2>1 DEF Paths, client
  <2> HIDE DEF k
  <2> QED BY <1>3, <2>2, <2>3
<1>9. CASE Answered(c) \/ AnsweredDropped(c)
  <2> DEFINE k == [call[c] EXCEPT !.pc = "landing"]
  <2>1. k.pc = "landing" /\ k.outs \in Pair /\ k.start \in Nat /\ k.asof \in Nat
        /\ DOMAIN k = DOMAIN NoCall
    BY <1>1 DEF NoCall
  <2>2. Set(c, k) /\ UNCHANGED <<chain, client>>
    BY <1>9 DEF Answered, AnsweredDropped
  <2>3. \E S : wires' \in Seq(Requests(S))
    <3>1. CASE Answered(c)
      BY <1>1, <3>1 DEF Answered
    <3>2. CASE AnsweredDropped(c)
      <4>1. wires' = [wires EXCEPT ![call[c].wire].state = "dropped"]
        BY <3>2 DEF AnsweredDropped
      <4>2. CASE call[c].wire \in DOMAIN wires
        BY <4>1, <4>2, OverlapLands
      <4>3. CASE call[c].wire \notin DOMAIN wires
        <5>1. wires' = wires
          <6>1. PICK S : wires \in Seq(S)
            BY <1>1
          <6> QED BY <4>1, <4>3, <6>1
        <5> QED BY <1>1, <5>1
      <4> QED BY <4>2, <4>3
    <3> QED BY <1>9, <3>1, <3>2
  <2> HIDE DEF k
  <2>4. UNCHANGED <<leaves, indexed, current, scanned>> /\ NotesStay(heap, heap')
    BY <1>1, <2>2 DEF chain, client
  <2> QED BY <2>1, <2>2, <2>3, <2>4, OverlapMoves DEF Reading
<1>10. CASE Landed(c)
  <2>1. heap' = Updated(heap, Held(c), Marked) /\ UNCHANGED <<chain, wires, current, scanned>>
    BY <1>10 DEF Landed, ReleaseSpent
  <2>2. NotesStay(heap, heap')
    <3>1. IsMarked(heap, Held(c), heap')
      BY <2>1 DEF IsMarked, Updated
    <3> QED BY <1>2, <3>1, MarkedNotes, StaysMarked
  <2>3. ASSUME NEW outer,
               Set(c, [NoCall EXCEPT !.pc = "sync", !.op = call[c].op, !.merges = call[c].merges + 1,
                         !.frames = [outer EXCEPT ![Len(outer)].round = @ + 1]])
        PROVE  OverlapInv'
    <3> DEFINE k == [NoCall EXCEPT !.pc = "sync", !.op = call[c].op, !.merges = call[c].merges + 1,
                       !.frames = [outer EXCEPT ![Len(outer)].round = @ + 1]]
    <3>1. /\ DOMAIN k = DOMAIN NoCall /\ k.pc \notin Reading
          /\ k.outs = <<0, 0>> /\ k.start = 0 /\ k.asof = 0
      BY DEF NoCall, Reading
    <3>2. Set(c, k)
      BY <2>3
    <3> HIDE DEF k
    <3> QED BY <1>3, <2>1, <2>2, <3>1, <3>2
  <2>4. CASE Set(c, Ended(c, "done"))
    BY <1>3, <1>4, <2>1, <2>2, <2>4
  <2> QED BY <1>10, <2>3, <2>4 DEF Landed
<1> QED BY <1>5, <1>6, <1>7, <1>8, <1>9, <1>10

LEMMA OverlapOthers ==
  ASSUME OverlapInv,
         \/ Receive \/ SpentElsewhere \/ Index \/ Pass \/ (\E w \in DOMAIN wires : Land(w))
         \/ UNCHANGED vars
  PROVE  OverlapInv'
<1>1. /\ leaves \in Seq(Nat) /\ Len(leaves) \in Nat /\ Len(leaves) <= MaxLeaves
      /\ indexed \in Nat /\ indexed <= indexed /\ indexed <= Len(leaves) /\ Even(Len(leaves)) /\ Even(indexed)
      /\ \E S : wires \in Seq(Requests(S))
  BY DEF OverlapInv, LeavesInv
<1>2. CASE Receive
  <2>1. PICK amount \in Incoming : Grow(<<amount, 0>>)
    BY <1>2 DEF Receive
  <2>2. <<amount, 0>> \in Pair
    BY ClientAssumption DEF Pair
  <2> QED BY <1>1, <1>2, <2>1, <2>2, OverlapGrows DEF Receive
<1>3. CASE SpentElsewhere
  <2>1. Grow(<<0, 0>>) /\ <<0, 0>> \in Pair
    BY <1>3 DEF SpentElsewhere, Pair
  <2> QED BY <1>1, <1>3, <2>1, OverlapGrows DEF SpentElsewhere
<1>4. CASE Index
  <2>1. indexed < Len(leaves) /\ indexed' = indexed + 2 /\ UNCHANGED <<leaves, wires, client, call>>
    BY <1>4 DEF Index
  <2>2. PICK n \in 0 .. MaxLeaves : Len(leaves) = 2 * n
    BY <1>1 DEF Even
  <2>3. PICK m \in 0 .. MaxLeaves : indexed = 2 * m
    BY <1>1 DEF Even
  <2>4. m + 1 \in 0 .. MaxLeaves /\ indexed' = 2 * (m + 1) /\ indexed' <= Len(leaves)
    BY <1>1, <2>1, <2>2, <2>3, ClientAssumption
  <2>5. indexed' \in Nat /\ indexed <= indexed' /\ Even(indexed')
    <3>1. indexed' \in Nat /\ indexed <= indexed'
      BY <1>1, <2>1
    <3>2. Even(indexed')
      BY <2>4 DEF Even
    <3> QED BY <3>1, <3>2
  <2>6. LeavesInv'
    BY <1>1, <2>1, <2>4, <2>5 DEF LeavesInv
  <2> QED BY <1>1, <2>1, <2>5, <2>6, OverlapWorld
<1>5. CASE Pass
  <2>1. /\ IsAged(heap, heap') /\ heap \in Seq(Seq(Note)) /\ OneArrayInv
        /\ UNCHANGED <<leaves, indexed, current, scanned, wires, call>>
    BY <1>5 DEF Pass, IsAged, OverlapInv, OneArrayInv, chain
  <2>2. NotesStay(heap, heap')
    BY <2>1, AgedNotes, StaysMarked
  <2>3. /\ LeavesInv /\ scanned \in Nat /\ scanned <= indexed /\ Covered(leaves, heap[1], scanned)
        /\ \A d \in Calls : CallOK(call[d], heap, indexed, leaves)
    BY DEF OverlapInv
  <2>4. \A d \in Calls : CallOK(call[d], heap', indexed, leaves)
    BY <1>1, <2>2, <2>3, CallStays
  <2>5. scanned <= Len(leaves)
    BY <1>1, <2>3
  <2>6. Covered(leaves, heap'[1], scanned)
    BY <1>1, <2>2, <2>3, <2>5, CoveredStays
  <2>7. LeavesInv' /\ OneArrayInv'
    BY <2>1, <2>2 DEF OverlapInv, LeavesInv, OneArrayInv, NotesStay
  <2> QED BY <2>1, <2>3, <2>4, <2>6, <2>7 DEF OverlapInv
<1>6. ASSUME NEW w \in DOMAIN wires, Land(w)
      PROVE  OverlapInv'
  <2>1. /\ wires' = [wires EXCEPT ![w].state = "landed"] /\ Grow(wires[w].outs)
        /\ UNCHANGED <<indexed, client, call>>
    BY <1>6 DEF Land
  <2>2. wires[w].outs \in Pair /\ \E S : wires' \in Seq(Requests(S))
    BY <2>1, OverlapLands
  <2> QED BY <2>1, <2>2, OverlapGrows
<1>7. CASE UNCHANGED vars
  <2>1. UNCHANGED <<client, call, leaves, indexed, wires>>
    BY <1>7 DEF vars, chain
  <2>2. LeavesInv'
    BY <2>1 DEF OverlapInv, LeavesInv
  <2> QED BY <1>1, <2>1, <2>2, OverlapWorld
<1> QED BY <1>2, <1>3, <1>4, <1>5, <1>6, <1>7

LEMMA CountsKept ==
  ASSUME happened \in [Happens -> Nat], [Next]_vars
  PROVE  happened' \in [Happens -> Nat]
<1>1. ASSUME NEW h \in Happens, Count(h)
      PROVE  happened' \in [Happens -> Nat]
  BY <1>1, CountKeeps
<1>2. /\ "pays" \in Happens /\ "errors" \in Happens /\ "others" \in Happens
      /\ "drops" \in Happens /\ "unlocks" \in Happens /\ "again" \in Happens
  BY DEF Happens
<1>3. ASSUME NEW c \in Calls,
             \/ BeginSync(c) \/ SubmitPrepared(c) \/ CancelPrepared(c) \/ SyncStart(c) \/ SyncPage(c)
             \/ SyncMarks(c) \/ Select(c) \/ Reserve(c) \/ Paths(c) \/ Root(c) \/ Answered(c)
             \/ Refused(c) \/ Landed(c)
      PROVE  happened' = happened
  <2>1. CASE BeginSync(c) \/ SubmitPrepared(c) \/ CancelPrepared(c) \/ Refused(c)
    BY <2>1 DEF BeginSync, SubmitPrepared, CancelPrepared, Refused
  <2>2. CASE SyncStart(c) \/ SyncPage(c) \/ SyncMarks(c)
    BY <2>2, Zenon DEF SyncStart, SyncPage, SyncMarks
  <2>3. CASE Select(c) \/ Reserve(c) \/ Paths(c) \/ Root(c) \/ Answered(c) \/ Landed(c)
    BY <2>3, Zenon DEF Select, Reserve, Paths, Root, Answered, Landed
  <2> QED BY <1>3, <2>1, <2>2, <2>3
<1>4. ASSUME NEW c \in Calls, BeginPay(c) \/ Resubmit(c) \/ AnsweredDropped(c) \/ RequestFails(c)
      PROVE  Count("pays") \/ Count("again") \/ Count("drops") \/ Count("errors")
  BY <1>4 DEF BeginPay, Resubmit, AnsweredDropped, RequestFails
<1>5. SpentElsewhere \/ Unlock => Count("others") \/ Count("unlocks")
  BY DEF SpentElsewhere, Unlock
<1>6. Receive \/ Index \/ Pass \/ (\E w \in DOMAIN wires : Land(w)) \/ UNCHANGED vars
        => happened' = happened
  BY DEF Receive, Index, Pass, Land, vars
<1> QED BY <1>1, <1>2, <1>3, <1>4, <1>5, <1>6 DEF Next

LEMMA OverlapNext ==
  ASSUME Bounds["unlocks"] = 0, happened \in [Happens -> Nat], OverlapInv, [Next]_vars
  PROVE  OverlapInv'
<1>1. ~Unlock
  <2>1. happened["unlocks"] \in Nat
    BY DEF Happens
  <2> QED BY <2>1 DEF Unlock, Count
<1>2. ASSUME NEW c \in Calls, CancelPrepared(c) \/ Refused(c) \/ RequestFails(c)
      PROVE  OverlapInv'
  BY <1>2, OverlapFails DEF CancelPrepared, Refused, RequestFails
<1>3. ASSUME NEW c \in Calls, SubmitPrepared(c) \/ Resubmit(c)
      PROVE  OverlapInv'
  BY <1>3, OverlapRelays, OverlapCall DEF SubmitPrepared, Resubmit
<1>4. ASSUME NEW c \in Calls, Root(c)
      PROVE  OverlapInv'
  <2>1. UNCHANGED chain
    BY <1>4 DEF Root
  <2>2. CASE Fail(c, "failed") /\ UNCHANGED wires
    BY <2>1, <2>2, OverlapFails
  <2>3. ASSUME Outputs(c) \in Pair, Relay(c, Outputs(c)), UNCHANGED client
        PROVE  OverlapInv'
    BY <2>1, <2>3, OverlapRelays
  <2>4. ASSUME Outputs(c) \in Pair, UNCHANGED <<wires, client>>,
               Set(c, [call[c] EXCEPT !.pc = "prepared", !.sizes = {}, !.outs = Outputs(c)])
        PROVE  OverlapInv'
    <3> DEFINE k == [call[c] EXCEPT !.pc = "prepared", !.sizes = {}, !.outs = Outputs(c)]
    <3>1. /\ DOMAIN k = DOMAIN NoCall /\ k.pc \notin Reading
          /\ k.outs = Outputs(c) /\ k.start \in Nat /\ k.asof \in Nat
      BY OverlapCall DEF NoCall, Reading
    <3>2. Set(c, k)
      BY <2>4
    <3>3. /\ UNCHANGED <<leaves, indexed, current, scanned>> /\ NotesStay(heap, heap')
          /\ \E S : wires' \in Seq(Requests(S))
      BY <2>1, <2>4, OverlapCall DEF chain, client
    <3> HIDE DEF k
    <3> QED BY <2>4, <3>1, <3>2, <3>3, OverlapMoves
  <2>5. ASSUME InRange(Outputs(c))
        PROVE  Outputs(c) \in Pair
    <3>1. PICK a, b : Outputs(c) = <<a, b>>
      BY DEF Outputs
    <3>2. a \in Nat /\ b \in Nat
      <4>1. {a, b} \subseteq ToSet(<<a, b>>)
        BY DEF ToSet
      <4> QED BY <2>5, <3>1, <4>1 DEF InRange
    <3> QED BY <3>1, <3>2 DEF Pair
  <2> QED BY <1>4, <2>2, <2>3, <2>4, <2>5 DEF Root
<1> QED BY <1>1, <1>2, <1>3, <1>4, OverlapReads, OverlapPays, OverlapOthers DEF Next

-----------------------------------------------------------------------------
(* What follows *)

\* The parts of the invariant hold together while calls run one after another,
\* with requests that fail anywhere but inside sync, relays that are refused,
\* answered and then dropped, or land after the client gave them up.  Requests
\* that throw inside sync, unlocks and payments submitted again are left out.
THEOREM ClientInvariant ==
  Sequential => (Spec => []IInv)
<1> SUFFICES ASSUME Sequential PROVE Spec => []IInv
  OBVIOUS
<1>1. Init => IInv
  BY InitIInv
<1>2. IInv /\ [Next]_vars => IInv'
  BY NextKeeps
<1> QED BY <1>1, <1>2, PTL DEF Spec

LEMMA NoteOf ==
  ASSUME IInv, NEW p \in DOMAIN Notes
  PROVE  /\ current = 1 /\ Len(heap) = 1 /\ Notes = heap[1]
         /\ <<1, p>> \in Refs(heap) /\ NoteAt(heap, <<1, p>>) = Notes[p]
<1>1. heap \in Seq(Seq(Note)) /\ Len(heap) <= 1 /\ Len(heap) \in Nat /\ current \in 0 .. Len(heap)
  BY DEF IInv, HeapInv
<1>2. current # 0
  BY DEF Notes
<1>3. current = 1 /\ Len(heap) = 1
  <2> DEFINE n == Len(heap)
  <2>1. n \in Nat /\ n <= 1 /\ current \in 0 .. n
    BY <1>1
  <2> HIDE DEF n
  <2>2. current = 1 /\ n = 1
    BY <1>2, <2>1
  <2> QED BY <2>2 DEF n
<1>4. Notes = heap[1]
  BY <1>2, <1>3 DEF Notes
<1>5. p \in DOMAIN heap[1]
  BY <1>4
<1> QED BY <1>1, <1>3, <1>4, <1>5, OneRefs

LEMMA ExclusiveFollows ==
  ASSUME IInv
  PROVE  ReservedExclusive
<1>1. \A c \in Calls : Held(c) \subseteq Refs(heap) /\ HeldLeaves(c) = LeavesAt(heap, Held(c))
  BY HeldRefs DEF IInv
<1>2. ASSUME NEW r \in Refs(heap), NEW s \in Refs(heap), NoteAt(heap, r).leaf = NoteAt(heap, s).leaf
      PROVE  r = s
  BY <1>2, OneRefEach DEF IInv
<1>3. ASSUME NEW c \in Calls
      PROVE  Cardinality(HeldLeaves(c)) = Len(call[c].inputs)
  <2>1. call[c].inputs \in Seq(Refs(heap)) /\ IsInjective(call[c].inputs)
    BY DEF IInv, CallInv, Shape
  <2>2. IsFiniteSet(Held(c)) /\ Cardinality(Held(c)) = Len(call[c].inputs)
    BY <2>1, CardOfInputs DEF Held
  <2> DEFINE f == [ref \in Held(c) |-> NoteAt(heap, ref).leaf]
  <2>3. f \in Surjection(Held(c), HeldLeaves(c))
    BY <1>1 DEF Surjection, LeavesAt
  <2>4. f \in Injection(Held(c), HeldLeaves(c))
    BY <1>1, <1>2 DEF Injection, IsInjective, LeavesAt
  <2> HIDE DEF f
  <2> QED BY <2>2, <2>3, <2>4, FS_Surjection
<1>4. ASSUME NEW c \in Calls, NEW d \in Calls, c # d
      PROVE  HeldLeaves(c) \cap HeldLeaves(d) = {}
  <2>1. Held(c) \cap Held(d) = {}
    BY <1>4 DEF IInv, MarkInv, Marks
  <2> QED BY <1>1, <1>2, <2>1 DEF LeavesAt
<1> QED BY <1>3, <1>4 DEF ReservedExclusive, Holding

LEMMA RemarkedFollows ==
  ASSUME IInv
  PROVE  NeverRemarked
<1> SUFFICES ASSUME NEW p \in DOMAIN Notes, Notes[p].leaf \in reserved
             PROVE  Notes[p].spent
  BY DEF NeverRemarked
<1>1. <<1, p>> \in Refs(heap) /\ NoteAt(heap, <<1, p>>) = Notes[p]
  BY NoteOf
<1>2. Notes[p].spent = TRUE
  BY <1>1, ReservedNote
<1> QED BY <1>2

LEMMA HeldFollows ==
  ASSUME IInv
  PROVE  ReservedIsHeld
<1>1. \A c \in Calls : HeldLeaves(c) = LeavesAt(heap, Held(c))
  BY HeldRefs DEF IInv
<1>2. reserved = UNION {LeavesAt(heap, Held(c)) : c \in Calls}
  BY DEF IInv, MarkInv, Marks
<1>3. ASSUME NEW c \in Calls, c \notin Holding
      PROVE  LeavesAt(heap, Held(c)) = {}
  <2>1. call[c].pc # "failed"
    BY DEF IInv, CallInv, Shape, Pcs
  <2>2. call[c].inputs = <<>>
    BY <1>3, <2>1 DEF Holding
  <2> QED BY <2>2 DEF Held, ToSet, LeavesAt
<1>4. Holding \subseteq Calls
  BY DEF Holding
<1>5. \A x : x \in reserved <=> \E c \in Holding : x \in HeldLeaves(c)
  BY <1>1, <1>2, <1>3, <1>4
<1> QED BY <1>5 DEF ReservedIsHeld

LEMMA LiveFollows ==
  ASSUME IInv
  PROVE  PaysWithLiveNotes
<1>1. \A c \in Calls : HeldLeaves(c) = LeavesAt(heap, Held(c))
  BY HeldRefs DEF IInv
<1>2. \A c \in Calls : LeavesAt(heap, Held(c)) \cap call[c].spentThen = {}
  BY DEF IInv, PayInv, Pays, Held
<1> QED BY <1>1, <1>2 DEF PaysWithLiveNotes, Holding

LEMMA RecheckedFollows ==
  ASSUME IInv, AgeInv
  PROVE  MarksAreRechecked
<1> SUFFICES ASSUME NEW p \in DOMAIN Notes, Notes[p].spent, Notes[p].leaf \notin consumed,
                    Notes[p].leaf \notin reserved
             PROVE  Notes[p].age \in {Fresh, Recent}
  BY DEF MarksAreRechecked
<1>1. <<1, p>> \in Refs(heap) /\ NoteAt(heap, <<1, p>>) = Notes[p]
  BY NoteOf
<1>2. Notes[p].spent = TRUE
  <2>1. heap \in Seq(Seq(Note))
    BY DEF IInv, HeapInv
  <2>2. Notes[p].spent \in BOOLEAN
    BY <1>1, <2>1, RefIs, NoteTyped
  <2> QED BY <2>2
<1> QED BY <1>1, <1>2 DEF AgeInv, Stale

LEMMA TypeFollows ==
  ASSUME IInv
  PROVE  NotesOK
<1>1. /\ leaves \in Seq(Nat) /\ Len(leaves) \in Nat /\ Len(leaves) <= MaxLeaves
      /\ indexed \in Nat /\ indexed <= Len(leaves) /\ consumed \subseteq DOMAIN leaves
      /\ DOMAIN leaves = 1 .. Len(leaves)
  BY DEF IInv, ChainInv
<1>2. /\ heap \in Seq(Seq(Note)) /\ current \in 0 .. Len(heap)
      /\ scanned \in Nat /\ scanned <= indexed
  BY DEF IInv, HeapInv
<1>3. consumed \subseteq Leaf
  <2> DEFINE l == Len(leaves)
  <2>1. l \in Nat /\ l <= MaxLeaves /\ MaxLeaves \in Nat /\ consumed \subseteq 1 .. l
    BY <1>1, ClientAssumption
  <2> HIDE DEF l
  <2>2. 1 .. l \subseteq 1 .. MaxLeaves
    BY <2>1
  <2> QED BY <2>1, <2>2 DEF Leaf
<1>4. indexed \in 0 .. Len(leaves) /\ scanned \in 0 .. indexed
  BY <1>1, <1>2
<1>5. \A a \in DOMAIN heap : heap[a] \in Seq(Note)
  BY <1>2
<1>6. reserved \subseteq Leaf
  <2> SUFFICES ASSUME NEW x \in reserved PROVE x \in Leaf
    OBVIOUS
  <2>1. PICK c \in Calls : x \in LeavesAt(heap, Held(c))
    BY DEF IInv, MarkInv, Marks
  <2>2. PICK ref \in Held(c) : x = NoteAt(heap, ref).leaf
    BY <2>1 DEF LeavesAt
  <2>3. ref \in Refs(heap)
    BY <2>2, HeldRefs DEF IInv
  <2> QED BY <1>2, <2>2, <2>3, RefIs, NoteTyped
<1>7. ASSUME NEW c \in Calls
      PROVE  /\ call[c].pc \in Pcs
             /\ call[c].arr \in 0 .. Len(heap) /\ call[c].wire \in 0 .. Len(wires)
             /\ Held(c) \subseteq Refs(heap)
  <2>1. Shape(call[c], heap, indexed, Len(wires))
    BY DEF IInv, CallInv
  <2>2. Held(c) \subseteq Refs(heap)
    BY HeldRefs DEF IInv
  <2> QED BY <2>1, <2>2 DEF Shape
<1>8. ASSUME NEW p \in DOMAIN Notes, NEW q \in DOMAIN Notes, Notes[p].leaf = Notes[q].leaf
      PROVE  p = q
  <2>1. /\ <<1, p>> \in Refs(heap) /\ NoteAt(heap, <<1, p>>) = Notes[p]
        /\ <<1, q>> \in Refs(heap) /\ NoteAt(heap, <<1, q>>) = Notes[q]
    BY NoteOf
  <2>2. <<1, p>> = <<1, q>>
    BY <1>8, <2>1, OneRefEach DEF IInv
  <2> QED BY <2>2
<1>9. Pcs \subseteq Resting \cup
        {"sync", "page", "marks", "select", "picked", "paths", "root", "relaying", "landing"}
  BY DEF Pcs, Resting
<1> QED BY <1>1, <1>2, <1>3, <1>4, <1>5, <1>6, <1>7, <1>8, <1>9 DEF NotesOK, Refs

LEMMA LostFollows ==
  ASSUME IInv
  PROVE  NothingLost
<1> DEFINE arrays == ({current} \cup {call[c].arr : c \in {d \in Calls : call[d].pc = "marks"}}) \ {0}
<1> SUFFICES ASSUME NEW i \in 1 .. scanned, leaves[i] > 0
             PROVE  \E a \in arrays : \E p \in DOMAIN heap[a] : heap[a][p].leaf = i
  BY Zenon DEF NothingLost
<1>1. /\ scanned \in Nat /\ current \in 0 .. Len(heap) /\ Len(heap) <= 1 /\ Len(heap) \in Nat
      /\ heap \in Seq(Seq(Note))
  BY DEF IInv, HeapInv
<1>2. current = 1 \/ \E c \in Calls : call[c].pc = "marks" /\ call[c].arr = 1
  <2>1. CASE current = 0
    <3>1. PICK c \in Calls : call[c].pc = "marks"
      <4>1. scanned # 0
        BY <1>1
      <4> QED BY <2>1, <4>1 DEF IInv, SyncInv
    <3>2. call[c].arr = 1
      BY <3>1, ReadingArray DEF IInv, Reading
    <3> QED BY <3>1, <3>2
  <2>2. CASE current # 0
    <3> DEFINE n == Len(heap)
    <3>1. n \in Nat /\ n <= 1 /\ current \in 0 .. n
      BY <1>1
    <3> HIDE DEF n
    <3> QED BY <2>2, <3>1
  <2> QED BY <2>1, <2>2
<1>3. Len(heap) = 1 /\ Cell(heap) = heap[1]
  <2>1. Len(heap) = 1
    <3>1. CASE current = 1
      <4> DEFINE n == Len(heap)
      <4>1. n \in Nat /\ n <= 1 /\ 1 \in 0 .. n
        BY <1>1, <3>1
      <4> HIDE DEF n
      <4>2. n = 1
        BY <4>1
      <4> QED BY <4>2 DEF n
    <3>2. CASE \E c \in Calls : call[c].pc = "marks"
      BY <3>2, ReadingArray DEF IInv, Reading
    <3> QED BY <1>2, <3>1, <3>2
  <2>2. heap # <<>>
    <3>1. 1 \in DOMAIN heap
      BY <1>1, <2>1
    <3>2. DOMAIN <<>> = {}
      OBVIOUS
    <3> QED BY <3>1, <3>2, Zenon
  <2> QED BY <2>1, <2>2, Zenon DEF Cell
<1>4. \E n \in Nat : scanned <= n /\ Pages(leaves, heap[1], n)
  <2>1. CASE \E c \in Calls : call[c].pc = "page"
    <3>1. PICK c \in Calls : call[c].pc = "page"
      BY <2>1
    <3>2. call[c].start \in Nat
      BY DEF IInv, CallInv, Shape
    <3>3. scanned <= call[c].start /\ Pages(leaves, heap[1], call[c].start)
      BY <3>1 DEF IInv, SyncInv, Reads
    <3> QED BY <3>2, <3>3
  <2>2. CASE ~\E c \in Calls : call[c].pc = "page"
    <3>1. Pages(leaves, heap[1], scanned)
      BY <1>3, <2>2 DEF IInv, SyncInv
    <3>2. scanned <= scanned
      BY <1>1
    <3> QED BY <1>1, <3>1, <3>2
  <2> QED BY <2>1, <2>2
<1>5. PICK n \in Nat : scanned <= n /\ Pages(leaves, heap[1], n)
  BY <1>4
<1>6. i \in {x \in 1 .. n : leaves[x] > 0}
  BY <1>1, <1>5
<1>7. {heap[1][p].leaf : p \in DOMAIN heap[1]} = {x \in 1 .. n : leaves[x] > 0}
  BY <1>5 DEF Pages
<1>8. \E p \in DOMAIN heap[1] : heap[1][p].leaf = i
  BY <1>6, <1>7, Zenon
<1>9. 1 \in arrays
  BY <1>2
<1> HIDE DEF arrays
<1> QED BY <1>8, <1>9

\* What sync has gone past is in the notes, each leaf once, while calls run one
\* after another: the array, the position and the end of the loop fit together,
\* over any number of pages and of syncs that a payment starts (pool.ts:139, 174).
THEOREM NotesOKHolds ==
  Sequential => (Spec => []NotesOK)
<1>1. IInv => NotesOK
  BY TypeFollows
<1> QED BY <1>1, ClientInvariant, PTL

THEOREM NothingLostHolds ==
  Sequential => (Spec => []NothingLost)
<1>1. IInv => NothingLost
  BY LostFollows
<1> QED BY <1>1, ClientInvariant, PTL

\* And once a first sync was completed nothing is lost whatever calls overlap,
\* whichever requests throw, in sync or elsewhere, and however often a prepared
\* payment is submitted, as long as the session stays unlocked: all calls put
\* their pages to one array, each from where it had come to (pool.ts:139-175).
THEOREM NothingLostInOverlap ==
  Warm /\ Bounds["unlocks"] = 0 => (Spec => []NothingLost)
<1> SUFFICES ASSUME Warm, Bounds["unlocks"] = 0 PROVE Spec => []NothingLost
  OBVIOUS
<1> DEFINE Counted == happened \in [Happens -> Nat]
<1>1. Init => Counted /\ OverlapInv
  <2> SUFFICES ASSUME Init PROVE Counted /\ OverlapInv
    OBVIOUS
  <2>1. Counted
    BY DEF Init
  <2>2. heap = <<<<>>>> /\ current = 1 /\ Len(heap) = 1 /\ heap \in Seq(Seq(Note))
    BY DEF Init
  <2>3. LeavesInv
    <3>1. 0 \in 0 .. MaxLeaves /\ 0 = 2 * 0 /\ 0 <= MaxLeaves
      BY ClientAssumption
    <3>2. Even(0)
      BY <3>1 DEF Even
    <3>3. leaves = <<>> /\ Len(leaves) = 0 /\ leaves \in Seq(Nat) /\ indexed = 0
      BY DEF Init
    <3> QED BY <3>1, <3>2, <3>3 DEF LeavesInv
  <2>4. wires \in Seq(Requests({}))
    BY DEF Init
  <2>5. scanned = 0 /\ Covered(leaves, heap[1], 0)
    BY DEF Init, Covered
  <2>6. NoCall.outs = <<0, 0>> /\ NoCall.start = 0 /\ NoCall.asof = 0 /\ NoCall.pc = "idle"
    BY DEF NoCall
  <2>7. CallOK(NoCall, heap, indexed, leaves)
    BY <2>6, OverlapIdle DEF CallOK, Reading
  <2>8. call = [c \in Calls |-> NoCall] /\ indexed = 0
    BY DEF Init
  <2> QED BY <2>1, <2>2, <2>3, <2>4, <2>5, <2>7, <2>8 DEF OverlapInv, OneArrayInv
<1>2. Counted /\ OverlapInv /\ [Next]_vars => (Counted /\ OverlapInv)'
  BY CountsKept, OverlapNext
<1>3. OverlapInv => NothingLost
  <2> SUFFICES ASSUME OverlapInv, NEW i \in 1 .. scanned, leaves[i] > 0
               PROVE  \E p \in DOMAIN heap[1] : heap[1][p].leaf = i /\ current = 1
    BY DEF NothingLost
  <2> QED BY DEF OverlapInv, OneArrayInv, Covered
<1> QED BY <1>1, <1>2, <1>3, PTL DEF Spec

\* No two open payments spend one note, and none spends a note twice, while calls
\* run one after another and prepared payments lie about: sync does not unmark
\* what an open payment holds, and only release gives it back (pool.ts:58, 59,
\* 168, 621).
THEOREM ReservedExclusiveHolds ==
  Sequential => (Spec => []ReservedExclusive)
<1>1. IInv => ReservedExclusive
  BY ExclusiveFollows
<1> QED BY <1>1, ClientInvariant, PTL

\* A note of an open payment counts as spent however long it stays open: sync
\* asks about no note that is reserved (pool.ts:56, 168).
THEOREM NeverRemarkedHolds ==
  Sequential => (Spec => []NeverRemarked)
<1>1. IInv => NeverRemarked
  BY RemarkedFollows
<1> QED BY <1>1, ClientInvariant, PTL

\* What is reserved is what open payments hold, whatever throws where: every way
\* out of a payment releases its notes (pool.ts:562, 565, 607, 610, 635, 647, 651, 656).
THEOREM ReservedIsHeldHolds ==
  Sequential => (Spec => []ReservedIsHeld)
<1>1. IInv => ReservedIsHeld
  BY HeldFollows
<1> QED BY <1>1, ClientInvariant, PTL

\* A payment never takes a note that its own sync could have seen spent: what
\* the answer found is marked before the selection (pool.ts:172, 247).
THEOREM PaysWithLiveNotesHolds ==
  Sequential => (Spec => []PaysWithLiveNotes)
<1>1. IInv => PaysWithLiveNotes
  BY LiveFollows
<1> QED BY <1>1, ClientInvariant, PTL

\* As long as the application completes a sync in every span, a mark on a note
\* that is not spent will be checked again or is that of an open payment: a relay
\* that fails, or is dropped after its answer, hides no funds for long
\* (pool.ts:59, 167, 170).
THEOREM MarksAreRecheckedHolds ==
  Sequential /\ Paced => (Spec => []MarksAreRechecked)
<1> SUFFICES ASSUME Sequential, Paced PROVE Spec => []MarksAreRechecked
  OBVIOUS
<1>1. Init => AgeInv
  <2> SUFFICES ASSUME Init PROVE Refs(heap) = {}
    BY DEF AgeInv
  <2>1. \A a \in DOMAIN heap : DOMAIN heap[a] = {}
    BY ClientAssumption DEF Init
  <2> QED BY <2>1 DEF Refs
<1>2. IInv /\ AgeInv /\ [Next]_vars => AgeInv'
  BY NextAges
<1>3. IInv /\ AgeInv => MarksAreRechecked
  BY RecheckedFollows
<1>4. Spec => []IInv
  BY ClientInvariant
<1> QED BY <1>1, <1>2, <1>3, <1>4, PTL DEF Spec
=============================================================================
