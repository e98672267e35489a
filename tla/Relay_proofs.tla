---------------------------- MODULE Relay_proofs ----------------------------
(***************************************************************************)
(* Proofs about Relay, for any requests and notes, any validity, number of *)
(* attempts and either transaction version.                                *)
(***************************************************************************)
EXTENDS Relay, TLAPS

-----------------------------------------------------------------------------
(* The invariant *)

\* The transactions of a request are those of its attempts so far; all but
\* the last, and the last too when it is about to sign again, have expired.
AttemptInv(w) ==
  LET r == w.req
  IN /\ w.attempt <= request[r].attempt
     /\ w.attempt = request[r].attempt => w = Wire(r)
     /\ w.attempt < request[r].attempt => ~Live(w)
     /\ At(r, "signing") => ~Live(w)
     /\ ~At(r, "checking")

\* An attempt is signed only after every earlier one has expired, and a
\* request is called confirmed only when its transaction has landed.
RequestInv(r) ==
  /\ At(r, "signing") /\ request[r].attempt > 0 => Expired(r)
  /\ At(r, "signing") => request[r].attempt < Attempts
  /\ At(r, "checking") => request[r].attempt = 0
  /\ request[r].pc \in {"sending", "polling", "measuring", "resending", "confirmed"}
       => request[r].attempt > 0
  /\ request[r].pc \in {"confirmed", "answered"} => r \in Paid

\* Landed transactions of two requests share no note.
NotesInv == \A v, w \in landed : v.req # w.req => NotesOf[v.req] \cap NotesOf[w.req] = {}

IInv ==
  /\ TypeOK
  /\ \A w \in wires : AttemptInv(w)
  /\ \A r \in Requests : RequestInv(r)
  /\ NotesInv

LEMMA InitIInv == Init => IInv
  BY RelayAssumption DEF Init, IInv, TypeOK, AttemptInv, RequestInv, NotesInv, At, WireOf

\* What a request has signed is a transaction.
LEMMA WireIsWire ==
  ASSUME TypeOK, NEW r \in Requests, request[r].attempt > 0
  PROVE  Wire(r) \in WireOf /\ Wire(r).req = r /\ Wire(r).attempt = request[r].attempt
         /\ Wire(r).deadline = request[r].deadline
  BY RelayAssumption DEF TypeOK, Wire, WireOf

\* A request moves on with the network as it was, or with its last
\* transaction handed to the network.
LEMMA GoesKeeps ==
  ASSUME IInv, NEW r \in Requests, NEW pc, Goes(r, pc),
         pc \in {"signing", "sending", "polling", "measuring", "resending", "confirmed",
                 "answered", "failed"},
         pc = "signing" => request[r].attempt < Attempts
                           /\ (request[r].attempt > 0 => Expired(r)),
         pc \in {"sending", "polling", "measuring", "resending", "confirmed"}
           => request[r].attempt > 0,
         pc \in {"confirmed", "answered"} => r \in Paid,
         UNCHANGED <<height, landed, rejected>>,
         \/ UNCHANGED wires
         \/ request[r].attempt > 0 /\ pc # "signing" /\ wires' = wires \cup {Wire(r)}
  PROVE  IInv'
<1>1. /\ request'[r].pc = pc
      /\ request'[r].attempt = request[r].attempt /\ request'[r].deadline = request[r].deadline
      /\ \A q \in Requests : q # r => request'[q] = request[q]
      /\ DOMAIN request' = Requests
  BY DEF Goes, IInv, TypeOK
<1>2. TypeOK'
  <2>1. request' \in [Requests -> [pc : {"checking", "signing", "sending", "polling", "measuring",
                                         "resending", "confirmed", "answered", "failed"},
                                   attempt : 0 .. Attempts, deadline : Nat]]
    BY DEF Goes, IInv, TypeOK
  <2>2. wires' \subseteq WireOf
    BY WireIsWire DEF IInv, TypeOK
  <2> QED BY <2>1, <2>2 DEF IInv, TypeOK
<1>3. Paid' = Paid
  BY DEF Paid
<1>4. ASSUME NEW w \in wires' PROVE AttemptInv(w)'
  <2>1. w \in WireOf /\ w.req \in Requests /\ w.attempt \in Nat /\ w.deadline \in Nat
    BY <1>2 DEF TypeOK, WireOf
  <2>2. CASE w.req # r
    <3>1. w \in wires /\ request'[w.req] = request[w.req]
      BY <1>1, <2>1, <2>2 DEF Wire
    <3> QED BY <3>1 DEF IInv, AttemptInv, At, Wire, Live
  <2>3. CASE w.req = r /\ w \in wires
    <3>1. AttemptInv(w) /\ RequestInv(r)
      BY <2>3 DEF IInv
    <3>2. pc = "signing" => ~Live(w)
      <4>1. ASSUME pc = "signing", w.attempt = request[r].attempt PROVE ~Live(w)
        <5>1. w.attempt > 0
          BY <2>1 DEF WireOf
        <5>2. Expired(r) /\ w.deadline = request[r].deadline
          BY <2>3, <3>1, <4>1, <5>1 DEF AttemptInv, Wire
        <5> QED BY <2>1, <5>2 DEF Expired, Live, IInv, TypeOK
      <4>2. request[r].attempt \in Nat
        BY DEF IInv, TypeOK
      <4> QED BY <2>1, <2>3, <3>1, <4>1, <4>2 DEF AttemptInv
    <3> QED BY <1>1, <2>3, <3>1, <3>2 DEF AttemptInv, At, Wire, Live
  <2>4. CASE w.req = r /\ w \notin wires
    <3>1. w = Wire(r) /\ pc # "signing"
      BY <2>4
    <3>2. request[r].attempt \in Nat
      BY DEF IInv, TypeOK
    <3> QED BY <1>1, <2>1, <3>1, <3>2 DEF AttemptInv, At, Wire, Live
  <2> QED BY <2>2, <2>3, <2>4
<1>5. ASSUME NEW q \in Requests PROVE RequestInv(q)'
  <2>1. CASE q = r
    BY <1>1, <1>3, <2>1 DEF RequestInv, At, Expired
  <2>2. CASE q # r
    BY <1>1, <1>3, <2>2 DEF IInv, RequestInv, At, Expired
  <2> QED BY <2>1, <2>2
<1>6. NotesInv'
  BY DEF IInv, NotesInv
<1> QED BY <1>2, <1>4, <1>5, <1>6 DEF IInv

\* Signing again: every transaction so far has expired.
LEMMA SignKeeps ==
  ASSUME IInv, NEW r \in Requests, Sign(r)
  PROVE  IInv'
<1>1. /\ request[r].attempt \in Nat /\ request[r].attempt < Attempts
      /\ height \in Nat /\ Attempts \in Nat
  BY RelayAssumption DEF IInv, TypeOK, RequestInv, Sign
<1>2. /\ request' = [request EXCEPT ![r] = [pc |-> "sending", attempt |-> request[r].attempt + 1,
                                            deadline |-> height + Validity]]
      /\ UNCHANGED <<height, wires, landed, rejected>>
  BY DEF Sign
<1>3. /\ request'[r].pc = "sending" /\ request'[r].attempt = request[r].attempt + 1
      /\ \A q \in Requests : q # r => request'[q] = request[q]
  BY <1>2 DEF IInv, TypeOK
<1>4. TypeOK'
  BY <1>1, <1>2, RelayAssumption DEF IInv, TypeOK
<1>5. ASSUME NEW w \in wires PROVE AttemptInv(w)'
  <2>1. AttemptInv(w) /\ w.req \in Requests /\ w.attempt \in Nat
    BY DEF IInv, TypeOK, WireOf
  <2>2. CASE w.req # r
    BY <1>2, <1>3, <2>1, <2>2 DEF AttemptInv, At, Wire, Live
  <2>3. CASE w.req = r
    <3>1. ~Live(w) /\ w.attempt < request[r].attempt + 1
      BY <1>1, <2>1, <2>3 DEF AttemptInv, Sign
    <3>2. w.attempt # request[r].attempt + 1
      BY <1>1, <2>1, <3>1
    <3>3. ~Live(w)'
      BY <1>2, <3>1 DEF Live
    <3> QED BY <1>1, <1>3, <2>1, <2>3, <3>1, <3>2, <3>3 DEF AttemptInv, At
  <2> QED BY <2>2, <2>3
<1>6. ASSUME NEW q \in Requests PROVE RequestInv(q)'
  <2>1. CASE q = r
    BY <1>1, <1>2, <1>3, <2>1 DEF RequestInv, At
  <2>2. CASE q # r
    BY <1>2, <1>3, <2>2 DEF IInv, RequestInv, At, Expired, Paid
  <2> QED BY <2>1, <2>2
<1>7. NotesInv'
  BY <1>2 DEF IInv, NotesInv
<1> QED BY <1>2, <1>4, <1>5, <1>6, <1>7 DEF IInv

\* Every other step of a request.
LEMMA StepKeeps ==
  ASSUME IInv, NEW r \in Requests, Step(r)
  PROVE  IInv'
<1> USE DEF At
<1>0. TypeOK /\ RequestInv(r) /\ request[r].attempt \in Nat
  BY DEF IInv, TypeOK
<1>1. CASE Check(r)
  <2>1. request[r].attempt = 0 /\ UNCHANGED <<height, wires, landed, rejected>>
    BY <1>0, <1>1 DEF Check, RequestInv
  <2>2. request[r].attempt < Attempts
    BY <2>1, RelayAssumption
  <2> QED BY <1>1, <2>1, <2>2, GoesKeeps DEF Check
<1>2. CASE Sign(r)
  BY <1>2, SignKeeps
<1>3. CASE Send(r)
  BY <1>0, <1>3, GoesKeeps DEF Send, RequestInv
<1>4. CASE SendFails(r)
  BY <1>0, <1>4, GoesKeeps DEF SendFails, RequestInv
<1>5. CASE Status(r)
  <2>1. request[r].attempt > 0
    BY <1>0, <1>5 DEF Status, RequestInv
  <2>2. Wire(r) \in landed => r \in Paid
    BY <1>0, <2>1, WireIsWire DEF Paid
  <2>3. CASE Wire(r) \in landed
    BY <1>5, <2>1, <2>2, <2>3, GoesKeeps DEF Status
  <2>4. CASE Wire(r) \notin landed
    BY <1>5, <2>1, <2>4, GoesKeeps DEF Status
  <2> QED BY <2>3, <2>4
<1>6. CASE Measure(r)
  <2>1. request[r].attempt > 0
    BY <1>0, <1>6 DEF Measure, RequestInv
  <2> QED BY <1>6, <2>1, GoesKeeps DEF Measure
<1>7. CASE Resend(r)
  <2>1. request[r].attempt > 0
    BY <1>0, <1>7 DEF Resend, RequestInv
  <2> QED BY <1>7, <2>1, GoesKeeps DEF Resend
<1>8. CASE CallFails(r)
  BY <1>8, GoesKeeps DEF CallFails
<1>9. CASE IndexAndAnswer(r)
  BY <1>0, <1>9, GoesKeeps DEF IndexAndAnswer, RequestInv
<1> QED BY <1>1, <1>2, <1>3, <1>4, <1>5, <1>6, <1>7, <1>8, <1>9 DEF Step

\* A transaction lands, and takes unspent notes only.
LEMMA LandKeeps ==
  ASSUME IInv, NEW w \in wires, Land(w)
  PROVE  IInv'
<1>1. w \in WireOf /\ w.req \in Requests
  BY DEF IInv, TypeOK, WireOf
<1>2. UNCHANGED <<height, request>> /\ wires' \subseteq wires
  BY DEF Land
<1>3. landed \subseteq landed' /\ Paid \subseteq Paid'
  BY DEF Land, Paid
<1>4. TypeOK'
  BY <1>1, <1>2 DEF IInv, TypeOK, Land
<1>5. ASSUME NEW v \in wires' PROVE AttemptInv(v)'
  BY <1>2 DEF IInv, AttemptInv, At, Wire, Live
<1>6. ASSUME NEW r \in Requests PROVE RequestInv(r)'
  BY <1>2, <1>3 DEF IInv, RequestInv, At, Expired
<1>7. NotesInv'
  <2>1. CASE Unspent(w.req)
    <3>1. landed' = landed \cup {w}
      BY <2>1 DEF Land
    <3>2. \A v \in landed : NotesOf[w.req] \cap NotesOf[v.req] = {}
      BY <2>1 DEF Unspent, Spent
    <3> QED BY <3>1, <3>2 DEF IInv, NotesInv
  <2>2. CASE ~Unspent(w.req)
    BY <2>2 DEF Land, IInv, NotesInv
  <2> QED BY <2>1, <2>2
<1> QED BY <1>4, <1>5, <1>6, <1>7 DEF IInv

\* The network forgets a transaction, or a block is made: what has expired
\* stays so.
LEMMA NetworkKeeps ==
  ASSUME IInv, Block \/ \E w \in wires : Lose(w)
  PROVE  IInv'
<1>1. /\ UNCHANGED <<landed, rejected, request>> /\ wires' \subseteq wires
      /\ height \in Nat /\ height' \in Nat /\ height <= height'
  BY DEF Block, Lose, IInv, TypeOK
<1>2. TypeOK'
  BY <1>1 DEF IInv, TypeOK
<1>3. ASSUME NEW w \in wires' PROVE AttemptInv(w)'
  <2>1. w \in wires /\ AttemptInv(w) /\ w.deadline \in Nat
    BY <1>1 DEF IInv, TypeOK, WireOf
  <2>2. ~Live(w) => ~Live(w)'
    BY <1>1, <2>1 DEF Live
  <2> QED BY <1>1, <2>1, <2>2 DEF AttemptInv, At, Wire
<1>4. ASSUME NEW r \in Requests PROVE RequestInv(r)'
  <2>1. RequestInv(r) /\ request[r].deadline \in Nat /\ Paid' = Paid
    BY <1>1 DEF IInv, TypeOK, Paid
  <2>2. Expired(r) => Expired(r)'
    BY <1>1, <2>1 DEF Expired
  <2> QED BY <1>1, <2>1, <2>2 DEF RequestInv, At
<1>5. NotesInv'
  BY <1>1 DEF IInv, NotesInv
<1> QED BY <1>2, <1>3, <1>4, <1>5 DEF IInv

LEMMA NextKeeps ==
  ASSUME IInv, [Next]_vars
  PROVE  IInv'
<1>1. CASE UNCHANGED vars
  BY <1>1 DEF vars, IInv, TypeOK, AttemptInv, RequestInv, NotesInv, At, Wire, Live, Expired, Paid
<1> QED BY <1>1, StepKeeps, LandKeeps, NetworkKeeps DEF Next

\* The strengthened invariant of every behaviour.
THEOREM Invariant == Spec => []IInv
<1>1. Init => IInv
  BY InitIInv
<1>2. IInv /\ [Next]_vars => IInv'
  BY NextKeeps
<1> QED BY <1>1, <1>2, PTL DEF Spec

-----------------------------------------------------------------------------
(* What follows *)

\* No request signs more often than sendV1 allows (main.ts:350).
THEOREM TypeCorrect == Spec => []TypeOK
<1>1. IInv => TypeOK
  BY DEF IInv
<1> QED BY <1>1, Invariant, PTL

\* No two transactions of a request can land at the same time (main.ts:374).
THEOREM NeverTwoLiveHolds == Spec => []NeverTwoLive
<1>1. IInv => NeverTwoLive
  <2> SUFFICES ASSUME IInv, NEW v \in wires, NEW w \in wires, v.req = w.req, Live(v), Live(w)
               PROVE  v = w
    BY DEF NeverTwoLive
  <2>1. AttemptInv(v) /\ AttemptInv(w)
    BY DEF IInv
  <2>2. v.attempt \in Nat /\ w.attempt \in Nat /\ request[v.req].attempt \in Nat
    BY DEF IInv, TypeOK, WireOf
  <2> QED BY <2>1, <2>2 DEF AttemptInv
<1> QED BY <1>1, Invariant, PTL

\* Of the requests that spend one note at most one is answered.
THEOREM OneAnswerPerNoteHolds == Spec => []OneAnswerPerNote
<1>1. IInv => OneAnswerPerNote
  <2> SUFFICES ASSUME IInv, NEW r \in Requests, NEW q \in Requests, r # q,
                      At(r, "answered"), At(q, "answered")
               PROVE  NotesOf[r] \cap NotesOf[q] = {}
    BY DEF OneAnswerPerNote
  <2>1. r \in Paid /\ q \in Paid
    BY DEF IInv, RequestInv, At
  <2> QED BY <2>1 DEF Paid, IInv, NotesInv
<1> QED BY <1>1, Invariant, PTL

\* A step of a request answers it at most, and truly.
LEMMA StepImplements ==
  ASSUME IInv, NEW r \in Requests, Step(r)
  PROVE  Contract!Next \/ UNCHANGED Contract!vars
<1>1. UNCHANGED <<landed, rejected>>
  BY DEF Step, Check, Sign, Send, SendFails, Status, Measure, Resend, CallFails, IndexAndAnswer
<1>2. Paid' = Paid
  BY <1>1 DEF Paid
<1>3. /\ request[r].pc \notin {"answered", "failed"}
      /\ request'[r].pc = "answered" => At(r, "confirmed")
      /\ \A q \in Requests : q # r => request'[q] = request[q]
  BY DEF Step, Check, Sign, Send, SendFails, Status, Measure, Resend, CallFails, IndexAndAnswer,
         Goes, At, IInv, TypeOK
<1>4. Outcome[r] = "none" /\ \A q \in Requests : q # r => Outcome'[q] = Outcome[q]
  BY <1>3 DEF Outcome, At
<1>5. Outcome' = [Outcome EXCEPT ![r] = Outcome'[r]]
  BY <1>4 DEF Outcome
<1>6. CASE request'[r].pc \notin {"answered", "failed"}
  BY <1>2, <1>4, <1>5, <1>6 DEF Outcome, At, Contract!vars
<1>7. CASE request'[r].pc = "failed"
  <2>1. Outcome'[r] = "error"
    BY <1>7 DEF Outcome, At
  <2> QED BY <1>2, <1>4, <1>5, <2>1 DEF Contract!Next, Contract!Answer
<1>8. CASE request'[r].pc = "answered"
  <2>1. Outcome'[r] = "signature" /\ r \in Paid
    BY <1>3, <1>8 DEF Outcome, At, IInv, RequestInv
  <2> QED BY <1>2, <1>4, <1>5, <2>1 DEF Contract!Next, Contract!Answer
<1> QED BY <1>6, <1>7, <1>8

\* A landing transaction pays its request, with notes nobody was paid with.
LEMMA LandImplements ==
  ASSUME IInv, NEW w \in wires, Land(w)
  PROVE  Contract!Next \/ UNCHANGED Contract!vars
<1>1. w.req \in Requests
  BY DEF IInv, TypeOK, WireOf
<1>2. Outcome' = Outcome
  BY DEF Land, Outcome, At
<1>3. CASE Unspent(w.req)
  <2>1. Paid' = Paid \cup {w.req}
    BY <1>3 DEF Land, Paid
  <2>2. \A q \in Paid : NotesOf[q] \cap NotesOf[w.req] = {}
    BY <1>3 DEF Paid, Unspent, Spent
  <2> QED BY <1>1, <1>2, <2>1, <2>2 DEF Contract!Next, Contract!Pay
<1>4. CASE ~Unspent(w.req)
  BY <1>2, <1>4 DEF Land, Paid, Contract!vars
<1> QED BY <1>3, <1>4

\* Every step is one of the contract or invisible.
LEMMA NextImplements ==
  ASSUME IInv, [Next]_vars
  PROVE  [Contract!Next]_Contract!vars
<1>1. CASE Block \/ \E w \in wires : Lose(w)
  BY <1>1 DEF Block, Lose, Paid, Outcome, At, Contract!vars
<1>2. CASE UNCHANGED vars
  BY <1>2 DEF vars, Paid, Outcome, At, Contract!vars
<1> QED BY <1>1, <1>2, StepImplements, LandImplements DEF Next

\* The contract Client relies on, whatever expires, gets lost or is resent.
THEOREM ImplementsContractHolds == Spec => ImplementsContract
<1>1. Init => Contract!Init
  BY DEF Init, Contract!Init, Paid, Outcome, At
<1>2. IInv /\ [Next]_vars => [Contract!Next]_Contract!vars
  BY NextImplements
<1> QED BY <1>1, <1>2, Invariant, PTL DEF Spec, ImplementsContract, Contract!Spec
=============================================================================
