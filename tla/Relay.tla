------------------------------- MODULE Relay -------------------------------
(***************************************************************************)
(* A relay request (relayer/src/main.ts: relay, sendV1) from the check of  *)
(* its nullifiers to its answer: sign with a fresh blockhash, send, poll   *)
(* the status, resend the same bytes, and sign again once the blockhash    *)
(* has expired.                                                            *)
(*                                                                         *)
(* Requests run side by side; a step of one is an RPC call and the code up *)
(* to the next.  Two requests may spend the same note: a client that saw   *)
(* an error sends again, or the same keys are used twice.  The network     *)
(* may lose a transaction, keep it for long, or deliver it and lose the    *)
(* answer.  A transaction can be included while the height is at most its  *)
(* lastValidBlockHeight.                                                   *)
(*                                                                         *)
(* Abstractions.  What makes a request fail at its own checks or at the    *)
(* program for other reasons than its nullifiers is a choice.  Version 0   *)
(* is the transaction format for lookup tables: one attempt and no resend. *)
(* Confirmed blocks stay.  Validity stands for 150 blocks.                 *)
(***************************************************************************)
EXTENDS Integers, FiniteSets

CONSTANTS
  Requests,
  NotesOf,    \* the notes each request spends
  Validity,   \* blocks a blockhash is valid for
  Attempts,   \* signatures sendV1 tries (3)
  Version     \* RELAY_TX_VERSION

ASSUME RelayAssumption ==
  /\ Validity \in Nat /\ Attempts \in Nat \ {0} /\ Version \in {0, 1}
  /\ \A r \in Requests : NotesOf[r] # {}

VARIABLES
  height,     \* the chain's block height
  wires,      \* transactions the network holds: [req, attempt, deadline]
  landed,     \* those included and executed
  rejected,   \* those included, which failed on chain
  request     \* each request: [pc, attempt, deadline]

vars == <<height, wires, landed, rejected, request>>

Init ==
  /\ height = 0
  /\ wires = {} /\ landed = {} /\ rejected = {}
  /\ request = [r \in Requests |-> [pc |-> "checking", attempt |-> 0, deadline |-> 0]]

Spent == UNION {NotesOf[w.req] : w \in landed}
Unspent(r) == NotesOf[r] \cap Spent = {}

\* The transaction a request has signed last.
Wire(r) == [req |-> r, attempt |-> request[r].attempt, deadline |-> request[r].deadline]

Goes(r, pc) == request' = [request EXCEPT ![r].pc = pc]
At(r, pc) == request[r].pc = pc

-----------------------------------------------------------------------------
(* The request *)

\* relay's own checks, the nullifier accounts last: "note already spent".
Check(r) ==
  /\ At(r, "checking")
  /\ \/ Unspent(r) /\ Goes(r, "signing")
     \/ Goes(r, "failed")
  /\ UNCHANGED <<height, wires, landed, rejected>>

\* getLatestBlockhash, and the signature.
Sign(r) ==
  /\ At(r, "signing")
  /\ request' = [request EXCEPT ![r] = [pc |-> "sending", attempt |-> @.attempt + 1,
                                        deadline |-> height + Validity]]
  /\ UNCHANGED <<height, wires, landed, rejected>>

\* The first sendTransaction passes its preflight: the network has it.
Send(r) ==
  /\ At(r, "sending")
  /\ Unspent(r) /\ height <= request[r].deadline
  /\ wires' = wires \cup {Wire(r)}
  /\ Goes(r, "polling")
  /\ UNCHANGED <<height, landed, rejected>>

\* The preflight fails or the call does, with the transaction delivered or
\* not: a real failure, which is not retried.
SendFails(r) ==
  /\ At(r, "sending")
  /\ \/ UNCHANGED wires
     \/ Unspent(r) /\ height <= request[r].deadline /\ wires' = wires \cup {Wire(r)}
  /\ Goes(r, "failed")
  /\ UNCHANGED <<height, landed, rejected>>

\* Mutant: a status with an error counts as landed.
StatusAny(r) ==
  /\ At(r, "polling")
  /\ Goes(r, IF Wire(r) \in landed \cup rejected THEN "confirmed" ELSE "measuring")
  /\ UNCHANGED <<height, wires, landed, rejected>>

\* getSignatureStatuses of the last signature.
Status(r) ==
  /\ At(r, "polling")
  /\ Goes(r, IF Wire(r) \in landed THEN "confirmed"
             ELSE IF Wire(r) \in rejected THEN "failed" ELSE "measuring")
  /\ UNCHANGED <<height, wires, landed, rejected>>

\* Mutant: an attempt is given up after a fixed wait, expired or not.
ExpiredAnyhow(r) == height >= 0

Expired(r) == height > request[r].deadline

\* Mutant: the height is not looked at.
MeasureNever(r) ==
  /\ At(r, "measuring")
  /\ Goes(r, "resending")
  /\ UNCHANGED <<height, wires, landed, rejected>>

\* getBlockHeight: an expired attempt is signed again, up to Attempts times.
Measure(r) ==
  /\ At(r, "measuring")
  /\ Goes(r, IF ~Expired(r) THEN "resending"
             ELSE IF Version = 1 /\ request[r].attempt < Attempts THEN "signing" ELSE "failed")
  /\ UNCHANGED <<height, wires, landed, rejected>>

\* The same bytes again, without preflight and whatever comes of it, and a
\* pause; confirmTransaction of version 0 only waits.
Resend(r) ==
  /\ At(r, "resending")
  /\ \/ UNCHANGED wires
     \/ /\ Version = 1
        /\ Wire(r) \notin landed \cup rejected
        /\ wires' = wires \cup {Wire(r)}
  /\ Goes(r, "polling")
  /\ UNCHANGED <<height, landed, rejected>>

\* Any other RPC call of the loop throws.
CallFails(r) ==
  /\ request[r].pc \in {"signing", "polling", "measuring"}
  /\ Goes(r, "failed")
  /\ UNCHANGED <<height, wires, landed, rejected>>

\* indexSignature, which may throw; then the answer.
IndexAndAnswer(r) ==
  /\ At(r, "confirmed")
  /\ \/ Goes(r, "answered")
     \/ Goes(r, "failed")
  /\ UNCHANGED <<height, wires, landed, rejected>>

Step(r) ==
  \/ Check(r) \/ Sign(r) \/ Send(r) \/ SendFails(r) \/ Status(r) \/ Measure(r)
  \/ Resend(r) \/ CallFails(r) \/ IndexAndAnswer(r)

-----------------------------------------------------------------------------
(* The network *)

Live(w) == height <= w.deadline

\* A transaction is included: it takes its notes, or fails as one is spent.
Land(w) ==
  /\ Live(w)
  /\ wires' = wires \ {w}
  /\ IF Unspent(w.req) THEN landed' = landed \cup {w} /\ UNCHANGED rejected
                       ELSE rejected' = rejected \cup {w} /\ UNCHANGED landed
  /\ UNCHANGED <<height, request>>

\* It is forgotten.
Lose(w) ==
  /\ wires' = wires \ {w}
  /\ UNCHANGED <<height, landed, rejected, request>>

Waiting(r) == request[r].pc \in {"sending", "polling", "measuring", "resending"}

\* The height grows for ever; once nothing depends on it, it is not counted.
Block ==
  /\ \/ \E w \in wires : Live(w)
     \/ \E r \in Requests : Waiting(r) /\ ~Expired(r)
  /\ height' = height + 1
  /\ UNCHANGED <<wires, landed, rejected, request>>

Next ==
  \/ \E r \in Requests : Step(r)
  \/ \E w \in wires : Land(w) \/ Lose(w)
  \/ Block

Spec == Init /\ [][Next]_vars

\* RPC calls return or throw, and blocks are made.
FairSpec == Spec /\ \A r \in Requests : WF_vars(Step(r)) /\ WF_vars(Block)

-----------------------------------------------------------------------------
(* Properties *)

WireOf == [req : Requests, attempt : 1 .. Attempts, deadline : Nat]

TypeOK ==
  /\ height \in Nat
  /\ wires \subseteq WireOf /\ landed \subseteq WireOf /\ rejected \subseteq WireOf
  /\ request \in [Requests -> [pc : {"checking", "signing", "sending", "polling", "measuring",
                                     "resending", "confirmed", "answered", "failed"},
                               attempt : 0 .. Attempts, deadline : Nat]]

\* Whatever was signed before has expired when a request signs again
\* (main.ts:374): no two of its transactions can land at the same time, and
\* the fee of a late one is not paid for nothing.
NeverTwoLive ==
  \A v, w \in wires : v.req = w.req /\ Live(v) /\ Live(w) => v = w

\* Of the requests that spend one note at most one is answered, although each
\* saw the note unspent when it was checked.
OneAnswerPerNote ==
  \A r, q \in Requests :
    r # q /\ At(r, "answered") /\ At(q, "answered") => NotesOf[r] \cap NotesOf[q] = {}

\* A request ends: it expires when nothing else becomes of it.
EveryRequestEnds == \A r \in Requests : <>(At(r, "answered") \/ At(r, "failed"))

Paid == {w.req : w \in landed}
Outcome ==
  [r \in Requests |-> IF At(r, "answered") THEN "signature"
                      ELSE IF At(r, "failed") THEN "error" ELSE "none"]

Contract == INSTANCE RelayContract WITH paid <- Paid, outcome <- Outcome

\* The contract Client relies on, whatever expires, gets lost or is resent.
ImplementsContract == Contract!Spec

\* The comment on sendV1, main.ts:345: "Re-signs with a fresh blockhash and
\* resends when the first attempt expires".  A request that signs again has
\* not been paid yet.
ResignsOnlyExpired ==
  \A r \in Requests : At(r, "signing") => r \notin Paid
=============================================================================
