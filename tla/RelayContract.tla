--------------------------- MODULE RelayContract ---------------------------
(***************************************************************************)
(* What a client may rely on when it posts a payment to the relayer: a     *)
(* note pays at most once, and a request is answered with a signature only *)
(* when it has been paid.  A request may fail and still be paid, before or *)
(* after it failed.                                                        *)
(***************************************************************************)
EXTENDS Integers

CONSTANTS
  Requests,
  NotesOf     \* the notes each request spends

VARIABLES
  paid,       \* the requests whose transaction is on the chain
  outcome     \* what each request was answered

vars == <<paid, outcome>>

Init == paid = {} /\ outcome = [r \in Requests |-> "none"]

Pay(r) ==
  /\ \A q \in paid : NotesOf[q] \cap NotesOf[r] = {}
  /\ paid' = paid \cup {r}
  /\ UNCHANGED outcome

Answer(r, what) ==
  /\ outcome[r] = "none"
  /\ what = "signature" => r \in paid
  /\ outcome' = [outcome EXCEPT ![r] = what]
  /\ UNCHANGED paid

Next == \E r \in Requests : Pay(r) \/ \E what \in {"signature", "error"} : Answer(r, what)

Spec == Init /\ [][Next]_vars
=============================================================================
