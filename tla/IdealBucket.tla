---------------------------- MODULE IdealBucket ----------------------------
(***************************************************************************)
(* What the relayer's rate limit promises: every bucket is full from the   *)
(* start, exists for ever, fills at its rate as the time passes, and a     *)
(* request is answered exactly when its bucket can pay for it.             *)
(***************************************************************************)
EXTENDS Integers

CONSTANTS
  Ids,     \* buckets
  Rate,    \* what each gains per unit of time
  Burst,   \* what each holds at most
  Unit,    \* what one request costs
  None     \* no request yet

VARIABLES level, last

vars == <<level, last>>

AtMost(x, cap) == IF x < cap THEN x ELSE cap

Init == level = Burst /\ last = None

Request(b) ==
  /\ level' = [level EXCEPT ![b] = IF @ >= Unit THEN @ - Unit ELSE @]
  /\ last' = [bucket |-> b, ok |-> level[b] >= Unit]

Tick ==
  /\ level' = [b \in Ids |-> AtMost(level[b] + Rate[b], Burst[b])]
  /\ UNCHANGED last

Next == Tick \/ \E b \in Ids : Request(b)

Spec == Init /\ [][Next]_vars
=============================================================================
