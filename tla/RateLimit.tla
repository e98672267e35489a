------------------------------ MODULE RateLimit ------------------------------
(***************************************************************************)
(* The relayer's rate limiter (relayer/src/main.ts): a token bucket per    *)
(* client address and class of path, created full at the first request,    *)
(* refilled lazily from the clock, and deleted by a timer once idle.       *)
(*                                                                         *)
(* Abstractions.  Tokens are counted in units small enough for the refill  *)
(* of a tick to be whole; a request costs Unit of them.  The timer that    *)
(* sweeps may fire at any time.  The clock does not go back.               *)
(***************************************************************************)
EXTENDS Integers

CONSTANTS
  Clients,    \* addresses, as clientIp tells them apart
  Paths,      \* request paths
  Limited,    \* those with a limit of their own
  Rest,       \* '*', the class of all other paths
  Rate,       \* LIMITS[class].perSec, in units per tick
  Burst,      \* LIMITS[class].burst, in units
  Unit,       \* what a request costs
  IdleTime,   \* ticks after which an untouched bucket is deleted
  None,       \* no request yet
  MaxTime     \* bound: ticks

Classes == Limited \cup {Rest}

ASSUME LimitsAssumption ==
  /\ Limited \subseteq Paths /\ Rest \notin Paths
  /\ Unit \in Nat \ {0} /\ IdleTime \in Nat /\ MaxTime \in Nat
  /\ Rate \in [Classes -> Nat] /\ Burst \in [Classes -> Nat]

\* A bucket left alone for IdleTime is full: 0.2/s * 600 s = 120 >= 6 for
\* /relay, and more for the others.
ASSUME IdleFillsAssumption == \A c \in Classes : Rate[c] * IdleTime >= Burst[c]

Ids == Classes \X Clients
RateOf == [b \in Ids |-> Rate[b[1]]]
BurstOf == [b \in Ids |-> Burst[b[1]]]

VARIABLES
  now,
  buckets,  \* Map: bucket -> [tokens, at]
  last,     \* the last answer: allowed or 429
  window    \* history: what one bucket has granted since some moment

vars == <<now, buckets, last, window>>

AtMost(x, cap) == IF x < cap THEN x ELSE cap

Init ==
  /\ now = 0
  /\ buckets = [b \in {} |-> 0]
  /\ last = None
  /\ window \in [bucket : Ids, from : {0}, granted : {0}]

Bucket(path, client) == <<IF path \in Limited THEN path ELSE Rest, client>>

\* Mutant: the time of the last refill is not recorded.
ReadKeepsAt(b) ==
  IF b \in DOMAIN buckets
  THEN [tokens |-> AtMost(buckets[b].tokens + (now - buckets[b].at) * RateOf[b], BurstOf[b]),
        at |-> buckets[b].at]
  ELSE [tokens |-> BurstOf[b], at |-> now]

\* The bucket as allow finds it, created full or refilled up to now.
Read(b) ==
  IF b \in DOMAIN buckets
  THEN [tokens |-> AtMost(buckets[b].tokens + (now - buckets[b].at) * RateOf[b], BurstOf[b]),
        at |-> now]
  ELSE [tokens |-> BurstOf[b], at |-> now]

\* allow: the refill is kept even when the request is refused.
Use(b) ==
  LET full == Read(b)
      ok == full.tokens >= Unit
      left == IF ok THEN [full EXCEPT !.tokens = @ - Unit] ELSE full
  IN /\ buckets' = [x \in DOMAIN buckets \cup {b} |-> IF x = b THEN left ELSE buckets[x]]
     /\ last' = [bucket |-> b, ok |-> ok]
     /\ window' = IF ok /\ window.bucket = b THEN [window EXCEPT !.granted = @ + 1] ELSE window
     /\ UNCHANGED now

Request(path, client) == Use(Bucket(path, client))

\* Mutant: the cutoff of the timer is off by most of the idle time.
StaleEarly(b) == buckets[b].at < now - 1

Stale(b) == buckets[b].at < now - IdleTime

\* The timer: buckets untouched for IdleTime are deleted.
Sweep ==
  /\ buckets' = [b \in {x \in DOMAIN buckets : ~Stale(x)} |-> buckets[b]]
  /\ UNCHANGED <<now, last, window>>

Tick ==
  /\ now < MaxTime
  /\ now' = now + 1
  /\ UNCHANGED <<buckets, last, window>>

\* Somebody starts counting what a bucket grants.
Watch(b) ==
  /\ window' = [bucket |-> b, from |-> now, granted |-> 0]
  /\ UNCHANGED <<now, buckets, last>>

Next ==
  \/ \E path \in Paths, client \in Clients : Request(path, client)
  \/ Sweep
  \/ Tick
  \/ \E b \in Ids : Watch(b)

Spec == Init /\ [][Next]_vars

-----------------------------------------------------------------------------
(* Properties *)

TypeOK ==
  /\ now \in Nat
  /\ DOMAIN buckets \subseteq Ids
  /\ \A b \in DOMAIN buckets :
       /\ DOMAIN buckets[b] = {"tokens", "at"}
       /\ buckets[b].tokens \in 0 .. BurstOf[b]
       /\ buckets[b].at \in 0 .. now
  /\ window.bucket \in Ids /\ window.from \in 0 .. now /\ window.granted \in Nat

\* In any stretch of time a client gets at most the burst plus what the rate
\* allows for that time, however the timer deletes and requests recreate its
\* bucket (main.ts:648, 658).
WindowBound ==
  Unit * window.granted <= BurstOf[window.bucket] + RateOf[window.bucket] * (now - window.from)

\* What a bucket would hold if it were refilled now; a deleted one is full.
Level == [b \in Ids |-> Read(b).tokens]

Ideal == INSTANCE IdealBucket WITH Rate <- RateOf, Burst <- BurstOf, level <- Level

\* Lazy refill and deletion are invisible: each answer is the one a bucket
\* would give that is never deleted and fills as the time passes.
ImplementsIdeal == Ideal!Spec
=============================================================================
