----------------------------- MODULE MCRateLimit -----------------------------
(* The limiter with one path of its own and two that share a bucket. *)
EXTENDS RateLimit

CONSTANTS relay, config, pools, anyPath

\* /relay refills by half a request per tick, the rest by a whole one.
MCRate == [c \in {relay, anyPath} |-> IF c = relay THEN 1 ELSE 2]
MCBurst == [c \in {relay, anyPath} |-> IF c = relay THEN 4 ELSE 6]
=============================================================================
