------------------------------ MODULE MCRelay ------------------------------
(* Two requests that share a note. *)
EXTENDS Relay

CONSTANTS r1, r2, n1, n2

MCNotesOf == [r \in {r1, r2} |-> IF r = r1 THEN {n1} ELSE {n1, n2}]
OneNote == [r \in {r1} |-> {n1}]
=============================================================================
