---------------------------- MODULE MCProvision ----------------------------
(* The calls of provisionPool and syncFeeRecipient of an instance. *)
EXTENDS Provision

CONSTANTS p1, p2, s1, s2
=============================================================================
