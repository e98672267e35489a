----------------------------- MODULE MCDeposit -----------------------------
(* Transfer fees with and without a cap that bites. *)
EXTENDS Deposit, TLC

FeeSchedules == {[bps |-> 0, max |-> 0], [bps |-> 700, max |-> 9], [bps |-> 700, max |-> 1],
                 [bps |-> 5000, max |-> 4]}
AllWithheld == {[bps |-> 10000, max |-> 3]}
OneSchedule == {[bps |-> 700, max |-> 9]}
AnyRecipient == Permutations(Recipients)
=============================================================================
