---------------------------- MODULE MCMutationReplay ----------------------------
(***************************************************************************)
(* MutationReplay for TLC: two payments, and one change of the schedule,   *)
(* which is the planning form or a cancellation for one of two reasons.    *)
(* Admins and reasons are interchangeable.                                 *)
(***************************************************************************)
EXTENDS MutationReplay, TLC

CONSTANTS Draft, Reason

MCContents == [payment_update |-> Draft, initial_schedule |-> Draft, cancel |-> Reason]
MCMaxVersion == [commercial |-> 2, schedule |-> 1]
Symmetry == Permutations(Admin) \cup Permutations(Reason)

================================================================================
