------------------------------ MODULE MCScheduler ------------------------------
(***************************************************************************)
(* Finite instances of Scheduler: the account lists of its configurations. *)
(***************************************************************************)
EXTENDS Scheduler

CONSTANTS a1, a2

OnePlan == {<<a1>>}
TwoPlan == {<<a1, a2>>}

=============================================================================
