------------------------------ MODULE MCDaeRun ------------------------------
(***************************************************************************)
(* An instance of DaeRun.  The plan with the best fitness is not the one   *)
(* with the least makespan: the fitness counts subplans and nodes as well. *)
(***************************************************************************)
EXTENDS DaeRun

outcome(feasible, makespan, fitness) ==
  [feasible |-> feasible, makespan |-> makespan, fitness |-> fitness]

RunOutcomes ==
  {outcome(FALSE, 0, 5), outcome(TRUE, 1, 2), outcome(TRUE, 2, 1)}

=============================================================================
