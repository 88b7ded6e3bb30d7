------------------------------ MODULE DaeEval ------------------------------
(***************************************************************************)
(* The life of a decomposition: it is drawn, varied, and evaluated by      *)
(* calls of the planner from goal to goal, whose plans are compressed into *)
(* one (evaluation/yahsp.h, cpt-yahsp.h, core/decomposition.h).  Planner   *)
(* says what a call does.                                                  *)
(***************************************************************************)
EXTENDS Variation

CONSTANTS
  GoalState,          (* goal_state                                         *)
  Mates,              (* goals of the other individuals of the population   *)
  BIn, BLast,         (* b_max_in, b_max_last: node limits of a call        *)
  Weight, Penalty,    (* fitness_weight and fitness_penalty                 *)
  Horizon,            (* bound: length of the plans the planner may answer  *)
  Rounds              (* bound: how often the decomposition is varied       *)

ASSUME EvalAssumption ==
  /\ GoalState \subseteq Fluent /\ ~(GoalState \subseteq InitState)
  /\ Mates \subseteq Seq(Usable) \ {<<>>}     \* they live the same life
  /\ {BIn, BLast, Weight, Penalty} \subseteq Nat \ {0}
  /\ Horizon \in Nat /\ Rounds \in Nat

VARIABLES
  pc, round,
  decompo,         \* the decomposition
  at,              \* goal the evaluation is at
  plans,           \* plans of the calls so far, for the compression
  anytime, current_state, query, code, solution_plan, evaluated    \* of the planner

planner == <<anytime, current_state, query, code, solution_plan, evaluated>>
vars == <<pc, round, decompo, at, plans, planner>>

P == INSTANCE Planner WITH
       plan <- solution_plan,
       Queries <- {}, Mutex <- Exclusive

Invalid == <<>>      \* the fitness of a decomposition that was not evaluated

(* invalidate(): the fitness, the subplans and the plan are dropped, the
   counters stay.                                                           *)
KeepsSubplans(d) == [d EXCEPT !.fitness = Invalid, !.plan = NoPlan]   \* mutant of Invalidated
Invalidated(d) == [d EXCEPT !.fitness = Invalid, !.subplans = <<>>, !.plan = NoPlan]

Init ==
  /\ pc = "evaluate" /\ round = 0 /\ at = 0 /\ plans = <<>>
  /\ decompo \in [goals : InitialGoals, fitness : {Invalid}, feasible : {FALSE},
                  subplans : {<<>>}, plan : {NoPlan}, k : {0}, u : {0}, b : {0}]
  /\ anytime = FALSE /\ current_state = InitState /\ query = <<>> /\ code = ""
  /\ solution_plan = NoPlan /\ evaluated = 0

-----------------------------------------------------------------------------
(* Variation: eoSGAGenOp crosses, or not, then mutates, or not, and
   invalidates what an operator says it has modified.                       *)

Reached == Len(decompo.subplans)

Vary(goals) == decompo' = Invalidated([decompo EXCEPT !.goals = goals])

Breed(from, to) ==
  /\ pc = from /\ pc' = to
  /\ UNCHANGED <<round, at, plans, planner>>

Cross ==
  /\ Breed("cross", "mutate")
  /\ \E mate \in Mates : \E g \in Crossed(decompo.goals, mate) : Vary(g)

(* The second of the two that are crossed is not changed, but invalidated.  *)
CrossSecond == Breed("cross", "mutate") /\ Mates # {} /\ Vary(decompo.goals)

DelGoal == Breed("mutate", "evaluate") /\ \E g \in GoalDeleted(decompo.goals, Reached) : Vary(g)
AddGoal == Breed("mutate", "evaluate") /\ \E g \in GoalAdded(decompo.goals, Reached) : Vary(g)
ChangeAddAtom == Breed("mutate", "evaluate") /\ \E g \in AtomsChanged(decompo.goals) : Vary(g)

(* MutationDelAtom does not initialise its result: a decomposition that was
   not modified is invalidated or not.                                      *)
DelAtom ==
  /\ Breed("mutate", "evaluate")
  /\ \E g \in AtomsDeleted(decompo.goals, Reached) :
       Vary(g) \/ (g = decompo.goals /\ UNCHANGED decompo)

(* The operator is not drawn, or leaves the decomposition alone.            *)
Clone ==
  /\ Breed("cross", "mutate") \/ Breed("mutate", "evaluate")
  /\ UNCHANGED decompo

-----------------------------------------------------------------------------
(* Evaluation.  A fitness is a fraction, compared after the feasibility.    *)

Stop(fitness, feasible, plan) ==
  /\ decompo' = [decompo EXCEPT !.fitness = fitness, !.feasible = feasible, !.plan = plan]
  /\ pc' = "done"

TooLong        == <<Penalty * (LMax + 1) * LMax * Weight * 2, 1>>
Intermediate(u) == <<Penalty * (LMax - u + 1) * LMax * Weight, 1>>
Final(u)        == <<Penalty * (LMax - u + 1), 1>>

(* fitness_feasible: Q + (size - u + 1) / Q + B / (l_max * b_max).          *)
Feasible(d, q) ==
  LET scale == LMax * BLast
  IN << q * q * scale + (Len(d.goals) - d.u + 1) * scale + d.b * q, q * scale >>

(* evalBestPlanDump: only an invalid decomposition is evaluated.            *)
StillValid ==
  /\ pc = "evaluate" /\ decompo.fitness # Invalid
  /\ pc' = "done"
  /\ UNCHANGED <<round, decompo, at, plans, planner>>

IsTooLong  == Len(decompo.goals) > LMax

Refused ==
  /\ pc = "evaluate" /\ decompo.fitness = Invalid /\ IsTooLong
  /\ Stop(TooLong, FALSE, NoPlan)
  /\ UNCHANGED <<round, at, plans, planner>>

Begin ==
  /\ pc = "evaluate" /\ decompo.fitness = Invalid /\ ~IsTooLong
  /\ P!Reset
  /\ decompo' = [decompo EXCEPT !.k = 0, !.u = 0, !.b = 0]
  /\ plans' = <<>> /\ at' = 1
  /\ pc' = "call"
  /\ UNCHANGED round

IsLast == at > Len(decompo.goals)

(* cpt_search, called by solve_next.                                        *)
Call ==
  LET target == IF IsLast THEN GoalState ELSE decompo.goals[at].atoms
      limit  == IF IsLast THEN BLast ELSE BIn
  IN /\ pc = "call"
     /\ IF Exclusive(target) THEN P!Refuse(<<target, limit>>) ELSE P!Ask(<<target, limit>>)
     /\ pc' = IF Exclusive(target) THEN "answered" ELSE "search"
     /\ UNCHANGED <<round, decompo, at, plans>>

(* Where the planner may get from a state, up to the bound.                 *)
NodesFrom(s) == FoldLeft(Extended, {RootNode(s)}, [i \in 1 .. Horizon |-> i])

Answer ==
  /\ pc = "search"
  /\ \/ \E n \in NodesFrom(current_state), e \in 1 .. query[2] :
          /\ evaluated' = e
          /\ solution_plan' = SolutionPlan(n, e)
          /\ current_state' = n.state
          /\ P!Found
     \/ P!NotFound
  /\ pc' = "answered"
  /\ UNCHANGED <<round, decompo, at, plans>>

Useful(plan) == plan.steps # <<>>

(* The rest of solve_next: counters, and the plan kept for the compression. *)
Record ==
  /\ pc = "answered" /\ code = "PLAN_FOUND"
  /\ decompo' = [decompo EXCEPT
                   !.k = @ + 1,
                   !.u = IF Useful(solution_plan) THEN @ + 1 ELSE @,
                   !.b = IF Useful(solution_plan) THEN @ + solution_plan.backtracks ELSE @,
                   !.subplans = Append(@, solution_plan)]
  /\ plans' = Append(plans, solution_plan)
  /\ solution_plan' = NoPlan
  /\ at' = IF IsLast THEN at ELSE at + 1
  /\ pc' = IF IsLast THEN "compress" ELSE "call"
  /\ UNCHANGED <<round, anytime, current_state, query, code, evaluated>>

(* free_yahsp_structures *)
Free ==
  /\ plans' = <<>> /\ solution_plan' = NoPlan
  /\ UNCHANGED <<round, at, anytime, current_state, query, code, evaluated>>

Fail ==
  /\ pc = "answered" /\ code # "PLAN_FOUND"
  /\ Stop(IF IsLast THEN Final(decompo.u) ELSE Intermediate(decompo.u), FALSE, NoPlan)
  /\ Free

Compress ==
  /\ pc = "compress"
  /\ LET plan == Compressed(plans)
     IN Stop(Feasible(decompo, plan.makespan), TRUE, plan)
  /\ Free

(* The decomposition is bred from again.                                    *)
Select ==
  /\ pc = "done" /\ round < Rounds
  /\ round' = round + 1
  /\ pc' = "cross"
  /\ UNCHANGED <<decompo, at, plans, planner>>

Next ==
  \/ Cross \/ CrossSecond \/ DelGoal \/ DelAtom \/ AddGoal \/ ChangeAddAtom \/ Clone
  \/ StillValid \/ Refused \/ Begin \/ Call \/ Answer \/ Record \/ Fail \/ Compress
  \/ Select

Spec == Init /\ [][Next]_vars

-----------------------------------------------------------------------------
(* Properties.                                                              *)

(* What solve asserts (yahsp.h l.115-118, 174): whatever operators were applied, a
   decomposition has goals, and a goal has atoms and no two that exclude each
   other; the planner is never asked for an impossible goal.                *)
GoalsConsistent ==
  /\ decompo.goals # <<>>
  /\ \A g \in ToSet(decompo.goals) : g.atoms # {} /\ ~Exclusive(g.atoms)

(* What random_goal and random_subset assert: the dates of goals are dates of
   the partition after the first one.  No atom of a goal is later than the
   goal, though the operators change atoms and leave the date.              *)
DatesUsable ==
  \A g \in ToSet(decompo.goals) :
    /\ g.date \in Dates \ {0}
    /\ \A f \in g.atoms : Date[f] \in Dates \ {0} /\ Date[f] <= g.date

After(i) == FoldLeft(LAMBDA s, p : Executed(s, p.steps), InitState, SubSeq(decompo.subplans, 1, i))

(* The subplans, which tell the operators how far a decomposition got, lead
   one after the other from the initial state through the goals it has now,
   as far as their order is right.                                          *)
SubplansFollow ==
  TiesInOrder =>
    \A i \in DOMAIN decompo.subplans :
      /\ After(i) # Broken
      /\ (IF i > Len(decompo.goals) THEN GoalState ELSE decompo.goals[i].atoms) \subseteq After(i)

(* A decomposition has a plan when its evaluation succeeded and it was not
   changed since; no two steps of the plan overlap of which one deletes what
   the other needs or adds, and unless ties are in the wrong order it reaches
   the goal from the initial state, in the order of its dates.              *)
PlanSound ==
  LET evaluation == decompo.fitness # Invalid /\ decompo.feasible
  IN /\ ~evaluation => decompo.plan = NoPlan
     /\ evaluation =>
          /\ \A x, y \in ToSet(decompo.plan.steps) :
               x # y /\ Threaten(x.act, y.act) =>
                 CompressedEnd(x) <= y.init \/ CompressedEnd(y) <= x.init
          /\ TiesInOrder =>
               /\ Executed(InitState, decompo.plan.steps) # Broken
               /\ GoalState \subseteq Executed(InitState, decompo.plan.steps)

=============================================================================
