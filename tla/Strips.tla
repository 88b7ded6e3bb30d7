------------------------------- MODULE Strips -------------------------------
(***************************************************************************)
(* The planning problem and what YAHSP computes on states and nodes        *)
(* (yahsp-common.cpp): application of an action with its earliest start,   *)
(* the heuristic h1, the order on producers, the solution plan and the     *)
(* compression of subplans.  An action is its id, a fluent a model value,  *)
(* a state the set of fluents of its bit array.  start_action has id 0 and *)
(* end_action id 1; the others are Ops.  There are no activity             *)
(* constraints.                                                            *)
(***************************************************************************)
EXTENDS Integers, Sequences, SequencesExt

CONSTANTS
  Fluent,
  Ops,         (* ids of the actions but start_action and end_action        *)
  Pre,         (* a->prec                                                   *)
  Add,         (* a->add                                                    *)
  Del,         (* a->del                                                    *)
  Dur,         (* duration(a)                                               *)
  Cost,        (* a->cost                                                   *)
  InitState,   (* init_state                                                *)
  Sequential,  (* opt.sequential                                            *)
  ActionCosts, (* action_costs && !durative_actions                         *)
  Random,      (* opt.random                                                *)
  MaxTime      (* MAXTIME                                                   *)

Strategies == {"length", "cost", "makespan_add", "makespan_max"}

ASSUME StripsAssumption ==
  /\ IsFiniteSet(Fluent) /\ "broken" \notin Fluent
  /\ IsFiniteSet(Ops) /\ Ops \subseteq Nat \ {0, 1}
  /\ Pre \in [Ops -> SUBSET Fluent]
  /\ Add \in [Ops -> SUBSET Fluent]
  /\ Del \in [Ops -> SUBSET Fluent]
  /\ Dur \in [Ops -> Nat]
  /\ Cost \in [Ops -> Nat]
  /\ InitState \subseteq Fluent
  /\ Sequential \in BOOLEAN /\ ActionCosts \in BOOLEAN
  /\ ActionCosts => Sequential       \* parse_domain sets it
  /\ Random \in BOOLEAN
  /\ MaxTime \in Nat \ {0}

StateSpace == SUBSET Fluent

(* The function f, evaluated by TLC at once and not at each use.            *)
Table(f) == CHOOSE h \in {f} : h = f

-----------------------------------------------------------------------------
(* Actions and nodes.  A node holds the steps of its whole path, the code   *)
(* one list for each ancestor; own counts those of the node itself.         *)

CanApply(s, a) == Pre[a] \subseteq s

Result(s, a) == (s \ Del[a]) \cup Add[a]

IgnoresThreats(a, b) ==                                 \* mutant of MustPrecede
  Sequential \/ Del[a] \cap (Pre[b] \cup Add[b]) # {} \/ Add[a] \cap Pre[b] # {}

(* action_must_precede.  It tests amutex too, which Descarwin turns on; but
   under yahsp no fluent has e-deleters, and two actions are then mutually
   exclusive exactly when one deletes what the other needs or adds.         *)
MustPrecede(a, b) ==
  \/ Sequential
  \/ Del[a] \cap (Pre[b] \cup Add[b]) # {}
  \/ Del[b] \cap (Pre[a] \cup Add[a]) # {}
  \/ Add[a] \cap Pre[b] # {}

StepEnd(step) == step.init + Dur[step.act]

(* The latest end of the steps that must precede a; the early exits of the
   loop only skip steps that end before the start found so far.             *)
EarliestStart(steps, a) ==
  Max({0} \cup {StepEnd(x) : x \in {y \in ToSet(steps) : MustPrecede(y.act, a)}})

RootNode(s) ==
  [state |-> s, makespan |-> 0, length |-> 0, cost |-> 0, id |-> 0,
   fvalue |-> 0, steps |-> <<>>, own |-> 0]

NodeDerive(n) == [n EXCEPT !.id = 0, !.fvalue = 0, !.own = 0]

(* node_apply_action.                                                       *)
ApplyAction(n, a) ==
  LET init == IF Sequential THEN n.length ELSE EarliestStart(n.steps, a)
  IN [n EXCEPT !.state = Result(@, a),
               !.makespan = IF Sequential THEN @ + Dur[a]
                                          ELSE Max({@, init + Dur[a]}),
               !.length = @ + 1,
               !.cost = @ + Cost[a],
               !.steps = Append(@, [act |-> a, init |-> init]),
               !.own = @ + 1]

-----------------------------------------------------------------------------
(* The heuristic h1 under a strategy: finit gives each fluent its cost.     *)

(* COST: aggregation of the costs of a set of preconditions.                *)
CostOf(strategy, finit, prec) ==
  IF strategy = "makespan_max" THEN Max({0} \cup {finit[f] : f \in prec})
  ELSE IF \E f \in prec : finit[f] = MaxTime THEN MaxTime
  ELSE MapThenSumSet(LAMBDA f : finit[f], prec)

(* INCCOST: what applying the action adds.                                  *)
Increment(strategy, a) ==
  1 + IF strategy = "cost" THEN Cost[a]
      ELSE IF strategy = "length" THEN 0 ELSE Dur[a]

(* update_cost_h1 for the fluents an action adds.                           *)
Improved(strategy, a, finit) ==
  LET cost == CostOf(strategy, finit, Pre[a])
  IN IF cost = MaxTime THEN finit
     ELSE [f \in Fluent |->
             IF f \in Add[a] THEN Min({finit[f], cost + Increment(strategy, a)}) ELSE finit[f]]

Swept(strategy, costs) == FoldSet(LAMBDA a, finit : Improved(strategy, a, finit), costs, Ops)

(* What compute_h1 computes: the least costs, which as many sweeps over the
   actions reach as there are fluents.                                      *)
InitialCosts(s) == [f \in Fluent |-> IF f \in s THEN 0 ELSE MaxTime]

LeastCosts(strategy, s) ==
  FoldSet(LAMBDA i, costs : Swept(strategy, costs), InitialCosts(s), 1 .. Cardinality(Fluent))

H1 == Table([p \in Strategies \X StateSpace |-> LeastCosts(p[1], p[2])])

(* is_best_action_rp, and the loop that keeps one of the best: the first
   one, any of them under opt.random.                                       *)
BetterProducer(strategy, ainit, a, b) ==
  LET tie(x) == IF strategy = "cost" THEN Cost[x]
                ELSE IF strategy = "length" THEN 0 ELSE Dur[x]
  IN \/ ainit[a] < ainit[b]
     \/ ainit[a] = ainit[b] /\ tie(a) < tie(b)

BestOf(strategy, ainit, prods) ==
  LET best == {a \in prods : \A b \in prods : ~BetterProducer(strategy, ainit, b, a)}
  IN IF Random \/ best = {} THEN best ELSE {Min(best)}

-----------------------------------------------------------------------------
(* Plans.                                                                   *)

(* precedes_in_plan, the order of the steps of a solution plan.             *)
StepBefore(x, y) ==
  \/ x.init < y.init
  \/ x.init = y.init /\ Dur[x.act] < Dur[y.act]
  \/ x.init = y.init /\ Dur[x.act] = Dur[y.act] /\ x.act < y.act

(* The steps up to the last one that is not after x, then x.                *)
Inserted(steps, x) ==
  InsertAt(steps, Max({0} \cup {i \in 1 .. Len(steps) : ~StepBefore(x, steps[i])}) + 1, x)

InPlanOrder(steps) == FoldLeft(Inserted, <<>>, steps)

CostAdd(steps) == FoldLeft(LAMBDA sum, x : sum + Cost[x.act], 0, steps)

(* create_solution_plan.                                                    *)
SolutionPlan(n, evaluated) ==
  LET steps == InPlanOrder(n.steps)
  IN [makespan |-> IF ActionCosts THEN CostAdd(steps) ELSE n.makespan,
      steps |-> steps, backtracks |-> evaluated]

KeepsStart(steps, x) == Append(steps, x)                  \* mutant of CompressStep

(* One step of yahsp_compress_plans: start after the steps put before it
   that must precede it.  A sequential plan counts its steps from 1.        *)
CompressStep(steps, x) ==
  Append(steps, [act |-> x.act,
                 init |-> IF Sequential THEN Len(steps) + 1
                                        ELSE EarliestStart(steps, x.act)])

CompressedEnd(step) == IF Sequential THEN step.init + 1 ELSE StepEnd(step)

Joined(steps, plan) == FoldLeft(CompressStep, steps, plan.steps)

Compressed(plans) ==
  LET steps == FoldLeft(Joined, <<>>, plans)
  IN [makespan |-> IF ActionCosts THEN CostAdd(steps)
                   ELSE Max({0} \cup {CompressedEnd(x) : x \in ToSet(steps)}),
      steps |-> InPlanOrder(steps), backtracks |-> 0]

-----------------------------------------------------------------------------
(* What plans are meant for: reference definitions for the properties.      *)

NoPlan == [makespan |-> 0, steps |-> <<>>, backtracks |-> 0]

(* The state a plan leads to, or Broken if an action cannot be applied.     *)
Broken == {"broken"}

Executed(s, steps) ==
  FoldLeft(LAMBDA t, x : IF t # Broken /\ CanApply(t, x.act) THEN Result(t, x.act) ELSE Broken,
           s, steps)

(* Steps of length zero at one date are listed by their ids, whatever order
   they were applied in; where one must precede the other, that is the right
   order if the ids say so.  Under opt.sequential no two dates are the same. *)
TiesInOrder ==
  Sequential \/ \A a, b \in Ops : Dur[a] = 0 /\ Dur[b] = 0 /\ MustPrecede(a, b) => a <= b

Rearranged(steps, order) == [i \in DOMAIN steps |-> steps[order[i]]]

(* The steps of a plan lead from s to t, in the order the plan lists them
   unless ties may be in the wrong order.                                   *)
LeadsTo(s, steps, t) ==
  IF TiesInOrder THEN Executed(s, steps) = t
  ELSE \E order \in Bijection(DOMAIN steps, DOMAIN steps) : Executed(s, Rearranged(steps, order)) = t

(* One deletes what the other needs or adds.                                *)
Threaten(a, b) ==
  \/ Del[a] \cap (Pre[b] \cup Add[b]) # {}
  \/ Del[b] \cap (Pre[a] \cup Add[a]) # {}

(* States that applicable actions lead to.                                  *)
Spread(known) ==
  known \cup UNION {{Result(t, a) : a \in {b \in Ops : CanApply(t, b)}} : t \in known}

StatesFrom(s) == FoldSet(LAMBDA i, known : Spread(known), {s}, 1 .. Cardinality(StateSpace))

(* What could hold some day if nothing were deleted: the least set of fluents
   with those of the state that no action leads out of.                      *)
Attainable ==
  Table([s \in StateSpace |->
           {f \in Fluent :
              \A t \in StateSpace :
                s \subseteq t /\ (\A a \in Ops : CanApply(t, a) => Add[a] \subseteq t) => f \in t}])

(* Nodes, and those an action further.                                      *)
Extended(nodes, i) ==
  nodes \cup UNION {{ApplyAction(n, a) : a \in {b \in Ops : CanApply(n.state, b)}} : n \in nodes}

Reachable(s, goals) == \E t \in StatesFrom(s) : goals \subseteq t

=============================================================================
