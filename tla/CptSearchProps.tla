--------------------------- MODULE CptSearchProps ---------------------------
(***************************************************************************)
(* What a call of CPT promises, against all the canonical plans of the     *)
(* problem: those that execute no action twice, which is what CPT searches *)
(* without clones.                                                         *)
(***************************************************************************)
EXTENDS CptSearch

Real(P) == DOMAIN P.prec \ {Start, End}

(* A plan gives a date to each of its actions.                              *)
PlanEnd(P, plan, a)  == plan[a] + P.dur[a]
Before(P, plan, a, b) == PlanEnd(P, plan, a) <= plan[b]

Makespan(P, plan) ==
  CHOOSE t \in {0} \cup {PlanEnd(P, plan, a) : a \in DOMAIN plan} :
    \A a \in DOMAIN plan : PlanEnd(P, plan, a) <= t

Interfere(P, a, b) ==
  P.del[a] \cap (P.prec[b] \cup P.add[b]) # {} \/ P.del[b] \cap (P.prec[a] \cup P.add[a]) # {}

(* f holds at the date t, from the last action before that changes it.      *)
Holds(P, plan, f, t) ==
  LET past == {a \in DOMAIN plan : PlanEnd(P, plan, a) <= t}
      gives(a) == a \in past /\ f \in P.add[a]
      takes(a) == a \in past /\ f \in P.del[a]
  IN \/ f \in P.add[Start] /\ \A a \in past : ~takes(a)
     \/ \E a \in past : gives(a) /\ \A b \in past : takes(b) => Before(P, plan, b, a)

Valid(P, plan) ==
  /\ \A a, b \in DOMAIN plan :
       a # b /\ Interfere(P, a, b) => Before(P, plan, a, b) \/ Before(P, plan, b, a)
  /\ \A a \in DOMAIN plan : \A f \in P.prec[a] : Holds(P, plan, f, plan[a])
  /\ \A f \in P.prec[End] : Holds(P, plan, f, Makespan(P, plan))

Plans(P) == UNION {[A -> 0 .. MaxMakespan - 1] : A \in SUBSET Real(P)}

(* Within MaxMakespan, or MaxTime.                                          *)
LeastMakespan(P) ==
  LET lengths == {Makespan(P, plan) : plan \in {q \in Plans(P) : Valid(P, q)}}
  IN CHOOSE t \in (lengths \cap 0 .. MaxMakespan) \cup {MaxTime} : \A u \in lengths : t <= u

(* The states that sequences of actions reach: as many as there are states is
   long enough.                                                             *)
Apply(P, s, a) == IF P.prec[a] \subseteq s THEN (s \ P.del[a]) \cup P.add[a] ELSE s

Reach(P) ==
  LET fluents == UNION {P.prec[a] \cup P.add[a] : a \in DOMAIN P.prec}
      after[n \in Nat] ==
        IF n = 0 THEN {P.add[Start]}
        ELSE UNION {{s, Apply(P, s, a)} : s \in after[n - 1], a \in Real(P)}
  IN after[2 ^ Cardinality(fluents)]

(* What each problem is compared with.                                      *)
References ==
  {[problem |-> P, optimum |-> LeastMakespan(P), states |-> Reach(P)] :
     P \in Problems}

Reference       == CHOOSE r \in References : r.problem = problem
Optimum         == Reference.optimum
ReachableStates == Reference.states

-----------------------------------------------------------------------------
(* The properties.                                                          *)

(* The mutexes that ComputeMutexes and finalize_structures compute, and the
   deletes in effect that follow, are true of the problem: no state that the
   actions reach holds two fluents that are mutex, and no fluent of edel
   survives the action.  They are computed by fixpoints whose worklist must
   not forget an action, and twice, on what is kept of the problem; a mutex
   that is not one makes the search exclude plans.                          *)
MutexesSound ==
  \A s \in ReachableStates :
    /\ \A m \in data.fmutex : ~(m \subseteq s)
    /\ \A a \in data.acts \cap Real(problem) :
         problem.prec[a] \subseteq s => data.edel[a] \cap (s \ problem.del[a]) = {}

(* The plan that is kept is a plan, with the makespan that is said.         *)
PlanKept ==
  solution_plan # NoPlan =>
    /\ DOMAIN solution_plan.dates \subseteq Real(problem)
    /\ Valid(problem, solution_plan.dates)
    /\ Makespan(problem, solution_plan.dates) = solution_plan.makespan

(* After each bound, no plan is as short as dic_lower, unless it is the bound
   of the first propagation and a plan has been found there, and the best one
   is at most dic_upper when there is a plan.                               *)
BoundsBracket ==
  pc = "closed" /\ ~GiveUp =>
    /\ dic_lower < Optimum \/ solution_plan.makespan = dic_lower
    /\ solution_plan # NoPlan => Optimum <= dic_upper

(* A plan that is returned is optimal, and without a plan there is none.    *)
AnswerJustified ==
  /\ answer = "PLAN_FOUND" => solution_plan.makespan = Optimum
  /\ answer \in {"NO_PLAN", "INIT_PROP_FAILED", "BOUND_LIMIT"} => Optimum = MaxTime

(* CPT is an optimal planner: whatever the heuristics prefer, with restarts
   or not, the propagations that prune the domains, the three kinds of
   choices, the way back to earlier worlds and the dichotomy on the bound
   lose no shorter plan and keep no plan that does not execute.             *)
AnswerRight == PlanKept /\ BoundsBracket /\ AnswerJustified

(* cpt_search returns: each bound is decided, and the bounds get closer.    *)
Finishes == <>(pc = "answered")
=============================================================================
