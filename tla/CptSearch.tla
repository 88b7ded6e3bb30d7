----------------------------- MODULE CptSearch -----------------------------
(***************************************************************************)
(* One call of CPT (cpt_main, src/cpt-yahsp/src/solve.cpp): create_problem,*)
(* then cpt_search.  After a first propagation, the least makespan is      *)
(* looked for between two bounds: for each bound a world is opened, the    *)
(* date of End is bounded, and a depth first search (branching.cpp) orders *)
(* threats, chooses supports and orders mutex actions until nothing is left*)
(* to decide.  A contradiction goes back to the last world opened, or to   *)
(* that of the search when the limit of backtracks is reached, for another *)
(* try with a higher limit.                                                *)
(*                                                                         *)
(* A world is the record of the structures when it was opened: going back  *)
(* gives back exactly that (CptKernelProof!WorldIsRestored), except for the*)
(* events, which raz_event_queues drops.  What the heuristics prefer, and  *)
(* the random numbers of the restarts, are free choices here.              *)
(***************************************************************************)
EXTENDS CptPropagation

CONSTANTS
  Options,      (* heuristic (-i), distances (-d), supporters (without -B),
                   boosting (without -D), limit: what limits backtracks     *)
  MaxMakespan,  (* -m                                                       *)
  MaxBacktracks, (* -X                                                      *)
  FirstLimit, Increment, MaxTries, (* -r: restarts_init, its increment, max_tries *)
  Unlimited     (* ULONG_MAX                                                *)

ASSUME SearchAssumption ==
  /\ MaxMakespan \in 0 .. MaxTime - 1 /\ {MaxBacktracks, FirstLimit, MaxTries} \subseteq Nat \ {0}
  /\ Increment \in Nat \ {0} /\ Unlimited \in Nat
  /\ \A P \in Problems : \A a \in DOMAIN P.prec \ {Start} : P.prec[a] # {}
  /\ \A o \in Options : o.limit \in {"none", "restarts", "all"}

VARIABLES
  problem,      (* what instantiate_operators gave                          *)
  option,       (* the command line                                         *)
  pc,
  S,            (* the structures of the search                             *)
  worlds,       (* wstack: the worlds open                                  *)
  bound, dic_lower, dic_upper,
  limit,        (* wstack.backtrack_limit                                   *)
  backtracks,   (* wstack.backtracks_run                                    *)
  tries,        (* of solve2                                                *)
  solution_plan,
  answer        (* what cpt_search returned                                 *)

search == <<bound, dic_lower, dic_upper, limit, backtracks, tries>>
vars == <<problem, option, data, pc, S, worlds, search, solution_plan, answer>>

NoPlan == [dates |-> <<>>, makespan |-> MaxTime]

Init ==
  /\ problem \in Problems /\ option \in Options
  /\ data = NewData(problem)
  /\ pc = "reachable"
  /\ S = [fail |-> FALSE] /\ worlds = <<>>
  /\ bound = 0 /\ dic_lower = 0 /\ dic_upper = 0
  /\ limit = 0 /\ backtracks = 0 /\ tries = 0
  /\ solution_plan = NoPlan /\ answer = ""

-----------------------------------------------------------------------------
(* create_problem.                                                          *)

Create(from, to, new) ==
  /\ pc = from /\ pc' = to
  /\ data' = new
  /\ UNCHANGED <<problem, option, S, worlds, search, solution_plan, answer>>

Prune(from, to, new) ==
  /\ pc = from
  /\ data' = new
  /\ IF Unsolvable(new)
       THEN pc' = "answered" /\ answer' = "NO_PLAN"
       ELSE pc' = to /\ UNCHANGED answer
  /\ UNCHANGED <<problem, option, S, worlds, search, solution_plan>>

Reachable == Create("reachable", "relevant", ComputeReachable(data))
Relevant  == Create("relevant", "keep", ComputeRelevant(data))
Keep      == Prune("keep", "bound", KeepReachable(data))
Bound     == Create("bound", "edeletes", InitialHeuristic(data, option.heuristic))
EDeletes  == Create("edeletes", "refresh", CreateEdeletes(ComputeMutexes(data)))
Refresh   == Prune("refresh", "distances", CreateMutexes(KeepReachable(data)))

ComputeDistances ==
  Create("distances", "finalize", [data EXCEPT !.dist = Distances(data, option.distances)])

FinalizeStructures == Create("finalize", "variables", Finalize(data))

Make(from, to, new, dist) ==
  /\ pc = from /\ pc' = to
  /\ S' = new
  /\ data' = [data EXCEPT !.dist = dist]
  /\ UNCHANGED <<problem, option, worlds, search, solution_plan, answer>>

CreateVariables == Make("variables", "supporters", NewVariables, data.dist)

PruneSupporters ==
  Make("supporters", "boosting", IF option.supporters THEN BadSupporters(S) ELSE S, data.dist)

BoostDistances ==
  /\ pc = "boosting"
  /\ \E new \in {IF option.boosting THEN DistanceBoosting(S) ELSE [S |-> S, dist |-> data.dist]} :
       Make("boosting", "restrict", new.S, new.dist)

-----------------------------------------------------------------------------
(* cpt_search.                                                              *)

FirstPropagation ==
  /\ pc = "restrict" /\ pc' = "first"
  /\ S' = RestrictProblem(S, MaxMakespan)
  /\ UNCHANGED <<problem, option, data, worlds, search, solution_plan, answer>>

Propagating == pc \in {"first", "search"} /\ ~S.fail

(* propagate(): one event.                                                  *)
PropagateEvent ==
  /\ Propagating /\ ~NoEvent(S)
  /\ S' = NextEvent(S)
  /\ UNCHANGED <<problem, option, data, pc, worlds, search, solution_plan, answer>>

(* more_propagations.                                                       *)
MorePropagations ==
  /\ pc = "first" /\ Propagating /\ NoEvent(S)
  /\ S' = GlobalMutexSets(S)
  /\ pc' = IF S'.fail \/ ~NoEvent(S') THEN pc ELSE "begin"
  /\ UNCHANGED <<problem, option, data, worlds, search, solution_plan, answer>>

Return(code) == pc' = "answered" /\ answer' = code

InitialContradiction ==
  /\ pc = "first" /\ S.fail
  /\ Return("INIT_PROP_FAILED")
  /\ UNCHANGED <<problem, option, data, S, worlds, search, solution_plan>>

Begin ==
  /\ pc = "begin" /\ pc' = "open"
  /\ bound' = S.inf[Date(End)] /\ dic_lower' = bound' /\ dic_upper' = bound'
  /\ limit' = IF option.limit = "all" THEN MaxBacktracks ELSE Unlimited
  /\ backtracks' = 0
  /\ S' = [S EXCEPT !.first = FALSE]
  /\ UNCHANGED <<problem, option, data, worlds, tries, solution_plan, answer>>

(* Twice the mean duration of the actions.                                  *)
Mean ==
  LET n == Cardinality(RealActions(data))
      total == FoldSet(LAMBDA a, t : t + data.dur[a], 0, RealActions(data))
  IN IF n = 0 THEN 0 ELSE (total + n - 1) \div n
dic_increment == 2 * Max2(Mean, 1)

World(kind, choice) == [kind |-> kind, S |-> S, choice |-> choice]
NoChoice == <<>>
Top == worlds[Len(worlds)]

(* The world of a bound.                                                    *)
OpenBound ==
  /\ pc = "open" /\ pc' = "opened"
  /\ worlds' = <<World("bound", NoChoice)>>
  /\ S' = ComputeRelevance(UpdateSup(S, Date(End), bound), bound)
  /\ UNCHANGED <<problem, option, data, search, solution_plan, answer>>

SetLimit(n) == limit' = n /\ backtracks' = 0

(* solve2: its first world.                                                 *)
Solve ==
  /\ pc = "opened" /\ ~S.fail /\ pc' = "search"
  /\ worlds' = Append(worlds, World("run", NoChoice))
  /\ tries' = MaxTries
  /\ IF option.limit = "restarts" THEN SetLimit(FirstLimit) ELSE UNCHANGED <<limit, backtracks>>
  /\ UNCHANGED <<problem, option, data, S, bound, dic_lower, dic_upper, solution_plan, answer>>

(* What there is to decide: a threat on a causal link, a support, an order. *)
Threats ==
  {<<c, a>> \in ToSet(S.active_causals) \X S.used :
     /\ FluentOf(c) \in data.edel[a] /\ a # Owner(c)
     /\ ~CanPrecede(S, Owner(c), a) /\ ~CanPrecedeAC(S, a, c)}

OpenSupports == {c \in ToSet(S.active_causals) : ~IsProduced(S, c)}

Position(a) == CHOOSE i \in DOMAIN S.active_actions : S.active_actions[i] = a

MutexPairs ==
  {<<a, b>> \in S.used \X S.used :
     /\ Position(a) < Position(b) /\ Mutex(a, b)
     /\ ~CanPrecede(S, a, b) /\ ~CanPrecede(S, b, a)}

Branch(choice) ==
  /\ worlds' = Append(worlds, World("choice", choice))
  /\ S' = Decide(S, choice, choice.direction)
  /\ UNCHANGED <<problem, option, data, pc, search, solution_plan, answer>>

Choice(type, x, y, direction) == [type |-> type, x |-> x, y |-> y, direction |-> direction]

Settled == pc = "search" /\ Propagating /\ NoEvent(S)

ChooseConflict ==
  /\ Settled
  /\ \E q \in Threats, d \in BOOLEAN : Branch(Choice("conflict", q[1], q[2], d))

ChooseSupport ==
  /\ Settled /\ Threats = {}
  /\ \E c \in OpenSupports : \E p \in S.support[c] : Branch(Choice("support", c, p, TRUE))

ChooseMutex ==
  /\ Settled /\ Threats = {} /\ OpenSupports = {}
  /\ \E q \in MutexPairs, d \in BOOLEAN : Branch(Choice("mutex", q[1], q[2], d))

-----------------------------------------------------------------------------
(* contradiction().                                                         *)

LimitReached == backtracks >= limit

Restored(w) == RazEvents(w.S)

Backtrack ==
  /\ pc = "search" /\ S.fail
  /\ Top.kind = "choice" /\ ~LimitReached
  /\ backtracks' = backtracks + 1
  /\ worlds' = Front(worlds)
  /\ S' = Decide(Restored(Top), Top.choice, ~Top.choice.direction)
  /\ UNCHANGED <<problem, option, data, pc, bound, dic_lower, dic_upper, limit, tries,
                 solution_plan, answer>>

(* Down to the first world of solve2.                                       *)
LeaveRun ==
  /\ pc = "search" /\ S.fail
  /\ LimitReached \/ Top.kind = "run"
  /\ worlds' = <<worlds[1]>>
  /\ S' = Restored(worlds[2])
  /\ pc' = "failed"
  /\ UNCHANGED <<problem, option, data, search, solution_plan, answer>>

Restarting == LimitReached /\ option.limit = "restarts"

Restart ==
  /\ pc = "failed" /\ Restarting /\ pc' = "search"
  /\ tries' = tries - 1
  /\ SetLimit(IF tries' = 0 THEN Unlimited ELSE limit + Increment)
  /\ worlds' = Append(worlds, World("run", NoChoice))
  /\ UNCHANGED <<problem, option, data, S, bound, dic_lower, dic_upper, solution_plan, answer>>

(* The bound is refused, by its first propagation or by solve2.             *)
RefuseBound ==
  /\ \/ pc = "opened" /\ S.fail
     \/ pc = "failed" /\ ~Restarting
  /\ pc' = "closed"
  /\ S' = Restored(worlds[1]) /\ worlds' = <<>>
  /\ dic_upper' = IF solution_plan = NoPlan
                    THEN Min2(bound + dic_increment, 2 * MaxMakespan - bound)
                    ELSE dic_upper
  /\ dic_lower' = bound
  /\ UNCHANGED <<problem, option, data, bound, limit, backtracks, tries, solution_plan, answer>>

(* Nothing is left to decide: plan_save, and back to the world of the bound. *)
SavePlan ==
  /\ Settled /\ Threats = {} /\ OpenSupports = {} /\ MutexPairs = {}
  /\ solution_plan' = [dates    |-> [a \in S.used \cap RealActions(data) |-> S.inf[Date(a)]],
                       makespan |-> S.inf[Date(End)]]
  /\ dic_upper' = Max2(S.inf[Date(End)], dic_lower)
  /\ S' = Restored(worlds[1]) /\ worlds' = <<>>
  /\ pc' = "closed"
  /\ UNCHANGED <<problem, option, data, bound, dic_lower, limit, backtracks, tries, answer>>

GiveUp == option.limit = "all" /\ LimitReached

BoundsCross == dic_upper - dic_lower <= 0                  \* mutant of BoundsMeet

BoundsMeet == dic_upper - dic_lower <= 1

(* The end of a turn of the loop of cpt_search.                             *)
TooManyBacktracks ==
  /\ pc = "closed" /\ GiveUp
  /\ Return("BACKTRACK_LIMIT")
  /\ UNCHANGED <<problem, option, data, S, worlds, search, solution_plan>>

Conclude ==
  /\ pc = "closed" /\ ~GiveUp /\ BoundsMeet
  /\ Return(IF solution_plan = NoPlan THEN "BOUND_LIMIT" ELSE "PLAN_FOUND")
  /\ UNCHANGED <<problem, option, data, S, worlds, search, solution_plan>>

NextBound ==
  /\ pc = "closed" /\ ~GiveUp /\ ~BoundsMeet
  /\ bound' = (dic_lower + dic_upper + 1) \div 2
  /\ pc' = "open"
  /\ UNCHANGED <<problem, option, data, S, worlds, dic_lower, dic_upper, limit, backtracks,
                 tries, solution_plan, answer>>

(* The program returns the answer.                                          *)
Done == pc = "answered" /\ UNCHANGED vars

Next ==
  \/ Reachable \/ Relevant \/ Keep \/ Bound \/ EDeletes \/ Refresh
  \/ ComputeDistances \/ FinalizeStructures
  \/ CreateVariables \/ PruneSupporters \/ BoostDistances
  \/ FirstPropagation \/ PropagateEvent \/ MorePropagations \/ InitialContradiction
  \/ Begin \/ OpenBound \/ Solve
  \/ ChooseConflict \/ ChooseSupport \/ ChooseMutex
  \/ Backtrack \/ LeaveRun \/ Restart \/ RefuseBound \/ SavePlan
  \/ TooManyBacktracks \/ Conclude \/ NextBound \/ Done

Spec == Init /\ [][Next]_vars

(* The program goes on until it has answered: WF_vars(Next), with its ENABLED
   spelled out (a step is possible in every state, which the check of
   deadlocks shows, and it changes something before the answer only).       *)
Continues == []<>(pc = "answered") \/ []<><<Next>>_vars

FairSpec == Spec /\ Continues
=============================================================================
