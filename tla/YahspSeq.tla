------------------------------ MODULE YahspSeq ------------------------------
(***************************************************************************)
(* The sequential planner YAHSP (yahsp-seq.cpp, yahsp-common.cpp), as      *)
(* cpt_search calls it for the evaluation of a decomposition: best first   *)
(* search with a lookahead that applies as much as it can of a relaxed     *)
(* plan, and in the DAE build the memo of heuristic values, which outlives *)
(* the calls.                                                              *)
(***************************************************************************)
EXTENDS Strips

CONSTANTS
  Queries,    (* pairs <<goals, limit>> the callers ask for                 *)
  Mutex(_),   (* does a goal set hold two mutually exclusive fluents?       *)
  AnytimeModes, (* values of opt.anytime: does the search go on after a plan? *)
  Calls,      (* bound: number of calls of cpt_search                       *)
  Settings,   (* strategies the callers set                                 *)
  Weight,     (* yahsp_optimize_weight                                      *)
  Dae         (* is this the DAE build?                                     *)

ASSUME SeqAssumption ==
  /\ Queries \subseteq (SUBSET Fluent) \X Nat
  /\ Settings \subseteq Strategies
  /\ Calls \in Nat /\ Weight \in Nat
  /\ Dae \in BOOLEAN /\ AnytimeModes \subseteq BOOLEAN

EndOp   == 1
Applied == 0       \* a relaxed plan entry set to NULL
NoNode  == [id |-> -1]
FirstSweep == [at |-> <<1, 2>>, moved |-> FALSE]

VARIABLES
  pc,             \* control point of the call
  anytime,        \* opt.anytime
  current_state,
  goals,          \* end_action->prec
  nodes_limit,
  strategy,       \* yahsp_optimize_cost, _makespan and _aggreg_max
  memo,           \* heuristics, a partial function from states to costs
  node,           \* argument of compute_node
  son,            \* node that apply_relaxed_plan builds
  parent,         \* node yahsp_plan expands
  todo,           \* its applicable actions still to be tried, by their ids
  open_list, closed_list,
  evaluated_nodes, best_makespan,
  ainit,          \* cost of each action for node
  marked,         \* fluents the relaxed plan already gives
  relaxed_plan,
  sweep,          \* loop variables of vector_sort
  code, solution_plan,
  calls

lists  == <<open_list, closed_list>>
request == <<goals, nodes_limit, calls>>
scope  == <<anytime, request, strategy>>
answer == <<current_state, code, solution_plan>>
counts == <<evaluated_nodes, best_makespan>>
scratch == <<ainit, marked, relaxed_plan, sweep>>
walk   == <<parent, todo>>
vars   == <<pc, node, son, lists, scope, answer, counts, scratch, memo, walk>>

PrecOf(a) == IF a = EndOp THEN goals ELSE Pre[a]
AInit(finit) == [a \in Ops \cup {EndOp} |-> CostOf(strategy, finit, PrecOf(a))]

LimitHit   == evaluated_nodes >= nodes_limit

-----------------------------------------------------------------------------
(* cpt_search and yahsp_main.                                               *)

Init ==
  /\ pc = "idle"
  /\ current_state = InitState
  /\ anytime \in AnytimeModes
  /\ goals = {} /\ nodes_limit = 0 /\ strategy = "length" /\ calls = 0
  /\ memo = <<>>
  /\ node = NoNode /\ son = NoNode /\ parent = NoNode /\ todo = {}
  /\ open_list = {} /\ closed_list = {}
  /\ evaluated_nodes = 0 /\ best_makespan = MaxTime
  /\ ainit = [a \in Ops \cup {EndOp} |-> 0] /\ marked = {} /\ relaxed_plan = <<>>
  /\ sweep = FirstSweep
  /\ code = "" /\ solution_plan = NoPlan

(* yahsp_reset, at the beginning of an evaluation.                          *)
Reset ==
  /\ pc = "idle" /\ calls < Calls
  /\ current_state' = InitState
  /\ UNCHANGED <<pc, node, son, lists, scope, code, solution_plan, counts, scratch, memo, walk>>

SetStrategy(s) ==
  /\ pc = "idle" /\ calls < Calls
  /\ strategy' = s
  /\ UNCHANGED <<pc, node, son, lists, anytime, request, answer, counts, scratch, memo, walk>>

Refuse(q) ==
  /\ pc = "idle" /\ calls < Calls /\ Mutex(q[1])
  /\ code' = "GOALS_MUTEX"
  /\ calls' = calls + 1
  /\ UNCHANGED <<pc, node, son, lists, anytime, goals, nodes_limit, strategy, current_state, solution_plan,
                 counts, scratch, memo, walk>>

Call(q) ==
  /\ pc = "idle" /\ calls < Calls /\ ~Mutex(q[1])
  /\ goals' = q[1] /\ nodes_limit' = q[2]
  /\ calls' = calls + 1
  /\ evaluated_nodes' = 0 /\ best_makespan' = MaxTime
  /\ code' = "" /\ solution_plan' = NoPlan
  /\ node' = RootNode(current_state)
  /\ pc' = "compute"
  /\ UNCHANGED <<son, lists, anytime, strategy, current_state, scratch, memo, walk>>

KeepsClosed ==                                                \* mutant of Leave
  /\ pc' = "idle" /\ open_list' = {} /\ UNCHANGED closed_list
  /\ node' = NoNode /\ son' = NoNode /\ parent' = NoNode /\ todo' = {}

(* The end of yahsp_main: the lists are flushed.                            *)
Leave ==
  /\ pc' = "idle"
  /\ open_list' = {} /\ closed_list' = {}
  /\ node' = NoNode /\ son' = NoNode /\ parent' = NoNode /\ todo' = {}

PlanFound(n) ==
  /\ current_state' = n.state
  /\ solution_plan' = SolutionPlan(n, evaluated_nodes')
  /\ code' = "PLAN_FOUND"
  /\ Leave

NoPlanFound ==
  /\ code' = "NO_PLAN"
  /\ Leave
  /\ UNCHANGED <<current_state, solution_plan>>

-----------------------------------------------------------------------------
(* compute_node.                                                            *)

IsDead == ainit'[EndOp] = MaxTime
IsGoal == ainit'[EndOp] = 0

Numbered == [node EXCEPT !.id = Cardinality(closed_list)]

CloseNode ==
  /\ node' = Numbered
  /\ closed_list' = closed_list \cup {node.state}

(* It returns NULL before it evaluates the node.                            *)
Discard ==
  /\ pc = "compute"
  /\ \/ node.state \in closed_list /\ UNCHANGED <<node, closed_list>>
     \/ node.state \notin closed_list /\ (LimitHit \/ node.makespan >= best_makespan) /\ CloseNode
  /\ pc' = "null"
  /\ UNCHANGED <<son, open_list, scope, answer, counts, scratch, memo, walk>>

(* compute_h1, from the memo if the state is there.                         *)
Costs(s) == IF Dae /\ s \in DOMAIN memo THEN memo[s] ELSE H1[strategy, s]
Remembered(s) == [t \in DOMAIN memo \cup {s} |-> IF t = s THEN Costs(s) ELSE memo[t]]

Evaluate ==
  /\ pc = "compute" /\ node.state \notin closed_list
  /\ ~LimitHit /\ node.makespan < best_makespan
  /\ evaluated_nodes' = evaluated_nodes + 1
  /\ ainit' = AInit(Costs(node.state))
  /\ memo' = IF Dae THEN Remembered(node.state) ELSE memo
  /\ UNCHANGED scope
  /\ \/ /\ IsGoal /\ ~anytime /\ PlanFound(Numbered)
        /\ UNCHANGED <<best_makespan, marked, relaxed_plan, sweep>>
     \/ /\ IsDead /\ CloseNode /\ pc' = "null"
        /\ UNCHANGED <<son, open_list, answer, best_makespan, marked, relaxed_plan, sweep, walk>>
     \/ /\ IsGoal /\ anytime /\ CloseNode /\ pc' = "null"
        /\ best_makespan' = node.makespan
        /\ UNCHANGED <<son, open_list, answer, marked, relaxed_plan, sweep, walk>>
     \/ /\ ~IsDead /\ ~IsGoal /\ CloseNode /\ pc' = "extract"
        /\ marked' = node.state
        /\ relaxed_plan' = <<EndOp>>
        /\ UNCHANGED <<son, open_list, answer, best_makespan, sweep, walk>>

-----------------------------------------------------------------------------
(* compute_relaxed_plan.                                                    *)

Producers(f) == {a \in Ops : f \in Add[a]}

(* The next fluent a chosen action needs gets its best producer.            *)
Extract ==
  /\ pc = "extract"
  /\ \E i \in 1 .. Len(relaxed_plan) :
       /\ \A j \in 1 .. i - 1 : PrecOf(relaxed_plan[j]) \subseteq marked
       /\ \E f \in PrecOf(relaxed_plan[i]) \ marked :
          \E best \in BestOf(strategy, ainit, Producers(f)) :
            /\ marked' = marked \cup {f}
            /\ relaxed_plan' = IF best \in ToSet(relaxed_plan) THEN relaxed_plan
                               ELSE Append(relaxed_plan, best)
  /\ UNCHANGED <<pc, node, son, lists, scope, answer, counts, ainit, sweep, memo, walk>>

Extracted ==
  /\ pc = "extract"
  /\ \A i \in 1 .. Len(relaxed_plan) : PrecOf(relaxed_plan[i]) \subseteq marked
  /\ pc' = "sort" /\ sweep' = FirstSweep
  /\ UNCHANGED <<node, son, lists, scope, answer, counts, ainit, marked, relaxed_plan, memo, walk>>

(* end_action deletes nothing.                                              *)
DeletesOf(a) == IF a = EndOp THEN {} ELSE Del[a]
Spoils(a, b) == DeletesOf(a) \cap PrecOf(b) # {}

EitherSpoils(a, b) ==                                          \* mutant of Sooner
  ainit[a] < ainit[b] \/ (ainit[a] = ainit[b] /\ Spoils(b, a))

(* cmp_actions: the cheapest first, then the one the other would spoil.     *)
Sooner(a, b) ==
  \/ ainit[a] < ainit[b]
  \/ ainit[a] = ainit[b] /\ Spoils(b, a) /\ ~Spoils(a, b)

(* The loops of vector_sort, which sweeps over all pairs of entries until a
   sweep exchanges nothing.  sweep.at is the next pair.                     *)
Pairs == {p \in (1 .. Len(relaxed_plan)) \X (1 .. Len(relaxed_plan)) : p[1] < p[2]}
NotBefore(p, q) == p[1] > q[1] \/ (p[1] = q[1] /\ p[2] >= q[2])
ToExchange == {p \in Pairs : /\ NotBefore(p, sweep.at)
                             /\ Sooner(relaxed_plan[p[2]], relaxed_plan[p[1]])}

Exchange ==
  /\ pc = "sort"
  /\ \E p \in ToExchange :
       /\ \A q \in ToExchange : NotBefore(q, p)
       /\ relaxed_plan' = [relaxed_plan EXCEPT ![p[1]] = relaxed_plan[p[2]],
                                              ![p[2]] = relaxed_plan[p[1]]]
       /\ sweep' = [at |-> <<p[1], p[2] + 1>>, moved |-> TRUE]
  /\ UNCHANGED <<pc, node, son, lists, scope, answer, counts, ainit, marked, memo, walk>>

SweepAgain ==
  /\ pc = "sort" /\ ToExchange = {} /\ sweep.moved
  /\ sweep' = FirstSweep
  /\ UNCHANGED <<pc, node, son, lists, scope, answer, counts, ainit, marked, relaxed_plan, memo, walk>>

GValue(n) == CASE strategy = "cost" -> n.cost [] strategy = "length" -> n.length
               [] OTHER -> n.makespan

(* The relaxed plan is sorted: open_list_insert, and apply_relaxed_plan
   derives a node from the one inserted.                                    *)
OpenInsert ==
  /\ pc = "sort" /\ ToExchange = {} /\ ~sweep.moved
  /\ node' = [node EXCEPT !.fvalue = GValue(node) + ainit[EndOp] * Weight]
  /\ open_list' = open_list \cup {node'}
  /\ son' = NodeDerive(node')
  /\ pc' = "apply"
  /\ UNCHANGED <<closed_list, scope, answer, counts, scratch, memo, walk>>

-----------------------------------------------------------------------------
(* apply_relaxed_plan.                                                      *)

Applicable(i) == relaxed_plan[i] \notin {Applied, EndOp} /\ CanApply(son.state, relaxed_plan[i])

FirstApplicable(i) == Applicable(i) /\ \A j \in 1 .. i - 1 : ~Applicable(j)

KeepsEntry(i) == relaxed_plan                            \* mutant of ClearEntry
ClearEntry(i) == [relaxed_plan EXCEPT ![i] = Applied]

(* The first entry that can be applied is; a node above the bound is freed
   and the lookahead gives NULL.                                            *)
ApplyNext ==
  /\ pc = "apply"
  /\ \E i \in 1 .. Len(relaxed_plan) :
       /\ FirstApplicable(i)
       /\ relaxed_plan' = ClearEntry(i)
       /\ LET n == ApplyAction(son, relaxed_plan[i])
          IN IF n.makespan > best_makespan
             THEN son' = NoNode /\ pc' = "null"
             ELSE son' = n /\ UNCHANGED pc
  /\ UNCHANGED <<node, lists, scope, answer, counts, ainit, marked, sweep, memo, walk>>

(* Producers that can replace entry i, whose effect f entry j waits for.
   The DAE build looks for f in the node, the others in the son.            *)
Substitutes(i, j, f) ==
  LET a == relaxed_plan[i]
      b == relaxed_plan[j]
  IN IF \/ {a, b} \cap {Applied, EndOp} # {} \/ a = b
        \/ f \notin Add[a] \cap Pre[b]
        \/ f \in (IF Dae THEN node.state ELSE son.state)
     THEN {}
     ELSE {p \in Producers(f) \ {a, b} : CanApply(son.state, p)}

Entries == (1 .. Len(relaxed_plan)) \X (1 .. Len(relaxed_plan))
Repairs == {ij \in Entries : \E f \in Fluent : Substitutes(ij[1], ij[2], f) # {}}

Repair ==
  /\ pc = "apply" /\ \A i \in 1 .. Len(relaxed_plan) : ~Applicable(i)
  /\ \E ij \in Repairs :
       /\ \A kl \in Repairs : ij[1] < kl[1] \/ (ij[1] = kl[1] /\ ij[2] <= kl[2])
       /\ \E f \in Fluent : \E best \in BestOf(strategy, ainit, Substitutes(ij[1], ij[2], f)) :
            relaxed_plan' = [relaxed_plan EXCEPT ![ij[1]] = best]
  /\ UNCHANGED <<pc, node, son, lists, scope, answer, counts, ainit, marked, sweep, memo, walk>>

(* Nothing to apply and nothing to repair: compute_node of the result.      *)
Lookahead ==
  /\ pc = "apply" /\ \A i \in 1 .. Len(relaxed_plan) : ~Applicable(i)
  /\ Repairs = {}
  /\ node' = son
  /\ pc' = "compute"
  /\ UNCHANGED <<son, lists, scope, answer, counts, scratch, memo, walk>>

-----------------------------------------------------------------------------
(* yahsp_plan.                                                              *)

(* open_list_cmp.  Under "cost" it prefers the higher cost.                 *)
Before(m, n) ==
  LET tie(x) == CASE strategy = "cost" -> -x.cost [] strategy = "length" -> x.length
                  [] OTHER -> x.makespan
  IN \/ m.fvalue < n.fvalue
     \/ m.fvalue = n.fvalue /\ tie(m) < tie(n)
     \/ m.fvalue = n.fvalue /\ tie(m) = tie(n) /\ m.id < n.id

(* compute_node gave NULL: back in the loop over the applicable actions, if
   there is one, the limit is tested.                                       *)
Null ==
  /\ pc = "null"
  /\ IF parent # NoNode /\ LimitHit
     THEN NoPlanFound
     ELSE /\ pc' = IF parent = NoNode THEN "pop" ELSE "expand"
          /\ node' = NoNode /\ son' = NoNode
          /\ UNCHANGED <<lists, answer, walk>>
  /\ UNCHANGED <<scope, counts, scratch, memo>>

HelpfulActions(s) ==                              \* mutant of ApplicableActions
  {a \in ToSet(relaxed_plan) \ {Applied, EndOp} : CanApply(s, a)}

ApplicableActions(s) == {a \in Ops : CanApply(s, a)}

Pop ==
  /\ pc = "pop"
  /\ \/ /\ open_list = {} /\ NoPlanFound
     \/ /\ pc' = "expand"
        /\ \E n \in open_list :
             /\ \A m \in open_list \ {n} : Before(n, m)
             /\ open_list' = open_list \ {n}
             /\ parent' = n
             /\ todo' = ApplicableActions(n.state)
        /\ UNCHANGED <<node, son, closed_list, answer>>
  /\ UNCHANGED <<scope, counts, scratch, memo>>

TryAction ==
  /\ pc = "expand" /\ todo # {}
  /\ node' = ApplyAction(NodeDerive(parent), Min(todo))
  /\ todo' = todo \ {Min(todo)}
  /\ pc' = "compute"
  /\ UNCHANGED <<son, parent, lists, scope, answer, counts, scratch, memo>>

Expanded ==
  /\ pc = "expand" /\ todo = {}
  /\ parent' = NoNode
  /\ pc' = "pop"
  /\ UNCHANGED <<node, son, todo, lists, scope, answer, counts, scratch, memo>>

Step ==
  \/ Discard \/ Evaluate
  \/ Extract \/ Extracted \/ Exchange \/ SweepAgain \/ OpenInsert
  \/ ApplyNext \/ Repair \/ Lookahead
  \/ Null \/ Pop \/ TryAction \/ Expanded

Next ==
  \/ Reset
  \/ \E s \in Settings : SetStrategy(s)
  \/ \E q \in Queries : Refuse(q) \/ Call(q)
  \/ Step

Spec     == Init /\ [][Next]_vars
FairSpec == Spec /\ WF_vars(Step)

=============================================================================
