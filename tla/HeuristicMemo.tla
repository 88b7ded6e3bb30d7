--------------------------- MODULE HeuristicMemo ---------------------------
(***************************************************************************)
(* compute_h1 (yahsp-common.cpp) and the memo of its results               *)
(* (yahsp-dae.cpp), as the threads of the evaluation use them in the build *)
(* with OpenMP: each thread sets the strategy for its decomposition and    *)
(* computes costs.  The arrays and end_action belong to the thread; the    *)
(* memo, behind its lock, and the three flags of the strategy are shared.  *)
(***************************************************************************)
EXTENDS Strips

CONSTANTS
  Threads,
  Tasks,      (* records of a state, goals and a strategy to work under     *)
  Runs        (* bound: computations of a thread                            *)

ASSUME MemoAssumption ==
  /\ \A x \in Tasks : x.state \in StateSpace /\ x.goals \subseteq Fluent /\ x.strategy \in Strategies
  /\ Runs \in Nat

EndOp == 1

VARIABLES
  flags,      \* yahsp_optimize_cost, _makespan and _aggreg_max
  memo,       \* heuristics
  pc, task,
  writes,     \* flags of the strategy still to be written
  finit, ainit, aused, applicable,
  place,      \* action the sweep is at
  loop,       \* did the sweep improve a cost?
  runs

vars == <<flags, memo, pc, task, writes, finit, ainit, aused, applicable, place, loop, runs>>
arrays == <<finit, ainit, aused, applicable>>

PrecOf(t, a) == IF a = EndOp THEN task[t].goals ELSE Pre[a]

(* What the flags make of COST and INCCOST.                                 *)
CostNow(t, costs, a) ==
  CostOf(IF flags["aggreg"] THEN "makespan_max" ELSE "makespan_add", costs, PrecOf(t, a))
IncrementNow(a) ==
  Increment(IF flags["cost"] THEN "cost" ELSE IF flags["makespan"] THEN "makespan_add" ELSE "length", a)

(* The assignments of yahsp_set_optimize_*, in their order, for a domain
   with durations and action costs.                                         *)
FlagsOf(strategy) ==
  << <<"cost", strategy = "cost">>,
     <<"makespan", strategy \in {"makespan_add", "makespan_max"}>>,
     <<"aggreg", strategy = "makespan_max">> >>

Places == SetToSortSeq(Ops, <)
Unknown == [a \in Ops \cup {EndOp} |-> MaxTime]

-----------------------------------------------------------------------------
Init ==
  /\ flags = [k \in {"cost", "makespan", "aggreg"} |-> FALSE]
  /\ memo = <<>>
  /\ pc = [t \in Threads |-> "idle"]
  /\ task \in [Threads -> {CHOOSE x \in Tasks : TRUE}]
  /\ writes = [t \in Threads |-> <<>>]
  /\ finit = [t \in Threads |-> [f \in Fluent |-> MaxTime]]
  /\ ainit = [t \in Threads |-> Unknown]
  /\ aused = [t \in Threads |-> {}]
  /\ applicable = [t \in Threads |-> <<>>]
  /\ place = [t \in Threads |-> 1]
  /\ loop = [t \in Threads |-> FALSE]
  /\ runs = [t \in Threads |-> 0]

Start(t, x) ==
  /\ pc[t] = "idle" /\ runs[t] < Runs
  /\ task' = [task EXCEPT ![t] = x]
  /\ writes' = [writes EXCEPT ![t] = FlagsOf(x.strategy)]
  /\ runs' = [runs EXCEPT ![t] = @ + 1]
  /\ pc' = [pc EXCEPT ![t] = "set"]
  /\ UNCHANGED <<flags, memo, arrays, place, loop>>

(* The flags are written one by one, and by every thread.                   *)
WriteFlag(t) ==
  /\ pc[t] = "set" /\ writes[t] # <<>>
  /\ flags' = [flags EXCEPT ![Head(writes[t])[1]] = Head(writes[t])[2]]
  /\ writes' = [writes EXCEPT ![t] = Tail(@)]
  /\ pc' = IF Len(writes[t]) = 1 THEN [pc EXCEPT ![t] = "search"] ELSE pc
  /\ UNCHANGED <<memo, task, arrays, place, loop, runs>>

(* heuristic_search finds the state: its costs are copied and the costs of
   the actions follow, unless the goals are unreachable.                    *)
Reuse(t) ==
  /\ pc[t] = "search" /\ task[t].state \in DOMAIN memo
  /\ finit' = [finit EXCEPT ![t] = memo[task[t].state]]
  /\ LET cost(a) == CostNow(t, finit'[t], a)
     IN IF cost(EndOp) = MaxTime
        THEN /\ ainit' = [ainit EXCEPT ![t][EndOp] = MaxTime]
             /\ applicable' = [applicable EXCEPT ![t] = <<>>]
        ELSE /\ ainit' = [ainit EXCEPT ![t] = [a \in Ops \cup {EndOp} |-> cost(a)]]
             /\ applicable' = [applicable EXCEPT ![t] = SelectSeq(Places, LAMBDA a : cost(a) = 0)]
  /\ pc' = [pc EXCEPT ![t] = "done"]
  /\ UNCHANGED <<flags, memo, task, writes, aused, place, loop, runs>>

ForgetsFree(s) == {a \in Ops : Pre[a] \cap s # {}}         \* mutant of FirstUsed
(* The actions to look at first: without a precondition, or with one that
   the state gives.                                                         *)
FirstUsed(s) == {a \in Ops : Pre[a] = {} \/ Pre[a] \cap s # {}}

FirstPlace == 1

Reinit(t) ==
  /\ pc[t] = "search" /\ task[t].state \notin DOMAIN memo
  /\ finit' = [finit EXCEPT ![t] = [f \in Fluent |-> IF f \in task[t].state THEN 0 ELSE MaxTime]]
  /\ ainit' = [ainit EXCEPT ![t] = Unknown]
  /\ aused' = [aused EXCEPT ![t] = FirstUsed(task[t].state)]
  /\ applicable' = [applicable EXCEPT ![t] = <<>>]
  /\ place' = [place EXCEPT ![t] = FirstPlace]
  /\ loop' = [loop EXCEPT ![t] = FALSE]
  /\ pc' = [pc EXCEPT ![t] = "sweep"]
  /\ UNCHANGED <<flags, memo, task, writes, runs>>

Cheaper(cost, old) == cost < old

AlmostFree(cost)  == cost <= 1                          \* mutant of IsApplicable
IsApplicable(cost) == cost = 0

(* One action of a sweep: if it is marked, its cost is computed again, and
   the cheaper fluents mark their consumers.                                *)
Visit(t) ==
  /\ pc[t] = "sweep" /\ place[t] <= Len(Places)
  /\ LET a    == Places[place[t]]
         cost == CostNow(t, finit[t], a)
         less == {f \in Add[a] : Cheaper(cost + IncrementNow(a), finit[t][f])}
     IN IF a \in aused[t] /\ cost < ainit[t][a]
        THEN /\ ainit' = [ainit EXCEPT ![t][a] = cost]
             /\ applicable' = IF IsApplicable(cost) THEN [applicable EXCEPT ![t] = Append(@, a)] ELSE applicable
             /\ finit' = [finit EXCEPT ![t] =
                            [f \in Fluent |-> IF f \in less THEN cost + IncrementNow(a) ELSE @[f]]]
             /\ aused' = [aused EXCEPT ![t] = (@ \ {a}) \cup {b \in Ops : Pre[b] \cap less # {}}]
             /\ loop' = [loop EXCEPT ![t] = TRUE]
        ELSE /\ aused' = [aused EXCEPT ![t] = @ \ {a}]
             /\ UNCHANGED <<ainit, applicable, finit, loop>>
  /\ place' = [place EXCEPT ![t] = @ + 1]
  /\ UNCHANGED <<flags, memo, pc, task, writes, runs>>

KeepsLoop(t) == loop                                      \* mutant of ClearLoop
ClearLoop(t) == [loop EXCEPT ![t] = FALSE]

NextSweep(t) ==
  /\ pc[t] = "sweep" /\ place[t] > Len(Places) /\ loop[t]
  /\ place' = [place EXCEPT ![t] = FirstPlace]
  /\ loop' = ClearLoop(t)
  /\ UNCHANGED <<flags, memo, pc, task, writes, arrays, runs>>

(* The cost of the goals, and heuristic_insert, which keeps an entry another
   thread has put in meanwhile.                                             *)
Insert(t) ==
  /\ pc[t] = "sweep" /\ place[t] > Len(Places) /\ ~loop[t]
  /\ ainit' = [ainit EXCEPT ![t][EndOp] = CostNow(t, finit[t], EndOp)]
  /\ memo' = memo @@ (task[t].state :> finit[t])
  /\ pc' = [pc EXCEPT ![t] = "done"]
  /\ UNCHANGED <<flags, task, writes, finit, aused, applicable, place, loop, runs>>

Return(t) ==
  /\ pc[t] = "done"
  /\ pc' = [pc EXCEPT ![t] = "idle"]
  /\ UNCHANGED <<flags, memo, task, writes, arrays, place, loop, runs>>

Work(t) ==
  WriteFlag(t) \/ Reuse(t) \/ Reinit(t) \/ Visit(t) \/ NextSweep(t) \/ Insert(t) \/ Return(t)

Next == \E t \in Threads : Work(t) \/ \E x \in Tasks : Start(t, x)

Spec     == Init /\ [][Next]_vars
FairSpec == Spec /\ \A t \in Threads : WF_vars(Work(t))

-----------------------------------------------------------------------------
(* Properties.                                                              *)

(* Whatever strategies the threads mix and whoever filled the memo, what a
   search concludes from a computation is right: the applicable actions, each
   of them once, the goal test and the dead end test.                       *)
ConclusionsRight ==
  \A t \in Threads : pc[t] = "done" =>
    LET s == task[t].state
        g == task[t].goals
    IN /\ (ainit[t][EndOp] = MaxTime) = ~(g \subseteq Attainable[s])
       /\ (ainit[t][EndOp] = 0) = (g \subseteq s)
       /\ g \subseteq Attainable[s] =>
            /\ ToSet(applicable[t]) = {a \in Ops : CanApply(s, a)}
            /\ Len(applicable[t]) = Cardinality(ToSet(applicable[t]))

(* An entry of the memo tells for ever what is given and what is reachable. *)
EntriesSafe ==
  \A s \in DOMAIN memo : \A f \in Fluent :
    /\ (memo[s][f] = 0) = (f \in s)
    /\ (memo[s][f] = MaxTime) = (f \notin Attainable[s])

(* Every computation returns, though flags change under it.                 *)
Returns == \A t \in Threads : pc[t] = "search" ~> pc[t] = "done"

=============================================================================
