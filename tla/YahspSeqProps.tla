--------------------------- MODULE YahspSeqProps ---------------------------
(***************************************************************************)
(* What the sequential planner has to guarantee.                           *)
(***************************************************************************)
EXTENDS YahspSeq

(* Every node kept for later, and the one at hand, has a path that can be
   carried out: its steps, put in the order a solution plan has, lead from
   the state of the call to the state of the node.  The dates come from
   node_apply_action, the order from create_solution_plan, and only
   action_must_precede makes them agree.  Of steps of length zero that the
   ids put in the wrong order, another order leads there.                   *)
PathsExecute ==
  \A n \in open_list \cup ({node, son, parent} \ {NoNode}) :
     pc # "idle" => LeadsTo(current_state, InPlanOrder(n.steps), n.state)

(* apply_relaxed_plan allocates as many steps as the relaxed plan has
   entries, and repairs put actions back in: it must never write past them. *)
StepsFit == pc = "apply" => son.own <= Len(relaxed_plan)

(* No reachable state is lost while the search has neither hit its limit nor
   found a plan: a son of a state of the closed list is itself closed, or in
   the making, or the closed state is still to be expanded.                 *)
Forgotten(s) ==
  {a \in Ops :
     /\ CanApply(s, a)
     /\ Result(s, a) \notin closed_list
     /\ ~(node # NoNode /\ node.state = Result(s, a))}

NothingLost ==
  pc # "idle" /\ ~LimitHit /\ ~anytime =>
    \A s \in closed_list :
      \/ ~(goals \subseteq Attainable[s])
      \/ \E n \in open_list \cup ({node} \ {NoNode}) : n.state = s
      \/ parent # NoNode /\ parent.state = s /\ Forgotten(s) \subseteq todo
      \/ Forgotten(s) = {}

(* What the theorems about the search suppose: the heuristic is right about
   dead ends, under all strategies and whichever of them the memo was filled
   with, and no node to be evaluated ends at MAXTIME or later, where the
   search would cut it off as it does what is no better than a plan found.   *)
DeadEndsRight ==
  \A st \in Strategies, other \in Strategies, s \in StateSpace, g \in SUBSET Fluent :
     CostOf(st, H1[other, s], g) = MaxTime => ~(g \subseteq Attainable[s])

InTime == pc = "compute" => ~(node.makespan >= MaxTime)

(* The call is answered as the evaluation of a decomposition relies on: a
   plan that leads from the state before to the goals and is where the next
   call starts, or a proof that there is none below the limit.  The memo
   holds values of other strategies.                                        *)
P == INSTANCE Planner WITH
       query <- IF pc = "idle" THEN <<>> ELSE <<goals, nodes_limit>>,
       plan <- solution_plan,
       evaluated <- IF pc = "idle" THEN evaluated_nodes ELSE 0

AnswersCalls == P!Spec

(* Actions of equal cost to be sorted, each of which spoils another one that
   does not spoil it: cmp_actions wants each of them behind another.        *)
InCircle ==
  /\ pc = "sort"
  /\ \E C \in SUBSET ToSet(relaxed_plan) :
       /\ C # {}
       /\ \A a, b \in C : ainit[a] = ainit[b]
       /\ \A a \in C : \E b \in C : Spoils(a, b) /\ ~Spoils(b, a)

(* Every call returns, but for one that has such a circle to sort: it sorts
   for ever, whatever the limit.                                            *)
StaysInCircle == [][InCircle => InCircle']_vars
Returns ==
  /\ pc # "idle" ~> (pc = "idle" \/ InCircle)
  /\ StaysInCircle

=============================================================================
