------------------------------ MODULE YahspMT ------------------------------
(***************************************************************************)
(* The multi-threaded best-first search of YAHSP (yahsp-mt.cpp, built with *)
(* YAHSP_MT and without YAHSP_MPI and DAE).  NbThreads OpenMP threads are  *)
(* split into teams; the threads of a team share one open list and one     *)
(* closed list, each protected by an OpenMP lock.  All the threads share   *)
(* the counters, the flag stop_search and the bound *best_makespan.        *)
(*                                                                         *)
(* What the planner computes on states is data here: Acts gives the        *)
(* applicable actions of a state, Heur the value compute_h1 leaves on the  *)
(* end action, Look the result of applying the relaxed plan.  Every lock   *)
(* region, atomic update and critical section is one step; a value that is *)
(* read outside of them and used later is read in a step of its own.       *)
(***************************************************************************)
EXTENDS Integers, Sequences, FiniteSets

CONSTANTS
  NbThreads,   (* num_threads * opt.yahsp_teams                             *)
  Teams,       (* opt.yahsp_teams                                           *)
  State,       (* the states of the planning problem                        *)
  Root,        (* current_state when yahsp_main is called                   *)
  Acts,        (* state -> sequence of [to, dur], its applicable actions    *)
  Heur,        (* state -> cost of end_action: 0 at a goal, MaxTime: dead   *)
  Look,        (* state -> [to, dur, steps], the relaxed plan applied       *)
  Weight,      (* yahsp_optimize_weight                                     *)
  Limit,       (* nodes_limit                                               *)
  MaxTime,     (* MAXTIME                                                   *)
  Anytime,     (* opt.anytime                                               *)
  Duplicate,   (* opt.yahsp_duplicate_search                                *)
  Strategy,    (* opt.yahsp_strategy                                        *)
  Random,      (* opt.random                                                *)
  Nil          (* the NULL node                                             *)

Threads == 0 .. NbThreads - 1
TeamIds == 0 .. Teams - 1
Action  == [to : State, dur : Nat]
Node    == [state : State, mk : Nat, len : Nat, id : Nat]

ASSUME TeamsAssumption ==
  /\ NbThreads \in Nat \ {0}
  /\ Teams \in 1 .. NbThreads
ASSUME ProblemAssumption ==
  /\ Root \in State
  /\ Acts \in [State -> Seq(Action)]
  /\ MaxTime \in Nat \ {0}
  /\ Heur \in [State -> Nat]
  /\ Look \in [State -> [to : State, dur : Nat, steps : Nat]]
ASSUME OptionAssumption ==
  /\ Weight \in Nat
  /\ Limit \in Nat
  /\ Anytime \in BOOLEAN
  /\ Duplicate \in BOOLEAN
  /\ Strategy \in Nat
  /\ Random \in BOOLEAN
  /\ Nil \notin Node

VARIABLES
  pc,          (* where each thread is                                      *)
  cur,         (* the node a thread passes to compute_node                  *)
  caller,      (* who called compute_node: the root phase or an expansion   *)
  ret,         (* what compute_node, then yahsp_plan, returned              *)
  held,        (* the node a thread took from the open list                 *)
  todo,        (* index of the next applicable action of the held node      *)
  open_empty,  (* the local variable of yahsp_plan                          *)
  open,        (* open list of each team                                    *)
  closed,      (* closed list of each team                                  *)
  working,     (* working_threads                                           *)
  evaluated,   (* stats.evaluated_nodes                                     *)
  best,        (* best_makespan_common, or the private ones                 *)
  stop_search,
  best_node,   (* the local variable of yahsp_main                          *)
  flushing,    (* the closed nodes a thread is freeing in the final flush   *)
  freed,       (* closed nodes given to node_free                           *)
  refreed      (* closed nodes given to node_free once more                 *)

search  == <<open, closed, working, evaluated, best, stop_search, best_node>>
memory  == <<flushing, freed, refreed>>
locals  == <<cur, caller, ret, held, todo, open_empty>>
vars    == <<pc, locals, search, memory>>

-----------------------------------------------------------------------------
(* Threads, nodes and the order of the open list.                          *)

TeamOf(t)  == t % Teams
Members(k) == {t \in Threads : TeamOf(t) = k}

(* The cell that best_makespan points to in thread t.                      *)
Cell(t)  == IF Duplicate THEN t ELSE 0
Bound(t) == best[Cell(t)]

IsGoal(s) == Heur[s] = 0
IsDead(s) == Heur[s] = MaxTime

FValue(n) == n.len + Weight * Heur[n.state]

DeriveBackwards(n, to, dur, steps) ==                        \* mutant of Derive
  [state |-> to, mk |-> n.mk - dur, len |-> n.len + steps, id |-> 0]

(* node_derive followed by the application of one action or of a plan.     *)
Derive(n, to, dur, steps) ==
  [state |-> to, mk |-> n.mk + dur, len |-> n.len + steps, id |-> 0]

RootNode == [state |-> Root, mk |-> 0, len |-> 0, id |-> 0]

SameRank(m, n) == FValue(m) = FValue(n) /\ m.len = n.len

OddComparesId(t) == t % 2 = 1                            \* mutant of ComparesId

(* Does the comparison function distinguish nodes of one rank by their id?
   Under strategy 2 and above it depends on the thread that calls it.      *)
ComparesId(t) == Strategy = 0 \/ (Strategy > 1 /\ t % 2 = 1)

EqualIn(t, m, n) == SameRank(m, n) /\ (ComparesId(t) => m.id = n.id)

Before(t, m, n) ==
  \/ FValue(m) < FValue(n)
  \/ FValue(m) = FValue(n) /\ m.len < n.len
  \/ SameRank(m, n) /\ ComparesId(t) /\ m.id < n.id

RankInserted(t, list, n) ==                                \* mutant of Inserted
  IF \E m \in list : SameRank(m, n) THEN list ELSE list \cup {n}

(* open_list_insert: gdsl_rbtree_insert leaves the tree alone when it finds
   an element that compares equal, and the result is not looked at.        *)
Inserted(t, list, n) ==
  IF \E m \in list : EqualIn(t, m, n) THEN list ELSE list \cup {n}

(* The nodes gdsl_rbtree_map_infix can leave in *data: the least node, or
   under opt.random any node of the least rank.                            *)
BestOf(t, list) ==
  {n \in list : \A m \in list :
     ~Before(t, m, n) \/ (Random /\ SameRank(m, n))}

StopLate == stop_search \/ evaluated > Limit               \* mutant of StopNow

(* test_stop_search.                                                       *)
StopNow == stop_search \/ evaluated >= Limit

ClosedStates(k) == {n.state : n \in closed[k]}

-----------------------------------------------------------------------------
Init ==
  /\ pc = [t \in Threads |-> "begin"]
  /\ cur = [t \in Threads |-> Nil]
  /\ caller = [t \in Threads |-> "root"]
  /\ ret = [t \in Threads |-> Nil]
  /\ held = [t \in Threads |-> Nil]
  /\ todo = [t \in Threads |-> 1]
  /\ open_empty = [t \in Threads |-> FALSE]
  /\ open = [k \in TeamIds |-> {}]
  /\ closed = [k \in TeamIds |-> {}]
  /\ working = 0
  /\ evaluated = 0
  /\ best = [t \in Threads |-> MaxTime]
  /\ stop_search = FALSE
  /\ best_node = Nil
  /\ flushing = [t \in Threads |-> {}]
  /\ freed = {}
  /\ refreed = {}

Goto(t, l) == pc' = [pc EXCEPT ![t] = l]

(* compute_node and everything it calls is over: give r to the caller.     *)
Return(t, r) ==
  /\ ret' = [ret EXCEPT ![t] = r]
  /\ cur' = [cur EXCEPT ![t] = Nil]
  /\ Goto(t, IF caller[t] = "root" THEN "barrier" ELSE "tried")

(* Entry of the parallel region and of yahsp_plan: the first thread of each
   team creates the root node, the others go to the barrier.               *)
Begin(t) ==
  /\ pc[t] = "begin"
  /\ working' = 0
  /\ \/ /\ t < Teams
        /\ cur' = [cur EXCEPT ![t] = RootNode]
        /\ Goto(t, "closing")
     \/ /\ t >= Teams
        /\ Goto(t, "barrier")
        /\ UNCHANGED cur
  /\ UNCHANGED <<caller, ret, held, todo, open_empty, open, closed, evaluated,
                 best, stop_search, best_node, memory>>

(* closed_list_insert, under the lock of the closed list: the id is the
   size of the list; a node whose state is already closed is freed.        *)
CloseInsert(t) ==
  /\ pc[t] = "closing"
  /\ LET k == TeamOf(t)
         n == [cur[t] EXCEPT !.id = Cardinality(closed[k])]
     IN \/ /\ cur[t].state \in ClosedStates(k)
           /\ Return(t, Nil)
           /\ UNCHANGED closed
        \/ /\ cur[t].state \notin ClosedStates(k)
           /\ closed' = [closed EXCEPT ![k] = @ \cup {n}]
           /\ cur' = [cur EXCEPT ![t] = n]
           /\ Goto(t, "checking")
           /\ UNCHANGED ret
  /\ UNCHANGED <<caller, held, todo, open_empty, open, working, evaluated,
                 best, stop_search, best_node, memory>>

(* First line of compute_node_no_closed_check.                             *)
CheckNode(t) ==
  /\ pc[t] = "checking"
  /\ IF StopNow \/ cur[t].mk >= Bound(t)
       THEN Return(t, Nil)
       ELSE Goto(t, "counting") /\ UNCHANGED <<ret, cur>>
  /\ UNCHANGED <<caller, held, todo, open_empty, search, memory>>

(* evaluated_nodes++, compute_h1, and the branches on the heuristic.       *)
Evaluate(t) ==
  /\ pc[t] = "counting"
  /\ evaluated' = evaluated + 1
  /\ LET s == cur[t].state
     IN \/ IsDead(s) /\ Return(t, Nil)
        \/ ~IsDead(s) /\ IsGoal(s) /\ ~Anytime /\ Return(t, cur[t])
        \/ ~IsDead(s) /\ IsGoal(s) /\ Anytime /\ Goto(t, "goal")
             /\ UNCHANGED <<ret, cur>>
        \/ ~IsDead(s) /\ ~IsGoal(s) /\ Goto(t, "opening")
             /\ UNCHANGED <<ret, cur>>
  /\ UNCHANGED <<caller, held, todo, open_empty, open, closed, working, best,
                 stop_search, best_node, memory>>

(* The test of the bound outside the critical section.                     *)
GoalTest(t) ==
  /\ pc[t] = "goal"
  /\ IF cur[t].mk < Bound(t)
       THEN Goto(t, "improving") /\ UNCHANGED <<ret, cur>>
       ELSE Return(t, Nil)
  /\ UNCHANGED <<caller, held, todo, open_empty, search, memory>>

LoweredBlindly(t) == [best EXCEPT ![Cell(t)] = cur[t].mk]   \* mutant of Lowered

(* The second test of the bound, inside the critical section.              *)
Lowered(t) ==
  IF cur[t].mk < Bound(t) THEN [best EXCEPT ![Cell(t)] = cur[t].mk] ELSE best

(* The critical section: test again, lower the bound, trace the plan.      *)
Improve(t) ==
  /\ pc[t] = "improving"
  /\ best' = Lowered(t)
  /\ Return(t, Nil)
  /\ UNCHANGED <<caller, held, todo, open_empty, open, closed, working,
                 evaluated, stop_search, best_node, memory>>

OpenInsert(t) ==
  /\ pc[t] = "opening"
  /\ open' = [open EXCEPT ![TeamOf(t)] = Inserted(t, @, cur[t])]
  /\ Goto(t, "lookahead")
  /\ UNCHANGED <<cur, caller, ret, held, todo, open_empty, closed, working,
                 evaluated, best, stop_search, best_node, memory>>

(* apply_relaxed_plan gives up when the bound is exceeded; otherwise its
   node goes through compute_node again.                                   *)
Lookahead(t) ==
  /\ pc[t] = "lookahead"
  /\ LET l   == Look[cur[t].state]
         son == Derive(cur[t], l.to, l.dur, l.steps)
     IN IF son.mk > Bound(t)
          THEN Return(t, Nil)
          ELSE /\ cur' = [cur EXCEPT ![t] = son]
               /\ Goto(t, "closing")
               /\ UNCHANGED ret
  /\ UNCHANGED <<caller, held, todo, open_empty, search, memory>>

(* OMP_BARRIER after the root phase, and the test that follows it.         *)
Barrier ==
  /\ \A t \in Threads : pc[t] = "barrier"
  /\ pc' = [t \in Threads |-> IF ret[t] # Nil THEN "merge" ELSE "loop"]
  /\ caller' = [t \in Threads |-> "expand"]
  /\ UNCHANGED <<cur, ret, held, todo, open_empty, search, memory>>

(* The condition of the main loop of yahsp_plan.                           *)
LoopTest(t) ==
  /\ pc[t] = "loop"
  /\ Goto(t, IF open_empty[t] \/ StopNow THEN "merge" ELSE "pop")
  /\ UNCHANGED <<locals, search, memory>>

(* open_list_pop_best, under the lock of the open list: gdsl_rbtree_remove
   takes out a node that compares equal to the chosen one.                 *)
Pop(t) ==
  /\ pc[t] = "pop"
  /\ LET list == open[TeamOf(t)]
     IN \/ /\ list = {}
           /\ Goto(t, "exit_check")
           /\ UNCHANGED <<held, open>>
        \/ \E n \in BestOf(t, list) : \E m \in list :
             /\ EqualIn(t, m, n)
             /\ open' = [open EXCEPT ![TeamOf(t)] = list \ {m}]
             /\ held' = [held EXCEPT ![t] = n]
             /\ Goto(t, "popped")
  /\ UNCHANGED <<cur, caller, ret, todo, open_empty, closed, working,
                 evaluated, best, stop_search, best_node, memory>>

(* working_threads++, after the lock of the open list has been released.   *)
BeginWork(t) ==
  /\ pc[t] = "popped"
  /\ working' = working + 1
  /\ todo' = [todo EXCEPT ![t] = 1]
  /\ Goto(t, "expand")
  /\ UNCHANGED <<cur, caller, ret, held, open_empty, open, closed, evaluated,
                 best, stop_search, best_node, memory>>

(* The next son of the held node goes to compute_or_send_node.             *)
TryAction(t) ==
  /\ pc[t] = "expand"
  /\ todo[t] <= Len(Acts[held[t].state])
  /\ LET a == Acts[held[t].state][todo[t]]
     IN cur' = [cur EXCEPT ![t] = Derive(held[t], a.to, a.dur, 1)]
  /\ todo' = [todo EXCEPT ![t] = @ + 1]
  /\ Goto(t, "closing")
  /\ UNCHANGED <<caller, ret, held, open_empty, search, memory>>

ForgetToLeave(t) ==                                        \* mutant of StopWork
  UNCHANGED working /\ held' = [held EXCEPT ![t] = Nil]

(* working_threads-- on the way out of an expansion.                       *)
StopWork(t) == working' = working - 1 /\ held' = [held EXCEPT ![t] = Nil]

(* After a son: a solution or a stop ends yahsp_plan for this thread.      *)
Tried(t) ==
  /\ pc[t] = "tried"
  /\ IF ret[t] # Nil \/ StopNow
       THEN StopWork(t) /\ Goto(t, "merge")
       ELSE Goto(t, "expand") /\ UNCHANGED <<working, held>>
  /\ UNCHANGED <<cur, caller, ret, todo, open_empty, open, closed, evaluated,
                 best, stop_search, best_node, memory>>

EndWork(t) ==
  /\ pc[t] = "expand"
  /\ todo[t] > Len(Acts[held[t].state])
  /\ StopWork(t)
  /\ Goto(t, "exit_check")
  /\ UNCHANGED <<cur, caller, ret, todo, open_empty, open, closed, evaluated,
                 best, stop_search, best_node, memory>>

(* Nothing is left to do: working_threads is read, then the open list, in a
   critical section where neither is ever written.                         *)
ExitCount(t) ==
  /\ pc[t] = "exit_check"
  /\ Goto(t, IF working = 0 THEN "exit_list" ELSE "loop")
  /\ UNCHANGED <<locals, search, memory>>

ListIgnored(t) == TRUE                                  \* mutant of NothingLeft

NothingLeft(t) == open[TeamOf(t)] = {}

ExitList(t) ==
  /\ pc[t] = "exit_list"
  /\ open_empty' = [open_empty EXCEPT ![t] = @ \/ NothingLeft(t)]
  /\ Goto(t, "loop")
  /\ UNCHANGED <<cur, caller, ret, held, todo, search, memory>>

LastWins(t) == ret[t] # Nil                            \* mutant of IsShorter

IsShorter(t) == ret[t] # Nil /\ (best_node = Nil \/ ret[t].mk < best_node.mk)

(* The critical section of yahsp_main that keeps the best solution.        *)
Merge(t) ==
  /\ pc[t] = "merge"
  /\ IF IsShorter(t)
       THEN best_node' = ret[t] /\ stop_search' = TRUE
       ELSE UNCHANGED <<best_node, stop_search>>
  /\ Goto(t, "joined")
  /\ UNCHANGED <<locals, open, closed, working, evaluated, best, memory>>

(* End of the parallel region; the plan is built from best_node and the
   second parallel region, which flushes the lists, starts.                *)
Collect ==
  /\ \A t \in Threads : pc[t] = "joined"
  /\ pc' = [t \in Threads |-> "flush"]
  /\ UNCHANGED <<locals, search, memory>>

(* Each thread flushes the lists of its team, without a lock: rbtree_destroy
   walks the tree it finds, then the root is reset.                        *)
FlushBegin(t) ==
  /\ pc[t] = "flush"
  /\ flushing' = [flushing EXCEPT ![t] = closed[TeamOf(t)]]
  /\ Goto(t, "freeing")
  /\ UNCHANGED <<locals, search, freed, refreed>>

FlushEnd(t) ==
  /\ pc[t] = "freeing"
  /\ freed' = freed \cup (flushing[t] \X {TeamOf(t)})
  /\ refreed' = refreed \cup (freed \cap (flushing[t] \X {TeamOf(t)}))
  /\ flushing' = [flushing EXCEPT ![t] = {}]
  /\ open' = [open EXCEPT ![TeamOf(t)] = {}]
  /\ closed' = [closed EXCEPT ![TeamOf(t)] = {}]
  /\ Goto(t, "halted")
  /\ UNCHANGED <<locals, working, evaluated, best, stop_search, best_node>>

AllHalted == \A t \in Threads : pc[t] = "halted"

Terminating == AllHalted /\ UNCHANGED vars

ThreadStep(t) ==
  \/ Begin(t) \/ CloseInsert(t) \/ CheckNode(t) \/ Evaluate(t) \/ GoalTest(t)
  \/ Improve(t) \/ OpenInsert(t) \/ Lookahead(t) \/ LoopTest(t) \/ Pop(t)
  \/ BeginWork(t) \/ TryAction(t) \/ Tried(t) \/ EndWork(t) \/ ExitCount(t)
  \/ ExitList(t) \/ Merge(t) \/ FlushBegin(t) \/ FlushEnd(t)

Next ==
  \/ \E t \in Threads : ThreadStep(t)
  \/ Barrier
  \/ Collect
  \/ Terminating

Spec == Init /\ [][Next]_vars

(* Each thread is scheduled: the locks and critical sections are held for
   one step each, but for that of the exit test, which waits for nothing
   inside, so weak fairness of its steps is enough.                        *)
FairSpec ==
  /\ Spec
  /\ \A t \in Threads : WF_vars(ThreadStep(t))
  /\ WF_vars(Barrier)
  /\ WF_vars(Collect)

=============================================================================
