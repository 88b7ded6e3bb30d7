---------------------------- MODULE YahspMTProps ----------------------------
(***************************************************************************)
(* The properties of the multi-threaded search, and the mapping under      *)
(* which each team implements GraphSearch.                                 *)
(***************************************************************************)
EXTENDS YahspMT

Locations ==
  {"begin", "closing", "checking", "counting", "goal", "improving", "opening",
   "lookahead", "barrier", "loop", "pop", "popped", "expand", "tried",
   "exit_check", "exit_list", "merge", "joined", "flush", "freeing", "halted"}

(* The locations inside compute_node.                                      *)
Computing ==
  {"closing", "checking", "counting", "goal", "improving", "opening",
   "lookahead"}

ThreadTypes ==
  /\ pc \in [Threads -> Locations]
  /\ cur \in [Threads -> Node \cup {Nil}]
  /\ caller \in [Threads -> {"root", "expand"}]
  /\ ret \in [Threads -> Node \cup {Nil}]
  /\ held \in [Threads -> Node \cup {Nil}]
  /\ todo \in [Threads -> Nat \ {0}]

ListTypes ==
  /\ open \in [TeamIds -> SUBSET Node]
  /\ closed \in [TeamIds -> SUBSET Node]
  /\ best_node \in Node \cup {Nil}
  /\ flushing \in [Threads -> SUBSET Node]

CounterTypes ==
  /\ working \in Int
  /\ evaluated \in Nat
  /\ best \in [Threads -> Nat]

FlagTypes ==
  /\ open_empty \in [Threads -> BOOLEAN]
  /\ stop_search \in BOOLEAN

MemoryTypes == freed \subseteq Node \X TeamIds /\ refreed \subseteq Node \X TeamIds

(* Every variable holds a value of the kind its C declaration has.         *)
TypeOK == ThreadTypes /\ ListTypes /\ CounterTypes /\ FlagTypes /\ MemoryTypes

(* Does thread t own a node it took from the open list?                    *)
Holding(t) ==
  \/ pc[t] \in {"popped", "expand", "tried"}
  \/ pc[t] \in Computing /\ caller[t] = "expand"

(* How the local variables of a thread go with its location; the inductive
   core of the other invariants.                                           *)
ThreadShape(t) ==
  /\ pc[t] \in Computing => cur[t] # Nil
  /\ Holding(t) <=> held[t] # Nil
  /\ pc[t] \in {"begin", "barrier"} => caller[t] = "root"
  /\ caller[t] = "root" => pc[t] \in {"begin", "barrier"} \cup Computing

Shape ==
  /\ \A t \in Threads : ThreadShape(t)
  /\ \A k \in TeamIds : IsFiniteSet(closed[k])

(* Is thread t between working_threads++ and working_threads--?            *)
Busy(t) ==
  \/ pc[t] \in {"expand", "tried"}
  \/ pc[t] \in Computing /\ caller[t] = "expand"

BusySet     == {t \in Threads : Busy(t)}
CountingSet == {t \in Threads : pc[t] = "counting"}

(* working_threads counts exactly the threads that are expanding a node, on
   every path through yahsp_plan: the exit test relies on it (l.340-381).  *)
WorkingCount == working = Cardinality(BusySet)

(* The node limit is tested and the counter incremented in two steps: every
   thread but one may have passed the test when the last evaluation allowed
   is counted, and never more than that.                                   *)
LimitOvershoot == evaluated <= Limit + (NbThreads - 1)

(* A node taken from an open list is nowhere else: not in the list, and not
   in the hands of another thread of the team.                             *)
HeldOnce ==
  \A t \in Threads : held[t] # Nil =>
    /\ held[t] \notin open[TeamOf(t)]
    /\ \A u \in Members(TeamOf(t)) \ {t} : held[u] # held[t]

(* The double test around the critical section: the bound never goes up, so
   every plan traced in anytime mode is shorter than all those before it.  *)
BoundOnlyImproves == [][\A t \in Threads : best'[t] <= best[t]]_vars

(* yahsp_main keeps the shortest of the solutions its threads return, even
   those that arrive after another thread has set stop_search.             *)
ShortestKept ==
  \A t \in Threads :
    ret[t] # Nil /\ pc[t] \in {"joined", "flush", "freeing", "halted"} =>
      best_node # Nil /\ best_node.mk <= ret[t].mk

AllJoined ==
  \A t \in Threads : pc[t] \in {"joined", "flush", "freeing", "halted"}

Interior(s) == ~IsGoal(s) /\ ~IsDead(s)

(* The states tried from a state: its applicable actions, the lookahead.   *)
Sons(s) ==
  IF Interior(s)
    THEN {Acts[s][i].to : i \in 1 .. Len(Acts[s])} \cup {Look[s].to}
    ELSE {}

(* The nodes that were put into the closed list, though the flush may have
   freed them since.                                                       *)
Freed(k)      == {x[1] : x \in {y \in freed : y[2] = k}}
EverClosed(k) == closed[k] \cup Freed(k)

Visited(k) == {n.state : n \in EverClosed(k)}

NextTodo(t) == IF pc[t] = "popped" THEN 1 ELSE todo[t]

(* What remains to be tried of the node a thread computes, and of the one
   it expands.                                                             *)
Here(t) ==
  IF pc[t] = "begin" /\ t < Teams THEN {Root}
  ELSE IF pc[t] = "closing" THEN {cur[t].state}
  ELSE IF pc[t] \in {"checking", "counting", "opening"} THEN Sons(cur[t].state)
  ELSE IF pc[t] = "lookahead" THEN {Look[cur[t].state].to}
  ELSE {}

ToTry(t) ==
  IF held[t] = Nil THEN {}
  ELSE {Acts[held[t].state][i].to : i \in NextTodo(t) .. Len(Acts[held[t].state])}

Pending(k) ==
  (UNION {Here(t) \cup ToTry(t) : t \in Members(k)})
  \cup (UNION {Sons(n.state) : n \in open[k]})

(* The date of the node, or of its lookahead, is not below MAXTIME, which
   stands for no bound at all.                                             *)
TooLate(n) == n.mk >= MaxTime \/ n.mk + Look[n.state].dur > MaxTime

(* The reasons the code has for not trying a state.                        *)
IsCut(k) ==
  \/ StopNow
  \/ \E t \in Threads : ret[t] # Nil \/ best[t] < MaxTime
  \/ \E n \in EverClosed(k) : TooLate(n)

Team(k) == INSTANCE GraphSearch WITH
  visited <- Visited(k),
  pending <- Pending(k) \ Visited(k),
  cut <- IsCut(k)

(* Each team implements the abstract search: no interleaving of its threads
   loses a state that has to be tried, or visits a state twice.            *)
TeamSearches ==
  /\ \A k \in TeamIds : Team(k)!Init
  /\ [][\A k \in TeamIds : Team(k)!Next \/ UNCHANGED Team(k)!gvars]_vars

(* If yahsp_main ends without a solution and without having been cut, the
   answer NO_PLAN is right: no goal state is reachable.                    *)
NoPlanIsProof ==
  AllJoined /\ best_node = Nil /\ evaluated < Limit =>
    \/ \E t \in Threads : best[t] < MaxTime
    \/ \A k \in TeamIds :
         \/ \E n \in EverClosed(k) : TooLate(n)
         \/ open[k] = {} /\ \A s \in Team(k)!Reach : ~IsGoal(s)

(* The final flush gives each closed node to node_free once.               *)
NodeFreedOnce == refreed = {}

(* Every thread leaves yahsp_plan and the lists are flushed.               *)
Terminates == <>AllHalted

=============================================================================
