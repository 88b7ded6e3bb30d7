--------------------------- MODULE YahspMPIProps ---------------------------
(***************************************************************************)
(* The properties of the distributed search, and the mapping under which   *)
(* the processes together implement GraphSearch.                           *)
(***************************************************************************)
EXTENDS YahspMPI

Interior(o, s) == o.heur[s] # 0 /\ o.heur[s] # MaxTime

(* The states tried from a state: its applicable actions, the lookahead.    *)
SonsOf(o, s) ==
  IF Interior(o, s)
    THEN {o.acts[s][i].to : i \in 1 .. Len(o.acts[s])} \cup {o.look[s].to}
    ELSE {}

(* The nodes of a message that was sent, or is about to be: they wait in the
   caches, under way, or in the buffer of their receiver.                   *)
UnderWay ==
  (UNION {ToSet(cached[p][q]) \cup (UNION {ToSet(batch) : batch \in ToSet(net[p][q])}) :
           p \in Procs, q \in Procs})
  \cup (UNION {ToSet(unread[p]) : p \in Procs})

(* What p still has to try: of the node it computes, of those in its open
   list, and of the one it expands.                                         *)
Here(p) ==
  IF pc[p] = "closing" THEN {cur[p].state}
  ELSE IF pc[p] = "computing" THEN SonsOf(opt, cur[p].state)
  ELSE {}

Opened(p) == UNION {SonsOf(opt, n.state) : n \in open[p]}

Untried(p) ==
  IF held[p] = Nil THEN {}
  ELSE {opt.acts[held[p].state][i].to : i \in todo[p] .. Len(opt.acts[held[p].state])}

ToTry(p) == Here(p) \cup Opened(p) \cup Untried(p)

Visited == UNION {ClosedStates(p) : p \in Procs}

Unstarted == IF pc[master] = "root" THEN {Root} ELSE {}

Pending ==
  ({n.state : n \in UnderWay} \cup (UNION {ToTry(p) : p \in Procs}) \cup Unstarted)
  \ Visited

(* The date of the node, or of its lookahead, is not below MAXTIME, which
   stands for no bound at all.                                              *)
TooLate(n) == n.mk >= MaxTime \/ n.mk + opt.look[n.state].dur > MaxTime

(* The reasons the code has for not trying a state: a process has a solution,
   the search was stopped, a date is beyond any bound.                      *)
IsCut ==
  \/ verdict # "go on"
  \/ \E p \in Procs : solution[p] # Nil \/ \E n \in closed[p] : TooLate(n)

Graph(o) == INSTANCE GraphSearch WITH
  Sons <- LAMBDA s : SonsOf(o, s),
  visited <- Visited, pending <- Pending, cut <- IsCut

(* The processes together implement the abstract search: no state is lost in
   a cache, in a message, in the buffer of a process that goes to a round, or
   because the node of a relaxed plan is closed away from its owner.        *)
ProcsSearch ==
  /\ \A o \in Settings : opt = o => Graph(o)!Init
  /\ [][\A o \in Settings :
          opt = o => Graph(o)!Next \/ UNCHANGED Graph(o)!gvars]_vars

(* Is there a step of the problem, an action or a relaxed plan, from one node
   to the next that takes exactly the time between them?                    *)
Linked(m, n) ==
  LET d == n.mk - m.mk IN
  \/ \E i \in 1 .. Len(opt.acts[m.state]) :
       opt.acts[m.state][i] = [to |-> n.state, dur |-> d]
  \/ opt.look[m.state].to = n.state /\ opt.look[m.state].dur = d

(* Every plan the master traces or returns, put together from the nodes that
   several processes own, leads from the root to a goal, and each is shorter
   than the one before (anytime).                                           *)
PlansGathered ==
  \A i \in 1 .. Len(given) :
    LET plan == given[i] IN
    /\ plan[1].state = Root
    /\ \A k \in 1 .. Len(plan) - 1 : Linked(plan[k], plan[k + 1])
    /\ IsGoal(Last(plan).state)
    /\ i > 1 => Last(plan).mk < Last(given[i - 1]).mk

(* The empty messages that p has still to receive.                          *)
Waiting(p) ==
  UNION {{q} \X {i \in 1 .. Len(net[q][p]) : net[q][p][i] = <<>>} : q \in Procs}

(* The calls to a round that p has not answered: it has left none of those
   that are over.                                                           *)
Calls(p) == Cardinality(Waiting(p)) + (IF pc[p] = "round" THEN 1 ELSE 0)

(* The empty messages are counted by nobody, yet every process is called to
   the same number of rounds: none waits in the reduction for a process that
   will not come, and none leaves the search while another waits for it.    *)
RoundsMatch ==
  /\ \A p, q \in Procs : Calls(p) = Calls(q)
  /\ \A p \in Procs : pc[p] = "left" => Stopped

(* No round raises the bound of a process, although it replaces it by the
   makespan of a solution another process found earlier.                    *)
BoundsOnlyImprove == [][\A p \in Procs : best'[p] <= best[p]]_vars

AllVisited == \E o \in Settings : opt = o /\ Graph(o)!ClosedUnderSons(Visited)

(* Unless it is cut, the search tries every reachable state: no node stays
   for ever in a cache that is not full.                                    *)
AllTried == <>(IsCut \/ AllVisited)

(* A solution of any process is given by the master, or a better one is,
   unless the timer stops the search.                                       *)
GivenFor(p) == given # <<>> /\ Last(Last(given)).mk <= solution[p].mk

SolutionsGiven ==
  (\E p \in Procs : solution[p] # Nil) ~>
     \/ verdict = "timer"
     \/ \A p \in Procs : solution[p] # Nil => GivenFor(p)

=============================================================================
