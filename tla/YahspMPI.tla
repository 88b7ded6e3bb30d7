------------------------------ MODULE YahspMPI ------------------------------
(***************************************************************************)
(* The distributed search of YAHSP (yahsp-mt.cpp and yahsp-mpi.cpp, built  *)
(* with YAHSP_MPI and without YAHSP_MT and DAE).  Every process has its    *)
(* own open and closed lists; the key of a state says which process works  *)
(* on the nodes an expansion gives for it.  Such nodes are gathered in a   *)
(* cache per destination and sent in batches of growing size.  A process   *)
(* that lowers its bound, and the master when its timer has expired, send  *)
(* an empty message to every process, itself included; who receives one    *)
(* enters a collective round in which the best solution is elected, its    *)
(* plan is collected by the master from the processes that own its nodes,  *)
(* and the end of the search is agreed on.                                 *)
(*                                                                         *)
(* Memory is not shared: what a process does between two calls of MPI is   *)
(* cut into steps at the places where it may receive.  A message is the    *)
(* sequence of the nodes it carries, so the empty sequence is the message  *)
(* of length 0.  Messages of one sender to one receiver keep their order.  *)
(*                                                                         *)
(* Plans are sequential (opt.sequential): for parallel ones this build     *)
(* keeps the id of an action where the computation of dates follows a      *)
(* pointer to it (yahsp-common.cpp l.498 and 510).  Each node is searched  *)
(* by one process (no opt.yahsp_duplicate_search).                         *)
(***************************************************************************)
EXTENDS Integers, Sequences, FiniteSets, SequencesExt

CONSTANTS
  NbProcs,     (* numtasks                                                  *)
  State,       (* the states of the planning problem                        *)
  Root,        (* current_state when yahsp_main is called                   *)
  Owner,       (* state -> node->key % numtasks                             *)
  Weight,      (* yahsp_optimize_weight                                     *)
  MaxTime,     (* MAXTIME                                                   *)
  CacheMax,    (* cached_nodes_max                                          *)
  Boost,       (* what mpi_send_node takes off the fvalue of a node         *)
  Settings,    (* the calls: [acts, heur, look, anytime, timer]             *)
  Nil          (* the NULL pointer                                          *)

Procs  == 0 .. NbProcs - 1
master == 0

(* A pointer to a node is the process that owns it and its id; the parent of
   a node belongs to the process that derived it, its rank.                 *)
Node ==
  [state : State, mk : Nat, len : Nat, id : Nat, f : Int, rank : Procs,
   parent : Nat \cup {Nil}, fresh : BOOLEAN]

ASSUME ProcsAssumption == NbProcs \in Nat \ {0} /\ CacheMax \in Nat \ {0}
ASSUME ParametersAssumption ==
  /\ MaxTime \in Nat \ {0}
  /\ Weight \in Nat /\ Boost \in Nat
  /\ Nil \notin Node /\ Nil \notin Nat
ASSUME SettingsAssumption ==
  /\ Root \in State
  /\ Owner \in [State -> Procs]
  /\ \A o \in Settings :
       /\ o.acts \in [State -> Seq([to : State, dur : Nat])]
       /\ o.heur \in [State -> Nat]
       /\ o.look \in [State -> [to : State, dur : Nat, steps : Nat]]
       /\ o.anytime \in BOOLEAN /\ o.timer \in BOOLEAN

VARIABLES
  opt,         (* the problem and the options of the run                    *)
  pc,          (* where each process is                                     *)
  cur,         (* the node given to compute_node                            *)
  held,        (* the node whose applicable actions are tried               *)
  todo,        (* index of the next of them                                 *)
  open,        (* the open list of each process                             *)
  closed,      (* the closed list of each process                           *)
  best,        (* best_makespan                                             *)
  solution,    (* solution_node                                             *)
  mpi_best,    (* mpi_best_makespan                                         *)
  cached,      (* cached_nodes[dest].nodes                                  *)
  to_send,     (* cached_nodes[dest].to_send                                *)
  unread,      (* the nodes still in recv_buffer                            *)
  net,         (* messages under way, for each sender and receiver          *)
  timer,       (* "off", "on", then "called": stop_on_timer, stop_called    *)
  verdict,     (* of the last round: go on, or stop with or without a plan  *)
  path,        (* the nodes of the plan the master is collecting            *)
  given        (* the plans the master has traced or returned               *)

lists    == <<open, closed>>
caches   == <<cached, to_send, net>>
rounds   == <<mpi_best, verdict, path, given>>
vars == <<opt, pc, cur, held, todo, lists, best, solution, caches, unread,
          timer, rounds>>

-----------------------------------------------------------------------------
(* Nodes.                                                                   *)

IsGoal(s) == opt.heur[s] = 0
IsDead(s) == opt.heur[s] = MaxTime

(* node_derive, then the application of an action or of a relaxed plan,
   where the makespan is the sum of the durations.                          *)
Derive(p, n, step, steps) ==
  [state |-> step.to, mk |-> n.mk + step.dur, len |-> n.len + steps, id |-> 0,
   f |-> n.f, rank |-> p, parent |-> n.id, fresh |-> TRUE]

RootNode ==
  [state |-> Root, mk |-> 0, len |-> 0, id |-> 0, f |-> 0, rank |-> master,
   parent |-> Nil, fresh |-> TRUE]

(* open_list_cmp under strategy 0.                                          *)
Before(m, n) ==
  \/ m.f < n.f
  \/ m.f = n.f /\ m.len < n.len
  \/ m.f = n.f /\ m.len = n.len /\ m.id < n.id

BestOf(list) == {n \in list : \A m \in list : ~Before(m, n)}

ClosedStates(p) == {n.state : n \in closed[p]}

-----------------------------------------------------------------------------
(* The caches of the nodes to send.                                         *)

SyncToOthers(net1, p) ==                                 \* mutant of SyncSent
  [net1 EXCEPT ![p] = [q \in Procs |-> IF q = p THEN @[q] ELSE Append(@[q], <<>>)]]

(* mpi_call_synchronize.                                                    *)
SyncSent(net1, p) ==
  [net1 EXCEPT ![p] = [q \in Procs |-> Append(@[q], <<>>)]]

(* cached_nodes_send.                                                       *)
SendBatch(p, d, batch) ==
  /\ net' = [net EXCEPT ![p][d] = Append(@, batch)]
  /\ cached' = [cached EXCEPT ![p][d] = <<>>]

Grown(size) == IF size + 1 > CacheMax THEN CacheMax ELSE size + 1

(* mpi_send_node: the node joins the cache of its owner, which is sent when
   it is full.                                                              *)
SendNode(p, n) ==
  LET d     == Owner[n.state]
      batch == Append(cached[p][d], [n EXCEPT !.f = @ - Boost])
  IN IF Len(batch) = to_send[p][d]
       THEN /\ SendBatch(p, d, batch)
            /\ to_send' = [to_send EXCEPT ![p][d] = Grown(@)]
       ELSE /\ cached' = [cached EXCEPT ![p][d] = batch]
            /\ UNCHANGED <<net, to_send>>

FlushFirst(p) == 0                                        \* mutant of Fullest

(* The first of the fullest caches.                                         *)
Fullest(p) ==
  CHOOSE d \in Procs :
    \A e \in Procs : \/ Len(cached[p][e]) < Len(cached[p][d])
                     \/ Len(cached[p][e]) = Len(cached[p][d]) /\ d <= e

-----------------------------------------------------------------------------
Init ==
  /\ opt \in Settings
  /\ pc = [p \in Procs |-> IF p = master THEN "root" ELSE "poll"]
  /\ cur = [p \in Procs |-> Nil]
  /\ held = [p \in Procs |-> Nil]
  /\ todo = [p \in Procs |-> 1]
  /\ open = [p \in Procs |-> {}]
  /\ closed = [p \in Procs |-> {}]
  /\ best = [p \in Procs |-> MaxTime]
  /\ solution = [p \in Procs |-> Nil]
  /\ mpi_best = [p \in Procs |-> MaxTime]
  /\ cached = [p \in Procs |-> [q \in Procs |-> <<>>]]
  /\ to_send = [p \in Procs |-> [q \in Procs |-> 1]]
  /\ unread = [p \in Procs |-> <<>>]
  /\ net = [p \in Procs |-> [q \in Procs |-> <<>>]]
  /\ timer = "off"
  /\ verdict = "go on"
  /\ path = <<>>
  /\ given = <<>>

Goto(p, l) == pc' = [pc EXCEPT ![p] = l]

(* Where a process goes on after check_received_nodes.                      *)
Resume(p) == IF held[p] # Nil THEN "expand" ELSE "pop"

(* compute_or_send_node.                                                    *)
ComputeOrSend(p, n) ==
  IF Owner[n.state] # p
    THEN /\ SendNode(p, n)
         /\ Goto(p, "poll")
         /\ UNCHANGED cur
    ELSE /\ cur' = [cur EXCEPT ![p] = n]
         /\ Goto(p, "closing")
         /\ UNCHANGED caches

(* yahsp_plan: after a barrier the master computes or sends the root.       *)
Begin ==
  /\ pc[master] = "root"
  /\ ComputeOrSend(master, RootNode)
  /\ UNCHANGED <<opt, held, todo, lists, best, solution, unread, timer, rounds>>

(* compute_node: closed_list_insert frees a node whose state is closed.     *)
CloseInsert(p) ==
  /\ pc[p] = "closing"
  /\ IF cur[p].state \in ClosedStates(p)
       THEN /\ cur' = [cur EXCEPT ![p] = Nil]
            /\ Goto(p, "poll")
            /\ UNCHANGED closed
       ELSE LET n == [cur[p] EXCEPT !.id = Cardinality(closed[p])]
            IN /\ closed' = [closed EXCEPT ![p] = @ \cup {n}]
               /\ cur' = [cur EXCEPT ![p] = n]
               /\ Goto(p, "computing")
  /\ UNCHANGED <<opt, held, todo, open, best, solution, caches, unread, timer,
                 rounds>>

Forgotten(p) == cur' = [cur EXCEPT ![p] = Nil] /\ Goto(p, "poll")

FoundQuietly(p) ==                                          \* mutant of Found
  /\ best' = [best EXCEPT ![p] = cur[p].mk]
  /\ solution' = [solution EXCEPT ![p] = cur[p]]
  /\ UNCHANGED net

(* compute_node_no_closed_check for a goal: the bound is lowered and every
   process is called to a round.                                            *)
Found(p) ==
  /\ best' = [best EXCEPT ![p] = cur[p].mk]
  /\ solution' = [solution EXCEPT ![p] = cur[p]]
  /\ net' = SyncSent(net, p)

(* The same for a state that is not a goal: the node enters the open list
   and the node of the relaxed plan is computed here, whatever its key.     *)
OpenAndLook(p) ==
  LET s   == cur[p].state
      n   == [cur[p] EXCEPT !.f = cur[p].len + Weight * opt.heur[s],
                            !.fresh = FALSE]
      son == Derive(p, n, opt.look[s], opt.look[s].steps)
  IN /\ open' = [open EXCEPT ![p] = @ \cup {n}]
     /\ IF son.mk > best[p]
          THEN Forgotten(p)
          ELSE cur' = [cur EXCEPT ![p] = son] /\ Goto(p, "closing")

Compute(p) ==
  /\ pc[p] = "computing"
  /\ LET s == cur[p].state IN
     \/ /\ cur[p].mk >= best[p] \/ IsDead(s)
        /\ Forgotten(p)
        /\ UNCHANGED <<open, best, solution, net>>
     \/ /\ cur[p].mk < best[p] /\ IsGoal(s)
        /\ Found(p)
        /\ Forgotten(p)
        /\ UNCHANGED open
     \/ /\ cur[p].mk < best[p] /\ ~IsGoal(s) /\ ~IsDead(s)
        /\ OpenAndLook(p)
        /\ UNCHANGED <<best, solution, net>>
  /\ UNCHANGED <<opt, held, todo, closed, cached, to_send, unread, timer, rounds>>

(* open_list_pop_best, and what follows: a received node is computed, any
   other is expanded, and without one the fullest cache is sent.            *)
Pop(p) ==
  /\ pc[p] = "pop"
  /\ \/ \E n \in BestOf(open[p]) :
          /\ open' = [open EXCEPT ![p] = @ \ {n}]
          /\ IF n.fresh
               THEN /\ cur' = [cur EXCEPT ![p] = n]
                    /\ Goto(p, "computing")
                    /\ UNCHANGED <<held, todo>>
               ELSE /\ held' = [held EXCEPT ![p] = n]
                    /\ todo' = [todo EXCEPT ![p] = 1]
                    /\ Goto(p, "expand")
                    /\ UNCHANGED cur
          /\ UNCHANGED <<cached, net>>
     \/ /\ open[p] = {}
        /\ LET d == Fullest(p)
           IN IF cached[p][d] # <<>>
                THEN SendBatch(p, d, cached[p][d])
                ELSE UNCHANGED <<cached, net>>
        /\ Goto(p, "poll")
        /\ UNCHANGED <<open, cur, held, todo>>
  /\ UNCHANGED <<opt, closed, best, solution, to_send, unread, timer, rounds>>

(* One turn of the loop over the applicable actions, or its end.            *)
Expand(p) ==
  /\ pc[p] = "expand"
  /\ LET acts == opt.acts[held[p].state] IN
     \/ /\ todo[p] <= Len(acts)
        /\ ComputeOrSend(p, Derive(p, held[p], acts[todo[p]], 1))
        /\ todo' = [todo EXCEPT ![p] = @ + 1]
        /\ UNCHANGED held
     \/ /\ todo[p] > Len(acts)
        /\ held' = [held EXCEPT ![p] = Nil]
        /\ Goto(p, "poll")
        /\ UNCHANGED <<todo, cur, caches>>
  /\ UNCHANGED <<opt, lists, best, solution, unread, timer, rounds>>

-----------------------------------------------------------------------------
(* check_received_nodes.                                                    *)

(* The master calls for the round that will stop the search.                *)
StopCalled(p) == p = master /\ timer = "on"

NetCalled(p) == IF StopCalled(p) THEN SyncSent(net, p) ELSE net

TimerCalled(p) == IF StopCalled(p) THEN "called" ELSE timer

ForgetForeign(p, n) == UNCHANGED lists               \* mutant of InsertForeign

(* closed_list_insert, then open_list_insert, of a node that was received:
   it has no applicable actions yet.                                        *)
InsertForeign(p, n) ==
  LET m == [n EXCEPT !.id = Cardinality(closed[p])]
  IN IF n.state \in ClosedStates(p)
       THEN UNCHANGED lists
       ELSE /\ closed' = [closed EXCEPT ![p] = @ \cup {m}]
            /\ open' = [open EXCEPT ![p] = @ \cup {m}]

(* mpi_recv_node gives the nodes of the buffer one after the other, before it
   probes for a message.                                                    *)
ReadNode(p) ==
  /\ pc[p] = "poll" /\ unread[p] # <<>>
  /\ InsertForeign(p, Head(unread[p]))
  /\ unread' = [unread EXCEPT ![p] = Tail(@)]
  /\ UNCHANGED <<opt, pc, cur, held, todo, best, solution, caches, timer, rounds>>

(* No message has arrived, although some may be under way.                  *)
PollNothing(p) ==
  /\ pc[p] = "poll" /\ unread[p] = <<>>
  /\ net' = NetCalled(p)
  /\ timer' = TimerCalled(p)
  /\ Goto(p, Resume(p))
  /\ UNCHANGED <<opt, cur, held, todo, lists, best, solution, cached, to_send,
                 unread, rounds>>

(* A batch from q is moved to the buffer; its nodes are read by the next
   call.                                                                    *)
PollBatch(p, q) ==
  /\ pc[p] = "poll" /\ unread[p] = <<>>
  /\ net[q][p] # <<>> /\ Head(net[q][p]) # <<>>
  /\ unread' = [unread EXCEPT ![p] = Head(net[q][p])]
  /\ net' = [NetCalled(p) EXCEPT ![q][p] = Tail(@)]
  /\ timer' = TimerCalled(p)
  /\ Goto(p, Resume(p))
  /\ UNCHANGED <<opt, cur, held, todo, lists, best, solution, cached, to_send,
                 rounds>>

(* A message of length 0 sends the process to the round.                    *)
PollSync(p, q) ==
  /\ pc[p] = "poll" /\ unread[p] = <<>>
  /\ net[q][p] # <<>> /\ Head(net[q][p]) = <<>>
  /\ net' = [NetCalled(p) EXCEPT ![q][p] = Tail(@)]
  /\ timer' = TimerCalled(p)
  /\ Goto(p, "round")
  /\ UNCHANGED <<opt, cur, held, todo, lists, best, solution, cached, to_send,
                 unread, rounds>>

-----------------------------------------------------------------------------
(* mpi_synchronize_solution.                                                *)

Offer(p) == IF solution[p] = Nil THEN MaxTime + 1 ELSE solution[p].mk

LastElected ==                                             \* mutant of Elected
  CHOOSE p \in Procs :
    \A q \in Procs : Offer(p) > Offer(q) \/ (Offer(p) = Offer(q) /\ p <= q)

(* MPI_MINLOC: the lowest of the processes with the least makespan.         *)
Elected ==
  CHOOSE p \in Procs :
    \A q \in Procs : \/ Offer(p) < Offer(q)
                     \/ Offer(p) = Offer(q) /\ p <= q

(* The timer goes first: a plan collected in the round it makes is given to
   nobody.  Without anytime the first round is the last.                    *)
Verdict ==
  IF timer # "off" THEN "timer" ELSE IF opt.anytime THEN "go on" ELSE "first"

(* Where the processes go when a round is over.                             *)
AfterRound(v) ==
  pc' = [p \in Procs |-> IF v = "go on" THEN Resume(p) ELSE "left"]

(* The two reductions: every process learns the least makespan and whether
   the master has to stop.  A makespan below that of the rounds before
   becomes the bound of every process, and its plan is collected.           *)
Reduce ==
  /\ \A p \in Procs : pc[p] = "round"
  /\ verdict' = Verdict
  /\ IF Offer(Elected) < mpi_best[master]
       THEN /\ mpi_best' = [p \in Procs |-> Offer(Elected)]
            /\ best' = [p \in Procs |-> Offer(Elected)]
            /\ path' = <<solution[Elected]>>
            /\ pc' = [p \in Procs |-> IF p = master THEN "gather" ELSE "serve"]
       ELSE /\ AfterRound(Verdict)
            /\ UNCHANGED <<mpi_best, best, path>>
  /\ UNCHANGED <<opt, cur, held, todo, lists, solution, caches, unread, timer,
                 given>>

Oldest == path[Len(path)]

AnyOwner(n) ==                                            \* mutant of ParentOf
  {m \in UNION {closed[q] : q \in Procs} : m.id = n.parent}

(* The node gather_node asks of the process that derived n.                 *)
ParentOf(n) == {m \in closed[n.rank] : m.id = n.parent}

Gather ==
  /\ pc[master] = "gather"
  /\ Oldest.parent # Nil
  /\ \E n \in ParentOf(Oldest) : path' = Append(path, n)
  /\ UNCHANGED <<opt, pc, cur, held, todo, lists, best, solution, caches, unread,
                 timer, mpi_best, verdict, given>>

(* The root is reached: the others are released, and the plan is traced or
   returned.                                                                *)
GatherEnd ==
  /\ pc[master] = "gather"
  /\ Oldest.parent = Nil
  /\ AfterRound(verdict)
  /\ given' = IF verdict = "timer" THEN given ELSE Append(given, Reverse(path))
  /\ path' = <<>>
  /\ UNCHANGED <<opt, cur, held, todo, lists, best, solution, caches, unread,
                 timer, mpi_best, verdict>>

(* The alarm of the master.                                                 *)
TimerExpires ==
  /\ opt.timer /\ timer = "off"
  /\ timer' = "on"
  /\ UNCHANGED <<opt, pc, cur, held, todo, lists, best, solution, caches, unread,
                 rounds>>

Stopped == \A p \in Procs : pc[p] = "left"

Terminating == Stopped /\ UNCHANGED vars

Local(p) ==
  \/ CloseInsert(p) \/ Compute(p) \/ Pop(p) \/ Expand(p)
  \/ ReadNode(p) \/ PollNothing(p)

Receive(p, q) == PollBatch(p, q) \/ PollSync(p, q)

Next ==
  \/ Begin
  \/ \E p \in Procs : Local(p)
  \/ \E p, q \in Procs : Receive(p, q)
  \/ Reduce \/ Gather \/ GatherEnd
  \/ TimerExpires
  \/ Terminating

Spec == Init /\ [][Next]_vars

(* Every process runs, collective calls complete, and a message under way
   is received when its receiver asks often enough; there are only finitely
   many messages, so no sender is neglected for ever.                       *)
FairSpec ==
  /\ Spec
  /\ WF_vars(Begin)
  /\ \A p \in Procs : WF_vars(Local(p))
  /\ \A p \in Procs : SF_vars(\E q \in Procs : Receive(p, q))
  /\ WF_vars(Reduce) /\ WF_vars(Gather) /\ WF_vars(GatherEnd)

=============================================================================
