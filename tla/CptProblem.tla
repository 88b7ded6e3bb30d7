----------------------------- MODULE CptProblem -----------------------------
(***************************************************************************)
(* What CPT makes of a grounded problem before it searches: create_problem *)
(* of src/cpt-yahsp/src/problem.cpp, with the reachability, relevance,     *)
(* mutex and distance computations of max_atom.cpp that it calls in turn.  *)
(* Each step is an operator on the record of the structures built so far.  *)
(*                                                                         *)
(* A fluent is a number; an action is a number too: 1 is start_action and  *)
(* 2 is end_action.  The code renumbers the actions that it keeps, in the  *)
(* same order.  Vectors without an order that matters are sets; a loop over*)
(* actions goes through them in the order of their numbers.                *)
(*                                                                         *)
(* Options: no PDDL 2.1, one whole problem (pb_restrict).  The mutexes of   *)
(* fluents are computed: opt.fluent_mutexes is set where yahsp is not used *)
(* (pddl.cpp l.293).                                                       *)
(***************************************************************************)
EXTENDS Integers, Sequences, FiniteSets, SequencesExt

CONSTANTS
  Problems,   (* what instantiate_operators may give: [prec, add, del, dur]  *)
  MaxTime     (* MAXTIME and MAXCOST                                        *)

Start == 1
End   == 2

Min2(x, y) == IF x < y THEN x ELSE y
Max2(x, y) == IF x > y THEN x ELSE y

(* FOR(x, tab), on a set of numbers.                                        *)
InOrder(S) == SelectSeq([n \in 1 .. Max(S) |-> n], LAMBDA n : n \in S)

ForEach(S, Op(_, _), s) ==
  MapThenFoldSet(LAMBDA x, r : Op(r, x), s, LAMBDA x : x, LAMBDA T : Max(T), S)

MaxOf(base, S) == FoldSet(Max2, base, S)
MinOf(base, S) == FoldSet(Min2, base, S)

-----------------------------------------------------------------------------
(* The structures.  acts, fluents: what is kept.                            *)

NewData(P) ==
  LET acts    == DOMAIN P.prec
      fluents == UNION {P.prec[a] \cup P.add[a] \cup P.del[a] : a \in acts}
  IN [acts |-> acts, fluents |-> fluents,
      prec |-> P.prec, add |-> P.add, del |-> P.del, dur |-> P.dur,
      edel |-> [a \in acts |-> {}],
      init  |-> [a \in acts |-> MaxTime],        (* a->init *)
      finit |-> [f \in fluents |-> MaxTime],     (* f->init *)
      fend  |-> [f \in fluents |-> MaxTime],     (* f->end  *)
      fmutex |-> {}, amutex |-> {}, dist |-> [a \in acts |-> [b \in acts |-> 0]]]

Consumers(D, f) == {a \in D.acts : f \in D.prec[a]}
Producers(D, f) == {a \in D.acts : f \in D.add[a]}

(* FORMIN(a, actions, 1), FORMIN(a, actions, 2).                            *)
AfterStart(D) == D.acts \ {Start}
RealActions(D) == D.acts \ {Start, End}

-----------------------------------------------------------------------------
(* compute_reachable: a fluent is reached when an action whose preconditions
   are all reached adds it.                                                 *)
RECURSIVE Reached(_, _)
Reached(D, F) ==
  LET G == F \cup UNION {D.add[a] : a \in {b \in D.acts : D.prec[b] \subseteq F}}
  IN IF G = F THEN F ELSE Reached(D, G)

ComputeReachable(D) ==
  LET F == Reached(D, {})
  IN [D EXCEPT
        !.init  = [a \in DOMAIN @ |-> IF D.prec[a] \subseteq F THEN 0 ELSE MaxTime],
        !.finit = [f \in DOMAIN @ |-> IF f \in F THEN 0 ELSE MaxTime]]

-----------------------------------------------------------------------------
(* The worklists of max_atom.cpp.  cost holds ainit, fcost holds finit; flag
   is areachable, the actions whose cost is to be computed again; loop says
   that a pass over the actions changed something.                          *)

RECURSIVE Passes(_, _, _)
Passes(S, Step(_, _), s) ==
  LET t == ForEach(S, LAMBDA r, a : IF a \in r.flag THEN Step([r EXCEPT !.flag = @ \ {a}], a)
                                                    ELSE r,
                   [s EXCEPT !.loop = FALSE])
  IN IF t.loop THEN Passes(S, Step, t) ELSE t

(* update_cost_rh1, update_cost_h1: a lower cost flags the actions that
   depend on the fluent.                                                    *)
Lower(s, f, cost, dependents) ==
  IF cost < s.fcost[f]
    THEN [s EXCEPT !.fcost[f] = cost, !.flag = @ \cup dependents]
    ELSE s

(* compute_init_rh1_cost, compute_rh1_cost: how far a fluent is from the
   goals; only whether it is finite is used later.                          *)
Rh1Step(D, s, a) ==
  LET cost == MinOf(MaxTime, {s.fcost[f] : f \in D.add[a]})
  IN IF cost < s.cost[a]
       THEN ForEach(D.prec[a],
                    LAMBDA r, f : Lower(r, f, cost + D.dur[a], Producers(D, f)),
                    [s EXCEPT !.loop = TRUE, !.cost[a] = cost])
       ELSE s

ComputeRelevant(D) ==
  LET none == [cost |-> [a \in D.acts |-> MaxTime], fcost |-> [f \in D.fluents |-> MaxTime],
               flag |-> {End}, loop |-> FALSE]
      goal == ForEach(D.prec[End], LAMBDA s, f : Lower(s, f, 0, Producers(D, f)), none)
      last == Passes(AfterStart(D), LAMBDA s, a : Rh1Step(D, s, a), goal)
      cost == [last.cost EXCEPT ![End] = 0]
      near == {a \in AfterStart(D) : cost[a] # MaxTime}
  IN [D EXCEPT !.fend = [f \in DOMAIN @ |->
        LET by == {a \in near : f \in D.add[a] \cup D.del[a]}
        IN IF by = {} THEN last.fcost[f] ELSE cost[Max(by)] + D.dur[Max(by)]]]

-----------------------------------------------------------------------------
(* keep_reachable.                                                          *)

(* An action that only adds what it needs and only deletes what it adds.    *)
Useless(D, a) == D.add[a] \subseteq D.prec[a] /\ D.del[a] \subseteq D.add[a]

Alive(D) == {a \in D.acts : D.init[a] # MaxTime}

StillNeeded(D) ==
  {f \in D.fluents : D.fend[f] # MaxTime /\ \E a \in Alive(D) : f \in D.prec[a] \cup D.del[a]}

DropUseless(D) ==
  [D EXCEPT !.init = [a \in DOMAIN @ |->
     IF a \in RealActions(D) /\ Useless(D, a) THEN MaxTime ELSE @[a]]]

RECURSIVE DropIdle(_)
DropIdle(D) ==
  LET F == StillNeeded(D)
      E == [D EXCEPT !.add = [a \in DOMAIN @ |-> IF a \in Alive(D) THEN @[a] \cap F ELSE @[a]]]
      idle == {a \in Alive(D) \cap RealActions(D) : E.add[a] = {}}
  IN IF idle = {} THEN E
     ELSE DropIdle([E EXCEPT !.init = [a \in DOMAIN @ |-> IF a \in idle THEN MaxTime ELSE @[a]]])

KeepReachable(D) ==
  LET E == DropIdle(DropUseless(D))
      F == StillNeeded(E)
      A == Alive(E)
      Cut(tab) == [a \in A |-> tab[a] \cap F]
  IN [E EXCEPT !.acts = A, !.fluents = F, !.prec = Cut(@), !.add = Cut(@),
               !.del = Cut(@), !.edel = Cut(@)]

(* "Start or End has been removed".                                         *)
Unsolvable(D) == ~({Start, End} \subseteq D.acts)

-----------------------------------------------------------------------------
(* compute_h1_cost, from fluents that hold at cost 0.                       *)
H1Step(D, s, a) ==
  LET cost == MaxOf(0, {s.fcost[f] : f \in D.prec[a]})
  IN IF cost < s.cost[a]
       THEN ForEach(D.add[a],
                    LAMBDA r, f : Lower(r, f, cost + D.dur[a], Consumers(D, f)),
                    [s EXCEPT !.loop = TRUE, !.cost[a] = cost])
       ELSE s

H1(D, holds) ==
  LET none  == [cost |-> [a \in D.acts |-> MaxTime], fcost |-> [f \in D.fluents |-> MaxTime],
                flag |-> {a \in AfterStart(D) : D.prec[a] = {}}, loop |-> FALSE]
      first == ForEach(holds, LAMBDA s, f : Lower(s, f, 0, Consumers(D, f)), none)
  IN Passes(AfterStart(D), LAMBDA s, a : H1Step(D, s, a), first)

(* compute_init_h0_cost, compute_init_h1_cost (-i).                         *)
InitialHeuristic(D, ih) ==
  LET h == H1(D, D.add[Start])
  IN IF ih = 0
       THEN [D EXCEPT !.init = [a \in DOMAIN @ |-> IF a \in D.acts THEN 0 ELSE @[a]]]
       ELSE [D EXCEPT
               !.init  = [a \in DOMAIN @ |-> IF a \in AfterStart(D) THEN h.cost[a] ELSE @[a]],
               !.finit = [f \in DOMAIN @ |-> IF f \in D.fluents THEN h.fcost[f] ELSE @[f]]]

-----------------------------------------------------------------------------
(* compute_init_edeletes, compute_edeletes.  Two fluents are mutex until an
   action adds both, or adds one while the other may hold.  The bit edeletes
   is borrowed to note that an action is known to leave a fluent alone.      *)

Pair(x, y) == {x, y}

TogetherUnseen(D, s, f, g) ==                              \* mutant of Together
  [s EXCEPT !.fmutex = @ \ {Pair(f, g)},
            !.flag = IF f = g THEN @ \cup Consumers(D, f) ELSE @]

Together(D, s, f, g) ==
  IF Pair(f, g) \in s.fmutex
    THEN [s EXCEPT !.fmutex = @ \ {Pair(f, g)},
                   !.flag = @ \cup Consumers(D, f) \cup Consumers(D, g)]
    ELSE s

TogetherAll(D, s, F, G) ==
  ForEach(F, LAMBDA r, f : ForEach(G, LAMBDA t, g : Together(D, t, f, g), r), s)

MayHoldWith(s, f, F) == \A g \in F : Pair(f, g) \notin s.fmutex

EdeletesStep(D, s0, a) ==
  LET s     == [s0 EXCEPT !.loop = TRUE]
      fires == a \in s.done \/ \A f \in D.prec[a] : MayHoldWith(s, f, D.prec[a])
      added == IF a \in s.done THEN s
               ELSE [TogetherAll(D, s, D.add[a], D.add[a]) EXCEPT !.done = @ \cup {a}]
  IN IF ~fires THEN s
     ELSE ForEach(D.fluents,
            LAMBDA r, f :
              IF f \notin r.bit[a] /\ MayHoldWith(r, f, D.prec[a])
                THEN TogetherAll(D, [r EXCEPT !.bit[a] = @ \cup {f}], {f}, D.add[a])
                ELSE r,
            added)

ComputeMutexes(D) ==
  LET all   == {Pair(f, g) : f \in D.fluents, g \in D.fluents}
      none  == [fmutex |-> all, bit |-> [a \in D.acts |-> D.del[a]], done |-> {},
                flag |-> {a \in AfterStart(D) : D.prec[a] = {}}, loop |-> FALSE]
      first == TogetherAll(D, none, D.add[Start], D.add[Start])
      last  == Passes(D.acts, LAMBDA s, a : EdeletesStep(D, s, a), first)
  IN [D EXCEPT !.fmutex = last.fmutex,
        !.init  = [a \in DOMAIN @ |-> IF a \in AfterStart(D) \ last.done THEN MaxTime ELSE @[a]],
        !.finit = [f \in DOMAIN @ |-> IF {f} \in last.fmutex THEN MaxTime ELSE @[f]]]

(* create_edeletes: what is false while the action executes, but for what it
   adds.                                                                    *)
DeletesInEffect(D, a) ==
  {f \in D.fluents : D.finit[f] # MaxTime /\
     (f \in D.del[a] \/ \E g \in D.prec[a] \cup D.add[a] : Pair(f, g) \in D.fmutex)}

CreateEdeletes(D) ==
  [D EXCEPT !.edel = [a \in DOMAIN @ |->
     IF a \in D.acts \ {End} THEN DeletesInEffect(D, a) ELSE @[a]]]

-----------------------------------------------------------------------------
(* create_structures, the third time: the mutexes of actions.               *)
CreateMutexes(D) ==
  LET spoils(a, b) == (D.del[a] \cup D.edel[a]) \cap (D.prec[b] \cup D.add[b]) # {}
  IN [D EXCEPT !.amutex =
        {Pair(p[1], p[2]) : p \in {q \in D.acts \X D.acts : spoils(q[1], q[2])}}]

(* finalize_structures: the mutexes of fluents again, from what the actions
   left delete.                                                             *)
Finalize(D) ==
  LET erases(a, f) == a = Start \/ f \in D.edel[a]
      mutex(f, g) ==
        \A a \in Producers(D, f), b \in Producers(D, g) :
          /\ g \notin D.add[a] /\ f \notin D.add[b]
          /\ erases(a, g) /\ erases(b, f)
  IN [D EXCEPT !.fmutex =
        {Pair(p[1], p[2]) : p \in {q \in D.fluents \X D.fluents : mutex(q[1], q[2])}}]

(* compute_h1_distances: the cost of an action right after another one.     *)
Distances(D, heuristic) ==
  [a \in D.acts |->
     IF heuristic = 0 THEN [b \in D.acts |-> 0]
     ELSE H1(D, {f \in D.fluents : f \notin D.edel[a] \/ f \in D.add[a]}).cost]
=============================================================================
