--------------------------- MODULE CptPropagation ---------------------------
(***************************************************************************)
(* The rules of CPT (src/cpt-yahsp/src/propagations.cpp, with the macros   *)
(* of structs.h and the set of mutex actions of scheduling.cpp): what is   *)
(* done to the structures of the search when an action enters the plan or  *)
(* leaves it, when two actions are ordered, and when a variable is taken   *)
(* out of an event queue.                                                  *)
(*                                                                         *)
(* The structures of the search are one record S.  Its variables are named *)
(* by pairs: <<a, 0>> is the date of the action a, <<a, f>> both the date  *)
(* and the support of the causal of a for its precondition f.  CptKernel   *)
(* has the domains, the trail and the queues in the detail of their memory;*)
(* here a domain is a set, and a queue the sequence of what is in it (to   *)
(* take a variable out of the middle of a queue, the first one takes its   *)
(* place).                                                                 *)
(*                                                                         *)
(* A contradiction leaves the rules by a longjmp: S.fail is raised, and    *)
(* every rule leaves a failed record alone.                                *)
(*                                                                         *)
(* Options: no clones (-c), unique supports; complete precedences and the  *)
(* sets of mutex actions in the first propagation only, as restrict_problem*)
(* sets them (S.first).  Weights and traces are left out.                  *)
(***************************************************************************)
EXTENDS CptProblem

VARIABLE data   (* actions, fluents, mutexes, and distances data.dist *)

Date(a)    == <<a, 0>>
Owner(x)   == x[1]
FluentOf(c) == c[2]
Causals    == {<<a, f>> \in data.acts \X data.fluents : f \in data.prec[a]}
Dates      == {Date(a) : a \in data.acts} \cup Causals

(* FOR(c, a->causals), FOR(c, f->causals), FOR(a, f->edeleters).            *)
CausalsOf(S, a, Op(_, _)) == ForEach(data.prec[a], LAMBDA s, f : Op(s, <<a, f>>), S)
CausalsFor(S, f, Op(_, _)) == ForEach(Consumers(data, f), LAMBDA s, a : Op(s, <<a, f>>), S)
EdeletersOf(f) == {a \in data.acts : f \in data.edel[a]}

Listed(S, list, Op(_, _)) == FoldLeft(Op, S, list)

(* FOR(c, f->active_causals).                                               *)
ActiveFor(S, f) == SelectSeq(S.active_causals, LAMBDA c : FluentOf(c) = f)

Mutex(a, b)    == Pair(a, b) \in data.amutex
Distance(a, b) == data.dist[a][b]
Delta(a, b)    == data.dur[a] + Distance(a, b)

-----------------------------------------------------------------------------
(* The event queues.                                                        *)

PostBound(S, x) ==
  IF Contains(S.queue.bound, x) THEN S ELSE [S EXCEPT !.queue.bound = Append(@, x)]

TakeOut(queue, c) == Tail([i \in DOMAIN queue |-> IF queue[i] = c THEN Head(queue) ELSE queue[i]])

PostInstantiate(S, c) ==
  IF Contains(S.queue.instantiate, c) THEN S
  ELSE [S EXCEPT !.queue.instantiate = Append(@, c),
                 !.queue.removal = IF Contains(@, c) THEN TakeOut(@, c) ELSE @]

PostRemoval(S, c) ==
  IF Contains(S.queue.instantiate, c) \/ Contains(S.queue.removal, c) THEN S
  ELSE [S EXCEPT !.queue.removal = Append(@, c)]

NoEvents == [instantiate |-> <<>>, bound |-> <<>>, removal |-> <<>>]

RazEvents(S) == [S EXCEPT !.queue = NoEvents]

NoEvent(S) == S.queue = NoEvents

IsProduced(S, c) == Cardinality(S.support[c]) = 1

ActivateAction(S, a) == IF S.fail THEN S ELSE PostBound(S, Date(a))
ActivateCausal(S, c) ==
  IF S.fail THEN S ELSE IF IsProduced(S, c) THEN PostInstantiate(S, c) ELSE PostRemoval(S, c)

-----------------------------------------------------------------------------
(* What a causal may be supported by, and what may come before what.        *)

CanProduce(S, c, p)   == c \notin S.cexcluded /\ p \in S.support[c]
HasProducer(S, c)     == c \in S.required /\ IsProduced(S, c)
ProducerOf(S, c)      == CHOOSE p \in S.support[c] : TRUE
Precedes(S, a, b)     == <<a, b>> \in S.precedences
DistanceAC(S, a, c)   == MinOf(MaxTime, {Distance(a, p) : p \in S.support[c]})

CannotPrecedeInTime(S, a, b) == S.inf[Date(a)] + Delta(a, b) > S.sup[Date(b)]
CannotPrecede(S, a, b)   == Precedes(S, b, a) \/ CannotPrecedeInTime(S, a, b)
CannotPrecedeCA(S, c, a) == CannotPrecede(S, Owner(c), a)
CannotPrecedeAC(S, a, c) ==
  \/ CannotPrecede(S, a, Owner(c))
  \/ /\ ~CanProduce(S, c, a)
     /\ \A p \in S.support[c] :
          \/ Precedes(S, p, a)
          \/ S.inf[Date(a)] + Delta(a, p) > Min2(S.sup[Date(p)], S.sup[c])

CanPrecede(S, a, b)   == S.inf[Date(a)] + Delta(a, b) <= S.inf[Date(b)]
CanPrecedeAC(S, a, c) ==
  CanProduce(S, c, a) \/ S.inf[Date(a)] + data.dur[a] + DistanceAC(S, a, c) <= S.inf[c]

-----------------------------------------------------------------------------
(* The rules call each other back: Call is any of them.                     *)

RECURSIVE Call(_, _, _, _)
RemProducer(S, c, p)   == Call("rem_producer", S, c, p)
SetProducer(S, c, p)   == Call("set_producer", S, c, p)
UpdateInf(S, x, t)     == Call("update_inf", S, x, t)
UpdateSup(S, x, t)     == Call("update_sup", S, x, t)
Exclude(S, a)          == Call("exclude_action", S, a, a)
MakePrecede(S, a, b)   == Call("make_precede", S, a, b)
OrderAA(S, a, b)       == Call("order_before_aa", S, a, b)
OrderAC(S, a, c)       == Call("order_before_ac", S, a, c)
OrderCA(S, c, a)       == OrderAA(S, Owner(c), a)
Protect(S, a, b)       == Call("protect", S, a, b)
MakeOrderAC(S, a, c)   == Call("make_order_ac", S, a, c)
UseAction(S, a)        == Call("use_action", S, a, a)
Propagate(S, x, event) == Call("propagate", S, x, event)
RestrictProblem(S, max)  == Call("restrict_problem", S, max, max)
Decide(S, choice, yes) == Call("propagate_choice", S, choice, yes)

-----------------------------------------------------------------------------
(* The operations on variables, with exclude_action as the hook of an empty
   domain.                                                                  *)

ProducerRemoved(S, c, p) ==
  LET T == [S EXCEPT !.support[c] = @ \ {p}]
  IN IF ~CanProduce(S, c, p) THEN S
     ELSE IF IsProduced(S, c) THEN Exclude(S, Owner(c))
     ELSE IF IsProduced(T, c) THEN PostInstantiate(T, c) ELSE PostRemoval(T, c)

ActionExcluded(S, a) ==
  LET T == ForEach(data.add[a], LAMBDA s, f :
             CausalsFor(s, f, LAMBDA r, c : RemProducer(r, c, a)),
             [S EXCEPT !.excluded = @ \cup {a}])
  IN IF a \in S.excluded \/ (a = End /\ a \notin S.used) THEN S
     ELSE IF a \in S.used THEN [S EXCEPT !.fail = TRUE]
     ELSE IF T.fail THEN T
     ELSE [T EXCEPT !.cexcluded = @ \cup {<<a, f>> : f \in data.prec[a]}]

ProducerSet(S, c, p) ==
  IF p \notin S.support[c] THEN Exclude(S, Owner(c))
  ELSE IF IsProduced(S, c) THEN S
  ELSE PostInstantiate([S EXCEPT !.support[c] = {p}], c)

InfRaised(S, x, t) ==
  IF t <= S.inf[x] THEN S
  ELSE IF t > S.sup[x] THEN Exclude(S, Owner(x))
  ELSE PostBound([S EXCEPT !.inf[x] = t], x)

SupLowered(S, x, t) ==
  IF t >= S.sup[x] THEN S
  ELSE IF t < S.inf[x] THEN Exclude(S, Owner(x))
  ELSE PostBound([S EXCEPT !.sup[x] = t], x)

-----------------------------------------------------------------------------
(* protect: with a before b, a cannot produce what b deletes for those after
   b, nor can those before a produce for b what a deletes.                  *)
Protected(S, a, b) ==
  LET lost(s, f) ==
        LET drop(r, c) == IF Precedes(r, b, Owner(c)) THEN RemProducer(r, c, a) ELSE r
        IN IF s.first THEN CausalsFor(s, f, drop) ELSE Listed(s, ActiveFor(s, f), drop)
      early(s, c) ==
        ForEach(s.support[c],
                LAMBDA r, p : IF Precedes(r, p, a) THEN RemProducer(r, c, p) ELSE r, s)
      T == IF b \in S.used THEN ForEach(data.add[a] \cap data.edel[b], lost, S) ELSE S
  IN IF a \in S.used
       THEN ForEach(data.prec[b] \cap data.edel[a], LAMBDA s, f : early(s, <<b, f>>), T)
       ELSE T

(* The actions whose precedences are kept up to date.                       *)
Ordered(S) == IF S.first THEN InOrder(data.acts) ELSE S.active_actions

(* The loop of make_precede, on one action; it ends when the loop returns.  *)
Transitive(r, a, b, x) ==
  LET s     == r.s
      after == b \in s.used /\ Precedes(s, b, x) /\ ~Precedes(s, a, x)
      t     == IF after THEN OrderAA(s, a, x) ELSE s
      early == a \in t.used /\ Precedes(t, x, a) /\ ~Precedes(t, x, b)
      u     == IF early THEN OrderAA(t, x, b) ELSE t
  IN IF r.over \/ s.fail \/ x \in s.excluded \cup {a, b} THEN r
     ELSE IF after /\ (t.fail \/ a \in t.excluded) THEN [s |-> t, over |-> TRUE]
     ELSE IF after /\ x \in t.excluded THEN [s |-> t, over |-> FALSE]
     ELSE [s |-> u, over |-> u.fail \/ (early /\ b \in u.excluded)]

NewPrecedence(S, a, b) ==
  LET r == FoldLeft(LAMBDA s, x : Transitive(s, a, b, x),
                    [s |-> Protect(S, a, b), over |-> FALSE], Ordered(S))
      T == Protect(r.s, a, b)
  IN IF r.over THEN r.s ELSE ActivateAction(ActivateAction(T, a), b)

Precedence(S, a, b) ==
  LET T == [S EXCEPT !.precedences = @ \cup {<<a, b>>}]
  IN IF a = b \/ Precedes(S, a, b) THEN S
     ELSE IF Precedes(S, b, a) /\ a \in S.used THEN Exclude(S, b)
     ELSE IF Precedes(S, b, a) /\ b \in S.used THEN Exclude(S, a)
     ELSE IF (IF S.first THEN {a, b} \cap S.excluded # {} ELSE ~({a, b} \subseteq S.used)) THEN S
     ELSE IF {a, b} \cap S.used = {} THEN T
     ELSE NewPrecedence(T, a, b)

(* order_before_aa, order_before_ac.                                        *)
ActionsOrdered(S, a, b) ==
  LET T == IF a \in S.used THEN UpdateInf(S, Date(b), S.inf[Date(a)] + Delta(a, b)) ELSE S
      U == IF b \in T.used THEN UpdateSup(T, Date(a), T.sup[Date(b)] - Delta(a, b)) ELSE T
  IN MakePrecede(U, a, b)

CausalOrdered(S, a, c) ==
  LET p == ProducerOf(S, c)
      d == IF CanProduce(S, c, a) THEN 0 ELSE data.dur[a] + DistanceAC(S, a, c)
      T == IF c \in S.required THEN UpdateSup(S, Date(a), S.sup[c] - d) ELSE S
      U == IF a \in T.used THEN UpdateInf(T, c, T.inf[Date(a)] + d) ELSE T
  IN IF ~HasProducer(S, c) THEN MakePrecede(U, a, Owner(c))
     ELSE IF a # p /\ p \in S.used THEN OrderAA(S, a, p) ELSE S

(* make_order_ac.                                                           *)
ThreatOrdered(S, a, c) ==
  LET T == IF CannotPrecedeCA(S, c, a) THEN OrderAC(S, a, c) ELSE S
  IN IF a = Owner(c) THEN S
     ELSE IF \/ a \notin S.excluded /\ c \in S.required
             \/ a \in S.used /\ c \notin S.cexcluded
       THEN IF CannotPrecedeAC(T, a, c) THEN OrderCA(T, c, a) ELSE T
       ELSE S

-----------------------------------------------------------------------------
(* use_action: a causal of an action in the plan is required.               *)
UseCausal(S, c) ==
  LET T == RemProducer(S, c, Owner(c))
  IN ActivateCausal([T EXCEPT !.required = @ \cup {c}, !.active_causals = Append(@, c)], c)

ActionUsed(S, a) ==
  LET T == [CausalsOf([S EXCEPT !.used = @ \cup {a}], a, UseCausal)
              EXCEPT !.active_actions = Append(@, a)]
      ordered(s, b) ==
        IF Precedes(s, b, a) THEN Protect(s, b, a)
        ELSE IF Precedes(s, a, b) THEN Protect(s, a, b) ELSE s
  IN IF a \in S.used THEN S
     ELSE IF a \in S.excluded THEN [S EXCEPT !.fail = TRUE]
     ELSE ActivateAction(IF T.first THEN ForEach(data.acts, ordered, T) ELSE T, a)

(* synchronize_causal, when the producer is known and when it is not.       *)
WithProducer(S, c) ==
  LET p  == ProducerOf(S, c)
      b  == Owner(c)
      d  == Delta(p, b)
      S1 == UpdateInf(S, Date(p), S.inf[c])
      S2 == UpdateInf(S1, c, S1.inf[Date(p)])
      S3 == UpdateInf(S2, Date(b), S2.inf[Date(p)] + d)
      S4 == UpdateSup(S3, Date(p), Min2(S3.sup[c], S3.sup[Date(b)] - d))
      S5 == UpdateSup(S4, c, S4.sup[Date(p)])
      S6 == UseAction(S5, p)
  IN IF b \in S6.used THEN MakePrecede(S6, p, b) ELSE S6

ImpossibleAtLast(S, p, c) ==                               \* mutant of Impossible
  LET b == Owner(c)
  IN \/ S.sup[Date(p)] < S.inf[c] \/ S.inf[Date(p)] > S.sup[c]
     \/ CannotPrecede(S, p, b)
     \/ S.inf[c] >= S.sup[Date(b)] - Delta(p, b)

Impossible(S, p, c) ==
  LET b == Owner(c)
  IN \/ S.sup[Date(p)] < S.inf[c] \/ S.inf[Date(p)] > S.sup[c]
     \/ CannotPrecede(S, p, b)
     \/ S.inf[c] > S.sup[Date(b)] - Delta(p, b)

AmongProducers(S, c) ==
  LET b  == Owner(c)
      no == {p \in S.support[c] : Impossible(S, p, c)}
      ok == S.support[c] \ no
      S1 == ForEach(no, LAMBDA s, p : RemProducer(s, c, p), S)
      S2 == UpdateInf(S1, Date(b),
              MinOf(MaxTime, {Max2(S.inf[Date(p)], S.inf[c]) + Delta(p, b) : p \in ok}))
      S3 == UpdateInf(S2, c, MinOf(MaxTime, {S.inf[Date(p)] : p \in ok}))
      S4 == UpdateSup(S3, c,
              MaxOf(0, {Min2(S.sup[Date(p)], S.sup[Date(b)] - Delta(p, b)) : p \in ok}))
  IN UpdateSup(S4, Date(b), IF ok = {} THEN 0 ELSE MaxTime)

SynchronizeCausal(S, c) ==
  IF HasProducer(S, c) THEN WithProducer(S, c) ELSE AmongProducers(S, c)

(* protect_causal.  An action that needs a fluent which it also deletes does
   not share the producer with another one that does.                       *)
UniqueSupport(S, c) ==
  LET f == FluentOf(c)
      p == ProducerOf(S, c)
      other(s, d) == IF d # c /\ f \in data.edel[Owner(d)] THEN RemProducer(s, d, p) ELSE s
  IN IF HasProducer(S, c) /\ p \in S.used THEN CausalsFor(S, f, other) ELSE S

ProtectCausal(S, c, event) ==
  LET f == FluentOf(c)
      order(s, a) ==
        IF a \in s.excluded \/ c \in s.cexcluded THEN s ELSE MakeOrderAC(s, a, c)
      T == IF c \in S.required THEN ForEach(EdeletersOf(f), order, S) ELSE S
  IN IF /\ ~T.fail /\ c \notin T.cexcluded /\ c \in T.required
        /\ event = "instantiate" /\ f \in data.edel[Owner(c)]
       THEN UniqueSupport(T, c) ELSE T

(* protect_against, for an action in the plan.                              *)
OrderWith(S, a, b) ==
  IF a = b THEN S
  ELSE IF Precedes(S, a, b) THEN OrderAA(S, a, b)
  ELSE IF Precedes(S, b, a) THEN OrderAA(S, b, a)
  ELSE IF ~Mutex(a, b) THEN S
  ELSE IF CannotPrecedeInTime(S, b, a) THEN OrderAA(S, a, b)
  ELSE IF CannotPrecedeInTime(S, a, b) THEN OrderAA(S, b, a)
  ELSE S

ProtectAgainst(S, a) ==
  LET T == Listed(S, S.active_actions, LAMBDA s, b : OrderWith(s, a, b))
  IN IF a \notin S.used THEN S
     ELSE ForEach(data.edel[a],
            LAMBDA s, f : Listed(s, ActiveFor(s, f), LAMBDA r, c : MakeOrderAC(r, a, c)), T)

(* propagate_action, propagate_causal: the hooks of the variables.          *)
ActionPropagated(S, a) ==
  LET T == ProtectAgainst(S, a)
      U == CausalsOf(T, a, ActivateCausal)
      served(s, c) == IF CanProduce(s, c, a) THEN ActivateCausal(s, c) ELSE s
  IN IF a \in S.excluded THEN S
     ELSE ForEach(data.add[a], LAMBDA s, f : CausalsFor(s, f, served), U)

CausalPropagated(S, c, event) ==
  LET T == SynchronizeCausal(S, c)
  IN IF c \in S.cexcluded THEN S
     ELSE IF T.fail \/ c \in T.cexcluded THEN T
     ELSE ProtectCausal(T, c, event)

VariablePropagated(S, x, event) ==
  IF FluentOf(x) = 0 THEN ActionPropagated(S, Owner(x)) ELSE CausalPropagated(S, x, event)

(* propagate_conflict_choice, propagate_support_choice,
   propagate_mutex_choice; yes: first == choice->direction.                 *)
Decided(S, choice, yes) ==
  LET x == choice.x
      y == choice.y
  IN CASE choice.type = "conflict" -> IF yes THEN OrderAC(S, y, x) ELSE OrderCA(S, x, y)
       [] choice.type = "support"  -> IF yes THEN SetProducer(S, x, y) ELSE RemProducer(S, x, y)
       [] choice.type = "mutex"    -> IF yes THEN OrderAA(S, x, y) ELSE OrderAA(S, y, x)

(* restrict_problem, for the whole problem, up to its propagate().          *)
ProblemRestricted(S, max_makespan) ==
  LET S1 == UseAction(UseAction(S, Start), End)
      S2 == UpdateSup(UpdateSup(S1, Date(Start), 0), Date(End), max_makespan)
  IN ForEach(data.acts, LAMBDA s, a : MakePrecede(MakePrecede(s, Start, a), a, End),
             [S2 EXCEPT !.first = TRUE])

Call(rule, S, x, y) ==
  IF S.fail THEN S
  ELSE CASE rule = "rem_producer"     -> ProducerRemoved(S, x, y)
         [] rule = "set_producer"     -> ProducerSet(S, x, y)
         [] rule = "update_inf"       -> InfRaised(S, x, y)
         [] rule = "update_sup"       -> SupLowered(S, x, y)
         [] rule = "exclude_action"   -> ActionExcluded(S, x)
         [] rule = "protect"          -> Protected(S, x, y)
         [] rule = "make_precede"     -> Precedence(S, x, y)
         [] rule = "order_before_aa"  -> ActionsOrdered(S, x, y)
         [] rule = "order_before_ac"  -> CausalOrdered(S, x, y)
         [] rule = "make_order_ac"    -> ThreatOrdered(S, x, y)
         [] rule = "use_action"       -> ActionUsed(S, x)
         [] rule = "restrict_problem" -> ProblemRestricted(S, x)
         [] rule = "propagate"        -> VariablePropagated(S, x, y)
         [] rule = "propagate_choice" -> Decided(S, x, y)

(* One turn of propagate(): the first event of the first queue that has one. *)
NextEvent(S) ==
  LET kind == IF S.queue.instantiate # <<>> THEN "instantiate"
              ELSE IF S.queue.bound # <<>> THEN "bound" ELSE "removal"
  IN Propagate([S EXCEPT !.queue[kind] = Tail(@)], Head(S.queue[kind]), kind)

-----------------------------------------------------------------------------
(* global_mutex_sets, makespan_mutex_set: actions that exclude each other two
   by two follow each other, so End comes after them all.                   *)
Gap(S, a, b) == Max2(Distance(a, b), S.inf[Date(b)] - (S.sup[Date(a)] + data.dur[a]))

MinDistance(S, a, b) ==
  IF Precedes(S, b, a) THEN Gap(S, b, a)
  ELSE IF Precedes(S, a, b) THEN Gap(S, a, b)
  ELSE Min2(Gap(S, a, b), Gap(S, b, a))

MutexSet(S, a) ==
  FoldLeft(LAMBDA set, b :
             IF b # a /\ b \in RealActions(data) /\ \A x \in set : Mutex(b, x)
               THEN set \cup {b} ELSE set,
           {a}, S.active_actions)

MakespanOf(S, set) ==
  LET gap(a) == MinOf(MaxTime, {MinDistance(S, a, b) : b \in set \ {a}})
      length == FoldSet(LAMBDA a, n : n + data.dur[a] + gap(a), 0, set)
                - MaxOf(0, {gap(a) : a \in set})
      first  == MinOf(MaxTime, {S.inf[Date(a)] : a \in set})
      last   == MaxOf(0, {S.sup[Date(a)] + data.dur[a] : a \in set})
  IN IF Cardinality(set) < 2 THEN S
     ELSE IF last - first < length THEN [S EXCEPT !.fail = TRUE]
     ELSE UpdateInf(S, Date(End),
            first + length + MinOf(MaxTime, {Distance(a, End) : a \in set}))

GlobalMutexSets(S) ==
  Listed(S, SelectSeq(S.active_actions, LAMBDA a : a \in RealActions(data)),
         LAMBDA s, a : MakespanOf(s, MutexSet(s, a)))

-----------------------------------------------------------------------------
(* The variables that create_problem makes.                                 *)
NewVariables ==
  [inf  |-> [x \in Dates |-> IF FluentOf(x) = 0 THEN data.init[Owner(x)] ELSE 0],
   sup  |-> [x \in Dates |-> MaxTime],
   support |-> [c \in Causals |-> Producers(data, FluentOf(c))],
   used |-> {}, excluded |-> {}, required |-> {}, cexcluded |-> {}, precedences |-> {},
   active_actions |-> <<>>, active_causals |-> <<>>,
   queue |-> NoEvents, fail |-> FALSE, first |-> FALSE]

(* compute_bad_supporters: right after a, with f protected from then on, the
   consumer must still become applicable.                                   *)
RECURSIVE ReachedWithout(_, _)
ReachedWithout(F, barred) ==
  LET by == {b \in data.acts \ barred : data.prec[b] # {} /\ data.prec[b] \subseteq F}
      G  == F \cup UNION {data.add[b] : b \in by}
  IN IF G = F THEN F ELSE ReachedWithout(G, barred)

BadSupporters(S) ==
  ForEach(data.acts, LAMBDA s, a :
    ForEach(data.add[a], LAMBDA r, f :
      LET barred == EdeletersOf(f) \cup Producers(data, f)
          F      == ReachedWithout(data.add[a] \cup (data.fluents \ data.edel[a]), barred)
      IN CausalsFor(r, f, LAMBDA t, c :
           IF data.prec[Owner(c)] \subseteq F THEN t ELSE RemProducer(t, c, a)),
      s),
    S)

(* compute_distance_boosting: a consumer that undoes its producer needs
   something in between.                                                    *)
Undone(p, b, f) ==
  f \in data.edel[p] /\ data.add[b] \subseteq data.prec[p] /\ data.add[p] \subseteq data.edel[b]

Between(p, f) ==
  {a \in RealActions(data) : data.prec[a] \cap data.add[p] # {} /\ f \notin data.edel[a]}

(* x: the structures and the distances.                                     *)
Boost(x, p, c) ==
  LET b     == Owner(c)
      inter == Between(p, FluentOf(c)) \cup (x.S.support[c] \cap RealActions(data))
      new   == MinOf(MaxTime, {x.dist[p][a] + data.dur[a] + x.dist[a][b] : a \in inter})
  IN IF ~Undone(p, b, FluentOf(c)) THEN x
     ELSE IF Between(p, FluentOf(c)) = {} THEN [x EXCEPT !.S = RemProducer(x.S, c, p)]
     ELSE [x EXCEPT !.dist[p][b] = Max2(@, new)]

DistanceBoosting(S) ==
  ForEach(RealActions(data), LAMBDA x, b :
    ForEach(data.prec[b], LAMBDA y, f :
      ForEach(y.S.support[<<b, f>>],
        LAMBDA z, p : IF p \in z.S.support[<<b, f>>] THEN Boost(z, p, <<b, f>>) ELSE z, y), x),
    [S |-> S, dist |-> data.dist])

(* compute_relevance: the latest date at which an action may still serve.   *)
RECURSIVE Serve(_, _, _, _)
Serve(S, init, a, limit) ==
  LET through(m, c) ==
        ForEach(S.support[c], LAMBDA n, p :
          LET d == Delta(p, a)
          IN IF S.inf[Date(p)] + d <= S.sup[Date(a)] /\ S.inf[Date(p)] <= limit - d
               THEN Serve(S, n, p, limit - d) ELSE n, m)
  IN IF limit <= init[a] THEN init
     ELSE CausalsOf([init EXCEPT ![a] = limit], a, through)

ComputeRelevance(S, limit) ==
  LET init == Serve(S, [a \in data.acts |-> 0], End, limit)
  IN ForEach(RealActions(data), LAMBDA s, a : UpdateSup(s, Date(a), init[a]), S)
=============================================================================
