----------------------------- MODULE Variation -----------------------------
(***************************************************************************)
(* The genotype of Descarwin: a decomposition is a sequence of             *)
(* intermediate goals, a goal a set of atoms and a date.  Each operator    *)
(* gives the set of the results its random draws can lead to               *)
(* (initialization/init.h, variation/*.h, utils/utils.h).                  *)
(***************************************************************************)
EXTENDS Strips

CONSTANTS
  Date,      (* atom.earliest_start_time(): date at which a fluent can hold *)
  Mutexes,   (* pairs of fluents that fmutex tells apart                    *)
  Radius,    (* dates AddGoal looks at around the one it drew               *)
  LMax       (* l_max: longest decomposition that is evaluated              *)

ASSUME VariationAssumption ==
  /\ Date \in [Fluent -> Nat]
  /\ \A f \in InitState : Date[f] = 0
  /\ Mutexes \subseteq {{f, g} : f, g \in Fluent}
  /\ Radius \in Nat /\ LMax \in Nat \ {0}

(* The chronological partition.                                             *)
Dates == {Date[f] : f \in Fluent}
At(t) == {f \in Fluent : Date[f] = t}

Exclusive(atoms) == \E f, g \in atoms : f # g /\ {f, g} \in Mutexes

(* has_one_mutex_in                                                         *)
HasMutexIn(f, atoms) == f \in atoms \/ \E g \in atoms : {f, g} \in Mutexes

(* nomutex: atoms drawn one by one, each throwing out those it excludes.    *)
NoMutex(candidates) ==
  {s \in SUBSET candidates : ~Exclusive(s) /\ \A f \in candidates \ s : HasMutexIn(f, s)}

Goal(atoms) == [atoms |-> atoms, date |-> Max({Date[f] : f \in atoms})]

(* random_subset                                                            *)
RandomSubset(atoms) == {Goal(s) : s \in (SUBSET atoms) \ {{}}}

RandomGoals(candidates) == UNION {RandomSubset(s) : s \in NoMutex(candidates)}

(* Init::operator(): different dates but the first, in order, a goal each.  *)
InitialGoals ==
  LET goals == UNION {RandomGoals(At(t)) : t \in Dates \ {Min(Dates)}}
  IN UNION {{l \in [1 .. n -> goals] : \A i, j \in 1 .. n : i < j => l[i].date < l[j].date} :
              n \in 1 .. LMax}

(* Goals the operators can work on: what random_goal and solve assert.      *)
Usable ==
  {g \in [atoms : SUBSET Fluent, date : Dates \ {0}] :
     /\ g.atoms # {} /\ ~Exclusive(g.atoms)
     /\ \A f \in g.atoms : Date[f] # 0 /\ Date[f] <= g.date}

(* The goals at some places, in their order.                                *)
Kept(goals, places) ==
  [k \in 1 .. Cardinality(places) |->
     goals[CHOOSE i \in places : Cardinality({j \in places : j < i}) = k - 1]]

(* CrossOverTimeFilterHalf: where goal i of the first is the earlier, what
   comes up to it and then what follows j in the second; where it is not,
   what precedes j in the second and then what comes from it on.            *)
CutAt(one, two, i, j) ==
  LET d1 == one[i].date
      d2 == two[j].date
  IN IF d2 > d1
     THEN SubSeq(one, 1, i) \o Kept(two, {k \in j .. Len(two) : two[k].date > d1})
     ELSE Kept(two, {k \in 1 .. j : two[k].date < d2}) \o SubSeq(one, i, Len(one))

Crossed(one, two) == {CutAt(one, two, i, j) : i \in DOMAIN one, j \in DOMAIN two}

(* rng.random(n) *)
Draw(n) == 0 .. Max({n - 1, 0})

(* MutationDelGoal, with the number of subplans found (last_reached() + 1). *)
GoalDeleted(goals, reached) ==
  IF Len(goals) <= 1 THEN {}
  ELSE {RemoveAt(goals, i + 1) : i \in Draw(Min({Len(goals), reached}))}

(* MutationDelAtom: the date of a goal stays as it is.                      *)
Lightened(g) ==
  {g} \cup {[g EXCEPT !.atoms = @ \ {f}] : f \in IF Cardinality(g.atoms) > 1 THEN g.atoms ELSE {}}

AtomsDeleted(goals, reached) ==
  {[i \in DOMAIN goals |-> IF i \in DOMAIN c THEN c[i] ELSE goals[i]] :
     c \in {c \in [1 .. Min({Len(goals), reached}) -> UNION {Lightened(g) : g \in ToSet(goals)}] :
              \A i \in DOMAIN c : c[i] \in Lightened(goals[i])}}

KeepsMutex(candidates, atoms) == candidates \ atoms   \* mutant of Drawable
(* draw_until_nomutex *)
Drawable(candidates, atoms) == {f \in candidates : ~HasMutexIn(f, atoms)}

(* MutationChangeAddAtom: an atom makes room for another of its date, if one
   goes with all that are there, and one more may be added.                 *)
Replaced(atoms, old) ==
  LET new == Drawable(At(Date[old]) \ {old}, atoms)
  IN IF new = {} THEN {atoms} ELSE {(atoms \ {old}) \cup {f} : f \in new}

Added(atoms, old) == {atoms \cup {f} : f \in Drawable(At(Date[old]) \ {old}, atoms)}

Touched(g) ==
  {g} \cup {[g EXCEPT !.atoms = s] :
              s \in UNION {UNION {{r} \cup Added(r, old) : r \in Replaced(g.atoms, old)} : old \in g.atoms}}

AtomsChanged(goals) ==
  {c \in [DOMAIN goals -> UNION {Touched(g) : g \in ToSet(goals)}] :
     \A i \in DOMAIN goals : c[i] \in Touched(goals[i])}

(* random_goal: atoms of a date in ]t1, t2] and of the dates around it, but
   for the first one.                                                       *)
Later(t) == {u \in Dates : u > t}
WithFirst(t) == UNION {At(u) : u \in {u \in Dates : Cardinality(Later(u) \ Later(t)) <= Radius}}  \* mutant of Around
Around(t) ==
  LET before == {u \in Dates : u < t /\ Cardinality(Later(u) \ Later(t)) <= Radius}
      after  == {u \in Dates : u > t /\ Cardinality(Later(t) \ Later(u)) <= Radius}
  IN UNION {At(u) : u \in (before \ {Min(Dates)}) \cup {t} \cup after}

GoalsBetween(t1, t2) ==
  UNION {RandomGoals(Around(t)) : t \in {t \in Dates : t1 < t /\ t <= t2}}

(* MutationAddGoal: a goal before the first, between two, or at the end.    *)
DrawnAfter(goals, j) ==
  LET last    == Len(goals)
      date(i) == goals[i].date
  IN IF j = 0 THEN GoalsBetween(0, date(1))
     ELSE IF j < last THEN IF date(j) < date(j + 1) THEN GoalsBetween(date(j), date(j + 1)) ELSE {}
     ELSE GoalsBetween(Max({t \in Dates : t < date(last)}), Max(Dates))

GoalAdded(goals, reached) ==
  UNION {{InsertAt(goals, j + 1, g) : g \in DrawnAfter(goals, j)} : j \in Draw(reached)}

=============================================================================
