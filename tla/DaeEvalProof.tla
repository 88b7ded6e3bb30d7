---------------------------- MODULE DaeEvalProof ----------------------------
(***************************************************************************)
(* Theorems about decompositions, for every problem, chronological         *)
(* partition, mutexes and planner: no sequence of draws, crossovers,       *)
(* mutations and evaluations makes a goal that cannot be asked for, and    *)
(* the steps of a compressed plan never disturb each other.  Where steps   *)
(* of length zero at one date are in the right order by their ids, what a  *)
(* decomposition remembers of its evaluation is about the goals it has,    *)
(* and the plan put together from the subplans can be carried out.         *)
(***************************************************************************)
EXTENDS DaeEval, StripsProof

Decompositions == Seq(Usable) \ {<<>>}

-----------------------------------------------------------------------------
(* The chronological partition and the goals drawn from it.                *)

LEMMA DatesAreNaturals ==
  /\ Dates \subseteq Nat
  /\ IsFiniteSet(Dates)
  /\ \A f \in Fluent : Date[f] \in Dates
  <1>1. Date \in [Fluent -> Nat]
    BY VariationAssumption
  <1>2. Date \in Surjection(Fluent, Dates)
    BY <1>1 DEF Surjection, Dates
  <1>3. IsFiniteSet(Dates)
    BY <1>2, StripsAssumption, FS_Surjection
  <1>4. QED
    BY <1>1, <1>3 DEF Dates

(* The dates after the first one are not 0.                                *)
LEMMA LaterThanFirst ==
  ASSUME NEW t \in Dates \ {Min(Dates)}
  PROVE  t \in Nat /\ t # 0
  <1>1. Dates \subseteq Nat /\ Dates # {} /\ t \in Dates /\ t # Min(Dates)
    BY DatesAreNaturals
  <1>2. Min(Dates) \in Dates /\ Min(Dates) <= t
    BY <1>1, LeastNatural
  <1>3. Min(Dates) \in Nat /\ t \in Nat
    BY <1>1, <1>2
  <1>4. QED
    BY <1>1, <1>2, <1>3

LEMMA AtFacts ==
  ASSUME NEW t
  PROVE  At(t) \subseteq Fluent /\ \A f \in At(t) : Date[f] = t
  BY DEF At

(* The goal random_subset makes of atoms.                                  *)
LEMMA GoalUsable ==
  ASSUME NEW s \in SUBSET Fluent, s # {}, ~Exclusive(s), \A f \in s : Date[f] # 0
  PROVE  Goal(s) \in Usable
  <1> DEFINE D == {Date[f] : f \in s}
  <1>1. D \subseteq Dates /\ D # {} /\ 0 \notin D
    BY DatesAreNaturals
  <1>2. IsFiniteSet(D) /\ D \subseteq Nat
    BY <1>1, DatesAreNaturals, FS_Subset
  <1>3. Max(D) \in D /\ \A t \in D : t <= Max(D)
    <2> HIDE DEF D
    <2> QED
      BY <1>1, <1>2, GreatestNatural
  <1>4. Goal(s) = [atoms |-> s, date |-> Max(D)]
    BY DEF Goal
  <1>5. \A f \in s : Date[f] <= Max(D)
    BY <1>3
  <1>6. Max(D) \in Dates \ {0}
    BY <1>1, <1>3
  <1>7. QED
    <2> HIDE DEF D
    <2> QED
      BY <1>4, <1>5, <1>6 DEF Usable

(* Fewer atoms do not exclude each other more.                             *)
LEMMA FewerExclude ==
  ASSUME NEW s, NEW r \in SUBSET s, ~Exclusive(s)
  PROVE  ~Exclusive(r)
  BY DEF Exclusive

LEMMA RandomGoalsUsable ==
  ASSUME NEW c \in SUBSET Fluent, \A f \in c : Date[f] # 0
  PROVE  RandomGoals(c) \subseteq Usable
  <1> SUFFICES ASSUME NEW g \in RandomGoals(c) PROVE g \in Usable
    OBVIOUS
  <1>1. PICK s \in NoMutex(c) : g \in RandomSubset(s)
    BY DEF RandomGoals
  <1>2. PICK r \in (SUBSET s) \ {{}} : g = Goal(r)
    BY <1>1, Zenon DEF RandomSubset
  <1>3. s \in SUBSET c /\ ~Exclusive(s)
    BY <1>1 DEF NoMutex
  <1>4. r \subseteq s /\ s \subseteq c /\ r # {}
    BY <1>2, <1>3
  <1>5. ~Exclusive(r)
    BY <1>2, <1>3, FewerExclude
  <1>6. r \in SUBSET Fluent /\ \A f \in r : Date[f] # 0
    BY <1>4
  <1>7. QED
    BY <1>2, <1>4, <1>5, <1>6, GoalUsable

(* Init draws usable goals only.                                           *)
LEMMA InitialUsable == InitialGoals \subseteq Decompositions
  <1> SUFFICES ASSUME NEW l \in InitialGoals PROVE l \in Decompositions
    OBVIOUS
  <1> DEFINE GoalsDrawn == UNION {RandomGoals(At(t)) : t \in Dates \ {Min(Dates)}}
  <1>1. PICK n \in 1 .. LMax : l \in [1 .. n -> GoalsDrawn]
    BY Zenon DEF InitialGoals
  <1>2. GoalsDrawn \subseteq Usable
    <2>1. ASSUME NEW t \in Dates \ {Min(Dates)}
          PROVE  RandomGoals(At(t)) \subseteq Usable
      BY LaterThanFirst, AtFacts, RandomGoalsUsable
    <2>2. QED
      BY <2>1
  <1>3. l \in [1 .. n -> Usable] /\ n \in Nat \ {0}
    <2> HIDE DEF GoalsDrawn
    <2> QED
      BY <1>1, <1>2, VariationAssumption
  <1>4. l \in Seq(Usable) /\ Len(l) = n
    BY <1>3
  <1>5. QED
    BY <1>3, <1>4 DEF Decompositions

-----------------------------------------------------------------------------
(* Kept: the places of a set can be counted from the lowest.               *)

LEMMA NthPlace ==
  ASSUME NEW I, I \subseteq Nat, IsFiniteSet(I), NEW k \in 1 .. Cardinality(I)
  PROVE  \E i \in I : Cardinality({j \in I : j < i}) = k - 1
  <1> DEFINE Below(i) == {j \in I : j < i}
             Has(n) == \E i \in I : Cardinality(Below(i)) = n - 1
             Bad == {n \in 1 .. Cardinality(I) : ~Has(n)}
  <1>0. Cardinality(I) \in Nat
    BY FS_CardinalityType
  <1>1. Bad = {}
    <2> SUFFICES ASSUME Bad # {} PROVE FALSE
      OBVIOUS
    <2>1. Bad \subseteq Nat
      BY <1>0
    <2>2. Min(Bad) \in Bad /\ \A n \in Bad : Min(Bad) <= n
      <3> HIDE DEF Bad
      <3> QED
        BY <2>1, LeastNatural
    <2>3. PICK n \in Bad : \A m \in Bad : n <= m
      BY <2>2
    <2>4. n \in 1 .. Cardinality(I) /\ ~Has(n)
      OBVIOUS
    <2>5. CASE n = 1
      <3>1. I # {}
        BY <1>0, <2>4, FS_EmptySet
      <3>2. PICK i \in I : \A j \in I : i <= j
        BY <3>1, LeastNatural
      <3>3. Below(i) = {}
        <4> SUFFICES ASSUME NEW j \in I, j < i PROVE FALSE
          OBVIOUS
        <4>1. j \in Nat /\ i \in Nat /\ i <= j
          BY <3>2
        <4>2. QED
          BY <4>1
      <3>4. Cardinality(Below(i)) = n - 1
        <4>1. Cardinality({}) = 0 /\ 1 - 1 = 0
          BY FS_EmptySet
        <4>2. QED
          BY <2>5, <3>3, <4>1, Zenon
      <3>5. QED
        BY <2>4, <3>4
    <2>6. CASE n # 1
      <3>1. n \in Nat /\ n - 1 \in 1 .. Cardinality(I) /\ ~(n <= n - 1) /\ n <= Cardinality(I)
        BY <1>0, <2>4, <2>6
      <3>2. n - 1 \notin Bad
        BY <2>3, <3>1, Zenon
      <3>3. Has(n - 1)
        BY <3>1, <3>2, Zenon
      <3>4. PICK i \in I : Cardinality(Below(i)) = n - 2
        <4>1. (n - 1) - 1 = n - 2
          BY <3>1
        <4>2. QED
          BY <3>3, <4>1, Zenon
      <3> DEFINE Lower == Below(i) \cup {i}
                 Above == I \ Lower
      <3>5. IsFiniteSet(Below(i)) /\ i \notin Below(i)
        BY FS_Subset
      <3>6. IsFiniteSet(Lower) /\ Cardinality(Lower) = n - 1
        <4>1. IsFiniteSet(Lower) /\ Cardinality(Lower) = Cardinality(Below(i)) + 1
          <5> HIDE DEF Below
          <5> QED
            BY <3>5, FS_AddElement
        <4>2. QED
          BY <3>1, <3>4, <4>1
      <3>7. Above # {}
        <4>1. Lower \subseteq I
          OBVIOUS
        <4>2. Lower # I
          <5> HIDE DEF Lower
          <5> QED
            BY <1>0, <3>1, <3>6
        <4>3. QED
          BY <4>1, <4>2
      <3>8. PICK l \in Above : \A j \in Above : l <= j
        <4>1. Above \subseteq Nat
          OBVIOUS
        <4> HIDE DEF Above
        <4>2. QED
          BY <3>7, <4>1, LeastNatural
      <3>9. Below(l) = Lower
        <4>1. l \in Nat /\ i \in Nat /\ ~(l < i) /\ l # i
          OBVIOUS
        <4>2. ASSUME NEW j \in I
              PROVE  j < l <=> j \in Lower
          BY <3>8, <4>1, <4>2
        <4>3. QED
          BY <4>2
      <3>10. Has(n)
        BY <3>6, <3>9
      <3>11. QED
        BY <2>4, <3>10
    <2>7. QED
      BY <2>5, <2>6
  <1>2. QED
    BY <1>1

LEMMA KeptType ==
  ASSUME NEW S, NEW s \in Seq(S), NEW I \in SUBSET (1 .. Len(s))
  PROVE  Kept(s, I) \in Seq(S)
  <1> DEFINE Place(k) == CHOOSE i \in I : Cardinality({j \in I : j < i}) = k - 1
  <1>0. Len(s) \in Nat
    OBVIOUS
  <1>1. IsFiniteSet(I) /\ I \subseteq Nat
    <2>1. IsFiniteSet(1 .. Len(s))
      BY <1>0, FS_Interval
    <2>2. IsFiniteSet(I)
      BY <2>1, FS_Subset, Zenon
    <2>3. QED
      BY <2>2
  <1>2. Cardinality(I) \in Nat
    BY <1>1, FS_CardinalityType
  <1>3. ASSUME NEW k \in 1 .. Cardinality(I)
        PROVE  s[Place(k)] \in S
    <2>1. \E i \in I : Cardinality({j \in I : j < i}) = k - 1
      BY <1>1, NthPlace
    <2>2. Place(k) \in I
      BY <2>1, Zenon
    <2> HIDE DEF Place
    <2>3. Place(k) \in 1 .. Len(s)
      BY <2>2
    <2>4. QED
      BY <2>3
  <1>4. Kept(s, I) = [k \in 1 .. Cardinality(I) |-> s[Place(k)]]
    BY Zenon DEF Kept
  <1> HIDE DEF Place
  <1>5. [k \in 1 .. Cardinality(I) |-> s[Place(k)]] \in Seq(S)
    BY <1>2, <1>3
  <1>6. QED
    BY <1>4, <1>5

-----------------------------------------------------------------------------
(* The operators make usable goals of usable goals.                        *)

LEMMA ConcatUsable ==
  ASSUME NEW a \in Seq(Usable), NEW b \in Seq(Usable), a # <<>> \/ b # <<>>
  PROVE  a \o b \in Decompositions
  <1>1. a \o b \in Seq(Usable) /\ Len(a \o b) = Len(a) + Len(b)
    BY ConcatProperties
  <1>2. Len(a) \in Nat /\ Len(b) \in Nat /\ (Len(a) # 0 \/ Len(b) # 0)
    BY EmptySeq, LenProperties
  <1>3. a \o b # <<>>
    BY <1>1, <1>2
  <1>4. QED
    BY <1>1, <1>3 DEF Decompositions

LEMMA PartUsable ==
  ASSUME NEW s \in Seq(Usable), NEW m \in Nat, NEW n \in Nat, m >= 1, n <= Len(s)
  PROVE  /\ SubSeq(s, m, n) \in Seq(Usable)
         /\ m <= n => SubSeq(s, m, n) # <<>>
  <1>1. \A i \in m .. n : s[i] \in Usable
    BY LenProperties
  <1>2. SubSeq(s, m, n) \in Seq(Usable) /\ Len(SubSeq(s, m, n)) = IF m <= n THEN n - m + 1 ELSE 0
    BY <1>1, SubSeqProperties
  <1>3. QED
    BY <1>2

LEMMA CrossedUsable ==
  ASSUME NEW one \in Decompositions, NEW two \in Decompositions
  PROVE  Crossed(one, two) \subseteq Decompositions
  <1>0. one \in Seq(Usable) /\ two \in Seq(Usable) /\ Len(one) \in Nat /\ Len(two) \in Nat
    BY DEF Decompositions
  <1>1. ASSUME NEW i \in DOMAIN one, NEW j \in DOMAIN two
        PROVE  /\ SubSeq(one, 1, i) \o Kept(two, {k \in j .. Len(two) : two[k].date > one[i].date})
                    \in Decompositions
               /\ Kept(two, {k \in 1 .. j : two[k].date < two[j].date}) \o SubSeq(one, i, Len(one))
                    \in Decompositions
    <2>1. i \in 1 .. Len(one) /\ j \in 1 .. Len(two) /\ i \in Nat /\ j \in Nat
      BY <1>0
    <2>2. SubSeq(one, 1, i) \in Seq(Usable) /\ SubSeq(one, 1, i) # <<>>
      BY <1>0, <2>1, PartUsable
    <2>20. SubSeq(one, i, Len(one)) \in Seq(Usable) /\ SubSeq(one, i, Len(one)) # <<>>
      <3>1. i >= 1 /\ i <= Len(one) /\ Len(one) <= Len(one)
        BY <1>0, <2>1
      <3>2. QED
        BY <1>0, <2>1, <3>1, PartUsable, Zenon
    <2>3. Kept(two, {k \in j .. Len(two) : two[k].date > one[i].date}) \in Seq(Usable)
      <3>1. {k \in j .. Len(two) : two[k].date > one[i].date} \subseteq 1 .. Len(two)
        BY <1>0, <2>1
      <3>2. QED
        BY <1>0, <3>1, KeptType
    <2>4. Kept(two, {k \in 1 .. j : two[k].date < two[j].date}) \in Seq(Usable)
      <3>1. {k \in 1 .. j : two[k].date < two[j].date} \subseteq 1 .. Len(two)
        BY <1>0, <2>1
      <3>2. QED
        BY <1>0, <3>1, KeptType
    <2>5. QED
      BY <2>2, <2>20, <2>3, <2>4, ConcatUsable
  <1>2. ASSUME NEW c \in Crossed(one, two)
        PROVE  c \in Decompositions
    <2>1. PICK i \in DOMAIN one, j \in DOMAIN two : c = CutAt(one, two, i, j)
      BY DEF Crossed
    <2>2. QED
      BY <1>1, <2>1, Zenon DEF CutAt
  <1>3. QED
    BY <1>2

LEMMA DrawFacts ==
  ASSUME NEW n \in Nat, NEW i \in Draw(n)
  PROVE  i \in Nat /\ (i = 0 \/ i < n)
  <1>1. Max({n - 1, 0}) = IF n = 0 THEN 0 ELSE n - 1
    <2>1. \A x \in {n - 1, 0} : (\A y \in {n - 1, 0} : x >= y) <=> x = IF n = 0 THEN 0 ELSE n - 1
      OBVIOUS
    <2>2. \E x \in {n - 1, 0} : x = IF n = 0 THEN 0 ELSE n - 1
      OBVIOUS
    <2>3. Max({n - 1, 0}) \in {n - 1, 0} /\ \A y \in {n - 1, 0} : Max({n - 1, 0}) >= y
      BY <2>1, <2>2, Zenon DEF Max
    <2>4. QED
      BY <2>1, <2>3, Zenon
  <1>2. QED
    BY <1>1 DEF Draw

LEMMA SmallerOfTwo ==
  ASSUME NEW m \in Nat, NEW n \in Nat
  PROVE  Min({m, n}) \in Nat /\ Min({m, n}) <= m /\ Min({m, n}) <= n
  <1>1. Min({m, n}) \in {m, n} /\ \A k \in {m, n} : Min({m, n}) <= k
    BY LeastNatural
  <1>2. QED
    BY <1>1

(* A goal is removed from two or more.                                     *)
LEMMA GoalDeletedUsable ==
  ASSUME NEW goals \in Decompositions, NEW reached \in Nat
  PROVE  GoalDeleted(goals, reached) \subseteq Decompositions
  <1>0. goals \in Seq(Usable) /\ Len(goals) \in Nat
    BY DEF Decompositions
  <1> SUFFICES ASSUME NEW d \in GoalDeleted(goals, reached) PROVE d \in Decompositions
    OBVIOUS
  <1>1. PICK i \in Draw(Min({Len(goals), reached})) : d = RemoveAt(goals, i + 1)
    BY DEF GoalDeleted
  <1>2. Len(goals) > 1
    BY <1>0 DEF GoalDeleted
  <1>3. i \in Nat /\ i < Len(goals)
    BY <1>0, <1>2, SmallerOfTwo, DrawFacts
  <1>4. d = SubSeq(goals, 1, i) \o SubSeq(goals, i + 2, Len(goals))
    <2>1. (i + 1) - 1 = i /\ (i + 1) + 1 = i + 2
      BY <1>3
    <2>2. QED
      BY <1>1, <2>1, Zenon DEF RemoveAt
  <1>5. SubSeq(goals, 1, i) \in Seq(Usable) /\ (i >= 1 => SubSeq(goals, 1, i) # <<>>)
    BY <1>0, <1>3, PartUsable
  <1>6. /\ SubSeq(goals, i + 2, Len(goals)) \in Seq(Usable)
        /\ i + 2 <= Len(goals) => SubSeq(goals, i + 2, Len(goals)) # <<>>
    <2>1. i + 2 \in Nat /\ i + 2 >= 1 /\ Len(goals) <= Len(goals)
      BY <1>0, <1>3
    <2>2. QED
      BY <1>0, <2>1, PartUsable
  <1>7. i >= 1 \/ i + 2 <= Len(goals)
    BY <1>0, <1>2, <1>3
  <1>8. QED
    BY <1>4, <1>5, <1>6, <1>7, ConcatUsable

(* A goal loses an atom if it has another.                                 *)
LEMMA LightenedUsable ==
  ASSUME NEW g \in Usable
  PROVE  Lightened(g) \subseteq Usable
  <1> SUFFICES ASSUME NEW h \in Lightened(g), h # g PROVE h \in Usable
    OBVIOUS
  <1>1. PICK f \in g.atoms : h = [g EXCEPT !.atoms = g.atoms \ {f}] /\ Cardinality(g.atoms) > 1
    BY DEF Lightened
  <1>2. /\ g \in [atoms : SUBSET Fluent, date : Dates \ {0}]
        /\ ~Exclusive(g.atoms)
        /\ \A e \in g.atoms : Date[e] # 0 /\ Date[e] <= g.date
    BY DEF Usable
  <1>3. IsFiniteSet(g.atoms)
    BY <1>2, StripsAssumption, FS_Subset
  <1>4. g.atoms \ {f} # {}
    <2>1. g.atoms = {f} => Cardinality(g.atoms) = 1
      BY FS_Singleton
    <2>2. g.atoms # {f}
      BY <1>1, <2>1
    <2>3. QED
      BY <2>2
  <1>5. ~Exclusive(g.atoms \ {f})
    BY <1>2, FewerExclude
  <1>6. h \in [atoms : SUBSET Fluent, date : Dates \ {0}] /\ h.atoms = g.atoms \ {f} /\ h.date = g.date
    BY <1>1, <1>2
  <1>7. QED
    BY <1>2, <1>4, <1>5, <1>6 DEF Usable

LEMMA AtomsDeletedUsable ==
  ASSUME NEW goals \in Decompositions, NEW reached \in Nat
  PROVE  AtomsDeleted(goals, reached) \subseteq Decompositions
  <1>0. goals \in Seq(Usable) /\ Len(goals) \in Nat /\ DOMAIN goals = 1 .. Len(goals) /\ Len(goals) > 0
    BY DEF Decompositions
  <1> SUFFICES ASSUME NEW d \in AtomsDeleted(goals, reached) PROVE d \in Decompositions
    OBVIOUS
  <1> DEFINE n == Min({Len(goals), reached})
  <1>1. PICK c \in [1 .. n -> UNION {Lightened(g) : g \in ToSet(goals)}] :
          /\ \A i \in DOMAIN c : c[i] \in Lightened(goals[i])
          /\ d = [i \in DOMAIN goals |-> IF i \in DOMAIN c THEN c[i] ELSE goals[i]]
    BY Zenon DEF AtomsDeleted
  <1>2. ASSUME NEW i \in 1 .. Len(goals)
        PROVE  (IF i \in DOMAIN c THEN c[i] ELSE goals[i]) \in Usable
    <2>1. goals[i] \in Usable
      BY <1>0
    <2>2. QED
      BY <1>1, <2>1, LightenedUsable
  <1>3. d \in [1 .. Len(goals) -> Usable]
    BY <1>0, <1>1, <1>2
  <1>4. d \in Seq(Usable) /\ Len(d) = Len(goals)
    BY <1>0, <1>3
  <1>5. QED
    BY <1>0, <1>4 DEF Decompositions

(* Two atoms of a goal that do not exclude each other still do not when one
   comes in that excludes none of them.                                    *)
LEMMA OneMore ==
  ASSUME NEW s, ~Exclusive(s), NEW f, ~HasMutexIn(f, s), NEW r \in SUBSET s
  PROVE  ~Exclusive(r \cup {f})
  <1> SUFFICES ASSUME NEW d \in r \cup {f}, NEW e \in r \cup {f}, d # e
               PROVE  {d, e} \notin Mutexes
    BY DEF Exclusive
  <1>1. CASE d \in r /\ e \in r
    BY <1>1 DEF Exclusive
  <1>2. CASE d = f /\ e \in r
    BY <1>2 DEF HasMutexIn
  <1>3. CASE d \in r /\ e = f
    <2>1. {d, e} = {e, d}
      OBVIOUS
    <2>2. QED
      BY <1>3, <2>1 DEF HasMutexIn
  <1>4. QED
    BY <1>1, <1>2, <1>3

(* What the atoms of a usable goal may become.                             *)
Fitting(date) ==
  {s \in SUBSET Fluent :
     s # {} /\ ~Exclusive(s) /\ \A f \in s : Date[f] # 0 /\ Date[f] <= date}

LEMMA AtomsFit ==
  ASSUME NEW g \in Usable
  PROVE  /\ g.atoms \in Fitting(g.date)
         /\ \A s \in Fitting(g.date) : [g EXCEPT !.atoms = s] \in Usable
  BY DEF Usable, Fitting

LEMMA ReplacedFit ==
  ASSUME NEW t \in Nat, NEW s \in Fitting(t), NEW old \in s, NEW r \in Replaced(s, old)
  PROVE  r \in Fitting(t)
  <1> DEFINE new == Drawable(At(Date[old]) \ {old}, s)
  <1>1. CASE new = {}
    BY <1>1 DEF Replaced
  <1>2. CASE new # {}
    <2>1. PICK f \in new : r = (s \ {old}) \cup {f}
      BY <1>2 DEF Replaced
    <2>2. f \in Fluent /\ Date[f] = Date[old] /\ ~HasMutexIn(f, s)
      BY AtFacts DEF Drawable
    <2>3. ~Exclusive(s) /\ s \subseteq Fluent /\ \A e \in s : Date[e] # 0 /\ Date[e] <= t
      BY DEF Fitting
    <2>4. ~Exclusive(r)
      BY <2>1, <2>2, <2>3, OneMore
    <2>5. r \subseteq Fluent /\ r # {} /\ \A e \in r : Date[e] # 0 /\ Date[e] <= t
      BY <2>1, <2>2, <2>3
    <2>6. QED
      BY <2>4, <2>5 DEF Fitting
  <1>3. QED
    BY <1>1, <1>2

LEMMA AddedFit ==
  ASSUME NEW t \in Nat, NEW s \in Fitting(t), NEW old \in Fluent, Date[old] # 0, Date[old] <= t,
         NEW r \in Added(s, old)
  PROVE  r \in Fitting(t)
  <1>1. PICK f \in Drawable(At(Date[old]) \ {old}, s) : r = s \cup {f}
    BY DEF Added
  <1>2. f \in Fluent /\ Date[f] = Date[old] /\ ~HasMutexIn(f, s)
    BY AtFacts DEF Drawable
  <1>3. ~Exclusive(s) /\ s \subseteq Fluent /\ \A e \in s : Date[e] # 0 /\ Date[e] <= t
    BY DEF Fitting
  <1>4. ~Exclusive(r)
    BY <1>1, <1>2, <1>3, OneMore
  <1>5. r \subseteq Fluent /\ r # {} /\ \A e \in r : Date[e] # 0 /\ Date[e] <= t
    BY <1>1, <1>2, <1>3
  <1>6. QED
    BY <1>4, <1>5 DEF Fitting

(* An atom is replaced or one is added, and the goal keeps its date.       *)
LEMMA TouchedUsable ==
  ASSUME NEW g \in Usable
  PROVE  Touched(g) \subseteq Usable
  <1> SUFFICES ASSUME NEW h \in Touched(g), h # g PROVE h \in Usable
    OBVIOUS
  <1>0. g.date \in Nat /\ g.atoms \in Fitting(g.date)
    BY AtomsFit, DatesAreNaturals DEF Usable
  <1>1. PICK s \in UNION {UNION {{r} \cup Added(r, old) : r \in Replaced(g.atoms, old)} : old \in g.atoms} :
          h = [g EXCEPT !.atoms = s]
    BY DEF Touched
  <1>2. PICK old \in g.atoms : s \in UNION {{r} \cup Added(r, old) : r \in Replaced(g.atoms, old)}
    BY <1>1
  <1>3. PICK r \in Replaced(g.atoms, old) : s \in {r} \cup Added(r, old)
    BY <1>2
  <1>4. r \in Fitting(g.date)
    BY <1>0, ReplacedFit
  <1>5. old \in Fluent /\ Date[old] # 0 /\ Date[old] <= g.date
    BY <1>0 DEF Fitting
  <1>6. s \in Fitting(g.date)
    <2>1. CASE s = r
      BY <1>4, <2>1
    <2>2. CASE s \in Added(r, old)
      BY <1>0, <1>4, <1>5, <2>2, AddedFit
    <2>3. QED
      BY <1>3, <2>1, <2>2
  <1>7. QED
    BY <1>1, <1>6, AtomsFit

LEMMA AtomsChangedUsable ==
  ASSUME NEW goals \in Decompositions
  PROVE  AtomsChanged(goals) \subseteq Decompositions
  <1>0. goals \in Seq(Usable) /\ Len(goals) \in Nat /\ DOMAIN goals = 1 .. Len(goals) /\ Len(goals) > 0
    BY DEF Decompositions
  <1> SUFFICES ASSUME NEW c \in AtomsChanged(goals) PROVE c \in Decompositions
    OBVIOUS
  <1>1. /\ c \in [DOMAIN goals -> UNION {Touched(g) : g \in ToSet(goals)}]
        /\ \A i \in DOMAIN goals : c[i] \in Touched(goals[i])
    BY Zenon DEF AtomsChanged
  <1>2. \A i \in 1 .. Len(goals) : c[i] \in Usable
    <2> TAKE i \in 1 .. Len(goals)
    <2>1. goals[i] \in Usable
      BY <1>0
    <2>2. QED
      BY <1>0, <1>1, <2>1, TouchedUsable
  <1>3. c \in [1 .. Len(goals) -> Usable]
    BY <1>0, <1>1, <1>2
  <1>4. c \in Seq(Usable) /\ Len(c) = Len(goals)
    BY <1>0, <1>3
  <1>5. QED
    BY <1>0, <1>4 DEF Decompositions

(* random_goal gives usable goals whenever 0 is not after t1.              *)
LEMMA GoalsBetweenUsable ==
  ASSUME NEW t1, NEW t2, 0 \in Dates => ~(t1 < 0)
  PROVE  GoalsBetween(t1, t2) \subseteq Usable
  <1> SUFFICES ASSUME NEW g \in GoalsBetween(t1, t2) PROVE g \in Usable
    OBVIOUS
  <1>1. PICK t \in Dates : t1 < t /\ g \in RandomGoals(Around(t))
    BY DEF GoalsBetween
  <1>2. t \in Nat /\ t # 0
    BY <1>1, DatesAreNaturals
  <1>3. Around(t) \subseteq Fluent /\ \A f \in Around(t) : Date[f] # 0
    <2> SUFFICES ASSUME NEW f \in Around(t) PROVE f \in Fluent /\ Date[f] # 0
      OBVIOUS
    <2>1. PICK u \in Dates : f \in At(u) /\ (u # Min(Dates) \/ u = t \/ u > t)
      BY DEF Around
    <2>2. u \in Nat
      BY DatesAreNaturals
    <2>3. u # 0
      <3>1. CASE u # Min(Dates)
        BY <3>1, LaterThanFirst
      <3>2. CASE u = t \/ u > t
        BY <1>2, <2>2, <3>2
      <3>3. QED
        BY <2>1, <3>1, <3>2
    <2>4. QED
      BY <2>1, <2>3, AtFacts
  <1>4. QED
    BY <1>1, <1>3, RandomGoalsUsable

LEMMA DrawnUsable ==
  ASSUME NEW goals \in Decompositions, NEW j \in 0 .. Len(goals)
  PROVE  DrawnAfter(goals, j) \subseteq Usable
  <1>0. goals \in Seq(Usable) /\ Len(goals) \in Nat \ {0}
    BY DEF Decompositions
  <1>1. \A i \in 1 .. Len(goals) : goals[i].date \in Nat /\ goals[i].date # 0 /\ goals[i].date \in Dates
    <2> TAKE i \in 1 .. Len(goals)
    <2>1. goals[i] \in Usable
      BY <1>0
    <2>2. QED
      BY <2>1, DatesAreNaturals DEF Usable
  <1>2. CASE j = 0
    BY <1>2, GoalsBetweenUsable DEF DrawnAfter
  <1>3. CASE j # 0 /\ j < Len(goals)
    <2>1. ~(goals[j].date < 0)
      BY <1>0, <1>1, <1>3
    <2>2. GoalsBetween(goals[j].date, goals[j + 1].date) \subseteq Usable
      BY <2>1, GoalsBetweenUsable
    <2>3. QED
      BY <1>3, <2>2 DEF DrawnAfter
  <1>4. CASE j = Len(goals)
    <2> DEFINE before == {t \in Dates : t < goals[Len(goals)].date}
    <2>1. 0 \in Dates => ~(Max(before) < 0)
      <3> SUFFICES ASSUME 0 \in Dates PROVE ~(Max(before) < 0)
        OBVIOUS
      <3>1. 0 \in before
        <4>1. goals[Len(goals)].date \in Nat /\ goals[Len(goals)].date # 0
          BY <1>0, <1>1
        <4>2. QED
          BY <4>1
      <3>2. before \subseteq Nat /\ IsFiniteSet(before)
        BY DatesAreNaturals, FS_Subset
      <3> HIDE DEF before
      <3>3. Max(before) \in Nat
        BY <3>1, <3>2, GreatestNatural
      <3>4. QED
        BY <3>3
    <2>2. GoalsBetween(Max(before), Max(Dates)) \subseteq Usable
      BY <2>1, GoalsBetweenUsable
    <2>3. QED
      BY <1>0, <1>4, <2>2 DEF DrawnAfter
  <1>5. QED
    BY <1>0, <1>2, <1>3, <1>4

(* A goal is added among those that are there, or after them.              *)
LEMMA GoalAddedUsable ==
  ASSUME NEW goals \in Decompositions, NEW reached \in Nat, reached <= Len(goals) + 1
  PROVE  GoalAdded(goals, reached) \subseteq Decompositions
  <1>0. goals \in Seq(Usable) /\ Len(goals) \in Nat
    BY DEF Decompositions
  <1> SUFFICES ASSUME NEW d \in GoalAdded(goals, reached) PROVE d \in Decompositions
    OBVIOUS
  <1>1. PICK j \in Draw(reached) : d \in {InsertAt(goals, j + 1, g) : g \in DrawnAfter(goals, j)}
    BY DEF GoalAdded
  <1>2. PICK g \in DrawnAfter(goals, j) : d = InsertAt(goals, j + 1, g)
    BY <1>1
  <1>3. j \in Nat /\ j \in 0 .. Len(goals)
    BY <1>0, DrawFacts
  <1>4. g \in Usable
    BY <1>2, <1>3, DrawnUsable
  <1>5. d = SubSeq(goals, 1, j) \o <<g>> \o SubSeq(goals, j + 1, Len(goals))
    <2>1. (j + 1) - 1 = j
      BY <1>3
    <2>2. QED
      BY <1>2, <2>1, Zenon DEF InsertAt
  <1>6. SubSeq(goals, 1, j) \in Seq(Usable) /\ SubSeq(goals, j + 1, Len(goals)) \in Seq(Usable)
    BY <1>0, <1>3, PartUsable
  <1>7. <<g>> \in Seq(Usable) /\ <<g>> # <<>>
    BY <1>4
  <1>8. SubSeq(goals, 1, j) \o <<g>> \in Decompositions
    BY <1>6, <1>7, ConcatUsable
  <1>9. QED
    BY <1>5, <1>6, <1>8, ConcatUsable DEF Decompositions

-----------------------------------------------------------------------------
(* The life of a decomposition.                                            *)

Calling == {"call", "search", "answered"}
Controls == {"evaluate", "cross", "mutate", "compress", "done"} \cup Calling

Parts == {"goals", "fitness", "feasible", "subplans", "plan", "k", "u", "b"}
Shaped(d) == DOMAIN d = Parts /\ d = [x \in Parts |-> d[x]]

(* A record with these fields, whatever its numbers and its plan are, and as
   many subplans as its evaluation has got: the mutations draw a place among
   them, and there is a goal at each but the last.                         *)
Progress ==
  /\ pc \in Controls
  /\ Shaped(decompo)
  /\ \E S : decompo.subplans \in Seq(S)
  /\ Reached <= Len(decompo.goals) + 1
  /\ pc \in Calling => at \in 1 .. Len(decompo.goals) + 1 /\ Reached = at - 1
  /\ pc \notin Calling \cup {"compress"} /\ decompo.fitness = Invalid => decompo.subplans = <<>>

IInv == decompo.goals \in Decompositions /\ Progress

LEMMA Consistent ==
  ASSUME IInv
  PROVE  GoalsConsistent /\ DatesUsable
  <1>1. decompo.goals \in Seq(Usable) /\ decompo.goals # <<>>
    BY DEF IInv, Decompositions
  <1>2. ToSet(decompo.goals) \subseteq Usable
    BY <1>1 DEF ToSet
  <1>3. ASSUME NEW g \in ToSet(decompo.goals)
        PROVE  /\ g.atoms # {} /\ ~Exclusive(g.atoms)
               /\ g.date \in Dates \ {0}
               /\ \A f \in g.atoms : f \in Fluent /\ Date[f] # 0 /\ Date[f] <= g.date
    BY <1>2 DEF Usable
  <1>4. QED
    BY <1>1, <1>3, DatesAreNaturals DEF GoalsConsistent, DatesUsable

(* What the steps of the evaluation write besides the goals.               *)
VariedInto(d, g, e) == e = Invalidated([d EXCEPT !.goals = g])

LEMMA VariedShape ==
  ASSUME NEW d, Shaped(d), NEW g, NEW e, VariedInto(d, g, e)
  PROVE  Shaped(e) /\ e.goals = g /\ e.fitness = Invalid /\ e.subplans = <<>>
  BY DEF Shaped, Parts, Invalidated, VariedInto

LEMMA ReachedType ==
  ASSUME IInv
  PROVE  Reached \in Nat
  BY DEF IInv, Progress, Reached

LEMMA InitIInv == Init => IInv
  <1> SUFFICES ASSUME Init PROVE IInv
    OBVIOUS
  <1>1. /\ pc = "evaluate"
        /\ decompo.goals \in InitialGoals /\ decompo.subplans = <<>>
        /\ Shaped(decompo)
    BY DEF Init, Parts, Shaped
  <1>2. decompo.goals \in Decompositions
    BY <1>1, InitialUsable
  <1>3. decompo.subplans \in Seq({}) /\ Reached = 0 /\ Len(decompo.goals) \in Nat
    BY <1>1, <1>2 DEF Reached, Decompositions
  <1>4. QED
    BY <1>1, <1>2, <1>3 DEF IInv, Progress, Controls, Calling

(* A decomposition varied into other goals is as good as a new one.        *)
LEMMA VaryStep ==
  ASSUME IInv, NEW g \in Decompositions, Vary(g), pc' \in {"mutate", "evaluate"}
  PROVE  IInv'
  <1> DEFINE d == decompo
             v == decompo'
  <1>1. Shaped(v) /\ v.goals = g /\ v.fitness = Invalid /\ v.subplans = <<>>
    <2>1. Shaped(d)
      BY DEF IInv, Progress
    <2>2. VariedInto(d, g, v)
      BY DEF Vary, VariedInto
    <2> HIDE DEF d, v
    <2>3. QED
      BY <2>1, <2>2, VariedShape
  <1>2. decompo'.subplans \in Seq({}) /\ Reached' = 0 /\ Len(g) \in Nat
    BY <1>1 DEF Reached, Decompositions
  <1>3. QED
    BY <1>1, <1>2 DEF IInv, Progress, Controls, Calling

LEMMA VariationStep ==
  ASSUME IInv, Cross \/ CrossSecond \/ DelGoal \/ DelAtom \/ AddGoal \/ ChangeAddAtom \/ Clone
  PROVE  IInv'
  <1>0. decompo.goals \in Decompositions /\ Reached \in Nat /\ Reached <= Len(decompo.goals) + 1
    BY ReachedType DEF IInv, Progress
  <1>1. CASE Cross
    <2>1. PICK mate \in Mates : \E g \in Crossed(decompo.goals, mate) : Vary(g)
      BY <1>1 DEF Cross
    <2>0. mate \in Decompositions
      BY EvalAssumption DEF Decompositions
    <2>2. PICK g \in Crossed(decompo.goals, mate) : Vary(g)
      BY <2>1
    <2>3. g \in Decompositions
      BY <1>0, <2>0, CrossedUsable
    <2>4. QED
      BY <1>1, <2>2, <2>3, VaryStep DEF Cross, Breed
  <1>8. CASE CrossSecond
    BY <1>0, <1>8, VaryStep DEF CrossSecond, Breed
  <1>2. CASE DelGoal
    BY <1>0, <1>2, GoalDeletedUsable, VaryStep DEF DelGoal, Breed
  <1>3. CASE DelAtom
    <2>1. PICK g \in AtomsDeleted(decompo.goals, Reached) :
            Vary(g) \/ (g = decompo.goals /\ UNCHANGED decompo)
      BY <1>3 DEF DelAtom
    <2>2. g \in Decompositions
      BY <1>0, AtomsDeletedUsable
    <2>3. pc = "mutate" /\ pc' = "evaluate"
      BY <1>3 DEF DelAtom, Breed
    <2>4. CASE UNCHANGED decompo
      BY <2>3, <2>4 DEF IInv, Progress, Controls, Calling, Reached
    <2>5. QED
      BY <2>1, <2>2, <2>3, <2>4, VaryStep
  <1>4. CASE AddGoal
    BY <1>0, <1>4, GoalAddedUsable, VaryStep DEF AddGoal, Breed
  <1>5. CASE ChangeAddAtom
    BY <1>0, <1>5, AtomsChangedUsable, VaryStep DEF ChangeAddAtom, Breed
  <1>6. CASE Clone
    BY <1>6 DEF Clone, Breed, IInv, Progress, Controls, Calling, Reached
  <1>7. QED
    BY <1>1, <1>2, <1>3, <1>4, <1>5, <1>6, <1>8

(* The end of an evaluation leaves a fitness that is one.                  *)
LEMMA StopStep ==
  ASSUME IInv, NEW fitness, fitness # Invalid, NEW feasible, NEW plan,
         Stop(fitness, feasible, plan)
  PROVE  IInv'
  <1>1. /\ Shaped(decompo')
        /\ decompo'.goals = decompo.goals /\ decompo'.fitness = fitness
        /\ decompo'.subplans = decompo.subplans
    <2>1. Shaped(decompo)
      BY DEF IInv, Progress
    <2>2. decompo' = [decompo EXCEPT !.fitness = fitness, !.feasible = feasible, !.plan = plan]
      BY DEF Stop
    <2>3. Shaped(decompo')
      BY <2>1, <2>2 DEF Shaped, Parts
    <2>4. decompo'.goals = decompo.goals
      BY <2>1, <2>2 DEF Shaped, Parts
    <2>5. decompo'.fitness = fitness
      BY <2>1, <2>2 DEF Shaped, Parts
    <2>6. decompo'.subplans = decompo.subplans
      BY <2>1, <2>2 DEF Shaped, Parts
    <2>7. QED
      BY <2>3, <2>4, <2>5, <2>6
  <1>2. pc' = "done"
    BY DEF Stop
  <1>3. QED
    BY <1>1, <1>2 DEF IInv, Progress, Controls, Calling, Reached

LEMMA FractionsAreValid ==
  /\ TooLong # Invalid
  /\ \A u : Intermediate(u) # Invalid /\ Final(u) # Invalid
  /\ \A d, q : Feasible(d, q) # Invalid
  BY DEF TooLong, Intermediate, Final, Feasible, Invalid

LEMMA BeginStep ==
  ASSUME IInv, Begin
  PROVE  IInv'
  <1>1. /\ Shaped(decompo')
        /\ decompo'.goals = decompo.goals /\ decompo'.fitness = decompo.fitness
        /\ decompo'.subplans = decompo.subplans
    <2>1. Shaped(decompo)
      BY DEF IInv, Progress
    <2>2. decompo' = [decompo EXCEPT !.k = 0, !.u = 0, !.b = 0]
      BY DEF Begin
    <2>3. Shaped(decompo')
      BY <2>1, <2>2 DEF Shaped, Parts
    <2>4. decompo'.goals = decompo.goals
      BY <2>1, <2>2 DEF Shaped, Parts
    <2>5. decompo'.fitness = decompo.fitness
      BY <2>1, <2>2 DEF Shaped, Parts
    <2>6. decompo'.subplans = decompo.subplans
      BY <2>1, <2>2 DEF Shaped, Parts
    <2>7. QED
      BY <2>3, <2>4, <2>5, <2>6
  <1>2. pc' = "call" /\ at' = 1 /\ decompo.subplans = <<>>
    BY DEF Begin, IInv, Progress, Calling
  <1>3. Len(decompo.goals) \in Nat /\ Len(decompo.subplans) = 0
    BY <1>2 DEF IInv, Decompositions
  <1>4. QED
    BY <1>1, <1>2, <1>3 DEF IInv, Progress, Controls, Calling, Reached

LEMMA RecordStep ==
  ASSUME IInv, Record
  PROVE  IInv'
  <1> DEFINE subplans == Append(decompo.subplans, solution_plan)
  <1>1. /\ Shaped(decompo')
        /\ decompo'.goals = decompo.goals /\ decompo'.subplans = subplans
    <2>1. Shaped(decompo)
      BY DEF IInv, Progress
    <2>2. PICK k, u, b : decompo' = [decompo EXCEPT !.k = k, !.u = u, !.b = b, !.subplans = subplans]
      BY DEF Record
    <2> HIDE DEF subplans
    <2>3. Shaped(decompo')
      BY <2>1, <2>2 DEF Shaped, Parts
    <2>4. decompo'.goals = decompo.goals
      BY <2>1, <2>2 DEF Shaped, Parts
    <2>5. decompo'.subplans = subplans
      BY <2>1, <2>2 DEF Shaped, Parts
    <2>6. QED
      BY <2>3, <2>4, <2>5
  <1>2. PICK S : decompo.subplans \in Seq(S)
    BY DEF IInv, Progress
  <1>3. subplans \in Seq(S \cup {solution_plan}) /\ Len(subplans) = Reached + 1
    BY <1>2 DEF Reached
  <1>4. at \in 1 .. Len(decompo.goals) + 1 /\ Reached = at - 1 /\ Len(decompo.goals) \in Nat
    BY DEF IInv, Progress, Calling, Record, Decompositions
  <1>5. \/ pc' = "compress" /\ at = Len(decompo.goals) + 1
        \/ pc' = "call" /\ at' = at + 1 /\ at <= Len(decompo.goals)
    BY <1>4 DEF Record, IsLast
  <1>6. Reached' = at /\ \E T : decompo'.subplans \in Seq(T)
    BY <1>1, <1>3, <1>4 DEF Reached
  <1> HIDE DEF subplans
  <1>7. QED
    BY <1>1, <1>4, <1>5, <1>6 DEF IInv, Progress, Controls, Calling

(* The planner answers, and the decomposition stays as it is.              *)
LEMMA OtherStep ==
  ASSUME IInv,
         \/ StillValid \/ Call \/ Answer \/ Select
         \/ UNCHANGED vars
  PROVE  IInv'
  <1>1. UNCHANGED decompo
    BY DEF StillValid, Call, Answer, Select, vars
  <1>2. Reached' = Reached
    BY <1>1 DEF Reached
  <1>3. CASE StillValid
    BY <1>1, <1>2, <1>3 DEF StillValid, IInv, Progress, Controls, Calling
  <1>4. CASE Call
    BY <1>1, <1>2, <1>4 DEF Call, IInv, Progress, Controls, Calling
  <1>5. CASE Answer
    BY <1>1, <1>2, <1>5 DEF Answer, IInv, Progress, Controls, Calling
  <1>6. CASE Select
    BY <1>1, <1>2, <1>6 DEF Select, IInv, Progress, Controls, Calling
  <1>7. CASE UNCHANGED vars
    BY <1>1, <1>2, <1>7 DEF vars, IInv, Progress
  <1>8. QED
    BY <1>3, <1>4, <1>5, <1>6, <1>7

LEMMA IInvStep == IInv /\ [Next]_vars => IInv'
  <1> SUFFICES ASSUME IInv, [Next]_vars PROVE IInv'
    OBVIOUS
  <1>1. CASE Cross \/ CrossSecond \/ DelGoal \/ DelAtom \/ AddGoal \/ ChangeAddAtom \/ Clone
    BY <1>1, VariationStep
  <1>2. CASE Refused
    BY <1>2, StopStep, FractionsAreValid DEF Refused
  <1>3. CASE Begin
    BY <1>3, BeginStep
  <1>4. CASE Record
    BY <1>4, RecordStep
  <1>5. CASE Fail
    <2>1. PICK f : f # Invalid /\ Stop(f, FALSE, NoPlan)
      BY <1>5, FractionsAreValid, Zenon DEF Fail
    <2>2. QED
      BY <2>1, StopStep
  <1>6. CASE Compress
    <2>1. PICK f, p : f # Invalid /\ Stop(f, TRUE, p)
      BY <1>6, FractionsAreValid, Zenon DEF Compress
    <2>2. QED
      BY <2>1, StopStep
  <1>7. CASE StillValid \/ Call \/ Answer \/ Select \/ UNCHANGED vars
    BY <1>7, OtherStep
  <1>8. QED
    BY <1>1, <1>2, <1>3, <1>4, <1>5, <1>6, <1>7 DEF Next

(* Whatever is drawn and however a decomposition is varied and evaluated, it
   has goals, and a goal has atoms that can hold together: the planner is
   never asked for a goal that excludes itself.                            *)
THEOREM GoalsStayConsistent == Spec => []GoalsConsistent
  <1>1. IInv => GoalsConsistent
    BY Consistent
  <1>2. QED
    BY <1>1, InitIInv, IInvStep, PTL DEF Spec

(* The dates of goals and atoms stay dates of the partition after the first
   one, and no atom is later than its goal.                                *)
THEOREM DatesStayUsable == Spec => []DatesUsable
  <1>1. IInv => DatesUsable
    BY Consistent
  <1>2. QED
    BY <1>1, InitIInv, IInvStep, PTL DEF Spec

-----------------------------------------------------------------------------
(* The subplans follow the goals: where the planner stands is where they     *)
(* lead, so that what it answers continues them, if steps of length zero at  *)
(* one date are in the right order.                                          *)

Target(goals, i) == IF i > Len(goals) THEN GoalState ELSE goals[i].atoms

Leads(goals, i, s) == s # Broken /\ Target(goals, i) \subseteq s

Covered(goals, ps) == \A i \in 1 .. Len(ps) : Leads(goals, i, Run(SubSeq(ps, 1, i)))

Following ==
  /\ Covered(decompo.goals, decompo.subplans)
  /\ pc \in {"call", "search"} => current_state = Run(decompo.subplans)
  /\ pc = "search" => query[1] = Target(decompo.goals, at)
  /\ pc = "answered" /\ code = "PLAN_FOUND" =>
       /\ current_state = Executed(Run(decompo.subplans), solution_plan.steps)
       /\ Leads(decompo.goals, at, current_state)

Follows == TiesInOrder => Following

LEMMA FollowingIsFollowed ==
  ASSUME IInv, Follows
  PROVE  SubplansFollow
  <1>0. SUFFICES ASSUME TiesInOrder PROVE SubplansFollow
    BY DEF SubplansFollow
  <1>1. DOMAIN decompo.subplans = 1 .. Len(decompo.subplans)
    BY DEF IInv, Progress
  <1>2. \A i : After(i) = Run(SubSeq(decompo.subplans, 1, i))
    BY Zenon DEF After, Run
  <1>3. ASSUME NEW i \in 1 .. Len(decompo.subplans)
        PROVE  After(i) # Broken /\ Target(decompo.goals, i) \subseteq After(i)
    BY <1>0, <1>2, <1>3 DEF Follows, Following, Covered, Leads
  <1>4. QED
    BY <1>1, <1>3 DEF SubplansFollow, Target

LEMMA CoveredByNone ==
  ASSUME NEW goals
  PROVE  Covered(goals, <<>>)
  BY DEF Covered

LEMMA InitFollowing == Init => Following
  <1> SUFFICES ASSUME Init PROVE Following
    OBVIOUS
  <1>1. pc = "evaluate" /\ decompo.subplans = <<>>
    BY DEF Init
  <1>2. QED
    BY <1>1, CoveredByNone DEF Following

(* No call is under way, and the decomposition has no subplans or the same. *)
LEMMA AsideFollowing ==
  ASSUME Following, pc' \notin {"call", "search", "answered"},
         \/ decompo'.subplans = <<>>
         \/ decompo'.subplans = decompo.subplans /\ decompo'.goals = decompo.goals
  PROVE  Following'
  <1>1. Covered(decompo'.goals, decompo'.subplans)
    BY CoveredByNone DEF Following
  <1>2. QED
    BY <1>1 DEF Following

LEMMA VaryFollowing ==
  ASSUME IInv, Following, pc' \in {"mutate", "evaluate"},
         UNCHANGED decompo \/ \E g : Vary(g)
  PROVE  Following'
  <1>1. ASSUME NEW g, Vary(g) PROVE decompo'.subplans = <<>>
    <2> DEFINE d == decompo
               v == decompo'
    <2>1. Shaped(d) /\ VariedInto(d, g, v)
      BY <1>1 DEF Vary, IInv, Progress, VariedInto
    <2> HIDE DEF d, v
    <2>2. v.subplans = <<>>
      BY <2>1, VariedShape
    <2>3. QED
      BY <2>2 DEF v
  <1>2. QED
    BY <1>1, AsideFollowing

LEMMA StopFollowing ==
  ASSUME IInv, Following, NEW fitness, NEW feasible, NEW plan, Stop(fitness, feasible, plan)
  PROVE  Following'
  <1>1. Shaped(decompo) /\ pc' = "done"
    BY DEF IInv, Progress, Stop
  <1>2. decompo' = [decompo EXCEPT !.fitness = fitness, !.feasible = feasible, !.plan = plan]
    BY DEF Stop
  <1>3. decompo'.goals = decompo.goals
    BY <1>1, <1>2 DEF Shaped, Parts
  <1>4. decompo'.subplans = decompo.subplans
    BY <1>1, <1>2 DEF Shaped, Parts
  <1>5. QED
    BY <1>1, <1>3, <1>4, AsideFollowing

LEMMA BeginFollowing ==
  ASSUME IInv, Following, Begin
  PROVE  Following'
  <1>1. Shaped(decompo) /\ pc' = "call" /\ current_state' = InitState
    BY DEF IInv, Progress, Begin, P!Reset
  <1>2. decompo' = [decompo EXCEPT !.k = 0, !.u = 0, !.b = 0]
    BY DEF Begin
  <1>3. decompo'.subplans = decompo.subplans
    BY <1>1, <1>2 DEF Shaped, Parts
  <1>4. decompo.subplans = <<>>
    BY DEF Begin, IInv, Progress, Calling
  <1>5. QED
    BY <1>1, <1>3, <1>4, RunNone, CoveredByNone DEF Following

LEMMA CallFollowing ==
  ASSUME IInv, Following, Call
  PROVE  Following'
  <1> DEFINE target == IF IsLast THEN GoalState ELSE decompo.goals[at].atoms
             limit  == IF IsLast THEN BLast ELSE BIn
  <1>1. pc = "call" /\ UNCHANGED <<decompo, at>>
    BY DEF Call
  <1>2. target = Target(decompo.goals, at)
    BY DEF Target, IsLast
  <1>3. CASE Exclusive(target)
    <2>1. P!Refuse(<<target, limit>>) /\ pc' = "answered"
      BY <1>3 DEF Call
    <2>2. code' = "GOALS_MUTEX"
      BY <2>1 DEF P!Refuse
    <2>3. QED
      BY <1>1, <2>1, <2>2 DEF Following
  <1>4. CASE ~Exclusive(target)
    <2>1. P!Ask(<<target, limit>>) /\ pc' = "search"
      BY <1>4 DEF Call
    <2> HIDE DEF target, limit
    <2>2. query' = <<target, limit>> /\ current_state' = current_state
      BY <2>1 DEF P!Ask
    <2>3. query'[1] = Target(decompo.goals, at)
      BY <1>2, <2>2
    <2>4. QED
      BY <1>1, <2>1, <2>2, <2>3 DEF Following
  <1>5. QED
    BY <1>3, <1>4

(* Carrying out a plan is the same in Planner.                              *)
LEMMA SameExecuted == \A s, steps : P!Executed(s, steps) = Executed(s, steps)
  BY Zenon DEF P!Executed, Executed, P!CanApply, CanApply, P!Result, Result, P!Broken, Broken,
               P!FoldLeft, FoldLeft, P!MapThenFoldSet, MapThenFoldSet, P!Max, Max

LEMMA AnswerFollowing ==
  ASSUME TiesInOrder, IInv, Following, Answer
  PROVE  Following'
  <1>1. pc = "search" /\ pc' = "answered" /\ UNCHANGED <<decompo, at>>
    BY DEF Answer
  <1>2. current_state = Run(decompo.subplans) /\ query[1] = Target(decompo.goals, at)
    BY <1>1 DEF Following
  <1>3. CASE P!NotFound
    <2>1. code' = "NO_PLAN"
      BY <1>3 DEF P!NotFound
    <2>2. QED
      BY <1>1, <2>1 DEF Following
  <1>4. CASE P!Found
    <2>1. /\ P!LeadsTo(current_state, solution_plan'.steps, current_state')
          /\ current_state' # P!Broken /\ query[1] \subseteq current_state'
      BY <1>4 DEF P!Found
    <2>4. P!TiesInOrder
      BY Zenon DEF P!TiesInOrder, TiesInOrder, P!MustPrecede, MustPrecede
    <2>5. P!Executed(current_state, solution_plan'.steps) = current_state'
      BY <2>1, <2>4, Zenon DEF P!LeadsTo
    <2>2. P!Broken = Broken
      BY DEF P!Broken, Broken
    <2>3. QED
      BY <1>1, <1>2, <2>1, <2>2, <2>5, SameExecuted DEF Following, Leads
  <1>5. QED
    BY <1>3, <1>4 DEF Answer

LEMMA RecordFollowing ==
  ASSUME IInv, Following, Record
  PROVE  Following'
  <1> DEFINE ps == decompo.subplans
             qs == Append(ps, solution_plan)
  <1>1. decompo'.goals = decompo.goals /\ decompo'.subplans = qs
    <2>1. Shaped(decompo)
      BY DEF IInv, Progress
    <2>2. PICK k, u, b : decompo' = [decompo EXCEPT !.k = k, !.u = u, !.b = b, !.subplans = qs]
      BY DEF Record
    <2> HIDE DEF qs
    <2>3. decompo'.goals = decompo.goals
      BY <2>1, <2>2 DEF Shaped, Parts
    <2>4. decompo'.subplans = qs
      BY <2>1, <2>2 DEF Shaped, Parts
    <2>5. QED
      BY <2>3, <2>4
  <1>2. pc = "answered" /\ code = "PLAN_FOUND" /\ pc' \in {"call", "compress"}
    BY DEF Record
  <1>3. UNCHANGED current_state
    BY DEF Record
  <1>4. /\ current_state = Executed(Run(ps), solution_plan.steps)
        /\ Leads(decompo.goals, at, current_state)
    BY <1>2 DEF Following
  <1>5. PICK S : ps \in Seq(S)
    BY DEF IInv, Progress
  <1>6. Run(qs) = current_state
    <2>1. ps \in Seq(S \cup {solution_plan}) /\ solution_plan \in S \cup {solution_plan}
      BY <1>5
    <2>2. QED
      BY <1>4, <2>1, RunAppend
  <1>7. Len(ps) = at - 1 /\ at \in Nat
    BY <1>2 DEF IInv, Progress, Calling, Reached, Decompositions
  <1>8. Len(qs) = at /\ SubSeq(qs, 1, at) = qs
    BY <1>5, <1>7
  <1>9. ASSUME NEW i \in 1 .. Len(ps)
        PROVE  SubSeq(qs, 1, i) = SubSeq(ps, 1, i)
    BY <1>5
  <1> HIDE DEF ps, qs
  <1>10. Covered(decompo.goals, qs)
    <2> SUFFICES ASSUME NEW i \in 1 .. at
                 PROVE  Leads(decompo.goals, i, Run(SubSeq(qs, 1, i)))
      BY <1>8 DEF Covered
    <2>1. CASE i = at
      BY <1>4, <1>6, <1>8, <2>1
    <2>2. CASE i # at
      <3>1. i \in 1 .. Len(ps)
        BY <1>7, <2>2
      <3>2. Leads(decompo.goals, i, Run(SubSeq(ps, 1, i)))
        BY <3>1 DEF Following, Covered, ps
      <3>3. QED
        BY <1>9, <3>1, <3>2
    <2>3. QED
      BY <2>1, <2>2
  <1>11. QED
    BY <1>1, <1>2, <1>3, <1>6, <1>10 DEF Following

LEMMA FollowingStep ==
  ASSUME TiesInOrder, IInv, Following, [Next]_vars
  PROVE  Following'
  <1>1. CASE Cross \/ CrossSecond \/ DelGoal \/ DelAtom \/ AddGoal \/ ChangeAddAtom \/ Clone
    <2>1. pc' \in {"mutate", "evaluate"} /\ (UNCHANGED decompo \/ \E g : Vary(g))
      BY <1>1 DEF Cross, CrossSecond, DelGoal, DelAtom, AddGoal, ChangeAddAtom, Clone, Breed
    <2>2. QED
      BY <2>1, VaryFollowing
  <1>2. CASE StillValid \/ Select
    BY <1>2, AsideFollowing DEF StillValid, Select
  <1>3. CASE Refused \/ Fail \/ Compress
    <2>1. \E fitness, feasible, plan : Stop(fitness, feasible, plan)
      BY <1>3, Zenon DEF Refused, Fail, Compress
    <2>2. QED
      BY <2>1, StopFollowing
  <1>4. CASE Begin
    BY <1>4, BeginFollowing
  <1>5. CASE Call
    BY <1>5, CallFollowing
  <1>6. CASE Answer
    BY <1>6, AnswerFollowing
  <1>7. CASE Record
    BY <1>7, RecordFollowing
  <1>8. CASE UNCHANGED vars
    BY <1>8 DEF vars, planner, Following
  <1>9. QED
    BY <1>1, <1>2, <1>3, <1>4, <1>5, <1>6, <1>7, <1>8 DEF Next

LEMMA InitFollows == Init => Follows
  BY InitFollowing DEF Follows

LEMMA FollowsStep == IInv /\ Follows /\ [Next]_vars => Follows'
  BY FollowingStep DEF Follows

(* However a decomposition was varied and evaluated, its subplans lead one
   after the other from the initial state through the goals it has now: what
   a mutation learns from them about how far it got is true of it.  This is
   so where two steps of length zero at one date, one of which must precede
   the other, are in the order of their ids (TiesInOrder), as they are if no
   action has length zero or plans are sequential.                          *)
THEOREM SubplansKeepFollowing == Spec => []SubplansFollow
  <1>1. Init => IInv /\ Follows
    BY InitIInv, InitFollows
  <1>2. IInv /\ Follows /\ [Next]_vars => IInv' /\ Follows'
    BY IInvStep, FollowsStep
  <1>3. IInv /\ Follows => SubplansFollow
    BY FollowingIsFollowed
  <1>4. QED
    BY <1>1, <1>2, <1>3, PTL DEF Spec

-----------------------------------------------------------------------------
(* The compressed plan.                                                    *)

(* The planner stands at a state.  What is to be compressed is what the
   decomposition remembers, and unless ties are in the wrong order, the steps
   put together so far lead where the planner stands, and the last call was
   for the goal of the problem.                                            *)
Planned ==
  /\ pc \in Calling => current_state \in StateSpace
  /\ pc \in Calling \cup {"compress"} =>
       /\ plans = decompo.subplans
       /\ Compacted(InitState, JoinAll(plans), Run(plans))
  /\ pc = "answered" /\ code = "PLAN_FOUND" => solution_plan.steps \in Seq(PlanStep)
  /\ TiesInOrder /\ pc = "compress" => GoalState \subseteq Run(plans)

LEMMA InitStateType == InitState \in StateSpace
  BY StripsAssumption DEF StateSpace

LEMMA AnswerPlanned ==
  ASSUME IInv, Follows, Planned, Answer
  PROVE  Planned'
  <1>1. pc = "search" /\ pc' = "answered" /\ UNCHANGED <<plans, decompo>>
    BY DEF Answer
  <1>2. current_state \in StateSpace
    BY <1>1 DEF Planned, Calling
  <1>5. CASE P!NotFound
    <2>1. code' = "NO_PLAN" /\ current_state' = current_state
      BY <1>5 DEF P!NotFound
    <2>2. QED
      BY <1>1, <1>2, <2>1 DEF Planned, Calling
  <1>3. CASE ~P!NotFound
    <2>2. PICK n \in NodesFrom(current_state) :
                 /\ current_state' = n.state
                 /\ \E e \in 1 .. query[2] : solution_plan' = SolutionPlan(n, e)
      BY <1>3, Zenon DEF Answer
    <2>3. solution_plan'.steps = InPlanOrder(n.steps)
      BY <2>2 DEF SolutionPlan
    <2>4. Pathed(current_state, n)
      <3> DEFINE ps == [i \in 1 .. Horizon |-> i]
      <3>1. ps \in Seq(Nat)
        BY EvalAssumption
      <3>2. n \in ExtendAll({RootNode(current_state)}, ps)
        BY Zenon DEF NodesFrom, ExtendAll
      <3> HIDE DEF ps
      <3>3. QED
        BY <1>2, <3>1, <3>2, ExtendedPathed
    <2>5. solution_plan'.steps \in Seq(PlanStep) /\ current_state' \in StateSpace
      BY <2>2, <2>3, <2>4 DEF Pathed, Scheduled, Ordered
    <2>6. QED
      BY <1>1, <2>5 DEF Planned, Calling
  <1>4. QED
    BY <1>3, <1>5

LEMMA RecordPlanned ==
  ASSUME IInv, Follows, Planned, Record
  PROVE  Planned'
  <1>1. /\ pc = "answered" /\ code = "PLAN_FOUND" /\ pc' \in {"call", "compress"}
        /\ plans' = Append(plans, solution_plan)
    BY DEF Record
  <1>2. /\ plans = decompo.subplans /\ solution_plan.steps \in Seq(PlanStep)
        /\ Compacted(InitState, JoinAll(plans), Run(plans))
        /\ TiesInOrder => Executed(Run(plans), solution_plan.steps) # Broken
        /\ current_state \in StateSpace
    BY <1>1 DEF Planned, Follows, Following, Leads, Calling
  <1>3. decompo'.subplans = plans'
    <2> DEFINE qs == Append(decompo.subplans, solution_plan)
    <2>1. Shaped(decompo)
      BY DEF IInv, Progress
    <2>2. PICK k, u, b : decompo' = [decompo EXCEPT !.k = k, !.u = u, !.b = b, !.subplans = qs]
      BY DEF Record
    <2> HIDE DEF qs
    <2>3. decompo'.subplans = qs
      BY <2>1, <2>2 DEF Shaped, Parts
    <2>4. QED
      BY <1>1, <1>2, <2>3 DEF qs
  <1>4. PICK S : plans \in Seq(S) /\ solution_plan \in S
    <2>1. PICK T : plans \in Seq(T)
      BY <1>2 DEF IInv, Progress
    <2>2. plans \in Seq(T \cup {solution_plan})
      BY <2>1
    <2>3. QED
      BY <2>2
  <1>5. /\ JoinAll(plans') = Joined(JoinAll(plans), solution_plan)
        /\ Run(plans') = Executed(Run(plans), solution_plan.steps)
    BY <1>1, <1>4, JoinAllAppend, RunAppend
  <1>6. Compacted(InitState, JoinAll(plans'), Run(plans'))
    <2>1. Compacted(InitState, Joined(JoinAll(plans), solution_plan), Executed(Run(plans), solution_plan.steps))
      BY <1>2, InitStateType, JoinedCompacted
    <2>2. QED
      BY <1>5, <2>1
  <1>7. TiesInOrder /\ pc' = "compress" => GoalState \subseteq Run(plans')
    <2> SUFFICES ASSUME TiesInOrder, pc' = "compress" PROVE GoalState \subseteq Run(plans')
      OBVIOUS
    <2>1. at > Len(decompo.goals)
      BY DEF Record, IsLast
    <2>2. Leads(decompo.goals, at, Run(plans'))
      BY <1>1, <1>2, <1>5 DEF Follows, Following
    <2>3. QED
      BY <2>1, <2>2 DEF Leads, Target
  <1>9. current_state' = current_state
    BY DEF Record
  <1>8. QED
    BY <1>1, <1>2, <1>3, <1>6, <1>7, <1>9 DEF Planned

LEMMA PlannedStep ==
  ASSUME IInv, Follows, Planned, [Next]_vars
  PROVE  Planned'
  <1>1. CASE \/ Cross \/ CrossSecond \/ DelGoal \/ DelAtom \/ AddGoal \/ ChangeAddAtom \/ Clone
             \/ StillValid \/ Select \/ Refused \/ Fail \/ Compress
    <2>1. pc' \in {"cross", "mutate", "evaluate", "done"}
      BY <1>1 DEF Cross, CrossSecond, DelGoal, DelAtom, AddGoal, ChangeAddAtom, Clone, Breed,
                  StillValid, Select, Refused, Fail, Compress, Stop
    <2>2. QED
      BY <2>1 DEF Planned, Calling
  <1>2. CASE Begin
    <2>1. pc' = "call" /\ plans' = <<>> /\ current_state' \in StateSpace
      BY <1>2, InitStateType DEF Begin, P!Reset
    <2>2. decompo'.subplans = <<>>
      <3>1. Shaped(decompo) /\ decompo' = [decompo EXCEPT !.k = 0, !.u = 0, !.b = 0]
        BY <1>2 DEF IInv, Progress, Begin
      <3>2. decompo'.subplans = decompo.subplans
        BY <3>1 DEF Shaped, Parts
      <3>3. decompo.subplans = <<>>
        BY <1>2 DEF Begin, IInv, Progress, Calling
      <3>4. QED
        BY <3>2, <3>3
    <2>3. Compacted(InitState, JoinAll(<<>>), Run(<<>>))
      BY InitStateType, CompactedNone, JoinAllNone, RunNone
    <2>4. QED
      BY <2>1, <2>2, <2>3 DEF Planned
  <1>3. CASE Call
    <2>1. pc = "call" /\ pc' \in {"answered", "search"} /\ UNCHANGED <<plans, decompo>>
      BY <1>3 DEF Call
    <2>2. code' # "PLAN_FOUND" /\ current_state' = current_state
      BY <1>3 DEF Call, P!Refuse, P!Ask
    <2>3. QED
      BY <2>1, <2>2 DEF Planned, Calling
  <1>4. CASE UNCHANGED vars
    BY <1>4 DEF vars, planner, Planned
  <1>5. QED
    BY <1>1, <1>2, <1>3, <1>4, AnswerPlanned, RecordPlanned DEF Next

(* A plan that answers the evaluation of a decomposition.                  *)
Answers(steps) ==
  /\ TiesInOrder =>
       /\ Executed(InitState, steps) # Broken
       /\ GoalState \subseteq Executed(InitState, steps)
  /\ \A x, y \in ToSet(steps) :
       x # y /\ Threaten(x.act, y.act) => CompressedEnd(x) <= y.init \/ CompressedEnd(y) <= x.init

LEMMA SoundMeans ==
  PlanSound <=>
    IF decompo.fitness # Invalid /\ decompo.feasible THEN Answers(decompo.plan.steps)
    ELSE decompo.plan = NoPlan
  BY Zenon DEF PlanSound, Answers

LEMMA CompressedAnswers ==
  ASSUME Planned, pc = "compress"
  PROVE  Answers(Compressed(plans).steps)
  <1> DEFINE w == JoinAll(plans)
             t == Run(plans)
  <1>1. Compacted(InitState, w, t) /\ (TiesInOrder => GoalState \subseteq t)
    BY DEF Planned
  <1>2. Compressed(plans).steps = InPlanOrder(w)
    BY Zenon DEF Compressed, JoinAll
  <1>3. TiesInOrder => Executed(InitState, InPlanOrder(w)) = t /\ t # Broken
    BY <1>1, BrokenIsNoState DEF Compacted
  <1> HIDE DEF w, t
  <1>4. \A x, y \in ToSet(InPlanOrder(w)) :
          x # y /\ Threaten(x.act, y.act) => CompressedEnd(x) <= y.init \/ CompressedEnd(y) <= x.init
    BY <1>1, InitStateType, CompactedApart
  <1>5. QED
    BY <1>1, <1>2, <1>3, <1>4 DEF Answers

LEMMA InitSound == Init => PlanSound
  <1> SUFFICES ASSUME Init PROVE PlanSound
    OBVIOUS
  <1>1. decompo.fitness = Invalid /\ decompo.plan = NoPlan
    BY DEF Init
  <1>2. QED
    BY <1>1, SoundMeans

SameVerdict ==
  decompo'.fitness = decompo.fitness /\ decompo'.feasible = decompo.feasible /\ decompo'.plan = decompo.plan

LEMMA SameVerdictSound ==
  ASSUME PlanSound, SameVerdict
  PROVE  PlanSound'
  BY DEF SameVerdict, PlanSound

LEMMA StopSound ==
  ASSUME IInv, NEW fitness, fitness # Invalid, NEW feasible, NEW plan, Stop(fitness, feasible, plan),
         IF feasible THEN Answers(plan.steps) ELSE plan = NoPlan
  PROVE  PlanSound'
  <1>1. Shaped(decompo)
    BY DEF IInv, Progress
  <1>2. decompo' = [decompo EXCEPT !.fitness = fitness, !.feasible = feasible, !.plan = plan]
    BY DEF Stop
  <1>3. decompo'.fitness = fitness
    BY <1>1, <1>2 DEF Shaped, Parts
  <1>4. decompo'.feasible = feasible
    BY <1>1, <1>2 DEF Shaped, Parts
  <1>5. decompo'.plan = plan
    BY <1>1, <1>2 DEF Shaped, Parts
  <1>6. QED
    BY <1>3, <1>4, <1>5, Zenon DEF PlanSound, Answers

LEMMA SoundStep ==
  ASSUME IInv, Planned, PlanSound, [Next]_vars
  PROVE  PlanSound'
  <1>0. Shaped(decompo)
    BY DEF IInv, Progress
  <1>1. ASSUME NEW g, Vary(g) PROVE PlanSound'
    <2>1. decompo' = Invalidated([decompo EXCEPT !.goals = g])
      BY <1>1 DEF Vary
    <2>2. decompo'.fitness = Invalid
      <3> DEFINE d == decompo
                 v == decompo'
      <3>1. Shaped(d) /\ VariedInto(d, g, v)
        BY <1>0, <2>1 DEF VariedInto
      <3> HIDE DEF d, v
      <3>2. v.fitness = Invalid
        BY <3>1, VariedShape
      <3>3. QED
        BY <3>2 DEF v
    <2>3. decompo'.plan = NoPlan
      BY <1>0, <2>1 DEF Shaped, Parts, Invalidated
    <2>4. QED
      BY <2>2, <2>3 DEF PlanSound
  <1>2. CASE Cross \/ CrossSecond \/ DelGoal \/ DelAtom \/ AddGoal \/ ChangeAddAtom \/ Clone
    <2>1. UNCHANGED decompo \/ \E g : Vary(g)
      BY <1>2 DEF Cross, CrossSecond, DelGoal, DelAtom, AddGoal, ChangeAddAtom, Clone
    <2>2. QED
      BY <1>1, <2>1, SameVerdictSound DEF SameVerdict
  <1>3. CASE StillValid \/ Call \/ Answer \/ Select \/ UNCHANGED vars
    BY <1>3, SameVerdictSound DEF SameVerdict, StillValid, Call, Answer, Select, vars
  <1>4. CASE Begin
    <2>1. decompo' = [decompo EXCEPT !.k = 0, !.u = 0, !.b = 0]
      BY <1>4 DEF Begin
    <2>2. decompo'.fitness = decompo.fitness
      BY <1>0, <2>1 DEF Shaped, Parts
    <2>3. decompo'.feasible = decompo.feasible
      BY <1>0, <2>1 DEF Shaped, Parts
    <2>4. decompo'.plan = decompo.plan
      BY <1>0, <2>1 DEF Shaped, Parts
    <2>5. QED
      BY <2>2, <2>3, <2>4, SameVerdictSound DEF SameVerdict
  <1>5. CASE Record
    <2>1. PICK k, u, b, qs : decompo' = [decompo EXCEPT !.k = k, !.u = u, !.b = b, !.subplans = qs]
      BY <1>5 DEF Record
    <2>2. decompo'.fitness = decompo.fitness
      BY <1>0, <2>1 DEF Shaped, Parts
    <2>3. decompo'.feasible = decompo.feasible
      BY <1>0, <2>1 DEF Shaped, Parts
    <2>4. decompo'.plan = decompo.plan
      BY <1>0, <2>1 DEF Shaped, Parts
    <2>5. QED
      BY <2>2, <2>3, <2>4, SameVerdictSound DEF SameVerdict
  <1>6. CASE Refused \/ Fail
    <2>1. PICK fitness : fitness # Invalid /\ Stop(fitness, FALSE, NoPlan)
      BY <1>6, FractionsAreValid, Zenon DEF Refused, Fail
    <2>2. QED
      BY <2>1, StopSound
  <1>7. CASE Compress
    <2> DEFINE plan == Compressed(plans)
    <2>1. pc = "compress" /\ \E fitness : fitness # Invalid /\ Stop(fitness, TRUE, plan)
      BY <1>7, FractionsAreValid, Zenon DEF Compress
    <2>2. Answers(plan.steps)
      BY <2>1, CompressedAnswers
    <2> HIDE DEF plan
    <2>3. QED
      BY <2>1, <2>2, StopSound
  <1>8. QED
    BY <1>2, <1>3, <1>4, <1>5, <1>6, <1>7 DEF Next

(* A decomposition has a plan only while its evaluation holds, and the plan
   is one: yahsp_compress_plans puts the steps of all subplans at dates where
   no two steps overlap of which one deletes what the other needs or adds;
   and where steps of length zero at one date are in the right order by their
   ids (TiesInOrder), as they are if no action has length zero or plans are
   sequential, they lead from the initial state to the goal.                *)
THEOREM PlanStaysSound == Spec => []PlanSound
  <1> DEFINE I == IInv /\ Follows /\ Planned /\ PlanSound
  <1>1. Init => I
    <2>1. Init => Planned
      BY DEF Init, Planned, Calling
    <2>2. QED
      BY <2>1, InitIInv, InitFollows, InitSound
  <1>2. I /\ [Next]_vars => I'
    BY IInvStep, FollowsStep, PlannedStep, SoundStep
  <1>3. I => PlanSound
    OBVIOUS
  <1> HIDE DEF I
  <1>4. QED
    BY <1>1, <1>2, <1>3, PTL DEF Spec

=============================================================================
