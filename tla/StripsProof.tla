---------------------------- MODULE StripsProof ----------------------------
(***************************************************************************)
(* Facts about plans, for every problem: what folds over sequences give,   *)
(* what a plan leads to, and that a plan whose dates respect               *)
(* action_must_precede can be carried out in the order of its dates; and   *)
(* about folds over sets, what the heuristic h1 gives and what can be      *)
(* reached.                                                                *)
(***************************************************************************)
EXTENDS Strips, FiniteSetTheorems, SequenceTheorems, WellFoundedInduction, TLAPS

-----------------------------------------------------------------------------
(* Least and greatest elements.                                            *)

(* Every set of natural numbers that is not empty has a least element.     *)
LEMMA LeastNatural ==
  ASSUME NEW S, S \subseteq Nat, S # {}
  PROVE  Min(S) \in S /\ \A k \in S : Min(S) <= k
  <1>1. PICK m \in S : \A k \in S : ~(<<k, m>> \in OpToRel(<, Nat))
    BY NatLessThanWellFounded, WFMin
  <1>2. \A k \in S : k < m => <<k, m>> \in OpToRel(<, Nat)
    BY DEF OpToRel
  <1>3. \A k \in S : ~(k < m)
    BY <1>1, <1>2, Zenon
  <1>4. \A k \in S : m <= k
    <2> HIDE <1>1, <1>2
    <2> QED
      BY <1>3, SMT
  <1>5. \E x \in S : \A y \in S : x <= y
    BY <1>4
  <1>6. QED
    BY <1>5, Zenon DEF Min

(* A finite one has a greatest element: a least subset without one would
   have one without any of its elements.                                   *)
LEMMA GreatestNatural ==
  ASSUME NEW S, S \subseteq Nat, S # {}, IsFiniteSet(S)
  PROVE  Max(S) \in S /\ \A k \in S : k <= Max(S)
  <1> DEFINE Has(T) == \E x \in T : \A y \in T : y <= x
             Bad == {T \in SUBSET S : T # {} /\ ~Has(T)}
  <1>1. Bad = {}
    <2> SUFFICES ASSUME Bad # {} PROVE FALSE
      OBVIOUS
    <2>1. IsWellFoundedOn(StrictSubsetOrdering(S), FiniteSubsetsOf(S))
      BY FS_StrictSubsetOrderingWellFounded
    <2>2. Bad \subseteq FiniteSubsetsOf(S)
      BY FS_FiniteSubsetsOfFinite
    <2>3. PICK T \in Bad : \A U \in Bad : ~(<<U, T>> \in StrictSubsetOrdering(S))
      BY <2>1, <2>2, WFMin
    <2>4. T \in SUBSET S /\ T # {} /\ ~Has(T)
      OBVIOUS
    <2>5. PICK x \in T : TRUE
      BY <2>4
    <2>6. x \in Nat /\ T \subseteq Nat
      BY <2>4
    <2>7. T \ {x} # {}
      <3>1. T = {x} => Has(T)
        BY <2>6
      <3>2. QED
        BY <2>4, <2>5, <3>1
    <2>8. <<T \ {x}, T>> \in StrictSubsetOrdering(S)
      BY <2>4, <2>5 DEF StrictSubsetOrdering
    <2>9. T \ {x} \in SUBSET S
      BY <2>4
    <2>10. Has(T \ {x})
      BY <2>3, <2>7, <2>8, <2>9
    <2>11. PICK m \in T \ {x} : \A y \in T \ {x} : y <= m
      BY <2>10
    <2>12. Has(T)
      BY <2>5, <2>6, <2>11, SMT
    <2>13. QED
      BY <2>4, <2>12
  <1>2. \E x \in S : \A y \in S : x >= y
    <2>1. Has(S)
      BY <1>1
    <2>2. QED
      BY <2>1
  <1>3. Max(S) \in S /\ \A y \in S : Max(S) >= y
    BY <1>2, Zenon DEF Max
  <1>4. QED
    BY <1>3

(* A set of sets that is not empty has one with no smaller one in it.      *)
HasLeast(B) == \E T \in B : \A U \in B : U \subseteq T => U = T

LEMMA LeastSubset ==
  ASSUME NEW D, IsFiniteSet(D), NEW B, B \subseteq SUBSET D, B # {}
  PROVE  HasLeast(B)
  <1>1. IsWellFoundedOn(StrictSubsetOrdering(D), FiniteSubsetsOf(D))
    BY FS_StrictSubsetOrderingWellFounded
  <1>2. B \subseteq FiniteSubsetsOf(D)
    BY FS_FiniteSubsetsOfFinite
  <1>3. PICK T \in B : \A U \in B : ~(<<U, T>> \in StrictSubsetOrdering(D))
    BY <1>1, <1>2, WFMin
  <1>4. ASSUME NEW U \in B, U \subseteq T, U # T
        PROVE  FALSE
    <2>1. <<U, T>> \in StrictSubsetOrdering(D)
      BY <1>4 DEF StrictSubsetOrdering
    <2>2. QED
      BY <1>3, <2>1, Zenon
  <1>5. QED
    BY <1>4, Zenon DEF HasLeast

LEMMA MaxInside ==
  ASSUME NEW D, D \subseteq Nat, IsFiniteSet(D), NEW I \in SUBSET D, I # {}
  PROVE  Max(I) \in I /\ \A i \in I : i <= Max(I)
  <1>1. I \subseteq Nat /\ IsFiniteSet(I)
    BY FS_Subset
  <1>2. QED
    BY <1>1, GreatestNatural

-----------------------------------------------------------------------------
(* The folds of the model, by what they do with one more element.  A fold   *)
(* is a recursive function on the sets of places; there is one, and only    *)
(* one, because a finite set has a least subset where this would fail.      *)

Taken(kind, t, x) ==
  CASE kind = "executed" -> (IF t # Broken /\ CanApply(t, x.act) THEN Result(t, x.act) ELSE Broken)
    [] kind = "inserted" -> Inserted(t, x)
    [] kind = "compressed" -> CompressStep(t, x)
    [] kind = "joined"   -> Joined(t, x)
    [] kind = "carried"  -> Executed(t, x.steps)
    [] kind = "extended" -> Extended(t, x)

Continued(kind, base, ps, r, I) ==
  IF I = {} THEN base ELSE Taken(kind, r[I \ {Max(I)}], ps[Max(I)])

IsFold(kind, base, ps, D, r) == r = [I \in SUBSET D |-> Continued(kind, base, ps, r, I)]

LEMMA FoldOverNone ==
  ASSUME NEW kind, NEW base, NEW ps
  PROVE  IsFold(kind, base, ps, {}, [I \in SUBSET {} |-> base])
  <1>1. \A I \in SUBSET {} : I = {}
    OBVIOUS
  <1>2. \A r : \A I \in SUBSET {} : Continued(kind, base, ps, r, I) = base
    BY <1>1 DEF Continued
  <1>3. QED
    BY <1>2 DEF IsFold

LEMMA FoldOverMore ==
  ASSUME NEW kind, NEW base, NEW ps, NEW T, T \subseteq Nat, IsFiniteSet(T), T # {},
         NEW S, S = T \ {Max(T)}, NEW q, IsFold(kind, base, ps, S, q)
  PROVE  \E r : IsFold(kind, base, ps, T, r)
  <1> DEFINE r == [I \in SUBSET T |-> Continued(kind, base, ps, q, I)]
  <1>1. Max(T) \in T /\ \A i \in T : i <= Max(T)
    BY MaxInside
  <1>2. S \subseteq T
    OBVIOUS
  <1>3. \A J \in SUBSET S : q[J] = Continued(kind, base, ps, q, J)
    BY Zenon DEF IsFold
  <1>4. ASSUME NEW I \in SUBSET T, I # {}
        PROVE  r[I \ {Max(I)}] = q[I \ {Max(I)}]
    <2>1. Max(I) \in I /\ \A i \in I : i <= Max(I)
      BY <1>4, MaxInside
    <2>2. I \ {Max(I)} \in SUBSET S
      <3>1. CASE Max(T) \in I
        <4>1. Max(T) <= Max(I) /\ Max(I) <= Max(T) /\ Max(I) \in Nat /\ Max(T) \in Nat
          BY <1>1, <2>1, <3>1
        <4>2. Max(I) = Max(T)
          BY <4>1
        <4>3. QED
          BY <4>2
      <3>2. CASE Max(T) \notin I
        BY <3>2
      <3>3. QED
        BY <3>1, <3>2
    <2> DEFINE J == I \ {Max(I)}
    <2>3. J \in SUBSET S /\ J \in SUBSET T
      BY <1>2, <2>2
    <2> HIDE DEF J
    <2>4. r[J] = Continued(kind, base, ps, q, J)
      BY <2>3
    <2>5. r[J] = q[J]
      BY <1>3, <2>3, <2>4
    <2>6. QED
      BY <2>5 DEF J
  <1>5. \A I \in SUBSET T : Continued(kind, base, ps, q, I) = Continued(kind, base, ps, r, I)
    <2> HIDE DEF r
    <2> QED
      BY <1>4 DEF Continued
  <1>6. r = [I \in SUBSET T |-> Continued(kind, base, ps, r, I)]
    BY <1>5, Zenon
  <1> HIDE DEF r
  <1>7. QED
    BY <1>6, Zenon DEF IsFold

LEMMA FoldExists ==
  ASSUME NEW kind, NEW base, NEW ps, NEW D, D \subseteq Nat, IsFiniteSet(D)
  PROVE  \E r : IsFold(kind, base, ps, D, r)
  <1> DEFINE Has(T) == \E r : IsFold(kind, base, ps, T, r)
             Bad == {T \in SUBSET D : ~Has(T)}
  <1>1. Bad \subseteq SUBSET D /\ \A T \in SUBSET D : T \in Bad <=> ~Has(T)
    OBVIOUS
  <1> HIDE DEF Bad
  <1>2. ASSUME Bad # {} PROVE FALSE
    <2>1. HasLeast(Bad)
      BY <1>1, <1>2, LeastSubset
    <2>2. PICK T : T \in Bad /\ \A U \in Bad : U \subseteq T => U = T
      BY <2>1 DEF HasLeast
    <2>3. T \subseteq D /\ T \subseteq Nat /\ IsFiniteSet(T) /\ ~Has(T)
      BY <1>1, <2>2, FS_Subset
    <2>4. T # {}
      BY <2>3, FoldOverNone
    <2> DEFINE S == T \ {Max(T)}
    <2>5. S \subseteq T /\ S # T /\ S \in SUBSET D
      BY <2>3, <2>4, MaxInside
    <2>6. Has(S)
      <3> HIDE DEF S
      <3> QED
        BY <1>1, <2>2, <2>5
    <2>7. PICK q : IsFold(kind, base, ps, S, q)
      BY <2>6
    <2>8. QED
      BY <2>3, <2>4, <2>7, FoldOverMore
  <1>3. QED
    BY <1>1, <1>2

(* Folds over the same elements give the same, however many follow.        *)
Alike(kind, base, ps, qs, D, E, r, q) ==
  /\ IsFold(kind, base, ps, D, r) /\ IsFold(kind, base, qs, E, q)
  /\ D \subseteq E /\ D \subseteq Nat /\ IsFiniteSet(D)
  /\ \A i \in D : ps[i] = qs[i]

SameAt(D, r, q) == r[D] = q[D]

LEMMA FoldUnique ==
  ASSUME NEW kind, NEW base, NEW ps, NEW qs, NEW D, NEW E, NEW r, NEW q,
         Alike(kind, base, ps, qs, D, E, r, q)
  PROVE  SameAt(D, r, q)
  <1> DEFINE Bad == {I \in SUBSET D : r[I] # q[I]}
  <1>0. /\ IsFold(kind, base, ps, D, r) /\ IsFold(kind, base, qs, E, q)
        /\ D \subseteq E /\ D \subseteq Nat /\ IsFiniteSet(D)
        /\ \A i \in D : ps[i] = qs[i]
    BY DEF Alike
  <1>1. Bad \subseteq SUBSET D /\ \A I \in SUBSET D : I \in Bad <=> r[I] # q[I]
    OBVIOUS
  <1> HIDE DEF Bad
  <1>2. \A I \in SUBSET D : r[I] = Continued(kind, base, ps, r, I)
    BY <1>0, Zenon DEF IsFold
  <1>3. \A I \in SUBSET E : q[I] = Continued(kind, base, qs, q, I)
    BY <1>0, Zenon DEF IsFold
  <1>4. ASSUME Bad # {} PROVE FALSE
    <2>1. HasLeast(Bad)
      BY <1>0, <1>1, <1>4, LeastSubset
    <2>2. PICK I : I \in Bad /\ \A U \in Bad : U \subseteq I => U = I
      BY <2>1 DEF HasLeast
    <2>3. I \in SUBSET D /\ I \in SUBSET E /\ r[I] # q[I]
      BY <1>0, <1>1, <2>2
    <2>4. I # {}
      BY <1>2, <1>3, <2>3 DEF Continued
    <2>5. Max(I) \in I
      BY <1>0, <2>3, <2>4, MaxInside
    <2> DEFINE J == I \ {Max(I)}
    <2>6. J \in SUBSET D /\ J \subseteq I /\ J # I
      BY <2>3, <2>5
    <2>7. r[J] = q[J]
      <3> HIDE DEF J
      <3> QED
        BY <1>1, <2>2, <2>6
    <2>8. ps[Max(I)] = qs[Max(I)]
      BY <1>0, <2>3, <2>5
    <2>9. QED
      BY <1>2, <1>3, <2>3, <2>4, <2>7, <2>8 DEF Continued
  <1>5. QED
    BY <1>1, <1>4 DEF SameAt

(* What a fold over a sequence gives.                                       *)
Gives(kind, base, ps, v) ==
  \E r : IsFold(kind, base, ps, DOMAIN ps, r) /\ v = r[DOMAIN ps]

LEMMA PlacesFinite ==
  ASSUME NEW S, NEW ps \in Seq(S)
  PROVE  DOMAIN ps \subseteq Nat /\ IsFiniteSet(DOMAIN ps)
  <1>1. DOMAIN ps = 1 .. Len(ps) /\ Len(ps) \in Nat
    OBVIOUS
  <1> DEFINE n == Len(ps)
  <1>2. n \in Nat /\ DOMAIN ps = 1 .. n
    BY <1>1
  <1> HIDE DEF n
  <1>3. IsFiniteSet(1 .. n)
    BY <1>2, FS_Interval
  <1>4. QED
    BY <1>2, <1>3

LEMMA GivesOfNone ==
  ASSUME NEW kind, NEW base, NEW v, Gives(kind, base, <<>>, v)
  PROVE  v = base
  <1> DEFINE D == DOMAIN <<>>
  <1>1. D = {}
    OBVIOUS
  <1> HIDE DEF D
  <1>2. PICK r : IsFold(kind, base, <<>>, D, r) /\ v = r[D]
    BY Zenon DEF Gives, D
  <1>3. D \in SUBSET D
    OBVIOUS
  <1>4. v = Continued(kind, base, <<>>, r, D)
    BY <1>2, <1>3, Zenon DEF IsFold
  <1>5. QED
    BY <1>1, <1>4 DEF Continued

LEMMA GivesOfAppend ==
  ASSUME NEW kind, NEW base, NEW S, NEW ps \in Seq(S), NEW x,
         NEW v, Gives(kind, base, ps, v), NEW w, Gives(kind, base, Append(ps, x), w)
  PROVE  w = Taken(kind, v, x)
  <1> DEFINE qs == Append(ps, x)
             n == Len(ps)
             D == 1 .. n
             E == 1 .. n + 1
  <1>1. n \in Nat /\ DOMAIN ps = D
    OBVIOUS
  <1>2. DOMAIN qs = E /\ qs[n + 1] = x /\ \A i \in D : ps[i] = qs[i]
    <2>1. ps \in Seq(S \cup {x}) /\ x \in S \cup {x}
      OBVIOUS
    <2>2. QED
      BY <1>1, <2>1, AppendProperties
  <1>3. /\ E \subseteq Nat /\ IsFiniteSet(E)
        /\ D \subseteq E /\ D \subseteq Nat /\ IsFiniteSet(D)
        /\ E # {} /\ E \ {n + 1} = D
    <2>1. n \in Int /\ n + 1 \in Int /\ n >= 0
      BY <1>1
    <2> HIDE DEF n
    <2>2. IsFiniteSet(D) /\ IsFiniteSet(E)
      BY <2>1, FS_Interval
    <2>3. D \subseteq E /\ D \subseteq Nat /\ E \subseteq Nat
      BY <2>1
    <2>4. E # {} /\ E \ {n + 1} = D
      BY <2>1
    <2>5. QED
      BY <2>2, <2>3, <2>4
  <1>4. Max(E) = n + 1
    <2>1. Max(E) \in E /\ \A i \in E : i <= Max(E)
      <3> HIDE DEF E
      <3> QED
        BY <1>3, GreatestNatural
    <2>2. n + 1 \in E
      BY <1>1
    <2>3. QED
      BY <1>1, <2>1, <2>2
  <1> HIDE DEF n, D, E
  <1>5. PICK r : IsFold(kind, base, ps, D, r) /\ v = r[D]
    BY <1>1, Zenon DEF Gives
  <1>6. PICK q : IsFold(kind, base, qs, E, q) /\ w = q[E]
    <2>1. Gives(kind, base, qs, w)
      OBVIOUS
    <2> HIDE DEF qs
    <2>2. QED
      BY <1>2, <2>1, Zenon DEF Gives
  <1> HIDE DEF qs
  <1>7. q[E] = Taken(kind, q[D], x)
    <2>1. E \in SUBSET E
      OBVIOUS
    <2>2. q[E] = Continued(kind, base, qs, q, E)
      BY <1>6, <2>1, Zenon DEF IsFold
    <2>3. QED
      BY <1>2, <1>3, <1>4, <2>2 DEF Continued
  <1>8. r[D] = q[D]
    <2>1. Alike(kind, base, ps, qs, D, E, r, q)
      BY <1>2, <1>3, <1>5, <1>6 DEF Alike
    <2>2. SameAt(D, r, q)
      BY <2>1, FoldUnique, Zenon
    <2>3. QED
      BY <2>2 DEF SameAt
  <1>9. QED
    BY <1>5, <1>6, <1>7, <1>8

-----------------------------------------------------------------------------
(* The folds of Strips, and what each does with one more element.          *)

LEMMA TakenAre ==
  \A t, x :
    /\ Taken("executed", t, x)
         = IF t # Broken /\ CanApply(t, x.act) THEN Result(t, x.act) ELSE Broken
    /\ Taken("inserted", t, x) = Inserted(t, x)
    /\ Taken("compressed", t, x) = CompressStep(t, x)
    /\ Taken("joined", t, x) = Joined(t, x)
    /\ Taken("carried", t, x) = Executed(t, x.steps)
    /\ Taken("extended", t, x) = Extended(t, x)
  BY DEF Taken

LEMMA ExecutedGives ==
  ASSUME NEW s, NEW S, NEW ps \in Seq(S)
  PROVE  Gives("executed", s, ps, Executed(s, ps))
  <1> DEFINE Body(r, I) ==
               IF I = {} THEN s
               ELSE LET t == r[I \ {Max(I)}]
                        x == ps[Max(I)]
                    IN IF t # Broken /\ CanApply(t, x.act) THEN Result(t, x.act) ELSE Broken
             D == DOMAIN ps
             Is(r) == r = [I \in SUBSET D |-> Body(r, I)]
  <1>1. Executed(s, ps) = (CHOOSE r : Is(r))[D]
    BY Zenon DEF Executed, FoldLeft, MapThenFoldSet
  <1>2. \A r : \A I : Body(r, I) = Continued("executed", s, ps, r, I)
    BY TakenAre DEF Continued
  <1> HIDE DEF Body, D
  <1>3. \A r : Is(r) <=> IsFold("executed", s, ps, D, r)
    BY <1>2, Zenon DEF IsFold
  <1> HIDE DEF Is
  <1>4. \E r : Is(r)
    BY <1>3, PlacesFinite, FoldExists, Zenon DEF D
  <1>5. QED
    BY <1>1, <1>3, <1>4, Zenon DEF Gives, D

LEMMA InPlanOrderGives ==
  ASSUME NEW S, NEW ps \in Seq(S)
  PROVE  Gives("inserted", <<>>, ps, InPlanOrder(ps))
  <1> DEFINE Body(r, I) == IF I = {} THEN <<>> ELSE Inserted(r[I \ {Max(I)}], ps[Max(I)])
             D == DOMAIN ps
             Is(r) == r = [I \in SUBSET D |-> Body(r, I)]
  <1>1. InPlanOrder(ps) = (CHOOSE r : Is(r))[D]
    BY Zenon DEF InPlanOrder, FoldLeft, MapThenFoldSet
  <1>2. \A r : \A I : Body(r, I) = Continued("inserted", <<>>, ps, r, I)
    BY TakenAre DEF Continued
  <1> HIDE DEF Body, D
  <1>3. \A r : Is(r) <=> IsFold("inserted", <<>>, ps, D, r)
    BY <1>2, Zenon DEF IsFold
  <1> HIDE DEF Is
  <1>4. \E r : Is(r)
    BY <1>3, PlacesFinite, FoldExists, Zenon DEF D
  <1>5. QED
    BY <1>1, <1>3, <1>4, Zenon DEF Gives, D

(* Compression of the steps of a plan after others, of plans one after the
   other, what plans lead to, and nodes that actions lead to.              *)
CompressAll(base, ps) == FoldLeft(CompressStep, base, ps)
JoinAll(ps) == FoldLeft(Joined, <<>>, ps)
Run(ps) == FoldLeft(LAMBDA s, p : Executed(s, p.steps), InitState, ps)
ExtendAll(base, ps) == FoldLeft(Extended, base, ps)

LEMMA CompressAllGives ==
  ASSUME NEW base, NEW S, NEW ps \in Seq(S)
  PROVE  Gives("compressed", base, ps, CompressAll(base, ps))
  <1> DEFINE Body(r, I) == IF I = {} THEN base ELSE CompressStep(r[I \ {Max(I)}], ps[Max(I)])
             D == DOMAIN ps
             Is(r) == r = [I \in SUBSET D |-> Body(r, I)]
  <1>1. CompressAll(base, ps) = (CHOOSE r : Is(r))[D]
    BY Zenon DEF CompressAll, FoldLeft, MapThenFoldSet
  <1>2. \A r : \A I : Body(r, I) = Continued("compressed", base, ps, r, I)
    BY TakenAre DEF Continued
  <1> HIDE DEF Body, D
  <1>3. \A r : Is(r) <=> IsFold("compressed", base, ps, D, r)
    BY <1>2, Zenon DEF IsFold
  <1> HIDE DEF Is
  <1>4. \E r : Is(r)
    BY <1>3, PlacesFinite, FoldExists, Zenon DEF D
  <1>5. QED
    BY <1>1, <1>3, <1>4, Zenon DEF Gives, D

LEMMA JoinAllGives ==
  ASSUME NEW S, NEW ps \in Seq(S)
  PROVE  Gives("joined", <<>>, ps, JoinAll(ps))
  <1> DEFINE Body(r, I) == IF I = {} THEN <<>> ELSE Joined(r[I \ {Max(I)}], ps[Max(I)])
             D == DOMAIN ps
             Is(r) == r = [I \in SUBSET D |-> Body(r, I)]
  <1>1. JoinAll(ps) = (CHOOSE r : Is(r))[D]
    BY Zenon DEF JoinAll, FoldLeft, MapThenFoldSet
  <1>2. \A r : \A I : Body(r, I) = Continued("joined", <<>>, ps, r, I)
    BY TakenAre DEF Continued
  <1> HIDE DEF Body, D
  <1>3. \A r : Is(r) <=> IsFold("joined", <<>>, ps, D, r)
    BY <1>2, Zenon DEF IsFold
  <1> HIDE DEF Is
  <1>4. \E r : Is(r)
    BY <1>3, PlacesFinite, FoldExists, Zenon DEF D
  <1>5. QED
    BY <1>1, <1>3, <1>4, Zenon DEF Gives, D

LEMMA RunGives ==
  ASSUME NEW S, NEW ps \in Seq(S)
  PROVE  Gives("carried", InitState, ps, Run(ps))
  <1> DEFINE Body(r, I) == IF I = {} THEN InitState ELSE Executed(r[I \ {Max(I)}], ps[Max(I)].steps)
             D == DOMAIN ps
             Is(r) == r = [I \in SUBSET D |-> Body(r, I)]
  <1>1. Run(ps) = (CHOOSE r : Is(r))[D]
    BY Zenon DEF Run, FoldLeft, MapThenFoldSet
  <1>2. \A r : \A I : Body(r, I) = Continued("carried", InitState, ps, r, I)
    BY TakenAre DEF Continued
  <1> HIDE DEF Body, D
  <1>3. \A r : Is(r) <=> IsFold("carried", InitState, ps, D, r)
    BY <1>2, Zenon DEF IsFold
  <1> HIDE DEF Is
  <1>4. \E r : Is(r)
    BY <1>3, PlacesFinite, FoldExists, Zenon DEF D
  <1>5. QED
    BY <1>1, <1>3, <1>4, Zenon DEF Gives, D

LEMMA ExtendAllGives ==
  ASSUME NEW base, NEW S, NEW ps \in Seq(S)
  PROVE  Gives("extended", base, ps, ExtendAll(base, ps))
  <1> DEFINE Body(r, I) == IF I = {} THEN base ELSE Extended(r[I \ {Max(I)}], ps[Max(I)])
             D == DOMAIN ps
             Is(r) == r = [I \in SUBSET D |-> Body(r, I)]
  <1>1. ExtendAll(base, ps) = (CHOOSE r : Is(r))[D]
    BY Zenon DEF ExtendAll, FoldLeft, MapThenFoldSet
  <1>2. \A r : \A I : Body(r, I) = Continued("extended", base, ps, r, I)
    BY TakenAre DEF Continued
  <1> HIDE DEF Body, D
  <1>3. \A r : Is(r) <=> IsFold("extended", base, ps, D, r)
    BY <1>2, Zenon DEF IsFold
  <1> HIDE DEF Is
  <1>4. \E r : Is(r)
    BY <1>3, PlacesFinite, FoldExists, Zenon DEF D
  <1>5. QED
    BY <1>1, <1>3, <1>4, Zenon DEF Gives, D

LEMMA ExecutedNone ==
  ASSUME NEW s
  PROVE  Executed(s, <<>>) = s
  <1>1. Gives("executed", s, <<>>, Executed(s, <<>>))
    <2>1. <<>> \in Seq({})
      OBVIOUS
    <2>2. QED
      BY <2>1, ExecutedGives, Zenon
  <1>2. QED
    BY <1>1, GivesOfNone, Zenon

LEMMA ExecutedAppend ==
  ASSUME NEW s, NEW S, NEW ps \in Seq(S), NEW x \in S
  PROVE  Executed(s, Append(ps, x)) = Taken("executed", Executed(s, ps), x)
  <1>1. Append(ps, x) \in Seq(S)
    OBVIOUS
  <1>2. /\ Gives("executed", s, ps, Executed(s, ps))
        /\ Gives("executed", s, Append(ps, x), Executed(s, Append(ps, x)))
    BY <1>1, ExecutedGives, Zenon
  <1>3. QED
    BY <1>2, GivesOfAppend, Zenon

LEMMA InPlanOrderNone == InPlanOrder(<<>>) = <<>>
  <1>1. Gives("inserted", <<>>, <<>>, InPlanOrder(<<>>))
    <2>1. <<>> \in Seq({})
      OBVIOUS
    <2>2. QED
      BY <2>1, InPlanOrderGives, Zenon
  <1>2. QED
    BY <1>1, GivesOfNone, Zenon

LEMMA InPlanOrderAppend ==
  ASSUME NEW S, NEW ps \in Seq(S), NEW x \in S
  PROVE  InPlanOrder(Append(ps, x)) = Inserted(InPlanOrder(ps), x)
  <1>1. Append(ps, x) \in Seq(S)
    OBVIOUS
  <1>2. /\ Gives("inserted", <<>>, ps, InPlanOrder(ps))
        /\ Gives("inserted", <<>>, Append(ps, x), InPlanOrder(Append(ps, x)))
    BY <1>1, InPlanOrderGives, Zenon
  <1>3. InPlanOrder(Append(ps, x)) = Taken("inserted", InPlanOrder(ps), x)
    BY <1>2, GivesOfAppend, Zenon
  <1>4. QED
    BY <1>3, TakenAre

LEMMA CompressAllNone ==
  ASSUME NEW base
  PROVE  CompressAll(base, <<>>) = base
  <1>1. Gives("compressed", base, <<>>, CompressAll(base, <<>>))
    <2>1. <<>> \in Seq({})
      OBVIOUS
    <2>2. QED
      BY <2>1, CompressAllGives, Zenon
  <1>2. QED
    BY <1>1, GivesOfNone, Zenon

LEMMA CompressAllAppend ==
  ASSUME NEW base, NEW S, NEW ps \in Seq(S), NEW x \in S
  PROVE  CompressAll(base, Append(ps, x)) = CompressStep(CompressAll(base, ps), x)
  <1>1. Append(ps, x) \in Seq(S)
    OBVIOUS
  <1>2. /\ Gives("compressed", base, ps, CompressAll(base, ps))
        /\ Gives("compressed", base, Append(ps, x), CompressAll(base, Append(ps, x)))
    BY <1>1, CompressAllGives, Zenon
  <1>3. CompressAll(base, Append(ps, x)) = Taken("compressed", CompressAll(base, ps), x)
    BY <1>2, GivesOfAppend, Zenon
  <1>4. QED
    BY <1>3, TakenAre

LEMMA JoinAllNone ==
  JoinAll(<<>>) = <<>>
  <1>1. Gives("joined", <<>>, <<>>, JoinAll(<<>>))
    <2>1. <<>> \in Seq({})
      OBVIOUS
    <2>2. QED
      BY <2>1, JoinAllGives, Zenon
  <1>2. QED
    BY <1>1, GivesOfNone, Zenon

LEMMA JoinAllAppend ==
  ASSUME NEW S, NEW ps \in Seq(S), NEW x \in S
  PROVE  JoinAll(Append(ps, x)) = Joined(JoinAll(ps), x)
  <1>1. Append(ps, x) \in Seq(S)
    OBVIOUS
  <1>2. /\ Gives("joined", <<>>, ps, JoinAll(ps))
        /\ Gives("joined", <<>>, Append(ps, x), JoinAll(Append(ps, x)))
    BY <1>1, JoinAllGives, Zenon
  <1>3. JoinAll(Append(ps, x)) = Taken("joined", JoinAll(ps), x)
    BY <1>2, GivesOfAppend, Zenon
  <1>4. QED
    BY <1>3, TakenAre

LEMMA RunNone ==
  Run(<<>>) = InitState
  <1>1. Gives("carried", InitState, <<>>, Run(<<>>))
    <2>1. <<>> \in Seq({})
      OBVIOUS
    <2>2. QED
      BY <2>1, RunGives, Zenon
  <1>2. QED
    BY <1>1, GivesOfNone, Zenon

LEMMA RunAppend ==
  ASSUME NEW S, NEW ps \in Seq(S), NEW x \in S
  PROVE  Run(Append(ps, x)) = Executed(Run(ps), x.steps)
  <1>1. Append(ps, x) \in Seq(S)
    OBVIOUS
  <1>2. /\ Gives("carried", InitState, ps, Run(ps))
        /\ Gives("carried", InitState, Append(ps, x), Run(Append(ps, x)))
    BY <1>1, RunGives, Zenon
  <1>3. Run(Append(ps, x)) = Taken("carried", Run(ps), x)
    BY <1>2, GivesOfAppend, Zenon
  <1>4. QED
    BY <1>3, TakenAre

LEMMA ExtendAllNone ==
  ASSUME NEW base
  PROVE  ExtendAll(base, <<>>) = base
  <1>1. Gives("extended", base, <<>>, ExtendAll(base, <<>>))
    <2>1. <<>> \in Seq({})
      OBVIOUS
    <2>2. QED
      BY <2>1, ExtendAllGives, Zenon
  <1>2. QED
    BY <1>1, GivesOfNone, Zenon

LEMMA ExtendAllAppend ==
  ASSUME NEW base, NEW S, NEW ps \in Seq(S), NEW x \in S
  PROVE  ExtendAll(base, Append(ps, x)) = Extended(ExtendAll(base, ps), x)
  <1>1. Append(ps, x) \in Seq(S)
    OBVIOUS
  <1>2. /\ Gives("extended", base, ps, ExtendAll(base, ps))
        /\ Gives("extended", base, Append(ps, x), ExtendAll(base, Append(ps, x)))
    BY <1>1, ExtendAllGives, Zenon
  <1>3. ExtendAll(base, Append(ps, x)) = Taken("extended", ExtendAll(base, ps), x)
    BY <1>2, GivesOfAppend, Zenon
  <1>4. QED
    BY <1>3, TakenAre

-----------------------------------------------------------------------------
(* Along a sequence, upwards and downwards.                                *)

LEMMA Upwards ==
  ASSUME NEW m \in Nat, NEW n \in Nat, m <= n, NEW G, m \in G,
         \A k \in m .. n - 1 : k \in G => k + 1 \in G
  PROVE  \A k \in m .. n : k \in G
  <1> DEFINE Bad == (m .. n) \ G
  <1>1. Bad = {}
    <2> SUFFICES ASSUME Bad # {} PROVE FALSE
      OBVIOUS
    <2>1. Bad \subseteq Nat
      OBVIOUS
    <2>2. PICK k : k \in Bad /\ \A l \in Bad : k <= l
      <3> HIDE DEF Bad
      <3> QED
        BY <2>1, LeastNatural
    <2>3. k \in Nat /\ m < k /\ k <= n /\ k \notin G
      BY <2>2
    <2>4. k - 1 \in m .. n - 1 /\ k - 1 + 1 = k
      BY <2>3
    <2>5. k - 1 \notin Bad
      BY <2>2, <2>3
    <2>6. k - 1 \in G
      BY <2>3, <2>5
    <2>7. QED
      BY <2>3, <2>4, <2>6
  <1>2. QED
    BY <1>1

LEMMA Downwards ==
  ASSUME NEW m \in Nat, NEW n \in Nat, m <= n, NEW G, n \in G,
         \A k \in m .. n - 1 : k + 1 \in G => k \in G
  PROVE  \A k \in m .. n : k \in G
  <1> DEFINE H == {k \in 0 .. n - m : n - k \in G}
  <1>1. 0 \in H
    OBVIOUS
  <1>2. ASSUME NEW k \in 0 .. n - m - 1, k \in H PROVE k + 1 \in H
    <2>1. n - (k + 1) \in m .. n - 1 /\ n - (k + 1) + 1 = n - k
      OBVIOUS
    <2>2. n - (k + 1) \in G
      BY <1>2, <2>1
    <2>3. QED
      BY <2>2
  <1>3. \A k \in 0 .. n - m : k \in H
    <2>1. n - m \in Nat /\ 0 \in Nat /\ 0 <= n - m
      OBVIOUS
    <2> HIDE DEF H
    <2>2. QED
      BY <1>1, <1>2, <2>1, Upwards
  <1>4. ASSUME NEW k \in m .. n PROVE k \in G
    <2>1. n - k \in 0 .. n - m /\ n - (n - k) = k
      OBVIOUS
    <2>2. QED
      BY <1>3, <2>1
  <1>5. QED
    BY <1>4

-----------------------------------------------------------------------------
(* What a plan leads to, step by step.                                     *)

PlanStep == [act : Ops, init : Nat]

LEMMA Prefix ==
  ASSUME NEW S, NEW ps \in Seq(S), NEW k \in 0 .. Len(ps) - 1
  PROVE  /\ SubSeq(ps, 1, k) \in Seq(S) /\ ps[k + 1] \in S
         /\ SubSeq(ps, 1, k + 1) = Append(SubSeq(ps, 1, k), ps[k + 1])
  OBVIOUS

LEMMA WholePrefix ==
  ASSUME NEW S, NEW ps \in Seq(S)
  PROVE  SubSeq(ps, 1, Len(ps)) = ps /\ SubSeq(ps, 1, 0) = <<>> /\ Len(ps) \in Nat
  OBVIOUS

(* The state after k steps.                                                *)
Upto(s, ps, k) == Executed(s, SubSeq(ps, 1, k))

LEMMA UptoStep ==
  ASSUME NEW s, NEW ps \in Seq(PlanStep), NEW k \in 0 .. Len(ps) - 1
  PROVE  Upto(s, ps, k + 1) = Taken("executed", Upto(s, ps, k), ps[k + 1])
  <1>1. /\ SubSeq(ps, 1, k) \in Seq(PlanStep) /\ ps[k + 1] \in PlanStep
        /\ SubSeq(ps, 1, k + 1) = Append(SubSeq(ps, 1, k), ps[k + 1])
    BY Prefix
  <1> DEFINE p == SubSeq(ps, 1, k)
             q == SubSeq(ps, 1, k + 1)
             x == ps[k + 1]
  <1>2. p \in Seq(PlanStep) /\ x \in PlanStep /\ q = Append(p, x)
    BY <1>1
  <1>3. Upto(s, ps, k) = Executed(s, p) /\ Upto(s, ps, k + 1) = Executed(s, q)
    BY DEF Upto
  <1> HIDE DEF p, q, x
  <1>4. Executed(s, q) = Taken("executed", Executed(s, p), x)
    BY <1>2, ExecutedAppend
  <1>5. QED
    BY <1>3, <1>4 DEF x

LEMMA UptoEnds ==
  ASSUME NEW s, NEW ps \in Seq(PlanStep)
  PROVE  Upto(s, ps, 0) = s /\ Upto(s, ps, Len(ps)) = Executed(s, ps)
  BY WholePrefix, ExecutedNone DEF Upto

LEMMA ResultType ==
  ASSUME NEW t \in StateSpace, NEW a \in Ops
  PROVE  Result(t, a) \in StateSpace
  BY StripsAssumption DEF Result, StateSpace

LEMMA BrokenIsNoState == Broken \notin StateSpace
  BY StripsAssumption DEF Broken, StateSpace

LEMMA UptoType ==
  ASSUME NEW s \in StateSpace, NEW ps \in Seq(PlanStep)
  PROVE  \A k \in 0 .. Len(ps) : Upto(s, ps, k) \in StateSpace \cup {Broken}
  <1> DEFINE G == {k \in 0 .. Len(ps) : Upto(s, ps, k) \in StateSpace \cup {Broken}}
  <1>1. 0 \in G /\ Len(ps) \in Nat
    BY UptoEnds
  <1>2. ASSUME NEW k \in 0 .. Len(ps) - 1, k \in G PROVE k + 1 \in G
    <2>1. ps[k + 1].act \in Ops /\ k + 1 \in 0 .. Len(ps)
      <3>1. ps[k + 1] \in PlanStep
        BY Prefix
      <3>2. QED
        BY <1>1, <3>1 DEF PlanStep
    <2>2. Upto(s, ps, k + 1) \in StateSpace \cup {Broken}
      BY <1>2, <2>1, UptoStep, TakenAre, ResultType
    <2>3. QED
      BY <2>1, <2>2
  <1>3. \A k \in 0 .. Len(ps) : k \in G
    <2> HIDE DEF G
    <2>1. 0 \in Nat /\ 0 <= Len(ps)
      BY <1>1
    <2>2. QED
      BY <1>1, <1>2, <2>1, Upwards
  <1>4. QED
    BY <1>3

LEMMA UptoState ==
  ASSUME NEW s \in StateSpace, NEW ps \in Seq(PlanStep), Executed(s, ps) # Broken
  PROVE  \A k \in 0 .. Len(ps) : Upto(s, ps, k) \in StateSpace
  <1> DEFINE G == {k \in 0 .. Len(ps) : Upto(s, ps, k) # Broken}
  <1>1. Len(ps) \in G /\ Len(ps) \in Nat
    BY UptoEnds
  <1>2. ASSUME NEW k \in 0 .. Len(ps) - 1, k + 1 \in G PROVE k \in G
    <2>1. k \in 0 .. Len(ps)
      OBVIOUS
    <2>2. Upto(s, ps, k) # Broken
      BY <1>2, UptoStep, TakenAre
    <2>3. QED
      BY <2>1, <2>2
  <1>3. \A k \in 0 .. Len(ps) : k \in G
    <2> HIDE DEF G
    <2>1. 0 \in Nat /\ 0 <= Len(ps)
      BY <1>1
    <2>2. QED
      BY <1>1, <1>2, <2>1, Downwards
  <1>4. QED
    BY <1>3, UptoType

-----------------------------------------------------------------------------
(* An action may be put before those it has no threat with.                *)

LEMMA Commute ==
  ASSUME NEW t \in StateSpace, NEW a \in Ops, NEW b \in Ops, ~MustPrecede(b, a),
         CanApply(t, b), CanApply(Result(t, b), a)
  PROVE  /\ CanApply(t, a) /\ CanApply(Result(t, a), b)
         /\ Result(Result(t, a), b) = Result(Result(t, b), a)
  <1>1. /\ Del[b] \cap (Pre[a] \cup Add[a]) = {}
        /\ Del[a] \cap (Pre[b] \cup Add[b]) = {}
        /\ Add[b] \cap Pre[a] = {}
    BY DEF MustPrecede
  <1>2. CanApply(t, a)
    BY <1>1 DEF CanApply, Result
  <1>3. CanApply(Result(t, a), b)
    BY <1>1 DEF CanApply, Result
  <1>4. Result(Result(t, a), b) = Result(Result(t, b), a)
    BY <1>1 DEF Result
  <1>5. QED
    BY <1>2, <1>3, <1>4

Put(ps, x, i) == SubSeq(ps, 1, i) \o <<x>> \o SubSeq(ps, i + 1, Len(ps))

(* Where a step is inserted: after all the steps that are not after it.    *)
LEMMA InsertedFacts ==
  ASSUME NEW S, NEW ps \in Seq(S), NEW x \in S
  PROVE  \E i \in 0 .. Len(ps) :
           /\ Inserted(ps, x) = Put(ps, x, i)
           /\ \A j \in i + 1 .. Len(ps) : StepBefore(x, ps[j])
  <1> DEFINE L == {0} \cup {j \in 1 .. Len(ps) : ~StepBefore(x, ps[j])}
             i == Max(L)
  <1>1. L \subseteq 0 .. Len(ps) /\ L # {} /\ Len(ps) \in Nat /\ L \subseteq Nat
    OBVIOUS
  <1>2. IsFiniteSet(L)
    <2> DEFINE n == Len(ps)
    <2>1. n \in Nat
      OBVIOUS
    <2> HIDE DEF n
    <2>2. IsFiniteSet(0 .. n)
      BY <2>1, FS_Interval
    <2>3. QED
      BY <1>1, <2>2, FS_Subset DEF n
  <1>3. i \in L /\ \A j \in L : j <= i
    <2> HIDE DEF L
    <2> QED
      BY <1>1, <1>2, GreatestNatural
  <1>4. Inserted(ps, x) = Put(ps, x, i)
    <2>1. Inserted(ps, x) = InsertAt(ps, i + 1, x)
      BY DEF Inserted
    <2>2. i \in Nat
      BY <1>1, <1>3
    <2> HIDE DEF i
    <2> DEFINE p == i + 1
    <2>3. p - 1 = i
      BY <2>2
    <2>4. InsertAt(ps, p, x) = SubSeq(ps, 1, p - 1) \o <<x>> \o SubSeq(ps, p, Len(ps))
      BY Zenon DEF InsertAt
    <2>5. QED
      BY <2>1, <2>3, <2>4, Zenon DEF Put, p
  <1>5. ASSUME NEW j \in i + 1 .. Len(ps) PROVE StepBefore(x, ps[j])
    <2>1. i \in Nat /\ j \in 1 .. Len(ps) /\ ~(j <= i)
      <3> HIDE DEF i, L
      <3> QED
        BY <1>1, <1>3
    <2>2. j \notin L
      <3> HIDE DEF i, L
      <3> QED
        BY <1>3, <2>1
    <2>3. QED
      BY <2>1, <2>2
  <1>6. i \in 0 .. Len(ps)
    BY <1>1, <1>3
  <1> HIDE DEF i, L
  <1>7. QED
    BY <1>4, <1>5, <1>6

LEMMA ConcatAt ==
  ASSUME NEW S, NEW a \in Seq(S), NEW b \in Seq(S)
  PROVE  /\ a \o b \in Seq(S) /\ Len(a \o b) = Len(a) + Len(b)
         /\ \A j \in 1 .. Len(a) : (a \o b)[j] = a[j]
         /\ \A j \in 1 .. Len(b) : (a \o b)[Len(a) + j] = b[j]
  <1> DEFINE m == Len(a)
             n == Len(b)
  <1>0. m \in Nat /\ n \in Nat
    OBVIOUS
  <1>1. /\ a \o b \in Seq(S)
        /\ Len(a \o b) = m + n
        /\ \A j \in 1 .. m + n : (a \o b)[j] = IF j <= m THEN a[j] ELSE b[j - m]
    BY ConcatProperties
  <1> DEFINE w == a \o b
  <1>2. \A j \in 1 .. m + n : w[j] = IF j <= m THEN a[j] ELSE b[j - m]
    BY <1>1
  <1> HIDE DEF w, m, n
  <1>3. \A j \in 1 .. m : w[j] = a[j]
    BY <1>0, <1>2
  <1>4. ASSUME NEW j \in 1 .. n PROVE w[m + j] = b[j]
    <2>1. m + j \in 1 .. m + n /\ ~(m + j <= m) /\ m + j - m = j
      BY <1>0
    <2>2. w[m + j] = b[m + j - m]
      BY <1>0, <1>2, <2>1
    <2>3. QED
      BY <2>1, <2>2
  <1>5. QED
    BY <1>1, <1>3, <1>4 DEF w, m, n

IsPut(S, ps, x, i, ws) ==
  /\ ws \in Seq(S) /\ Len(ws) = Len(ps) + 1
  /\ SubSeq(ws, 1, i) = SubSeq(ps, 1, i)
  /\ ws[i + 1] = x
  /\ \A j \in i + 1 .. Len(ps) : ws[j + 1] = ps[j]

LEMMA InsertedAt ==
  ASSUME NEW S, NEW ps \in Seq(S), NEW x \in S, NEW i \in 0 .. Len(ps)
  PROVE  IsPut(S, ps, x, i, Put(ps, x, i))
  <1> DEFINE A == SubSeq(ps, 1, i)
             C == SubSeq(ps, i + 1, Len(ps))
             n == Len(ps)
             m == n - i
             X == <<x>>
             ws == A \o X \o C
  <1>1. /\ A \in Seq(S) /\ Len(A) = i /\ i \in Nat /\ n \in Nat /\ m \in Nat /\ i <= n /\ i + 1 \in Nat
        /\ \A j \in 1 .. i : A[j] = ps[j]
    OBVIOUS
  <1>2. /\ C \in Seq(S) /\ Len(C) = m
        /\ \A j \in 1 .. m : C[j] = ps[i + j]
    <2>1. i + 1 \in Int /\ n \in Int /\ (i + 1 <= n => m = n - (i + 1) + 1)
          /\ (~(i + 1 <= n) => m = 0) /\ m = n - (i + 1) + 1
      BY <1>1
    <2>2. \A k \in i + 1 .. n : ps[k] \in S
      BY <1>1
    <2> HIDE DEF m
    <2>3. /\ C \in Seq(S)
          /\ Len(C) = IF i + 1 <= n THEN n - (i + 1) + 1 ELSE 0
          /\ \A j \in 1 .. n - (i + 1) + 1 : C[j] = ps[i + 1 + j - 1]
      <3> HIDE DEF n
      <3> QED
        BY <2>1, <2>2, SubSeqProperties DEF C, n
    <2> HIDE DEF C
    <2>4. Len(C) = m /\ \A j \in 1 .. m : C[j] = ps[i + 1 + j - 1]
      BY <2>1, <2>3
    <2>5. \A j \in 1 .. m : i + 1 + j - 1 = i + j
      BY <1>1
    <2>6. QED
      BY <2>3, <2>4, <2>5, Zenon
  <1>3. X \in Seq(S) /\ Len(X) = 1 /\ X[1] = x
    OBVIOUS
  <1> HIDE DEF A, C, m, X, ws
  <1> DEFINE B == A \o X
  <1>4. /\ B \in Seq(S) /\ Len(B) = i + 1
        /\ \A j \in 1 .. i : B[j] = A[j]
        /\ \A j \in 1 .. 1 : B[i + j] = X[j]
    <2>1. /\ B \in Seq(S) /\ Len(B) = Len(A) + Len(X)
          /\ \A j \in 1 .. Len(A) : B[j] = A[j]
          /\ \A j \in 1 .. Len(X) : B[Len(A) + j] = X[j]
      <3>1. A \in Seq(S) /\ X \in Seq(S)
        BY <1>1, <1>3
      <3>2. QED
        BY <3>1, ConcatAt
    <2> HIDE DEF B
    <2>2. QED
      BY <1>1, <1>3, <2>1, Zenon
  <1> HIDE DEF B
  <1>5. /\ B \o C \in Seq(S) /\ Len(B \o C) = i + 1 + m
        /\ \A j \in 1 .. i + 1 : (B \o C)[j] = B[j]
        /\ \A j \in 1 .. m : (B \o C)[i + 1 + j] = C[j]
    <2> DEFINE W == B \o C
    <2>1. /\ W \in Seq(S) /\ Len(W) = Len(B) + Len(C)
          /\ \A j \in 1 .. Len(B) : W[j] = B[j]
          /\ \A j \in 1 .. Len(C) : W[Len(B) + j] = C[j]
      <3>1. B \in Seq(S) /\ C \in Seq(S)
        BY <1>2, <1>4
      <3>2. QED
        BY <3>1, ConcatAt
    <2> HIDE DEF W
    <2>2. /\ W \in Seq(S) /\ Len(W) = i + 1 + m
          /\ \A j \in 1 .. i + 1 : W[j] = B[j]
          /\ \A j \in 1 .. m : W[i + 1 + j] = C[j]
      BY <1>2, <1>4, <2>1, Zenon
    <2>3. QED
      BY <2>2 DEF W
  <1>6. ws = B \o C
    BY DEF B, ws
  <1>7. /\ ws \in Seq(S) /\ Len(ws) = n + 1
        /\ \A j \in 1 .. i : ws[j] = ps[j]
        /\ ws[i + 1] = x
    <2>1. i + 1 + m = n + 1 /\ i + 1 \in 1 .. i + 1 /\ 1 \in 1 .. 1 /\ \A j \in 1 .. i : j \in 1 .. i + 1
      BY <1>1 DEF m
    <2>2. ws \in Seq(S) /\ Len(ws) = n + 1
      BY <1>5, <1>6, <2>1
    <2>3. B[i + 1] = x
      BY <1>3, <1>4, <2>1
    <2>4. ws[i + 1] = x
      BY <1>5, <1>6, <2>1, <2>3
    <2>5. \A j \in 1 .. i : ws[j] = ps[j]
      BY <1>1, <1>4, <1>5, <1>6, <2>1
    <2>6. QED
      BY <2>2, <2>4, <2>5
  <1>8. ASSUME NEW j \in i + 1 .. n PROVE ws[j + 1] = ps[j]
    <2>1. j - i \in 1 .. m /\ i + 1 + (j - i) = j + 1 /\ i + (j - i) = j
      BY <1>1 DEF m
    <2>2. ws[j + 1] = C[j - i]
      BY <1>5, <1>6, <2>1
    <2>3. C[j - i] = ps[j]
      BY <1>2, <2>1
    <2>4. QED
      BY <2>2, <2>3
  <1>9. SubSeq(ws, 1, i) = A
    <2>1. i <= Len(ws)
      BY <1>1, <1>7
    <2>2. \A j \in 1 .. i : ws[j] = A[j]
      BY <1>1, <1>7
    <2> HIDE DEF n
    <2>3. QED
      BY <1>1, <1>7, <2>1, <2>2
  <1>10. QED
    BY <1>7, <1>8, <1>9 DEF IsPut, Put, ws, A, X, C

(* A plan takes one more step where its date puts it, if the step can be     *)
(* taken at its end and no action that must precede it comes later.          *)
LEMMA InsertedExecutes ==
  ASSUME NEW s \in StateSpace, NEW ps \in Seq(PlanStep), NEW x \in PlanStep,
         Executed(s, ps) # Broken, CanApply(Executed(s, ps), x.act),
         \A j \in 1 .. Len(ps) : StepBefore(x, ps[j]) => ~MustPrecede(ps[j].act, x.act)
  PROVE  Executed(s, Inserted(ps, x)) = Result(Executed(s, ps), x.act)
  <1> DEFINE n == Len(ps)
             a == x.act
             U(k) == Upto(s, ps, k)
  <1>1. n \in Nat /\ a \in Ops /\ U(n) = Executed(s, ps)
    BY WholePrefix, UptoEnds DEF PlanStep
  <1>2. PICK i \in 0 .. n :
          /\ Inserted(ps, x) = Put(ps, x, i)
          /\ \A j \in i + 1 .. n : StepBefore(x, ps[j])
    BY InsertedFacts
  <1> DEFINE ws == Put(ps, x, i)
             V(k) == Upto(s, ws, k)
  <1>3. /\ ws \in Seq(PlanStep) /\ Len(ws) = n + 1
        /\ SubSeq(ws, 1, i) = SubSeq(ps, 1, i)
        /\ ws[i + 1] = x
        /\ \A j \in i + 1 .. n : ws[j + 1] = ps[j]
    <2>1. i \in 0 .. Len(ps)
      OBVIOUS
    <2>2. IsPut(PlanStep, ps, x, i, ws)
      BY <2>1, InsertedAt
    <2> HIDE DEF ws
    <2>3. QED
      BY <2>2 DEF IsPut
  <1>4. \A k \in 0 .. n : U(k) \in StateSpace
    BY UptoState
  <1>5. \A k \in 0 .. n - 1 :
          /\ ps[k + 1].act \in Ops
          /\ U(k + 1) = Result(U(k), ps[k + 1].act) /\ CanApply(U(k), ps[k + 1].act)
    <2> SUFFICES ASSUME NEW k \in 0 .. n - 1
                 PROVE  /\ ps[k + 1].act \in Ops
                        /\ U(k + 1) = Result(U(k), ps[k + 1].act) /\ CanApply(U(k), ps[k + 1].act)
      OBVIOUS
    <2>1. ps[k + 1] \in PlanStep
      BY Prefix
    <2>2. U(k) \in StateSpace /\ U(k + 1) \in StateSpace
      BY <1>1, <1>4
    <2>3. U(k + 1) = Taken("executed", U(k), ps[k + 1])
      BY UptoStep
    <2> HIDE DEF U
    <2>4. QED
      BY <2>1, <2>2, <2>3, TakenAre, BrokenIsNoState DEF PlanStep
  <1>6. \A k \in i .. n - 1 : ~MustPrecede(ps[k + 1].act, a)
    <2> SUFFICES ASSUME NEW k \in i .. n - 1 PROVE ~MustPrecede(ps[k + 1].act, a)
      OBVIOUS
    <2>1. k + 1 \in i + 1 .. n /\ k + 1 \in 1 .. n
      BY <1>1
    <2>2. QED
      BY <1>2, <2>1
  <1> HIDE DEF n, U, a
  <1>7. \A k \in i .. n : CanApply(U(k), a)
    <2> DEFINE G == {k \in i .. n : CanApply(U(k), a)}
    <2>1. n \in G
      BY <1>1, <1>2 DEF a
    <2>2. ASSUME NEW k \in i .. n - 1, k + 1 \in G PROVE k \in G
      <3>1. k \in 0 .. n - 1 /\ k \in 0 .. n /\ k \in i .. n
        BY <1>1, <1>2
      <3>2. /\ U(k) \in StateSpace /\ ps[k + 1].act \in Ops /\ ~MustPrecede(ps[k + 1].act, a)
            /\ CanApply(U(k), ps[k + 1].act) /\ CanApply(Result(U(k), ps[k + 1].act), a)
        BY <1>4, <1>5, <1>6, <2>2, <3>1
      <3>3. CanApply(U(k), a)
        BY <1>1, <3>2, Commute
      <3>4. QED
        BY <3>1, <3>3
    <2>3. \A k \in i .. n : k \in G
      <3> HIDE DEF G
      <3>1. i \in Nat /\ n \in Nat /\ i <= n
        BY <1>1, <1>2
      <3>2. QED
        BY <2>1, <2>2, <3>1, Downwards
    <2>4. QED
      BY <2>3
  <1>8. V(i + 1) = Result(U(i), a)
    <2>1. i \in 0 .. Len(ws) - 1 /\ i \in 0 .. n
      BY <1>1, <1>2, <1>3
    <2>2. V(i) = U(i)
      BY <1>3 DEF Upto, U
    <2>3. V(i + 1) = Taken("executed", V(i), ws[i + 1])
      <3> HIDE DEF ws
      <3> QED
        BY <1>3, <2>1, UptoStep
    <2>4. U(i) # Broken /\ CanApply(U(i), a)
      BY <1>1, <1>2, <1>4, <1>7, <2>1, BrokenIsNoState
    <2> HIDE DEF V, ws
    <2>5. QED
      BY <1>3, <2>2, <2>3, <2>4, TakenAre DEF a
  <1>9. \A k \in i .. n : V(k + 1) = Result(U(k), a)
    <2> DEFINE G == {k \in i .. n : V(k + 1) = Result(U(k), a)}
    <2>1. i \in G
      BY <1>1, <1>2, <1>8
    <2>2. ASSUME NEW k \in i .. n - 1, k \in G PROVE k + 1 \in G
      <3>1. k \in 0 .. n - 1 /\ k \in 0 .. n /\ k \in i .. n /\ k + 1 \in i + 1 .. n /\ k + 1 \in i .. n
        BY <1>1, <1>2
      <3> DEFINE b == ps[k + 1].act
      <3>2. /\ U(k) \in StateSpace /\ b \in Ops /\ ~MustPrecede(b, a)
            /\ CanApply(U(k), b) /\ U(k + 1) = Result(U(k), b)
            /\ CanApply(U(k + 1), a)
        BY <1>4, <1>5, <1>6, <1>7, <3>1
      <3>3. V(k + 1) = Result(U(k), a)
        BY <2>2
      <3>4. V(k + 1 + 1) = Taken("executed", V(k + 1), ws[k + 1 + 1])
        <4>1. k + 1 \in 0 .. Len(ws) - 1
          BY <1>1, <1>2, <1>3, <3>1
        <4> HIDE DEF ws
        <4>2. QED
          BY <1>3, <4>1, UptoStep
      <3>5. ws[k + 1 + 1] = ps[k + 1]
        BY <1>3, <3>1
      <3> HIDE DEF V, ws, b
      <3>6. CanApply(V(k + 1), b) /\ Result(V(k + 1), b) = Result(U(k + 1), a)
        BY <1>1, <3>2, <3>3, Commute
      <3>7. V(k + 1) # Broken
        BY <1>1, <3>2, <3>3, ResultType, BrokenIsNoState
      <3>8. V(k + 1 + 1) = Result(V(k + 1), b)
        BY <3>4, <3>5, <3>6, <3>7, TakenAre DEF b
      <3>9. QED
        BY <3>1, <3>6, <3>8
    <2>3. \A k \in i .. n : k \in G
      <3> HIDE DEF G
      <3>1. i \in Nat /\ n \in Nat /\ i <= n
        BY <1>1, <1>2
      <3>2. QED
        BY <2>1, <2>2, <3>1, Upwards
    <2>4. QED
      BY <2>3
  <1>10. V(n + 1) = Executed(s, ws)
    <2> HIDE DEF ws
    <2> QED
      BY <1>3, UptoEnds
  <1>11. n \in i .. n
    BY <1>1, <1>2
  <1> HIDE DEF V, ws
  <1>12. QED
    BY <1>1, <1>2, <1>9, <1>10, <1>11 DEF a, ws

-----------------------------------------------------------------------------
(* The start that node_apply_action gives.                                 *)

LEMMA StepDates ==
  ASSUME NEW x \in PlanStep
  PROVE  /\ x.act \in Ops /\ x.init \in Nat /\ Dur[x.act] \in Nat
         /\ StepEnd(x) = x.init + Dur[x.act] /\ StepEnd(x) \in Nat
  <1>1. x.act \in Ops /\ x.init \in Nat
    BY DEF PlanStep
  <1>2. Dur[x.act] \in Nat
    BY <1>1, StripsAssumption
  <1>3. QED
    BY <1>1, <1>2 DEF StepEnd

LEMMA EarliestStartBounds ==
  ASSUME NEW steps \in Seq(PlanStep), NEW a \in Ops
  PROVE  /\ EarliestStart(steps, a) \in Nat
         /\ \A y \in ToSet(steps) : MustPrecede(y.act, a) => StepEnd(y) <= EarliestStart(steps, a)
  <1> DEFINE D == DOMAIN steps
             I == {i \in D : MustPrecede(steps[i].act, a)}
             f == [i \in I |-> StepEnd(steps[i])]
             T == {StepEnd(x) : x \in {y \in ToSet(steps) : MustPrecede(y.act, a)}}
             X == {0} \cup T
  <1>1. ToSet(steps) = {steps[i] : i \in D} /\ ToSet(steps) \subseteq PlanStep
    BY DEF ToSet
  <1>2. T = {f[i] : i \in I}
    BY <1>1
  <1>3. IsFiniteSet(T)
    <2>1. IsFiniteSet(I)
      BY PlacesFinite, FS_Subset
    <2>2. f \in Surjection(I, T)
      BY <1>2 DEF Surjection
    <2> HIDE DEF I, f, T
    <2>3. QED
      BY <2>1, <2>2, FS_Surjection
  <1>4. T \subseteq Nat
    <2>1. \A x \in PlanStep : StepEnd(x) \in Nat
      BY StepDates
    <2>2. QED
      BY <1>1, <2>1
  <1>5. Max(X) \in X /\ \A e \in X : e <= Max(X)
    <2>1. X \subseteq Nat /\ X # {}
      BY <1>4
    <2>2. IsFiniteSet(X)
      <3> HIDE DEF T
      <3> QED
        BY <1>3, FS_Singleton, FS_Union
    <2> HIDE DEF X
    <2>3. QED
      BY <2>1, <2>2, GreatestNatural
  <1>6. EarliestStart(steps, a) = Max(X)
    BY DEF EarliestStart
  <1>7. \A y \in ToSet(steps) : MustPrecede(y.act, a) => StepEnd(y) \in X
    OBVIOUS
  <1>8. X \subseteq Nat
    BY <1>4
  <1> HIDE DEF X
  <1>9. QED
    BY <1>5, <1>6, <1>7, <1>8

(* A step that starts earlier comes earlier in a solution plan.            *)
LEMMA EarlierIsBefore ==
  ASSUME NEW x \in PlanStep, NEW y \in PlanStep, StepBefore(x, y)
  PROVE  ~(y.init < x.init)
  <1>1. x.init < y.init \/ x.init = y.init
    BY Zenon DEF StepBefore
  <1>2. x.init \in Nat /\ y.init \in Nat
    BY StepDates
  <1>3. QED
    BY <1>1, <1>2

(* A step that must precede another, and starts before it or ends by its
   start, comes earlier too, unless ties are in the wrong order.           *)
Timely(y, x) ==
  \/ y.init < x.init
  \/ ~Sequential /\ StepEnd(y) <= x.init

LEMMA EndedIsEarlier ==
  ASSUME TiesInOrder, NEW x \in PlanStep, NEW y \in PlanStep, MustPrecede(y.act, x.act), Timely(y, x)
  PROVE  ~StepBefore(x, y)
  <1>1. /\ x.act \in Ops /\ x.init \in Nat /\ Dur[x.act] \in Nat
        /\ y.act \in Ops /\ y.init \in Nat /\ Dur[y.act] \in Nat
        /\ StepEnd(y) = y.init + Dur[y.act]
    BY StepDates
  <1>2. CASE y.init < x.init
    BY <1>2, EarlierIsBefore
  <1>3. CASE ~(y.init < x.init)
    <2>1. ~Sequential /\ y.init = x.init /\ Dur[y.act] = 0
      BY <1>1, <1>3 DEF Timely
    <2>2. Dur[x.act] = 0 => y.act <= x.act
      BY <1>1, <2>1 DEF TiesInOrder
    <2>3. y.act \in Nat /\ x.act \in Nat
      BY <1>1, StripsAssumption
    <2>4. QED
      BY <1>1, <2>1, <2>2, <2>3 DEF StepBefore
  <1>4. QED
    BY <1>2, <1>3

LEMMA AppendedSet ==
  ASSUME NEW S, NEW ps \in Seq(S), NEW x
  PROVE  ToSet(Append(ps, x)) = ToSet(ps) \cup {x}
  <1> DEFINE qs == Append(ps, x)
             n == Len(ps)
  <1>1. n \in Nat /\ DOMAIN ps = 1 .. n
    OBVIOUS
  <1>2. DOMAIN qs = 1 .. n + 1 /\ qs[n + 1] = x /\ \A i \in 1 .. n : qs[i] = ps[i]
    <2>1. ps \in Seq(S \cup {x}) /\ x \in S \cup {x}
      OBVIOUS
    <2>2. QED
      BY <1>1, <2>1, AppendProperties
  <1>3. ToSet(qs) = {qs[i] : i \in 1 .. n + 1} /\ ToSet(ps) = {ps[i] : i \in 1 .. n}
    BY <1>1, <1>2 DEF ToSet
  <1> HIDE DEF qs, n
  <1>4. \A i : i \in 1 .. n + 1 <=> i \in 1 .. n \/ i = n + 1
    BY <1>1
  <1>5. QED
    BY <1>2, <1>3, <1>4 DEF qs

LEMMA InsertedSet ==
  ASSUME NEW S, NEW ps \in Seq(S), NEW x \in S
  PROVE  Inserted(ps, x) \in Seq(S) /\ ToSet(Inserted(ps, x)) \subseteq ToSet(ps) \cup {x}
  <1> DEFINE n == Len(ps)
             ws == Inserted(ps, x)
  <1>1. PICK i \in 0 .. n : ws = Put(ps, x, i)
    BY InsertedFacts
  <1>2. n \in Nat /\ ToSet(ps) = {ps[j] : j \in 1 .. n}
    BY DEF ToSet
  <1>3. IsPut(S, ps, x, i, ws)
    BY <1>1, InsertedAt
  <1>4. SubSeq(ps, 1, i) = [j \in 1 .. i |-> ps[j]]
    OBVIOUS
  <1> HIDE DEF ws
  <1>5. /\ ws \in Seq(S) /\ Len(ws) = n + 1
        /\ SubSeq(ws, 1, i) = SubSeq(ps, 1, i)
        /\ ws[i + 1] = x
        /\ \A j \in i + 1 .. n : ws[j + 1] = ps[j]
    BY <1>3 DEF IsPut
  <1>6. \A j \in 1 .. i : ws[j] = ps[j]
    <2>1. SubSeq(ws, 1, i) = [j \in 1 .. i |-> ws[j]]
      BY <1>5
    <2>2. QED
      BY <1>4, <1>5, <2>1
  <1> HIDE DEF n
  <1>7. \A j \in 1 .. n + 1 : ws[j] \in {ps[k] : k \in 1 .. n} \cup {x}
    <2> SUFFICES ASSUME NEW j \in 1 .. n + 1 PROVE ws[j] \in {ps[k] : k \in 1 .. n} \cup {x}
      OBVIOUS
    <2>1. CASE j \in 1 .. i
      BY <1>2, <1>6, <2>1
    <2>2. CASE j = i + 1
      BY <1>5, <2>2
    <2>3. CASE j \in i + 2 .. n + 1
      <3>1. j - 1 \in i + 1 .. n /\ j - 1 + 1 = j /\ j - 1 \in 1 .. n
        BY <1>2, <2>3
      <3>2. ws[j] = ps[j - 1]
        BY <1>5, <3>1
      <3>3. QED
        BY <3>1, <3>2
    <2>4. QED
      BY <1>2, <2>1, <2>2, <2>3
  <1>8. ToSet(ws) = {ws[j] : j \in 1 .. n + 1}
    BY <1>5 DEF ToSet
  <1>9. QED
    BY <1>2, <1>5, <1>7, <1>8 DEF ws

(* Steps, and the plan that lists them by their dates.                     *)
Ordered(w) ==
  /\ w \in Seq(PlanStep)
  /\ InPlanOrder(w) \in Seq(PlanStep)
  /\ ToSet(InPlanOrder(w)) \subseteq ToSet(w)

LEMMA OrderedMore ==
  ASSUME NEW w, Ordered(w), NEW x \in PlanStep
  PROVE  Ordered(Append(w, x)) /\ ToSet(Append(w, x)) = ToSet(w) \cup {x}
  <1> DEFINE ps == InPlanOrder(w)
             ws == Append(w, x)
  <1>1. w \in Seq(PlanStep) /\ ps \in Seq(PlanStep) /\ ToSet(ps) \subseteq ToSet(w)
    BY DEF Ordered
  <1>2. InPlanOrder(ws) = Inserted(ps, x)
    BY <1>1, InPlanOrderAppend
  <1>3. ws \in Seq(PlanStep) /\ ToSet(ws) = ToSet(w) \cup {x}
    BY <1>1, AppendedSet
  <1> HIDE DEF ps, ws
  <1>4. Inserted(ps, x) \in Seq(PlanStep) /\ ToSet(Inserted(ps, x)) \subseteq ToSet(ps) \cup {x}
    BY <1>1, InsertedSet
  <1>5. QED
    BY <1>1, <1>2, <1>3, <1>4 DEF Ordered, ws

(* One more step may come in if it can be taken at the end and what must
   precede it is there in time.                                            *)
LEMMA OrderedExecutes ==
  ASSUME TiesInOrder, NEW s \in StateSpace, NEW w, Ordered(w),
         NEW t \in StateSpace, Executed(s, InPlanOrder(w)) = t,
         NEW x \in PlanStep, CanApply(t, x.act),
         \A y \in ToSet(w) : MustPrecede(y.act, x.act) => Timely(y, x)
  PROVE  Executed(s, InPlanOrder(Append(w, x))) = Result(t, x.act)
  <1> DEFINE ps == InPlanOrder(w)
  <1>1. /\ w \in Seq(PlanStep) /\ ps \in Seq(PlanStep)
        /\ ToSet(ps) \subseteq ToSet(w) /\ Executed(s, ps) = t
    BY DEF Ordered
  <1>2. InPlanOrder(Append(w, x)) = Inserted(ps, x)
    BY <1>1, InPlanOrderAppend
  <1> HIDE DEF ps
  <1>3. ASSUME NEW j \in 1 .. Len(ps), StepBefore(x, ps[j])
        PROVE  ~MustPrecede(ps[j].act, x.act)
    <2>1. j \in DOMAIN ps /\ ps[j] \in PlanStep
      BY <1>1
    <2>2. ps[j] \in ToSet(ps)
      BY <2>1, Zenon DEF ToSet
    <2>3. ps[j] \in PlanStep /\ ps[j] \in ToSet(w)
      BY <1>1, <2>1, <2>2
    <2>4. QED
      BY <1>3, <2>3, EndedIsEarlier
  <1>4. Executed(s, ps) # Broken /\ CanApply(Executed(s, ps), x.act)
    BY <1>1, BrokenIsNoState
  <1>5. QED
    BY <1>1, <1>2, <1>3, <1>4, InsertedExecutes

(* A plan lists the steps it was made from, each once.                     *)
Lists(ps, w) == \E order \in Bijection(DOMAIN ps, DOMAIN ps) : Rearranged(ps, order) = w

LEMMA ListsNone == Lists(<<>>, <<>>)
  <1> DEFINE f == [i \in {} |-> i]
  <1>1. DOMAIN <<>> = {} /\ f \in Bijection({}, {}) /\ Rearranged(<<>>, f) = <<>>
    BY DEF Bijection, Injection, IsInjective, Surjection, Rearranged
  <1>2. QED
    BY <1>1 DEF Lists

LEMMA ListsPut ==
  ASSUME NEW S, NEW w \in Seq(S), NEW ps \in Seq(S), NEW x \in S, Lists(ps, w),
         NEW i \in 0 .. Len(ps), NEW ws, IsPut(S, ps, x, i, ws)
  PROVE  Lists(ws, Append(w, x))
  <1> DEFINE n == Len(ps)
  <1>1. n \in Nat /\ DOMAIN ps = 1 .. n /\ DOMAIN w = 1 .. Len(w) /\ Len(w) \in Nat
    OBVIOUS
  <1>2. PICK order \in Bijection(1 .. n, 1 .. n) : Rearranged(ps, order) = w
    BY <1>1 DEF Lists
  <1>3. /\ order \in [1 .. n -> 1 .. n]
        /\ \A k \in 1 .. n : \E j \in 1 .. n : order[j] = k
        /\ \A j, k \in 1 .. n : order[j] = order[k] => j = k
    BY <1>2 DEF Bijection, Injection, IsInjective, Surjection
  <1>4. /\ ws \in Seq(S) /\ Len(ws) = n + 1
        /\ SubSeq(ws, 1, i) = SubSeq(ps, 1, i)
        /\ ws[i + 1] = x
        /\ \A j \in i + 1 .. n : ws[j + 1] = ps[j]
    BY DEF IsPut
  <1>5. \A j \in 1 .. i : ws[j] = ps[j]
    <2>1. SubSeq(ws, 1, i) = [j \in 1 .. i |-> ws[j]] /\ SubSeq(ps, 1, i) = [j \in 1 .. i |-> ps[j]]
      BY <1>4
    <2>2. QED
      BY <1>4, <2>1
  <1>6. /\ w = [j \in 1 .. n |-> ps[order[j]]] /\ DOMAIN w = 1 .. n
    BY <1>1, <1>2 DEF Rearranged
  <1>7. Len(w) = n
    <2> HIDE DEF n
    <2>1. \A k : k \in 1 .. n <=> k \in 1 .. Len(w)
      BY <1>1, <1>6
    <2>2. (n >= 1 => n \in 1 .. Len(w)) /\ (Len(w) >= 1 => Len(w) \in 1 .. n)
      BY <1>1, <2>1
    <2> DEFINE l == Len(w)
    <2>3. n \in Nat /\ l \in Nat /\ (n >= 1 => n <= l) /\ (l >= 1 => l <= n)
      BY <1>1, <2>2
    <2> HIDE DEF l
    <2>4. n = l
      BY <2>3
    <2>5. QED
      BY <2>4 DEF l
  <1> DEFINE m == n + 1
             f == [k \in 1 .. m |-> IF k = m THEN i + 1 ELSE IF order[k] <= i THEN order[k] ELSE order[k] + 1]
             v == Append(w, x)
  <1>8. /\ DOMAIN v = 1 .. m /\ v[m] = x /\ \A k \in 1 .. n : v[k] = w[k]
        /\ v = [k \in 1 .. m |-> v[k]]
    <2>1. v \in Seq(S) /\ Len(v) = Len(w) + 1 /\ v[Len(w) + 1] = x /\ \A k \in 1 .. Len(w) : v[k] = w[k]
      BY AppendProperties
    <2> HIDE DEF v
    <2>2. v = [k \in 1 .. Len(v) |-> v[k]] /\ DOMAIN v = 1 .. Len(v)
      BY <2>1
    <2>3. QED
      BY <1>7, <2>1, <2>2
  <1>9. DOMAIN ws = 1 .. m
    BY <1>4
  <1> HIDE DEF n, v
  <1>10. ASSUME NEW k \in 1 .. m
         PROVE  /\ k = m => f[k] = i + 1
                /\ k # m => k \in 1 .. n /\ order[k] \in 1 .. n
                            /\ f[k] = IF order[k] <= i THEN order[k] ELSE order[k] + 1
    <2>1. f[k] = IF k = m THEN i + 1 ELSE IF order[k] <= i THEN order[k] ELSE order[k] + 1
      OBVIOUS
    <2>2. k # m => k \in 1 .. n
      BY <1>1
    <2>3. k # m => order[k] \in 1 .. n
      BY <1>3, <2>2
    <2> HIDE DEF f, m
    <2>4. QED
      BY <2>1, <2>2, <2>3
  <1>16. f \in [1 .. m -> 1 .. m]
    <2>1. \A k \in 1 .. m : f[k] \in 1 .. m
      BY <1>1, <1>10
    <2>2. DOMAIN f = 1 .. m /\ f = [k \in 1 .. m |-> f[k]]
      OBVIOUS
    <2> HIDE DEF f
    <2>3. QED
      BY <2>1, <2>2
  <1>17. ASSUME NEW j \in 1 .. m, NEW k \in 1 .. m, f[j] = f[k] PROVE j = k
    <2> HIDE DEF f, m
    <2>1. \A l \in 1 .. m : l # m => f[l] \in Nat /\ f[l] # i + 1
      BY <1>1, <1>10
    <2>2. j = m <=> k = m
      BY <1>10, <1>17, <2>1
    <2>3. j # m /\ k # m => order[j] = order[k]
      BY <1>1, <1>10, <1>17
    <2>4. QED
      BY <1>3, <1>10, <2>2, <2>3
  <1>11. ASSUME NEW k \in 1 .. m PROVE \E j \in 1 .. m : f[j] = k
    <2>1. CASE k = i + 1
      <3>1. m \in 1 .. m /\ f[m] = i + 1
        BY <1>1
      <3>2. QED
        BY <2>1, <3>1
    <2>2. CASE k <= i
      <3>1. k \in 1 .. n
        BY <1>1, <2>2 DEF n
      <3>2. PICK j \in 1 .. n : order[j] = k
        BY <1>3, <3>1
      <3>3. j \in 1 .. m /\ j # m
        BY <1>1
      <3>4. QED
        BY <2>2, <3>2, <3>3
    <2>3. CASE k > i + 1
      <3>1. k - 1 \in 1 .. n /\ ~(k - 1 <= i) /\ k - 1 + 1 = k
        BY <1>1, <2>3
      <3>2. PICK j \in 1 .. n : order[j] = k - 1
        BY <1>3, <3>1
      <3>3. j \in 1 .. m /\ j # m
        BY <1>1
      <3>4. QED
        BY <3>1, <3>2, <3>3
    <2>4. QED
      BY <1>1, <2>1, <2>2, <2>3
  <1>12. f \in Bijection(1 .. m, 1 .. m)
    <2> HIDE DEF f, m
    <2> QED
      BY <1>11, <1>16, <1>17 DEF Bijection, Injection, IsInjective, Surjection
  <1>13. ASSUME NEW k \in 1 .. m PROVE ws[f[k]] = v[k]
    <2>1. CASE k = m
      BY <1>4, <1>8, <2>1
    <2>2. CASE k # m
      <3>1. k \in 1 .. n /\ order[k] \in 1 .. n /\ v[k] = ps[order[k]]
        BY <1>6, <1>8, <1>10, <2>2
      <3>2. CASE order[k] <= i
        <4>1. f[k] = order[k] /\ order[k] \in 1 .. i
          BY <1>10, <2>2, <3>1, <3>2
        <4>2. QED
          BY <1>5, <3>1, <4>1
      <3>3. CASE ~(order[k] <= i)
        <4>1. f[k] = order[k] + 1 /\ order[k] \in i + 1 .. n
          BY <1>1, <1>10, <2>2, <3>1, <3>3
        <4>2. QED
          BY <1>4, <3>1, <4>1
      <3>4. QED
        BY <3>2, <3>3
    <2>3. QED
      BY <2>1, <2>2
  <1>14. Rearranged(ws, f) = v
    <2> HIDE DEF f, m
    <2>1. Rearranged(ws, f) = [k \in 1 .. m |-> ws[f[k]]]
      BY <1>9 DEF Rearranged
    <2>2. QED
      BY <1>8, <1>13, <2>1
  <1> HIDE DEF f, m
  <1>15. QED
    BY <1>9, <1>12, <1>14, Zenon DEF Lists, v

(* Steps that lead from s to t as they were applied, and in the order of
   their dates unless ties are in the wrong order.                         *)
Scheduled(s, w, t) ==
  /\ t \in StateSpace
  /\ Ordered(w)
  /\ Executed(s, w) = t
  /\ Lists(InPlanOrder(w), w)
  /\ TiesInOrder => Executed(s, InPlanOrder(w)) = t

LEMMA ScheduledNone ==
  ASSUME NEW s \in StateSpace
  PROVE  Scheduled(s, <<>>, s) /\ ToSet(<<>>) = {}
  <1>1. <<>> \in Seq(PlanStep) /\ ToSet(<<>>) = {}
    BY DEF ToSet
  <1>2. Ordered(<<>>) /\ Executed(s, InPlanOrder(<<>>)) = s /\ Lists(InPlanOrder(<<>>), <<>>)
    BY <1>1, InPlanOrderNone, ExecutedNone, ListsNone DEF Ordered
  <1>3. QED
    BY <1>1, <1>2, ExecutedNone, Zenon DEF Scheduled

LEMMA ScheduledMore ==
  ASSUME NEW s \in StateSpace, NEW w, NEW t, Scheduled(s, w, t),
         NEW x \in PlanStep, CanApply(t, x.act),
         \A y \in ToSet(w) : MustPrecede(y.act, x.act) => Timely(y, x)
  PROVE  Scheduled(s, Append(w, x), Result(t, x.act)) /\ ToSet(Append(w, x)) = ToSet(w) \cup {x}
  <1> DEFINE ps == InPlanOrder(w)
             ws == Append(w, x)
  <1>1. /\ t \in StateSpace /\ Ordered(w) /\ w \in Seq(PlanStep) /\ ps \in Seq(PlanStep)
        /\ Executed(s, w) = t /\ Lists(ps, w)
        /\ TiesInOrder => Executed(s, ps) = t
    BY DEF Scheduled, Ordered
  <1>2. Ordered(ws) /\ ToSet(ws) = ToSet(w) \cup {x}
    BY <1>1, OrderedMore
  <1>3. Result(t, x.act) \in StateSpace
    BY <1>1, StepDates, ResultType
  <1>4. Executed(s, ws) = Result(t, x.act)
    BY <1>1, ExecutedAppend, TakenAre, BrokenIsNoState
  <1>5. Lists(InPlanOrder(ws), ws)
    <2>1. InPlanOrder(ws) = Inserted(ps, x)
      BY <1>1, InPlanOrderAppend
    <2>2. PICK i \in 0 .. Len(ps) : Inserted(ps, x) = Put(ps, x, i)
      BY <1>1, InsertedFacts
    <2>3. IsPut(PlanStep, ps, x, i, Inserted(ps, x))
      BY <1>1, <2>2, InsertedAt
    <2> HIDE DEF ps
    <2>4. QED
      BY <1>1, <2>1, <2>3, ListsPut
  <1>6. TiesInOrder => Executed(s, InPlanOrder(ws)) = Result(t, x.act)
    BY <1>1, OrderedExecutes
  <1>7. QED
    BY <1>2, <1>3, <1>4, <1>5, <1>6 DEF Scheduled

(* So the plan leads from s to t, as far as its order is right.            *)
LEMMA ScheduledLeads ==
  ASSUME NEW s, NEW w, NEW t, Scheduled(s, w, t)
  PROVE  LeadsTo(s, InPlanOrder(w), t)
  <1>1. CASE TiesInOrder
    BY <1>1 DEF Scheduled, LeadsTo
  <1>2. CASE ~TiesInOrder
    <2>1. PICK order \in Bijection(DOMAIN InPlanOrder(w), DOMAIN InPlanOrder(w)) : Rearranged(InPlanOrder(w), order) = w
      BY DEF Scheduled, Lists
    <2>2. QED
      BY <1>2, <2>1 DEF Scheduled, LeadsTo
  <1>3. QED
    BY <1>1, <1>2

-----------------------------------------------------------------------------
(* Nodes.                                                                  *)

(* A node, apart from what its fields hold.                                *)
Fields  == {"state", "makespan", "length", "cost", "id", "fvalue", "steps", "own"}
Noded(n) == DOMAIN n = Fields /\ n = [x \in Fields |-> n[x]]

(* The path of a node leads from cur to its state; under opt.sequential its
   steps have the dates before its length.                                 *)
Pathed(cur, n) ==
  /\ Noded(n)
  /\ n.length \in Nat
  /\ Scheduled(cur, n.steps, n.state)
  /\ Sequential => \A y \in ToSet(n.steps) : y.init < n.length

LEMMA RootPathed ==
  ASSUME NEW s \in StateSpace
  PROVE  Pathed(s, RootNode(s))
  <1> DEFINE n == RootNode(s)
  <1>1. Noded(n) /\ n.state = s /\ n.length = 0 /\ n.steps = <<>>
    BY DEF RootNode, Noded, Fields
  <1> HIDE DEF n
  <1>2. Scheduled(s, n.steps, n.state) /\ ToSet(n.steps) = {}
    BY <1>1, ScheduledNone
  <1>3. QED
    BY <1>1, <1>2 DEF Pathed, n

(* The heuristic, the id and the count of its own steps are no part of it. *)
LEMMA SamePathed ==
  ASSUME NEW cur, NEW n, Pathed(cur, n), NEW m, Noded(m),
         m.state = n.state, m.length = n.length, m.steps = n.steps
  PROVE  Pathed(cur, m)
  BY Zenon DEF Pathed

LEMMA NumberedNoded ==
  ASSUME NEW n, Noded(n), NEW id
  PROVE  Noded([n EXCEPT !.id = id])
  BY DEF Noded, Fields

LEMMA ValuedNoded ==
  ASSUME NEW n, Noded(n), NEW v
  PROVE  Noded([n EXCEPT !.fvalue = v])
  BY DEF Noded, Fields

LEMMA DerivedNoded ==
  ASSUME NEW n, Noded(n)
  PROVE  Noded(NodeDerive(n)) /\ NodeDerive(n).own = 0
  <1>1. Noded(NodeDerive(n))
    BY DEF Noded, Fields, NodeDerive
  <1>2. NodeDerive(n).own = 0
    BY DEF Noded, Fields, NodeDerive
  <1>3. QED
    BY <1>1, <1>2

LEMMA AppliedNoded ==
  ASSUME NEW n, Noded(n), NEW a
  PROVE  Noded(ApplyAction(n, a)) /\ ApplyAction(n, a).own = n.own + 1
  <1>1. PICK state, makespan, length, cost, steps :
          ApplyAction(n, a) = [n EXCEPT !.state = state, !.makespan = makespan, !.length = length,
                                        !.cost = cost, !.steps = steps, !.own = n.own + 1]
    BY DEF ApplyAction
  <1>2. Noded(ApplyAction(n, a))
    BY <1>1 DEF Noded, Fields
  <1>3. ApplyAction(n, a).own = n.own + 1
    BY <1>1 DEF Noded, Fields
  <1>4. QED
    BY <1>2, <1>3

LEMMA ChangedPathed ==
  ASSUME NEW cur, NEW n, Pathed(cur, n), NEW v
  PROVE  /\ Pathed(cur, [n EXCEPT !.id = v]) /\ Pathed(cur, [n EXCEPT !.fvalue = v])
         /\ Pathed(cur, NodeDerive(n))
  <1>1. Noded(n)
    BY DEF Pathed
  <1>2. Pathed(cur, [n EXCEPT !.id = v])
    <2> DEFINE m == [n EXCEPT !.id = v]
    <2>1. Noded(m)
      BY <1>1, NumberedNoded
    <2>2. m.state = n.state /\ m.length = n.length /\ m.steps = n.steps
      BY <1>1 DEF Noded, Fields
    <2> HIDE DEF m
    <2>3. QED
      BY <2>1, <2>2, SamePathed DEF m
  <1>3. Pathed(cur, [n EXCEPT !.fvalue = v])
    <2> DEFINE m == [n EXCEPT !.fvalue = v]
    <2>1. Noded(m)
      BY <1>1, ValuedNoded
    <2>2. m.state = n.state /\ m.length = n.length /\ m.steps = n.steps
      BY <1>1 DEF Noded, Fields
    <2> HIDE DEF m
    <2>3. QED
      BY <2>1, <2>2, SamePathed DEF m
  <1>4. Pathed(cur, NodeDerive(n))
    <2>1. Noded(NodeDerive(n))
      BY <1>1, DerivedNoded
    <2>2. /\ NodeDerive(n).state = n.state /\ NodeDerive(n).length = n.length
          /\ NodeDerive(n).steps = n.steps
      BY <1>1 DEF Noded, Fields, NodeDerive
    <2>3. QED
      BY <2>1, <2>2, SamePathed
  <1>5. QED
    BY <1>2, <1>3, <1>4

(* node_apply_action extends the path by an action that can be applied.    *)
LEMMA AppliedPathed ==
  ASSUME NEW cur \in StateSpace, NEW n, Pathed(cur, n), NEW a \in Ops, CanApply(n.state, a)
  PROVE  Pathed(cur, ApplyAction(n, a))
  <1> DEFINE m == ApplyAction(n, a)
             init == IF Sequential THEN n.length ELSE EarliestStart(n.steps, a)
             x == [act |-> a, init |-> init]
  <1>1. /\ Noded(n) /\ n.length \in Nat /\ n.steps \in Seq(PlanStep)
        /\ Scheduled(cur, n.steps, n.state)
        /\ Sequential => \A y \in ToSet(n.steps) : y.init < n.length
    BY DEF Pathed, Scheduled, Ordered
  <1>2. Noded(m)
    BY <1>1, AppliedNoded
  <1>3. m.state = Result(n.state, a) /\ m.length = n.length + 1 /\ m.steps = Append(n.steps, x)
    BY <1>1 DEF ApplyAction, Noded, Fields
  <1>4. /\ init \in Nat
        /\ ~Sequential => \A y \in ToSet(n.steps) : MustPrecede(y.act, a) => StepEnd(y) <= init
        /\ Sequential => init = n.length
    BY <1>1, EarliestStartBounds
  <1> HIDE DEF m, init
  <1>5. x \in PlanStep /\ x.act = a /\ x.init = init
    BY <1>4 DEF PlanStep
  <1> HIDE DEF x
  <1>6. ToSet(n.steps) \subseteq PlanStep
    BY <1>1 DEF ToSet
  <1>7. \A y \in ToSet(n.steps) : MustPrecede(y.act, x.act) => Timely(y, x)
    BY <1>1, <1>4, <1>5, <1>6 DEF Timely
  <1>8. /\ Scheduled(cur, Append(n.steps, x), Result(n.state, a))
        /\ ToSet(m.steps) = ToSet(n.steps) \cup {x}
    BY <1>1, <1>3, <1>5, <1>7, ScheduledMore
  <1>9. Sequential => \A y \in ToSet(m.steps) : y.init < m.length
    <2> SUFFICES ASSUME Sequential, NEW y \in ToSet(m.steps) PROVE y.init < m.length
      OBVIOUS
    <2>1. CASE y = x
      BY <1>1, <1>3, <1>4, <1>5, <2>1
    <2>2. CASE y \in ToSet(n.steps)
      <3>1. y.init < n.length /\ y.init \in Nat
        BY <1>1, <1>6, <2>2, StepDates
      <3>2. QED
        BY <1>1, <1>3, <3>1
    <2>3. QED
      BY <1>8, <2>1, <2>2
  <1>10. m.length \in Nat
    BY <1>1, <1>3
  <1>11. QED
    BY <1>2, <1>3, <1>8, <1>9, <1>10 DEF Pathed, m

(* So all nodes that actions lead to have their paths.                     *)
LEMMA ExtendedPathed ==
  ASSUME NEW cur \in StateSpace, NEW S, NEW ps \in Seq(S),
         NEW n \in ExtendAll({RootNode(cur)}, ps)
  PROVE  Pathed(cur, n)
  <1> DEFINE m == Len(ps)
             base == {RootNode(cur)}
             E(k) == ExtendAll(base, SubSeq(ps, 1, k))
             G == {k \in 0 .. m : \A e \in E(k) : Pathed(cur, e)}
  <1>1. m \in Nat /\ SubSeq(ps, 1, m) = ps /\ SubSeq(ps, 1, 0) = <<>>
    BY WholePrefix
  <1>2. 0 \in G
    <2>1. E(0) = base
      BY <1>1, ExtendAllNone
    <2>2. \A e \in E(0) : Pathed(cur, e)
      BY <2>1, RootPathed
    <2> HIDE DEF E
    <2>3. QED
      BY <1>1, <2>2
  <1>3. ASSUME NEW k \in 0 .. m - 1, k \in G PROVE k + 1 \in G
    <2>1. E(k + 1) = Extended(E(k), ps[k + 1])
      <3> DEFINE p == SubSeq(ps, 1, k)
                 q == SubSeq(ps, 1, k + 1)
                 x == ps[k + 1]
      <3>1. p \in Seq(S) /\ x \in S /\ q = Append(p, x)
        BY Prefix
      <3> HIDE DEF p, q, x, base
      <3>2. ExtendAll(base, q) = Extended(ExtendAll(base, p), x)
        BY <3>1, ExtendAllAppend
      <3>3. QED
        BY <3>2 DEF p, q, x
    <2>2. \A e \in E(k) : Pathed(cur, e)
      BY <1>3
    <2> HIDE DEF E
    <2>3. ASSUME NEW e \in E(k + 1) PROVE Pathed(cur, e)
      <3>1. e \in E(k) \/ \E d \in E(k) : \E a \in Ops : CanApply(d.state, a) /\ e = ApplyAction(d, a)
        BY <2>1 DEF Extended
      <3>2. QED
        BY <2>2, <3>1, AppliedPathed
    <2>4. QED
      BY <1>1, <2>3
  <1>4. m \in G
    <2>1. 0 \in Nat /\ 0 <= m /\ m \in 0 .. m
      BY <1>1
    <2> HIDE DEF G, m
    <2>2. QED
      BY <1>1, <1>2, <1>3, <2>1, Upwards
  <1>5. QED
    BY <1>1, <1>4

-----------------------------------------------------------------------------
(* Compression.                                                            *)

(* Steps a compression has put together.  They lead from s to t unless ties
   are in the wrong order.                                                 *)
Compacted(s, w, t) ==
  /\ Ordered(w)
  /\ TiesInOrder => t \in StateSpace /\ Executed(s, InPlanOrder(w)) = t
  /\ Sequential => \A y \in ToSet(w) : y.init <= Len(w)
  /\ \A i, j \in 1 .. Len(w) :
       i < j /\ Threaten(w[i].act, w[j].act) => CompressedEnd(w[i]) <= w[j].init

LEMMA CompactedNone ==
  ASSUME NEW s \in StateSpace
  PROVE  Compacted(s, <<>>, s)
  BY ScheduledNone DEF Compacted, Scheduled

LEMMA CompactedMore ==
  ASSUME NEW s \in StateSpace, NEW w, NEW t, Compacted(s, w, t),
         NEW p \in PlanStep, NEW u,
         TiesInOrder => CanApply(t, p.act) /\ u = Result(t, p.act)
  PROVE  Compacted(s, CompressStep(w, p), u)
  <1> DEFINE a == p.act
             n == Len(w)
             init == IF Sequential THEN n + 1 ELSE EarliestStart(w, a)
             x == [act |-> a, init |-> init]
             ws == Append(w, x)
  <1>1. /\ Ordered(w) /\ w \in Seq(PlanStep) /\ n \in Nat /\ a \in Ops
        /\ TiesInOrder => t \in StateSpace /\ Executed(s, InPlanOrder(w)) = t
        /\ Sequential => \A y \in ToSet(w) : y.init <= n
        /\ \A i, j \in 1 .. n :
             i < j /\ Threaten(w[i].act, w[j].act) => CompressedEnd(w[i]) <= w[j].init
    BY StepDates DEF Compacted, Ordered
  <1>2. CompressStep(w, p) = ws
    BY Zenon DEF CompressStep
  <1>3. /\ init \in Nat
        /\ ~Sequential => \A y \in ToSet(w) : MustPrecede(y.act, a) => StepEnd(y) <= init
        /\ Sequential => init = n + 1
    BY <1>1, EarliestStartBounds
  <1> HIDE DEF init
  <1>4. x \in PlanStep /\ x.act = a /\ x.init = init
    BY <1>1, <1>3 DEF PlanStep
  <1> HIDE DEF x
  <1>5. ToSet(w) \subseteq PlanStep /\ \A i \in 1 .. n : w[i] \in ToSet(w)
    BY <1>1 DEF ToSet
  <1>6. ASSUME NEW y \in ToSet(w), MustPrecede(y.act, a)
        PROVE  CompressedEnd(y) <= init /\ Timely(y, x)
    <2>1. y \in PlanStep /\ y.init \in Nat
      BY <1>5, StepDates
    <2>2. CASE Sequential
      BY <1>1, <1>3, <1>4, <2>1, <2>2 DEF CompressedEnd, Timely
    <2>3. CASE ~Sequential
      BY <1>3, <1>4, <1>6, <2>1, <2>3 DEF CompressedEnd, Timely
    <2>4. QED
      BY <2>2, <2>3
  <1>7. Ordered(ws) /\ ToSet(ws) = ToSet(w) \cup {x}
    BY <1>1, <1>4, OrderedMore
  <1>13. TiesInOrder => u \in StateSpace /\ Executed(s, InPlanOrder(ws)) = u
    <2> SUFFICES ASSUME TiesInOrder PROVE u \in StateSpace /\ Executed(s, InPlanOrder(ws)) = u
      OBVIOUS
    <2>1. t \in StateSpace /\ Executed(s, InPlanOrder(w)) = t /\ CanApply(t, x.act) /\ u = Result(t, x.act)
      BY <1>1, <1>4
    <2>2. \A y \in ToSet(w) : MustPrecede(y.act, x.act) => Timely(y, x)
      BY <1>4, <1>6
    <2>3. Executed(s, InPlanOrder(ws)) = Result(t, x.act)
      BY <1>1, <1>4, <2>1, <2>2, OrderedExecutes
    <2>4. QED
      BY <1>1, <1>4, <2>1, <2>3, ResultType
  <1>8. Len(ws) = n + 1 /\ ws[n + 1] = x /\ \A i \in 1 .. n : ws[i] = w[i]
    BY <1>1, <1>4
  <1> HIDE DEF ws, n
  <1>9. Sequential => \A y \in ToSet(ws) : y.init <= Len(ws)
    <2> SUFFICES ASSUME Sequential, NEW y \in ToSet(ws) PROVE y.init <= Len(ws)
      OBVIOUS
    <2>1. CASE y = x
      BY <1>1, <1>3, <1>4, <1>8, <2>1
    <2>2. CASE y \in ToSet(w)
      <3>1. y.init <= n /\ y.init \in Nat
        BY <1>1, <1>5, <2>2, StepDates
      <3>2. QED
        BY <1>1, <1>8, <3>1
    <2>3. QED
      BY <1>7, <2>1, <2>2
  <1>10. ASSUME NEW i \in 1 .. n + 1, NEW j \in 1 .. n + 1,
                i < j, Threaten(ws[i].act, ws[j].act)
         PROVE  CompressedEnd(ws[i]) <= ws[j].init
    <2>1. i \in 1 .. n /\ ws[i] = w[i]
      BY <1>1, <1>8, <1>10
    <2>2. CASE j \in 1 .. n
      BY <1>1, <1>8, <1>10, <2>1, <2>2
    <2>3. CASE j = n + 1
      <3>1. Threaten(w[i].act, a)
        BY <1>4, <1>8, <1>10, <2>1, <2>3
      <3>2. MustPrecede(w[i].act, a)
        BY <3>1, Zenon DEF Threaten, MustPrecede
      <3>3. QED
        BY <1>4, <1>5, <1>6, <1>8, <2>1, <2>3, <3>2
    <2>4. QED
      BY <1>1, <2>2, <2>3
  <1>11. Compacted(s, ws, u)
    BY <1>7, <1>8, <1>9, <1>10, <1>13 DEF Compacted
  <1>12. QED
    BY <1>2, <1>11

(* A plan is joined to what it starts from.                                *)
LEMMA JoinedCompacted ==
  ASSUME NEW s \in StateSpace, NEW w, NEW t, Compacted(s, w, t),
         NEW plan, plan.steps \in Seq(PlanStep), TiesInOrder => Executed(t, plan.steps) # Broken
  PROVE  Compacted(s, Joined(w, plan), Executed(t, plan.steps))
  <1> DEFINE ps == plan.steps
             n == Len(ps)
             C(k) == CompressAll(w, SubSeq(ps, 1, k))
             U(k) == Upto(t, ps, k)
             G == {k \in 0 .. n : Compacted(s, C(k), U(k))}
  <1>1. n \in Nat /\ ps \in Seq(PlanStep) /\ (TiesInOrder => t \in StateSpace)
    BY DEF Compacted
  <1>2. /\ C(0) = w /\ U(0) = t
        /\ C(n) = Joined(w, plan) /\ U(n) = Executed(t, ps)
    BY WholePrefix, UptoEnds, CompressAllNone DEF Joined, CompressAll
  <1>3. TiesInOrder => \A k \in 0 .. n : U(k) \in StateSpace
    BY <1>1, UptoState
  <1>4. ASSUME NEW k \in 0 .. n - 1, k \in G PROVE k + 1 \in G
    <2>1. /\ SubSeq(ps, 1, k) \in Seq(PlanStep) /\ ps[k + 1] \in PlanStep
          /\ SubSeq(ps, 1, k + 1) = Append(SubSeq(ps, 1, k), ps[k + 1])
      BY <1>1, Prefix
    <2>2. C(k + 1) = CompressStep(C(k), ps[k + 1])
      <3> DEFINE p == SubSeq(ps, 1, k)
                 q == SubSeq(ps, 1, k + 1)
                 x == ps[k + 1]
      <3>1. p \in Seq(PlanStep) /\ x \in PlanStep /\ q = Append(p, x)
        BY <2>1
      <3> HIDE DEF p, q, x
      <3>2. CompressAll(w, q) = CompressStep(CompressAll(w, p), x)
        BY <3>1, CompressAllAppend
      <3>3. QED
        BY <3>2 DEF p, q, x
    <2>3. U(k + 1) = Taken("executed", U(k), ps[k + 1])
      BY <1>1, UptoStep
    <2>4. k + 1 \in 0 .. n /\ (TiesInOrder => U(k + 1) \in StateSpace)
      BY <1>1, <1>3
    <2> HIDE DEF C, U, ps, n
    <2>5. TiesInOrder => CanApply(U(k), ps[k + 1].act) /\ U(k + 1) = Result(U(k), ps[k + 1].act)
      BY <2>3, <2>4, TakenAre, BrokenIsNoState
    <2>6. Compacted(s, C(k), U(k))
      BY <1>4
    <2>7. Compacted(s, C(k + 1), U(k + 1))
      BY <2>1, <2>2, <2>5, <2>6, CompactedMore
    <2>8. QED
      BY <2>4, <2>7
  <1>5. n \in G
    <2>1. 0 \in G
      BY <1>1, <1>2
    <2>2. 0 \in Nat /\ 0 <= n /\ n \in 0 .. n
      BY <1>1
    <2> HIDE DEF G, n
    <2>3. QED
      BY <1>1, <1>4, <2>1, <2>2, Upwards
  <1>6. Compacted(s, C(n), U(n))
    BY <1>5
  <1> HIDE DEF C, U, n
  <1>7. QED
    BY <1>2, <1>6

(* In the plan that comes out, no two steps overlap of which one threatens
   the other.                                                              *)
LEMMA CompactedApart ==
  ASSUME NEW s \in StateSpace, NEW w, NEW t, Compacted(s, w, t),
         NEW x \in ToSet(InPlanOrder(w)), NEW y \in ToSet(InPlanOrder(w)), x # y,
         Threaten(x.act, y.act)
  PROVE  CompressedEnd(x) <= y.init \/ CompressedEnd(y) <= x.init
  <1>1. w \in Seq(PlanStep) /\ x \in ToSet(w) /\ y \in ToSet(w)
    BY DEF Compacted, Ordered
  <1>2. PICK i \in 1 .. Len(w), j \in 1 .. Len(w) : x = w[i] /\ y = w[j]
    BY <1>1 DEF ToSet
  <1>3. Threaten(y.act, x.act)
    BY Zenon DEF Threaten
  <1>4. i < j \/ j < i
    BY <1>1, <1>2
  <1>5. QED
    BY <1>2, <1>3, <1>4 DEF Compacted

-----------------------------------------------------------------------------
(* Folds over sets, which take the elements in whatever order CHOOSE has    *)
(* them: the costs of a sweep, the sweeps, a sum, the states found so far.  *)

Picked(I) == CHOOSE x \in I : TRUE

Drawn(kind, env, x, t) ==
  CASE kind = "improved" -> Improved(env, x, t)
    [] kind = "swept"    -> Swept(env, t)
    [] kind = "summed"   -> env[x] + t
    [] kind = "spread"   -> Spread(t)

Onward(kind, env, base, r, I) ==
  IF I = {} THEN base ELSE Drawn(kind, env, Picked(I), r[I \ {Picked(I)}])

IsDrawing(kind, env, base, D, r) == r = [I \in SUBSET D |-> Onward(kind, env, base, r, I)]

LEMMA PickedIsIn ==
  ASSUME NEW I, I # {}
  PROVE  Picked(I) \in I /\ I \ {Picked(I)} \subseteq I /\ I \ {Picked(I)} # I
  <1>1. Picked(I) \in I
    BY Zenon DEF Picked
  <1>2. QED
    BY <1>1

LEMMA DrawingAt ==
  ASSUME NEW kind, NEW env, NEW base, NEW D, NEW r, IsDrawing(kind, env, base, D, r),
         NEW I \in SUBSET D
  PROVE  r[I] = Onward(kind, env, base, r, I)
  BY Zenon DEF IsDrawing

LEMMA DrawingUnique ==
  ASSUME NEW kind, NEW env, NEW base, NEW D, NEW E, IsFiniteSet(D), D \subseteq E,
         NEW r, IsDrawing(kind, env, base, D, r), NEW q, IsDrawing(kind, env, base, E, q)
  PROVE  SameAt(D, r, q)
  <1> DEFINE Bad == {I \in SUBSET D : r[I] # q[I]}
  <1>1. Bad \subseteq SUBSET D /\ \A I \in SUBSET D : I \in Bad <=> r[I] # q[I]
    OBVIOUS
  <1> HIDE DEF Bad
  <1>2. ASSUME Bad # {} PROVE FALSE
    <2>1. HasLeast(Bad)
      BY <1>1, <1>2, LeastSubset
    <2>2. PICK I : I \in Bad /\ \A U \in Bad : U \subseteq I => U = I
      BY <2>1 DEF HasLeast
    <2>3. I \in SUBSET D /\ I \in SUBSET E /\ r[I] # q[I]
      BY <1>1, <2>2
    <2>4. r[I] = Onward(kind, env, base, r, I) /\ q[I] = Onward(kind, env, base, q, I)
      BY <2>3, DrawingAt
    <2>5. I # {}
      BY <2>3, <2>4 DEF Onward
    <2> DEFINE J == I \ {Picked(I)}
    <2>6. J \in SUBSET D /\ J \subseteq I /\ J # I
      BY <2>3, <2>5, PickedIsIn
    <2>7. r[J] = q[J]
      <3> HIDE DEF J
      <3> QED
        BY <1>1, <2>2, <2>6
    <2>8. QED
      BY <2>3, <2>4, <2>5, <2>7 DEF Onward
  <1>3. QED
    BY <1>1, <1>2 DEF SameAt

LEMMA DrawingExists ==
  ASSUME NEW kind, NEW env, NEW base, NEW D, IsFiniteSet(D)
  PROVE  \E r : IsDrawing(kind, env, base, D, r)
  <1> DEFINE Has(T) == \E r : IsDrawing(kind, env, base, T, r)
             Bad == {T \in SUBSET D : ~Has(T)}
             Of(T) == CHOOSE r : IsDrawing(kind, env, base, T, r)
  <1>1. Bad \subseteq SUBSET D /\ \A T \in SUBSET D : T \in Bad <=> ~Has(T)
    OBVIOUS
  <1>2. \A T : Has(T) => IsDrawing(kind, env, base, T, Of(T))
    BY Zenon
  <1> HIDE DEF Bad, Of
  <1>3. ASSUME Bad # {} PROVE FALSE
    <2>1. HasLeast(Bad)
      BY <1>1, <1>3, LeastSubset
    <2>2. PICK T : T \in Bad /\ \A U \in Bad : U \subseteq T => U = T
      BY <2>1 DEF HasLeast
    <2>3. T \subseteq D /\ ~Has(T)
      BY <1>1, <2>2
    <2>4. ASSUME NEW U \in SUBSET T, U # T
          PROVE  IsDrawing(kind, env, base, U, Of(U)) /\ IsFiniteSet(U)
      <3>1. U \in SUBSET D /\ IsFiniteSet(U)
        BY <2>3, FS_Subset
      <3>2. Has(U)
        BY <1>1, <2>2, <2>4, <3>1
      <3>3. QED
        BY <1>2, <3>1, <3>2
    <2> DEFINE At(U) == Of(U)[U]
               r == [I \in SUBSET T |->
                       IF I = {} THEN base ELSE Drawn(kind, env, Picked(I), At(I \ {Picked(I)}))]
    <2>5. \A I \in SUBSET T :
            r[I] = IF I = {} THEN base ELSE Drawn(kind, env, Picked(I), At(I \ {Picked(I)}))
      OBVIOUS
    <2>6. ASSUME NEW J \in SUBSET T, J # T
          PROVE  r[J] = At(J)
      <3> DEFINE q == Of(J)
      <3>1. IsDrawing(kind, env, base, J, q)
        BY <2>4, <2>6
      <3>2. q[J] = Onward(kind, env, base, q, J)
        BY <3>1, DrawingAt
      <3>3. CASE J = {}
        BY <2>5, <3>2, <3>3 DEF Onward
      <3>4. CASE J # {}
        <4> DEFINE K == J \ {Picked(J)}
                   p == Of(K)
        <4>1. K \in SUBSET T /\ K # T /\ K \subseteq J
          BY <3>4, PickedIsIn
        <4>2. IsDrawing(kind, env, base, K, p) /\ IsFiniteSet(K)
          <5> HIDE DEF K
          <5> QED
            BY <2>4, <4>1
        <4>3. SameAt(K, p, q)
          <5> HIDE DEF K, p, q
          <5> QED
            BY <3>1, <4>1, <4>2, DrawingUnique
        <4>4. At(K) = q[K]
          BY <4>3 DEF SameAt
        <4>5. q[J] = Drawn(kind, env, Picked(J), q[K])
          BY <3>2, <3>4 DEF Onward
        <4>6. r[J] = Drawn(kind, env, Picked(J), At(K))
          BY <2>5, <3>4
        <4>7. QED
          BY <4>4, <4>5, <4>6, Zenon
      <3>5. QED
        BY <3>3, <3>4
    <2> HIDE DEF r, At
    <2>7. \A I \in SUBSET T : r[I] = Onward(kind, env, base, r, I)
      <3> SUFFICES ASSUME NEW I \in SUBSET T PROVE r[I] = Onward(kind, env, base, r, I)
        OBVIOUS
      <3>1. CASE I = {}
        BY <2>5, <3>1 DEF Onward
      <3>2. CASE I # {}
        <4> DEFINE J == I \ {Picked(I)}
        <4>1. J \in SUBSET T /\ J # T
          BY <3>2, PickedIsIn
        <4>2. r[J] = At(J)
          <5> HIDE DEF J
          <5> QED
            BY <2>6, <4>1
        <4>3. r[I] = Drawn(kind, env, Picked(I), At(J))
          BY <2>5, <3>2
        <4>4. QED
          BY <3>2, <4>2, <4>3, Zenon DEF Onward
      <3>3. QED
        BY <3>1, <3>2
    <2>8. r = [I \in SUBSET T |-> Onward(kind, env, base, r, I)]
      <3>1. r = [I \in SUBSET T |-> r[I]]
        BY DEF r
      <3>2. QED
        BY <2>7, <3>1, Zenon
    <2>9. QED
      BY <2>3, <2>8, Zenon DEF IsDrawing
  <1>4. QED
    BY <1>1, <1>3

(* What such a fold gives stays in a set that no element leads out of.      *)
LEMMA DrawingStays ==
  ASSUME NEW kind, NEW env, NEW base, NEW D, IsFiniteSet(D),
         NEW r, IsDrawing(kind, env, base, D, r),
         NEW V, base \in V, \A x \in D, t \in V : Drawn(kind, env, x, t) \in V
  PROVE  \A I \in SUBSET D : r[I] \in V
  <1> DEFINE Bad == {I \in SUBSET D : r[I] \notin V}
  <1>1. Bad \subseteq SUBSET D /\ \A I \in SUBSET D : I \in Bad <=> r[I] \notin V
    OBVIOUS
  <1> HIDE DEF Bad
  <1>2. ASSUME Bad # {} PROVE FALSE
    <2>1. HasLeast(Bad)
      BY <1>1, <1>2, LeastSubset
    <2>2. PICK I : I \in Bad /\ \A U \in Bad : U \subseteq I => U = I
      BY <2>1 DEF HasLeast
    <2>3. I \in SUBSET D /\ r[I] \notin V
      BY <1>1, <2>2
    <2>4. r[I] = Onward(kind, env, base, r, I)
      BY <2>3, DrawingAt
    <2>5. I # {}
      BY <2>3, <2>4 DEF Onward
    <2> DEFINE J == I \ {Picked(I)}
    <2>6. J \in SUBSET D /\ J \subseteq I /\ J # I /\ Picked(I) \in D
      BY <2>3, <2>5, PickedIsIn
    <2>7. r[J] \in V
      <3> HIDE DEF J
      <3> QED
        BY <1>1, <2>2, <2>6
    <2>8. QED
      BY <2>3, <2>4, <2>5, <2>6, <2>7 DEF Onward
  <1>3. QED
    BY <1>1, <1>2

Yields(kind, env, base, D, v) == \E r : IsDrawing(kind, env, base, D, r) /\ v = r[D]

LEMMA YieldsInside ==
  ASSUME NEW kind, NEW env, NEW base, NEW D, IsFiniteSet(D), NEW v, Yields(kind, env, base, D, v),
         NEW V, base \in V, \A x \in D, t \in V : Drawn(kind, env, x, t) \in V
  PROVE  v \in V
  <1>1. PICK r : IsDrawing(kind, env, base, D, r) /\ v = r[D]
    BY DEF Yields
  <1>2. \A I \in SUBSET D : r[I] \in V
    BY <1>1, DrawingStays
  <1>3. QED
    BY <1>1, <1>2

LEMMA DrawnAre ==
  \A env, x, t :
    /\ Drawn("improved", env, x, t) = Improved(env, x, t)
    /\ Drawn("swept", env, x, t) = Swept(env, t)
    /\ Drawn("summed", env, x, t) = env[x] + t
    /\ Drawn("spread", env, x, t) = Spread(t)
  BY DEF Drawn

LEMMA SweptYields ==
  ASSUME NEW strategy, NEW costs
  PROVE  Yields("improved", strategy, costs, Ops, Swept(strategy, costs))
  <1> DEFINE Body(r, I) ==
               IF I = {} THEN costs
               ELSE LET x == CHOOSE y \in I : TRUE
                    IN Improved(strategy, x, r[I \ {x}])
             Is(r) == r = [I \in SUBSET Ops |-> Body(r, I)]
  <1>1. Swept(strategy, costs) = (CHOOSE r : Is(r))[Ops]
    BY Zenon DEF Swept, FoldSet, MapThenFoldSet
  <1>2. \A r : \A I : Body(r, I) = Onward("improved", strategy, costs, r, I)
    BY DrawnAre DEF Onward, Picked
  <1> HIDE DEF Body
  <1>3. \A r : Is(r) <=> IsDrawing("improved", strategy, costs, Ops, r)
    BY <1>2, Zenon DEF IsDrawing
  <1> HIDE DEF Is
  <1>4. \E r : Is(r)
    BY <1>3, StripsAssumption, DrawingExists
  <1>5. QED
    BY <1>1, <1>3, <1>4, Zenon DEF Yields

SumOf(costs, D) == MapThenSumSet(LAMBDA f : costs[f], D)

LEMMA SumYields ==
  ASSUME NEW costs, NEW D, IsFiniteSet(D)
  PROVE  Yields("summed", costs, 0, D, SumOf(costs, D))
  <1> DEFINE Body(r, I) ==
               IF I = {} THEN 0
               ELSE LET x == CHOOSE y \in I : TRUE
                    IN costs[x] + r[I \ {x}]
             Is(r) == r = [I \in SUBSET D |-> Body(r, I)]
  <1>1. SumOf(costs, D) = (CHOOSE r : Is(r))[D]
    BY Zenon DEF SumOf, MapThenSumSet, MapThenFoldSet
  <1>2. \A r : \A I : Body(r, I) = Onward("summed", costs, 0, r, I)
    BY DrawnAre DEF Onward, Picked
  <1> HIDE DEF Body
  <1>3. \A r : Is(r) <=> IsDrawing("summed", costs, 0, D, r)
    BY <1>2, Zenon DEF IsDrawing
  <1> HIDE DEF Is
  <1>4. \E r : Is(r)
    BY <1>3, DrawingExists
  <1>5. QED
    BY <1>1, <1>3, <1>4, Zenon DEF Yields

LEMMA H1Yields ==
  ASSUME NEW strategy \in Strategies, NEW s \in StateSpace
  PROVE  Yields("swept", strategy, InitialCosts(s), 1 .. Cardinality(Fluent), H1[strategy, s])
  <1> DEFINE base == InitialCosts(s)
             D == 1 .. Cardinality(Fluent)
             Body(r, I) ==
               IF I = {} THEN base
               ELSE LET x == CHOOSE y \in I : TRUE
                    IN Swept(strategy, r[I \ {x}])
             Is(r) == r = [I \in SUBSET D |-> Body(r, I)]
  <1>1. H1[strategy, s] = LeastCosts(strategy, s)
    <2>1. H1 = [p \in Strategies \X StateSpace |-> LeastCosts(p[1], p[2])]
      BY Zenon DEF H1, Table
    <2>2. QED
      BY <2>1
  <1>2. LeastCosts(strategy, s) = (CHOOSE r : Is(r))[D]
    BY Zenon DEF LeastCosts, FoldSet, MapThenFoldSet
  <1>3. \A r : \A I : Body(r, I) = Onward("swept", strategy, base, r, I)
    BY DrawnAre DEF Onward, Picked
  <1> HIDE DEF Body, D, base
  <1>4. \A r : Is(r) <=> IsDrawing("swept", strategy, base, D, r)
    BY <1>3, Zenon DEF IsDrawing
  <1> HIDE DEF Is
  <1>5. IsFiniteSet(D)
    <2>1. Cardinality(Fluent) \in Nat
      BY StripsAssumption, FS_CardinalityType
    <2> DEFINE n == Cardinality(Fluent)
    <2> HIDE DEF n
    <2>2. n \in Nat => IsFiniteSet(1 .. n)
      BY FS_Interval
    <2>3. QED
      BY <2>1, <2>2 DEF n, D
  <1>6. \E r : Is(r)
    BY <1>4, <1>5, DrawingExists
  <1>7. H1[strategy, s] = (CHOOSE r : Is(r))[D]
    BY <1>1, <1>2
  <1>8. Yields("swept", strategy, base, D, H1[strategy, s])
    BY <1>4, <1>6, <1>7, Zenon DEF Yields
  <1>9. QED
    BY <1>8 DEF base, D

LEMMA StatesFromYields ==
  ASSUME NEW s
  PROVE  Yields("spread", s, {s}, 1 .. Cardinality(StateSpace), StatesFrom(s))
  <1> DEFINE D == 1 .. Cardinality(StateSpace)
             Body(r, I) ==
               IF I = {} THEN {s}
               ELSE LET x == CHOOSE y \in I : TRUE
                    IN Spread(r[I \ {x}])
             Is(r) == r = [I \in SUBSET D |-> Body(r, I)]
  <1>1. StatesFrom(s) = (CHOOSE r : Is(r))[D]
    BY Zenon DEF StatesFrom, FoldSet, MapThenFoldSet
  <1>2. \A r : \A I : Body(r, I) = Onward("spread", s, {s}, r, I)
    BY DrawnAre DEF Onward, Picked
  <1> HIDE DEF Body, D
  <1>3. \A r : Is(r) <=> IsDrawing("spread", s, {s}, D, r)
    BY <1>2, Zenon DEF IsDrawing
  <1> HIDE DEF Is
  <1>4. IsFiniteSet(D)
    <2>1. Cardinality(StateSpace) \in Nat
      BY StripsAssumption, FS_SUBSET, FS_CardinalityType DEF StateSpace
    <2> DEFINE n == Cardinality(StateSpace)
    <2> HIDE DEF n
    <2>2. n \in Nat => IsFiniteSet(1 .. n)
      BY FS_Interval
    <2>3. QED
      BY <2>1, <2>2 DEF n, D
  <1>5. \E r : Is(r)
    BY <1>3, <1>4, DrawingExists
  <1>6. QED
    BY <1>1, <1>3, <1>5, Zenon DEF Yields, D

-----------------------------------------------------------------------------
(* The heuristic: the costs of a state are zero for its own fluents and     *)
(* only for them, and so are those of a set of goals.                       *)

Given(s) == {costs \in [Fluent -> Nat] : \A f \in Fluent : costs[f] = 0 <=> f \in s}

LEMMA SumFacts ==
  ASSUME NEW costs \in [Fluent -> Nat], NEW D \in SUBSET Fluent
  PROVE  /\ SumOf(costs, D) \in Nat
         /\ SumOf(costs, D) = 0 <=> \A f \in D : costs[f] = 0
  <1> DEFINE sum == SumOf(costs, D)
  <1>1. IsFiniteSet(D)
    BY StripsAssumption, FS_Subset
  <1>2. PICK r : IsDrawing("summed", costs, 0, D, r) /\ sum = r[D]
    <2>1. Yields("summed", costs, 0, D, sum)
      BY <1>1, SumYields
    <2> HIDE DEF sum
    <2>2. QED
      BY <2>1 DEF Yields
  <1> HIDE DEF sum
  <1>3. \A I \in SUBSET D : r[I] \in Nat
    <2>1. \A x \in D, t \in Nat : Drawn("summed", costs, x, t) \in Nat
      BY DrawnAre
    <2> DEFINE V == Nat
    <2>2. 0 \in V /\ \A x \in D, t \in V : Drawn("summed", costs, x, t) \in V
      BY <2>1
    <2> HIDE DEF V
    <2>3. \A I \in SUBSET D : r[I] \in V
      BY <1>1, <1>2, <2>2, DrawingStays
    <2>4. QED
      BY <2>3 DEF V
  <1>4. \A I \in SUBSET D : r[I] = 0 <=> \A f \in I : costs[f] = 0
    <2> DEFINE Right(I) == r[I] = 0 <=> \A f \in I : costs[f] = 0
               Bad == {I \in SUBSET D : ~Right(I)}
    <2>1. Bad \subseteq SUBSET D /\ \A I \in SUBSET D : I \in Bad <=> ~Right(I)
      OBVIOUS
    <2> HIDE DEF Bad
    <2>2. ASSUME Bad # {} PROVE FALSE
      <3>1. HasLeast(Bad)
        BY <1>1, <2>1, <2>2, LeastSubset
      <3>2. PICK I : I \in Bad /\ \A U \in Bad : U \subseteq I => U = I
        BY <3>1 DEF HasLeast
      <3>3. I \in SUBSET D /\ ~Right(I)
        BY <2>1, <3>2
      <3>4. r[I] = Onward("summed", costs, 0, r, I)
        BY <1>2, <3>3, DrawingAt
      <3>5. I # {}
        BY <3>3, <3>4 DEF Onward
      <3> DEFINE x == Picked(I)
                 J == I \ {x}
      <3>6. J \in SUBSET D /\ J \subseteq I /\ J # I /\ x \in D /\ x \in I
        BY <3>3, <3>5, PickedIsIn
      <3>7. r[I] = costs[x] + r[J]
        BY <3>4, <3>5, DrawnAre DEF Onward
      <3>8. I = J \cup {x}
        BY <3>6
      <3> HIDE DEF x, J, Right
      <3>9. Right(J)
        BY <2>1, <3>2, <3>6
      <3>10. r[J] \in Nat /\ costs[x] \in Nat
        BY <1>3, <3>6
      <3>11. (\A f \in I : costs[f] = 0) <=> (\A f \in J : costs[f] = 0) /\ costs[x] = 0
        BY <3>8
      <3>12. r[I] = 0 <=> r[J] = 0 /\ costs[x] = 0
        BY <3>7, <3>10
      <3>13. QED
        BY <3>3, <3>9, <3>11, <3>12 DEF Right
    <2>3. QED
      BY <2>1, <2>2
  <1>5. sum \in Nat /\ (sum = 0 <=> \A f \in D : costs[f] = 0)
    BY <1>2, <1>3, <1>4
  <1>6. QED
    BY <1>5 DEF sum

LEMMA CostZero ==
  ASSUME NEW s, NEW costs \in Given(s), NEW strategy, NEW g \in SUBSET Fluent
  PROVE  /\ CostOf(strategy, costs, g) \in Nat
         /\ CostOf(strategy, costs, g) = 0 <=> g \subseteq s
  <1>1. costs \in [Fluent -> Nat] /\ \A f \in g : costs[f] = 0 <=> f \in s
    BY DEF Given
  <1>2. (\A f \in g : costs[f] = 0) <=> g \subseteq s
    BY <1>1
  <1>3. CASE strategy = "makespan_max"
    <2> DEFINE T == {0} \cup {costs[f] : f \in g}
    <2>1. T \subseteq Nat /\ T # {} /\ 0 \in T /\ \A f \in g : costs[f] \in T
      BY <1>1
    <2>2. IsFiniteSet(T)
      <3>1. IsFiniteSet(g)
        BY StripsAssumption, FS_Subset
      <3>2. IsFiniteSet({costs[f] : f \in g})
        <4> DEFINE h == [f \in g |-> costs[f]]
                   U == {costs[f] : f \in g}
        <4>1. h \in Surjection(g, U)
          BY DEF Surjection
        <4> HIDE DEF h, U
        <4>2. IsFiniteSet(U)
          BY <3>1, <4>1, FS_Surjection
        <4>3. QED
          BY <4>2 DEF U
      <3>3. QED
        BY <3>2, FS_Singleton, FS_Union
    <2>3. \A k \in T : k = 0 \/ \E f \in g : k = costs[f]
      OBVIOUS
    <2>4. CostOf(strategy, costs, g) = Max(T)
      BY <1>3 DEF CostOf
    <2> HIDE DEF T
    <2>5. Max(T) \in T /\ \A k \in T : k <= Max(T)
      BY <2>1, <2>2, GreatestNatural
    <2>6. Max(T) \in Nat
      BY <2>1, <2>5
    <2>7. Max(T) = 0 => \A f \in g : costs[f] = 0
      BY <1>1, <2>1, <2>5, <2>6
    <2>8. (\A f \in g : costs[f] = 0) => Max(T) = 0
      BY <2>3, <2>5
    <2>9. QED
      BY <1>2, <2>4, <2>6, <2>7, <2>8
  <1>4. CASE strategy # "makespan_max" /\ \E f \in g : costs[f] = MaxTime
    <2>1. CostOf(strategy, costs, g) = MaxTime
      BY <1>4 DEF CostOf
    <2>2. QED
      BY <1>2, <1>4, <2>1, StripsAssumption
  <1>5. CASE strategy # "makespan_max" /\ ~(\E f \in g : costs[f] = MaxTime)
    <2> DEFINE sum == SumOf(costs, g)
    <2>1. CostOf(strategy, costs, g) = sum
      BY <1>5, Zenon DEF CostOf, SumOf
    <2>2. sum \in Nat /\ (sum = 0 <=> \A f \in g : costs[f] = 0)
      BY <1>1, SumFacts
    <2> HIDE DEF sum
    <2>3. QED
      BY <1>2, <2>1, <2>2
  <1>6. QED
    BY <1>3, <1>4, <1>5

LEMMA LeastOfTwo ==
  ASSUME NEW i \in Nat, NEW j \in Nat
  PROVE  Min({i, j}) \in {i, j} /\ Min({i, j}) <= i
  <1> DEFINE T == {i, j}
  <1>1. T \subseteq Nat /\ T # {} /\ i \in T
    OBVIOUS
  <1> HIDE DEF T
  <1>2. Min(T) \in T /\ Min(T) <= i
    BY <1>1, LeastNatural
  <1>3. QED
    BY <1>2 DEF T

LEMMA ImprovedGiven ==
  ASSUME NEW s, NEW strategy, NEW a \in Ops, NEW costs \in Given(s)
  PROVE  Improved(strategy, a, costs) \in Given(s)
  <1> DEFINE cost == CostOf(strategy, costs, Pre[a])
             more == Increment(strategy, a)
             new == [f \in Fluent |-> IF f \in Add[a] THEN Min({costs[f], cost + more}) ELSE costs[f]]
  <1>1. Improved(strategy, a, costs) = IF cost = MaxTime THEN costs ELSE new
    BY DEF Improved
  <1>2. cost \in Nat
    BY CostZero, StripsAssumption
  <1>3. more \in Nat /\ more > 0
    BY StripsAssumption DEF Increment
  <1> HIDE DEF cost, more
  <1>4. costs \in [Fluent -> Nat] /\ \A f \in Fluent : costs[f] = 0 <=> f \in s
    BY DEF Given
  <1>5. \A f \in Fluent : new[f] \in Nat /\ (new[f] = 0 <=> costs[f] = 0)
    <2> SUFFICES ASSUME NEW f \in Fluent PROVE new[f] \in Nat /\ (new[f] = 0 <=> costs[f] = 0)
      OBVIOUS
    <2> DEFINE i == costs[f]
               j == cost + more
    <2>1. i \in Nat /\ j \in Nat /\ j # 0
      BY <1>2, <1>3, <1>4
    <2>2. new[f] = IF f \in Add[a] THEN Min({i, j}) ELSE i
      OBVIOUS
    <2> HIDE DEF i, j, new
    <2>3. Min({i, j}) \in {i, j} /\ Min({i, j}) <= i
      BY <2>1, LeastOfTwo
    <2>4. Min({i, j}) \in Nat /\ (Min({i, j}) = 0 <=> i = 0)
      BY <2>1, <2>3
    <2>5. QED
      BY <2>1, <2>2, <2>4 DEF i
  <1>6. new \in [Fluent -> Nat]
    BY <1>5
  <1> HIDE DEF new
  <1>7. new \in Given(s)
    BY <1>4, <1>5, <1>6 DEF Given
  <1>8. QED
    BY <1>1, <1>7

LEMMA SweptGiven ==
  ASSUME NEW s, NEW strategy, NEW costs \in Given(s)
  PROVE  Swept(strategy, costs) \in Given(s)
  <1> DEFINE V == Given(s)
             v == Swept(strategy, costs)
  <1>1. Yields("improved", strategy, costs, Ops, v)
    BY SweptYields
  <1>2. \A x \in Ops, t \in V : Drawn("improved", strategy, x, t) \in V
    BY DrawnAre, ImprovedGiven
  <1>3. IsFiniteSet(Ops) /\ costs \in V
    BY StripsAssumption
  <1> HIDE DEF V, v
  <1>4. v \in V
    BY <1>1, <1>2, <1>3, YieldsInside
  <1>5. QED
    BY <1>4 DEF v, V

LEMMA IntervalFinite ==
  ASSUME NEW S, IsFiniteSet(S)
  PROVE  IsFiniteSet(1 .. Cardinality(S))
  <1>1. Cardinality(S) \in Nat
    BY FS_CardinalityType
  <1> DEFINE n == Cardinality(S)
  <1> HIDE DEF n
  <1>2. n \in Nat => IsFiniteSet(1 .. n)
    BY FS_Interval
  <1>3. QED
    BY <1>1, <1>2 DEF n

LEMMA H1Given ==
  ASSUME NEW strategy \in Strategies, NEW s \in StateSpace
  PROVE  H1[strategy, s] \in Given(s)
  <1> DEFINE V == Given(s)
             v == H1[strategy, s]
             D == 1 .. Cardinality(Fluent)
             base == InitialCosts(s)
  <1>1. Yields("swept", strategy, base, D, v)
    BY H1Yields
  <1>2. \A x \in D, t \in V : Drawn("swept", strategy, x, t) \in V
    BY DrawnAre, SweptGiven
  <1>3. IsFiniteSet(D)
    BY StripsAssumption, IntervalFinite
  <1>4. base \in V
    BY StripsAssumption DEF InitialCosts, Given
  <1> HIDE DEF V, v, D, base
  <1>5. v \in V
    BY <1>1, <1>2, <1>3, <1>4, YieldsInside
  <1>6. QED
    BY <1>5 DEF v, V

-----------------------------------------------------------------------------
(* What can be reached.                                                     *)

(* A set of states that no action leads out of holds all that its states
   lead to.                                                                 *)
LEMMA StatesInside ==
  ASSUME NEW s, NEW K, s \in K, \A t \in K : \A a \in Ops : CanApply(t, a) => Result(t, a) \in K
  PROVE  StatesFrom(s) \subseteq K
  <1> DEFINE V == SUBSET K
             v == StatesFrom(s)
             D == 1 .. Cardinality(StateSpace)
             base == {s}
  <1>1. Yields("spread", s, base, D, v)
    BY StatesFromYields
  <1>2. \A t \in V : Spread(t) \in V
    BY DEF Spread
  <1>3. \A x \in D, t \in V : Drawn("spread", s, x, t) \in V
    BY <1>2, DrawnAre
  <1>4. IsFiniteSet(D)
    BY StripsAssumption, FS_SUBSET, IntervalFinite DEF StateSpace
  <1>5. base \in V
    OBVIOUS
  <1> HIDE DEF V, v, D, base
  <1>6. v \in V
    BY <1>1, <1>3, <1>4, <1>5, YieldsInside
  <1>7. QED
    BY <1>6 DEF v, V

LEMMA AttainableFacts ==
  ASSUME NEW s \in StateSpace
  PROVE  /\ Attainable[s] \in StateSpace
         /\ s \subseteq Attainable[s]
         /\ \A a \in Ops : CanApply(s, a) => Attainable[Result(s, a)] \subseteq Attainable[s]
  <1> DEFINE Kept(t) == \A a \in Ops : CanApply(t, a) => Add[a] \subseteq t
             Of(t) == {f \in Fluent : \A u \in StateSpace : t \subseteq u /\ Kept(u) => f \in u}
  <1>1. \A t \in StateSpace : Attainable[t] = Of(t)
    <2>1. Attainable = [t \in StateSpace |-> Of(t)]
      BY Zenon DEF Attainable, Table
    <2>2. QED
      BY <2>1
  <1>2. Of(s) \in StateSpace /\ s \subseteq Of(s)
    BY DEF StateSpace
  <1>3. ASSUME NEW a \in Ops, CanApply(s, a)
        PROVE  Of(Result(s, a)) \subseteq Of(s)
    <2> SUFFICES ASSUME NEW f \in Of(Result(s, a)), NEW u \in StateSpace, s \subseteq u, Kept(u)
                 PROVE  f \in u
      OBVIOUS
    <2>1. CanApply(u, a)
      BY <1>3 DEF CanApply
    <2>2. Result(s, a) \subseteq u
      BY <2>1 DEF Result
    <2>3. QED
      BY <2>2
  <1>4. \A a \in Ops : Result(s, a) \in StateSpace
    BY ResultType
  <1> HIDE DEF Of
  <1>5. QED
    BY <1>1, <1>2, <1>3, <1>4

(* A state that the goals are out of reach of even if nothing is deleted
   leads to such states only, and none of them has the goals.               *)
Hopeless(g, s) == ~(g \subseteq Attainable[s])

LEMMA HopelessStays ==
  ASSUME NEW g, NEW s \in StateSpace, Hopeless(g, s)
  PROVE  /\ ~(g \subseteq s)
         /\ \A a \in Ops : CanApply(s, a) => Hopeless(g, Result(s, a))
  BY AttainableFacts DEF Hopeless

(* If every state of a set leads into it or has no hope, and none has the
   goals, then the goals are out of reach of those states.                  *)
LEMMA Exhausted ==
  ASSUME NEW g, NEW K \in SUBSET StateSpace, NEW s \in K,
         \A t \in K : ~(g \subseteq t),
         \A t \in K : Hopeless(g, t) \/ \A a \in Ops : CanApply(t, a) => Result(t, a) \in K
  PROVE  ~Reachable(s, g)
  <1> DEFINE M == K \cup {t \in StateSpace : Hopeless(g, t)}
  <1>1. s \in M /\ M \subseteq StateSpace
    OBVIOUS
  <1>2. ASSUME NEW t \in M, NEW a \in Ops, CanApply(t, a)
        PROVE  Result(t, a) \in M
    <2>1. Result(t, a) \in StateSpace /\ t \in StateSpace
      BY <1>1, ResultType
    <2>2. CASE Hopeless(g, t)
      BY <1>2, <2>1, <2>2, HopelessStays
    <2>3. CASE ~Hopeless(g, t)
      BY <1>2, <2>3
    <2>4. QED
      BY <2>2, <2>3
  <1>3. \A t \in M : ~(g \subseteq t)
    BY HopelessStays
  <1> HIDE DEF M
  <1>4. StatesFrom(s) \subseteq M
    BY <1>1, <1>2, StatesInside
  <1>5. QED
    BY <1>3, <1>4 DEF Reachable

=============================================================================
