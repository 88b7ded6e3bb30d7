---------------------------- MODULE YahspSeqProof ----------------------------
(***************************************************************************)
(* Theorems about the sequential planner, for every problem, sequence of   *)
(* calls and option: the lookahead stays within the steps it allocates,    *)
(* the path of every node leads to its state, the search loses nothing,    *)
(* and calls are answered as Planner says.                                 *)
(***************************************************************************)
EXTENDS YahspSeqProps, StripsProof

Entry   == Ops \cup {EndOp}
Cleared(ps) == {i \in 1 .. Len(ps) : ps[i] = Applied}

(* Until the lookahead starts, a relaxed plan holds actions only.  Then the
   node it builds counts the entries that are cleared: a repair replaces an
   entry and clears none, so that what it puts back is counted once.       *)
OwnCounted ==
  /\ \A n \in open_list : Noded(n)
  /\ pc \in {"compute", "extract", "sort"} => Noded(node)
  /\ parent = NoNode \/ Noded(parent)
  /\ pc = "expand" => Noded(parent)
  /\ pc \in {"extract", "sort"} => relaxed_plan \in Seq(Entry)
  /\ pc = "apply" =>
       /\ Noded(son)
       /\ relaxed_plan \in Seq(Entry \cup {Applied})
       /\ son.own = Cardinality(Cleared(relaxed_plan))

-----------------------------------------------------------------------------
(* Entries and nodes.                                                      *)

LEMMA EntriesAreSet == Applied \notin Entry /\ Ops \subseteq Entry /\ EndOp \in Entry
  BY StripsAssumption DEF Entry, Applied, EndOp

LEMMA ClearedFinite ==
  ASSUME NEW S, NEW ps \in Seq(S)
  PROVE  /\ IsFiniteSet(Cleared(ps))
         /\ Cardinality(Cleared(ps)) \in Nat
         /\ Cardinality(Cleared(ps)) <= Len(ps)
  <1>1. Len(ps) \in Nat
    OBVIOUS
  <1> DEFINE n == Len(ps)
  <1>2. Cleared(ps) \in SUBSET (1 .. n)
    BY DEF Cleared
  <1> HIDE DEF n
  <1>3. n \in Nat /\ 1 \in Int /\ n \in Int
    BY <1>1 DEF n
  <1>4. IsFiniteSet(1 .. n) /\ Cardinality(1 .. n) = n
    <2>1. /\ IsFiniteSet(1 .. n)
          /\ Cardinality(1 .. n) = IF 1 > n THEN 0 ELSE n - 1 + 1
      BY <1>3, FS_Interval
    <2>2. QED
      BY <1>3, <2>1
  <1>5. QED
    BY <1>2, <1>4, FS_Subset, FS_CardinalityType DEF n

(* The best producers are producers: the least of a set of ids is in it.    *)
LEMMA BestIsProducer ==
  ASSUME NEW s, NEW costs, NEW prods, prods \subseteq Ops
  PROVE  BestOf(s, costs, prods) \subseteq prods
  <1> DEFINE best == {a \in prods : \A b \in prods : ~BetterProducer(s, costs, b, a)}
  <1>1. best \subseteq prods /\ best \subseteq Nat
    BY StripsAssumption
  <1> HIDE DEF best
  <1>2. best # {} => Min(best) \in best
    <2> SUFFICES ASSUME best # {} PROVE Min(best) \in best
      OBVIOUS
    <2>1. QED
      BY <1>1, LeastNatural
  <1>3. QED
    BY <1>1, <1>2 DEF BestOf, best

LEMMA ProducersAreOps == \A f : Producers(f) \subseteq Ops
  BY DEF Producers

LEMMA RootNoded == \A s : Noded(RootNode(s))
  BY DEF RootNode, Noded, Fields

-----------------------------------------------------------------------------
(* The steps.                                                              *)

LEMMA InitOwnCounted == Init => OwnCounted
  BY DEF Init, OwnCounted

(* What ends a call leaves nothing to count.                               *)
LEMMA IdleOwnCounted ==
  ASSUME pc' = "idle", open_list' = {}, parent' = NoNode
  PROVE  OwnCounted'
  BY DEF OwnCounted

LEMMA EvaluateCounted ==
  ASSUME OwnCounted, Evaluate
  PROVE  OwnCounted'
  <1>1. pc = "compute" /\ Noded(node) /\ Noded(Numbered)
    BY NumberedNoded DEF Evaluate, OwnCounted, Numbered
  <1>2. CASE PlanFound(Numbered)
    BY <1>2, IdleOwnCounted DEF PlanFound, Leave
  <1>3. CASE pc' = "null" /\ UNCHANGED <<open_list, parent>>
    BY <1>3 DEF OwnCounted
  <1>4. CASE CloseNode /\ pc' = "extract" /\ relaxed_plan' = <<EndOp>> /\ UNCHANGED <<open_list, parent>>
    <2>1. relaxed_plan' \in Seq(Entry)
      BY <1>4, EntriesAreSet
    <2>2. Noded(node')
      BY <1>1, <1>4 DEF CloseNode
    <2>3. QED
      BY <1>4, <2>1, <2>2 DEF OwnCounted
  <1>5. QED
    BY <1>2, <1>3, <1>4 DEF Evaluate, walk

LEMMA ExtractCounted ==
  ASSUME OwnCounted, Extract
  PROVE  OwnCounted'
  <1>1. pc = "extract" /\ UNCHANGED <<pc, node, parent, open_list>> /\ relaxed_plan \in Seq(Entry)
    BY DEF Extract, lists, walk, OwnCounted
  <1>2. PICK f : \E best \in BestOf(strategy, ainit, Producers(f)) :
          relaxed_plan' = IF best \in ToSet(relaxed_plan) THEN relaxed_plan
                          ELSE Append(relaxed_plan, best)
    BY Zenon DEF Extract
  <1>3. PICK best \in Ops : relaxed_plan' = relaxed_plan \/ relaxed_plan' = Append(relaxed_plan, best)
    BY <1>2, BestIsProducer, ProducersAreOps
  <1>4. relaxed_plan' \in Seq(Entry)
    BY <1>1, <1>3, EntriesAreSet
  <1>5. QED
    BY <1>1, <1>4 DEF OwnCounted

LEMMA ExchangeCounted ==
  ASSUME OwnCounted, Exchange
  PROVE  OwnCounted'
  <1>1. pc = "sort" /\ UNCHANGED <<pc, node, parent, open_list>> /\ relaxed_plan \in Seq(Entry)
    BY DEF Exchange, lists, walk, OwnCounted
  <1>2. PICK i \in 1 .. Len(relaxed_plan), j \in 1 .. Len(relaxed_plan) :
          relaxed_plan' = [relaxed_plan EXCEPT ![i] = relaxed_plan[j], ![j] = relaxed_plan[i]]
    <2>1. PICK p \in Pairs :
            relaxed_plan' = [relaxed_plan EXCEPT ![p[1]] = relaxed_plan[p[2]],
                                                 ![p[2]] = relaxed_plan[p[1]]]
      BY DEF Exchange, ToExchange
    <2>2. QED
      BY <2>1 DEF Pairs
  <1>3. relaxed_plan' \in Seq(Entry)
    BY <1>1, <1>2
  <1>4. QED
    BY <1>1, <1>3 DEF OwnCounted

(* The lookahead starts from a node with no steps of its own and a relaxed
   plan with no cleared entry.                                             *)
LEMMA OpenInsertCounted ==
  ASSUME OwnCounted, OpenInsert
  PROVE  OwnCounted'
  <1>1. /\ pc = "sort" /\ pc' = "apply" /\ UNCHANGED <<parent, relaxed_plan>>
        /\ Noded(node) /\ relaxed_plan \in Seq(Entry)
    BY DEF OpenInsert, scratch, walk, OwnCounted
  <1>2. Noded(node')
    BY <1>1, ValuedNoded DEF OpenInsert
  <1>3. Noded(son') /\ son'.own = 0
    BY <1>2, DerivedNoded DEF OpenInsert
  <1>4. open_list' = open_list \cup {node'}
    BY DEF OpenInsert
  <1>5. Cleared(relaxed_plan') = {}
    BY <1>1, EntriesAreSet DEF Cleared
  <1>6. relaxed_plan' \in Seq(Entry \cup {Applied})
    BY <1>1
  <1>7. QED
    BY <1>1, <1>2, <1>3, <1>4, <1>5, <1>6, FS_EmptySet DEF OwnCounted

LEMMA ApplyNextCounted ==
  ASSUME OwnCounted, ApplyNext
  PROVE  OwnCounted'
  <1>1. /\ pc = "apply" /\ UNCHANGED <<parent, open_list>>
        /\ Noded(son) /\ relaxed_plan \in Seq(Entry \cup {Applied})
        /\ son.own = Cardinality(Cleared(relaxed_plan))
    BY DEF ApplyNext, lists, walk, OwnCounted
  <1>2. PICK i \in 1 .. Len(relaxed_plan) :
          /\ Applicable(i) /\ relaxed_plan' = ClearEntry(i)
          /\ \/ pc' = "null"
             \/ son' = ApplyAction(son, relaxed_plan[i]) /\ UNCHANGED pc
    <2>1. PICK i \in 1 .. Len(relaxed_plan) :
            /\ FirstApplicable(i) /\ relaxed_plan' = ClearEntry(i)
            /\ IF ApplyAction(son, relaxed_plan[i]).makespan > best_makespan
               THEN son' = NoNode /\ pc' = "null"
               ELSE son' = ApplyAction(son, relaxed_plan[i]) /\ UNCHANGED pc
      BY DEF ApplyNext
    <2>2. QED
      BY <2>1, Zenon DEF FirstApplicable
  <1>3. /\ relaxed_plan' \in Seq(Entry \cup {Applied})
        /\ Len(relaxed_plan') = Len(relaxed_plan)
        /\ \A j \in 1 .. Len(relaxed_plan) :
             relaxed_plan'[j] = IF j = i THEN Applied ELSE relaxed_plan[j]
    BY <1>1, <1>2 DEF ClearEntry
  <1>4. i \notin Cleared(relaxed_plan) /\ Cleared(relaxed_plan') = Cleared(relaxed_plan) \cup {i}
    BY <1>2, <1>3 DEF Cleared, Applicable
  <1>5. Cardinality(Cleared(relaxed_plan')) = Cardinality(Cleared(relaxed_plan)) + 1
    BY <1>1, <1>4, ClearedFinite, FS_AddElement
  <1>6. CASE pc' = "null"
    BY <1>1, <1>6 DEF OwnCounted
  <1>7. CASE son' = ApplyAction(son, relaxed_plan[i]) /\ UNCHANGED pc
    <2>1. Noded(son') /\ son'.own = son.own + 1
      BY <1>1, <1>7, AppliedNoded
    <2>2. QED
      BY <1>1, <1>3, <1>5, <1>7, <2>1 DEF OwnCounted
  <1>8. QED
    BY <1>2, <1>6, <1>7

(* A repair replaces an entry that is not cleared by an action.            *)
LEMMA RepairCounted ==
  ASSUME OwnCounted, Repair
  PROVE  OwnCounted'
  <1>1. /\ pc = "apply" /\ UNCHANGED <<pc, son, parent, open_list>>
        /\ Noded(son) /\ relaxed_plan \in Seq(Entry \cup {Applied})
        /\ son.own = Cardinality(Cleared(relaxed_plan))
    BY DEF Repair, lists, walk, OwnCounted
  <1>2. PICK ij \in Repairs :
          \E f \in Fluent : \E best \in BestOf(strategy, ainit, Substitutes(ij[1], ij[2], f)) :
            relaxed_plan' = [relaxed_plan EXCEPT ![ij[1]] = best]
    BY DEF Repair
  <1>3. PICK f \in Fluent : \E best \in BestOf(strategy, ainit, Substitutes(ij[1], ij[2], f)) :
            relaxed_plan' = [relaxed_plan EXCEPT ![ij[1]] = best]
    BY <1>2
  <1> DEFINE i == ij[1]
             subs == Substitutes(ij[1], ij[2], f)
  <1>4. subs \subseteq Ops
    BY ProducersAreOps DEF Substitutes
  <1>5. PICK best \in subs : relaxed_plan' = [relaxed_plan EXCEPT ![i] = best]
    <2>1. PICK best \in BestOf(strategy, ainit, subs) :
            relaxed_plan' = [relaxed_plan EXCEPT ![i] = best]
      BY <1>3
    <2> HIDE DEF i, subs
    <2>2. best \in subs
      BY <1>4, BestIsProducer
    <2>3. QED
      BY <2>1, <2>2
  <1>6. i \in 1 .. Len(relaxed_plan)
    BY DEF Repairs, Entries
  <1>7. relaxed_plan[i] # Applied
    BY <1>5 DEF Substitutes
  <1>8. best \in Entry /\ best # Applied
    BY <1>4, <1>5, EntriesAreSet
  <1> HIDE DEF i, subs
  <1>9. /\ relaxed_plan' \in Seq(Entry \cup {Applied})
        /\ Len(relaxed_plan') = Len(relaxed_plan)
        /\ \A j \in 1 .. Len(relaxed_plan) :
             relaxed_plan'[j] = IF j = i THEN best ELSE relaxed_plan[j]
    BY <1>1, <1>5, <1>6, <1>8
  <1>10. Cleared(relaxed_plan') = Cleared(relaxed_plan)
    BY <1>6, <1>7, <1>8, <1>9 DEF Cleared
  <1>11. QED
    BY <1>1, <1>9, <1>10 DEF OwnCounted

LEMMA ExpansionCounted ==
  ASSUME OwnCounted, Null \/ Pop \/ TryAction \/ Expanded
  PROVE  OwnCounted'
  <1>1. CASE Null
    <2>1. CASE NoPlanFound
      BY <2>1, IdleOwnCounted DEF NoPlanFound, Leave
    <2>2. CASE pc' \in {"pop", "expand"} /\ UNCHANGED <<open_list, parent>> /\ (pc' = "expand" => parent # NoNode)
      BY <2>2 DEF OwnCounted
    <2>3. QED
      BY <1>1, <2>1, <2>2 DEF Null, lists, walk
  <1>2. CASE Pop
    <2>1. CASE NoPlanFound
      BY <2>1, IdleOwnCounted DEF NoPlanFound, Leave
    <2>2. CASE pc' = "expand" /\ \E n \in open_list : open_list' = open_list \ {n} /\ parent' = n
      BY <2>2 DEF OwnCounted
    <2>3. QED
      BY <1>2, <2>1, <2>2 DEF Pop
  <1>3. CASE TryAction
    <2>1. pc = "expand" /\ pc' = "compute" /\ Noded(parent) /\ UNCHANGED <<parent, open_list>>
      BY <1>3 DEF TryAction, lists, OwnCounted
    <2>2. Noded(node')
      BY <1>3, <2>1, DerivedNoded, AppliedNoded DEF TryAction
    <2>3. QED
      BY <2>1, <2>2 DEF OwnCounted
  <1>4. CASE Expanded
    BY <1>4 DEF Expanded, lists, OwnCounted
  <1>5. QED
    BY <1>1, <1>2, <1>3, <1>4

LEMMA OwnCountedStep == OwnCounted /\ [Next]_vars => OwnCounted'
  <1> SUFFICES ASSUME OwnCounted, [Next]_vars PROVE OwnCounted'
    OBVIOUS
  <1>1. CASE Reset \/ (\E s \in Settings : SetStrategy(s)) \/ (\E q \in Queries : Refuse(q))
    <2>1. UNCHANGED <<pc, node, son, parent, open_list, relaxed_plan>>
      BY <1>1 DEF Reset, SetStrategy, Refuse, lists, scratch, walk
    <2>2. QED
      BY <2>1 DEF OwnCounted
  <1>2. ASSUME NEW q \in Queries, Call(q) PROVE OwnCounted'
    <2>1. pc' = "compute" /\ UNCHANGED <<parent, open_list>> /\ node' = RootNode(current_state)
      BY <1>2 DEF Call, lists, walk
    <2>2. QED
      BY <2>1, RootNoded DEF OwnCounted
  <1>3. CASE Discard
    <2>1. pc' = "null" /\ UNCHANGED <<parent, open_list>>
      BY <1>3 DEF Discard, walk
    <2>2. QED
      BY <2>1 DEF OwnCounted
  <1>4. CASE Extracted \/ SweepAgain \/ Lookahead
    BY <1>4 DEF Extracted, SweepAgain, Lookahead, lists, scratch, walk, OwnCounted
  <1>5. CASE UNCHANGED vars
    <2>1. UNCHANGED <<pc, node, son, parent, open_list, relaxed_plan>>
      BY <1>5 DEF vars, lists, scratch, walk
    <2>2. QED
      BY <2>1 DEF OwnCounted
  <1>6. QED
    BY <1>1, <1>2, <1>3, <1>4, <1>5, EvaluateCounted, ExtractCounted, ExchangeCounted,
       OpenInsertCounted, ApplyNextCounted, RepairCounted, ExpansionCounted
       DEF Next, Step

(* However often the lookahead repairs its relaxed plan, it never applies
   more actions than apply_relaxed_plan has allocated steps for.           *)
THEOREM StepsAlwaysFit == Spec => []StepsFit
  <1>1. OwnCounted => StepsFit
    BY ClearedFinite DEF OwnCounted, StepsFit
  <1>2. QED
    BY <1>1, InitOwnCounted, OwnCountedStep, PTL DEF Spec

-----------------------------------------------------------------------------
(* The exchange sort.  A sweep that has exchanged nothing goes over all the *)
(* pairs.                                                                   *)

SweepInv == pc = "sort" /\ ~sweep.moved => sweep = FirstSweep

LEMMA SweepInvStep == SweepInv /\ [Next]_vars => SweepInv'
  <1> SUFFICES ASSUME SweepInv, [Next]_vars PROVE SweepInv'
    OBVIOUS
  <1>1. CASE Extracted \/ SweepAgain
    BY <1>1 DEF Extracted, SweepAgain, SweepInv
  <1>2. CASE Exchange
    BY <1>2 DEF Exchange, SweepInv
  <1>3. CASE Evaluate \/ Null \/ Pop
    <2>1. pc' # "sort"
      BY <1>3 DEF Evaluate, Null, Pop, PlanFound, NoPlanFound, Leave
    <2>2. QED
      BY <2>1 DEF SweepInv
  <1>4. CASE Discard \/ OpenInsert \/ ApplyNext \/ Lookahead \/ TryAction \/ Expanded
             \/ \E q \in Queries : Call(q)
    <2>1. pc' # "sort"
      BY <1>4 DEF Discard, OpenInsert, ApplyNext, Lookahead, TryAction, Expanded, Call
    <2>2. QED
      BY <2>1 DEF SweepInv
  <1>5. CASE Reset \/ (\E s \in Settings : SetStrategy(s)) \/ (\E q \in Queries : Refuse(q))
             \/ Extract \/ Repair \/ UNCHANGED vars
    <2>1. UNCHANGED <<pc, sweep>>
      BY <1>5 DEF Reset, SetStrategy, Refuse, Extract, Repair, vars, scratch
    <2>2. QED
      BY <2>1 DEF SweepInv
  <1>6. QED
    BY <1>1, <1>2, <1>3, <1>4, <1>5 DEF Next, Step

(* The first of a circle is behind another one of it.                      *)
LEMMA CircleMoves ==
  ASSUME InCircle, relaxed_plan \in Seq(Entry), sweep = FirstSweep
  PROVE  ToExchange # {}
  <1> DEFINE R == relaxed_plan
             n == Len(R)
  <1>1. PICK C \in SUBSET ToSet(R) :
          /\ C # {}
          /\ \A a, b \in C : ainit[a] = ainit[b]
          /\ \A a \in C : \E b \in C : Spoils(a, b) /\ ~Spoils(b, a)
    BY DEF InCircle
  <1>12. n \in Nat /\ DOMAIN R = 1 .. n
    OBVIOUS
  <1>2. n \in Nat /\ ToSet(R) = {R[k] : k \in 1 .. n}
    BY <1>12, Zenon DEF ToSet
  <1> DEFINE I == {k \in 1 .. n : R[k] \in C}
  <1>3. I \subseteq Nat /\ I # {}
    BY <1>1, <1>2
  <1>4. PICK i \in I : \A k \in I : i <= k
    <2> HIDE DEF I
    <2> QED
      BY <1>3, LeastNatural
  <1>5. PICK b \in C : Spoils(R[i], b) /\ ~Spoils(b, R[i])
    BY <1>1, <1>4
  <1>6. PICK j \in 1 .. n : b = R[j]
    BY <1>1, <1>2, <1>5
  <1>7. j \in I /\ i # j /\ i < j
    <2>1. j \in I /\ i # j
      BY <1>5, <1>6
    <2>2. i <= j /\ i \in Nat /\ j \in Nat
      BY <1>4, <2>1
    <2>3. QED
      BY <2>1, <2>2
  <1>8. Sooner(R[j], R[i])
    BY <1>1, <1>4, <1>5, <1>6 DEF Sooner
  <1> DEFINE p == <<i, j>>
  <1>9. p \in Pairs /\ NotBefore(p, sweep.at)
    BY <1>2, <1>4, <1>7 DEF Pairs, NotBefore, FirstSweep
  <1>10. p \in ToExchange
    BY <1>8, <1>9 DEF ToExchange
  <1>11. QED
    BY <1>10

LEMMA ExchangedSet ==
  ASSUME relaxed_plan \in Seq(Entry), Exchange
  PROVE  ToSet(relaxed_plan') = ToSet(relaxed_plan)
  <1> DEFINE R == relaxed_plan
             n == Len(R)
  <1>1. PICK p \in Pairs : relaxed_plan' = [R EXCEPT ![p[1]] = R[p[2]], ![p[2]] = R[p[1]]]
    BY DEF Exchange, ToExchange
  <1>2. PICK i \in 1 .. n, j \in 1 .. n : i # j /\ p[1] = i /\ p[2] = j
    BY <1>1 DEF Pairs
  <1>3. DOMAIN R = 1 .. n
    OBVIOUS
  <1> DEFINE Q == [R EXCEPT ![i] = R[j], ![j] = R[i]]
  <1>4. DOMAIN Q = 1 .. n /\ Q[i] = R[j] /\ Q[j] = R[i] /\ \A k \in 1 .. n : k # i /\ k # j => Q[k] = R[k]
    BY <1>2, <1>3
  <1>5. relaxed_plan' = Q
    BY <1>1, <1>2
  <1> HIDE DEF Q, R, n
  <1>6. ToSet(Q) = {Q[k] : k \in 1 .. n} /\ ToSet(R) = {R[k] : k \in 1 .. n}
    BY <1>3, <1>4 DEF ToSet
  <1>7. \A k \in 1 .. n : Q[k] \in ToSet(R) /\ R[k] \in ToSet(Q)
    BY <1>2, <1>4, <1>6
  <1>8. ToSet(Q) = ToSet(R)
    BY <1>6, <1>7
  <1>9. QED
    BY <1>5, <1>8 DEF R

LEMMA CircleStays == OwnCounted /\ SweepInv /\ [Next]_vars => [InCircle => InCircle']_vars
  <1> SUFFICES ASSUME OwnCounted, SweepInv, [Next]_vars, InCircle PROVE InCircle'
    OBVIOUS
  <1>1. pc = "sort" /\ relaxed_plan \in Seq(Entry)
    BY DEF InCircle, OwnCounted
  <1>2. CASE Exchange \/ SweepAgain \/ UNCHANGED vars
    <2>1. ToSet(relaxed_plan') = ToSet(relaxed_plan)
      BY <1>1, <1>2, ExchangedSet DEF SweepAgain, vars, scratch
    <2>2. UNCHANGED <<pc, ainit, goals>>
      BY <1>2 DEF Exchange, SweepAgain, vars, scope, request, scratch
    <2>3. \A a, b : Spoils(a, b)' = Spoils(a, b)
      BY <2>2 DEF Spoils, PrecOf, DeletesOf
    <2>4. QED
      BY <2>1, <2>2, <2>3 DEF InCircle
  <1>3. CASE OpenInsert
    BY <1>1, <1>3, CircleMoves DEF OpenInsert, SweepInv
  <1>4. CASE Discard \/ Evaluate \/ Extract \/ Extracted \/ ApplyNext \/ Repair \/ Lookahead
             \/ Null \/ Pop \/ TryAction \/ Expanded
    BY <1>1, <1>4 DEF Discard, Evaluate, Extract, Extracted, ApplyNext, Repair, Lookahead,
                      Null, Pop, TryAction, Expanded
  <1>5. CASE Reset \/ (\E s \in Settings : SetStrategy(s)) \/ (\E q \in Queries : Refuse(q) \/ Call(q))
    BY <1>1, <1>5 DEF Reset, SetStrategy, Refuse, Call
  <1>6. QED
    BY <1>2, <1>3, <1>4, <1>5 DEF Next, Step

(* A call that has to sort actions of equal cost that spoil each other in a
   circle does not return: vector_sort exchanges them for ever, for any
   problem and node limit, in the order that cmp_actions gives.            *)
THEOREM CirclesNeverEnd == Spec => StaysInCircle
  <1>1. Init => SweepInv
    BY DEF Init, SweepInv
  <1>2. QED
    BY <1>1, InitOwnCounted, OwnCountedStep, SweepInvStep, CircleStays, PTL DEF Spec, StaysInCircle

-----------------------------------------------------------------------------
(* Paths.                                                                  *)

Nodes == open_list \cup ({node, son, parent} \ {NoNode})

(* What is still to be tried can be applied, and between two calls there
   are no nodes, so that a reset or a call may change the state they start
   from.                                                                   *)
PathInv ==
  /\ current_state \in StateSpace
  /\ pc = "idle" => open_list = {} /\ {node, son, parent} = {NoNode}
  /\ \A n \in Nodes : Pathed(current_state, n)
  /\ parent # NoNode => todo \subseteq ApplicableActions(parent.state)

LEMMA NodedIsNode ==
  ASSUME NEW n, Noded(n)
  PROVE  n # NoNode
  <1>1. DOMAIN NoNode = {"id"}
    BY DEF NoNode
  <1>2. DOMAIN n # {"id"}
    BY DEF Noded, Fields
  <1>3. QED
    BY <1>1, <1>2

LEMMA InitPathInv == Init => PathInv
  BY StripsAssumption DEF Init, PathInv, Nodes, StateSpace

LEMMA IdlePathInv ==
  ASSUME current_state' \in StateSpace, open_list' = {},
         node' = NoNode, son' = NoNode, parent' = NoNode
  PROVE  PathInv'
  BY DEF PathInv, Nodes

(* Within a call, nodes with a path are replaced by such nodes.            *)
Extends(ns) ==
  /\ UNCHANGED current_state
  /\ pc # "idle" /\ pc' # "idle"
  /\ \A n \in Nodes' : n \in Nodes \/ n \in ns

LEMMA ExtendsPathInv ==
  ASSUME PathInv, NEW ns, Extends(ns), \A n \in ns : Pathed(current_state, n),
         parent' # NoNode => todo' \subseteq ApplicableActions(parent'.state)
  PROVE  PathInv'
  <1>1. \A n \in Nodes' : Pathed(current_state', n)
    BY DEF Extends, PathInv
  <1>2. current_state' \in StateSpace
    BY DEF Extends, PathInv
  <1>3. QED
    BY <1>1, <1>2, Zenon DEF Extends, PathInv

LEMMA EvaluatePaths ==
  ASSUME PathInv, OwnCounted, Evaluate
  PROVE  PathInv'
  <1>1. pc = "compute" /\ Noded(node) /\ node \in Nodes
    BY NodedIsNode DEF Evaluate, OwnCounted, Nodes
  <1>2. Pathed(current_state, Numbered)
    BY <1>1, ChangedPathed DEF PathInv, Numbered
  <1>3. CASE PlanFound(Numbered)
    <2>1. Numbered.state \in StateSpace
      BY <1>2 DEF Pathed, Scheduled
    <2>2. QED
      BY <1>3, <2>1, IdlePathInv DEF PlanFound, Leave
  <1>4. CASE CloseNode /\ pc' \in {"null", "extract"} /\ UNCHANGED <<son, open_list, answer, walk>>
    <2>1. Extends({Numbered})
      BY <1>1, <1>4 DEF Extends, Nodes, CloseNode, answer, walk
    <2>2. parent' # NoNode => todo' \subseteq ApplicableActions(parent'.state)
      BY <1>4 DEF walk, PathInv, ApplicableActions
    <2>3. QED
      BY <1>2, <2>1, <2>2, ExtendsPathInv
  <1>5. QED
    BY <1>3, <1>4 DEF Evaluate

LEMMA DiscardPaths ==
  ASSUME PathInv, OwnCounted, Discard
  PROVE  PathInv'
  <1>1. pc = "compute" /\ Noded(node) /\ node \in Nodes
    BY NodedIsNode DEF Discard, OwnCounted, Nodes
  <1>2. Pathed(current_state, Numbered)
    BY <1>1, ChangedPathed DEF PathInv, Numbered
  <1>3. Extends({Numbered})
    BY <1>1 DEF Discard, Extends, Nodes, CloseNode, answer, walk
  <1>4. parent' # NoNode => todo' \subseteq ApplicableActions(parent'.state)
    BY DEF Discard, walk, PathInv, ApplicableActions
  <1>5. QED
    BY <1>2, <1>3, <1>4, ExtendsPathInv

LEMMA OpenInsertPaths ==
  ASSUME PathInv, OwnCounted, OpenInsert
  PROVE  PathInv'
  <1>1. pc = "sort" /\ Noded(node) /\ node \in Nodes
    BY NodedIsNode DEF OpenInsert, OwnCounted, Nodes
  <1>2. Pathed(current_state, node')
    BY <1>1, ChangedPathed DEF PathInv, OpenInsert
  <1>3. Pathed(current_state, son')
    BY <1>2, ChangedPathed DEF OpenInsert
  <1>4. Extends({node', son'})
    BY <1>1 DEF OpenInsert, Extends, Nodes, answer, walk
  <1>5. parent' # NoNode => todo' \subseteq ApplicableActions(parent'.state)
    BY DEF OpenInsert, walk, PathInv, ApplicableActions
  <1>6. QED
    BY <1>2, <1>3, <1>4, <1>5, ExtendsPathInv

LEMMA ApplyNextPaths ==
  ASSUME PathInv, OwnCounted, ApplyNext
  PROVE  PathInv'
  <1>1. pc = "apply" /\ Noded(son) /\ son \in Nodes /\ relaxed_plan \in Seq(Entry \cup {Applied})
    BY NodedIsNode DEF ApplyNext, OwnCounted, Nodes
  <1>2. PICK i \in 1 .. Len(relaxed_plan) :
          /\ Applicable(i)
          /\ \/ son' = NoNode /\ pc' = "null"
             \/ son' = ApplyAction(son, relaxed_plan[i]) /\ UNCHANGED pc
    <2>1. PICK i \in 1 .. Len(relaxed_plan) :
            /\ FirstApplicable(i)
            /\ IF ApplyAction(son, relaxed_plan[i]).makespan > best_makespan
               THEN son' = NoNode /\ pc' = "null"
               ELSE son' = ApplyAction(son, relaxed_plan[i]) /\ UNCHANGED pc
      BY DEF ApplyNext
    <2>2. QED
      BY <2>1, Zenon DEF FirstApplicable
  <1> DEFINE n == ApplyAction(son, relaxed_plan[i])
  <1>3. relaxed_plan[i] \in Ops /\ CanApply(son.state, relaxed_plan[i])
    BY <1>1, <1>2 DEF Applicable, Entry
  <1>4. Pathed(current_state, n)
    BY <1>1, <1>3, AppliedPathed DEF PathInv
  <1>5. UNCHANGED <<node, parent, todo, open_list, current_state>>
    BY DEF ApplyNext, lists, answer, walk
  <1> HIDE DEF n
  <1>6. Extends({n})
    BY <1>1, <1>2, <1>5 DEF Extends, Nodes, n
  <1>7. parent' # NoNode => todo' \subseteq ApplicableActions(parent'.state)
    BY <1>5 DEF PathInv, ApplicableActions
  <1>8. QED
    BY <1>4, <1>6, <1>7, ExtendsPathInv

LEMMA ExpansionPaths ==
  ASSUME PathInv, OwnCounted, Null \/ Pop \/ TryAction \/ Expanded
  PROVE  PathInv'
  <1>1. CASE Null
    <2>1. CASE NoPlanFound
      BY <2>1, IdlePathInv DEF NoPlanFound, Leave, PathInv
    <2>2. CASE pc' \in {"pop", "expand"} /\ node' = NoNode /\ son' = NoNode /\ UNCHANGED <<lists, answer, walk>>
      <3>1. Extends({})
        BY <1>1, <2>2 DEF Null, Extends, Nodes, lists, answer, walk
      <3>2. parent' # NoNode => todo' \subseteq ApplicableActions(parent'.state)
        BY <2>2 DEF walk, PathInv, ApplicableActions
      <3>3. QED
        BY <3>1, <3>2, ExtendsPathInv
    <2>3. QED
      BY <1>1, <2>1, <2>2 DEF Null
  <1>2. CASE Pop
    <2>1. CASE NoPlanFound
      BY <2>1, IdlePathInv DEF NoPlanFound, Leave, PathInv
    <2>2. CASE /\ pc' = "expand" /\ UNCHANGED <<node, son, answer>>
               /\ \E n \in open_list : /\ open_list' = open_list \ {n}
                                       /\ parent' = n /\ todo' = ApplicableActions(n.state)
      <3>1. Extends({})
        BY <1>2, <2>2 DEF Pop, Extends, Nodes, answer
      <3>2. parent' # NoNode => todo' \subseteq ApplicableActions(parent'.state)
        BY <2>2 DEF ApplicableActions
      <3>3. QED
        BY <3>1, <3>2, ExtendsPathInv
    <2>3. QED
      BY <1>2, <2>1, <2>2 DEF Pop
  <1>3. CASE TryAction
    <2>1. pc = "expand" /\ pc' = "compute" /\ UNCHANGED <<son, parent, open_list, current_state>>
      BY <1>3 DEF TryAction, lists, answer
    <2>2. Noded(parent) /\ parent \in Nodes
      BY <2>1, NodedIsNode DEF OwnCounted, Nodes
    <2>3. Pathed(current_state, NodeDerive(parent))
      BY <2>2, ChangedPathed DEF PathInv
    <2> DEFINE a == Min(todo)
    <2>4. a \in todo
      <3>1. todo \subseteq Nat
        BY <2>2, NodedIsNode, StripsAssumption DEF PathInv, ApplicableActions
      <3>2. QED
        BY <1>3, <3>1, LeastNatural DEF TryAction
    <2>5. a \in Ops /\ CanApply(parent.state, a)
      BY <2>2, <2>4, NodedIsNode DEF PathInv, ApplicableActions
    <2>6. NodeDerive(parent).state = parent.state
      BY <2>2 DEF Noded, Fields, NodeDerive
    <2> HIDE DEF a
    <2> DEFINE n == ApplyAction(NodeDerive(parent), a)
    <2>7. Pathed(current_state, n)
      <3>1. current_state \in StateSpace /\ CanApply(NodeDerive(parent).state, a)
        BY <2>5, <2>6 DEF PathInv
      <3>2. QED
        BY <2>3, <2>5, <3>1, AppliedPathed
    <2>8. node' = n /\ todo' = todo \ {a}
      BY <1>3 DEF TryAction, a
    <2> HIDE DEF n
    <2>9. Extends({n})
      BY <2>1, <2>8 DEF Extends, Nodes
    <2>10. parent' # NoNode => todo' \subseteq ApplicableActions(parent'.state)
      BY <2>1, <2>8 DEF PathInv, ApplicableActions
    <2>11. QED
      BY <2>7, <2>9, <2>10, ExtendsPathInv
  <1>4. CASE Expanded
    <2>1. Extends({})
      BY <1>4 DEF Expanded, Extends, Nodes, lists, answer
    <2>2. parent' = NoNode
      BY <1>4 DEF Expanded
    <2>3. QED
      BY <2>1, <2>2, ExtendsPathInv
  <1>5. QED
    BY <1>1, <1>2, <1>3, <1>4

LEMMA PathInvStep == PathInv /\ OwnCounted /\ [Next]_vars => PathInv'
  <1> SUFFICES ASSUME PathInv, OwnCounted, [Next]_vars PROVE PathInv'
    OBVIOUS
  <1>1. CASE Reset
    <2>1. pc = "idle" /\ current_state' = InitState /\ UNCHANGED <<node, son, parent, open_list>>
      BY <1>1 DEF Reset, lists, walk
    <2>2. QED
      BY <2>1, IdlePathInv, StripsAssumption DEF PathInv, StateSpace
  <1>2. CASE (\E s \in Settings : SetStrategy(s)) \/ (\E q \in Queries : Refuse(q)) \/ UNCHANGED vars
    <2>1. UNCHANGED <<pc, current_state, node, son, parent, open_list, todo>>
      BY <1>2 DEF SetStrategy, Refuse, vars, lists, answer, walk
    <2>2. QED
      BY <2>1 DEF PathInv, Nodes, ApplicableActions
  <1>3. ASSUME NEW q \in Queries, Call(q) PROVE PathInv'
    <2>1. /\ pc = "idle" /\ pc' = "compute" /\ UNCHANGED <<son, parent, open_list, current_state>>
          /\ node' = RootNode(current_state)
      BY <1>3 DEF Call, lists, walk
    <2>2. Nodes' \subseteq {RootNode(current_state)} /\ parent' = NoNode
      BY <2>1 DEF PathInv, Nodes
    <2>3. Pathed(current_state, RootNode(current_state))
      BY RootPathed DEF PathInv
    <2>4. \A n \in Nodes' : Pathed(current_state', n)
      BY <2>1, <2>2, <2>3
    <2>5. QED
      BY <2>1, <2>2, <2>4 DEF PathInv
  <1>4. CASE Extract \/ Extracted \/ Exchange \/ SweepAgain \/ Repair
    <2>1. UNCHANGED <<current_state, node, son, parent, open_list, todo>> /\ pc # "idle" /\ pc' # "idle"
      BY <1>4 DEF Extract, Extracted, Exchange, SweepAgain, Repair, lists, answer, walk
    <2>2. QED
      BY <2>1 DEF PathInv, Nodes, ApplicableActions
  <1>5. CASE Lookahead
    <2>1. /\ pc = "apply" /\ pc' = "compute" /\ node' = son
          /\ UNCHANGED <<current_state, son, parent, open_list, todo>>
      BY <1>5 DEF Lookahead, lists, answer, walk
    <2>2. Extends({})
      BY <2>1 DEF Extends, Nodes
    <2>3. parent' # NoNode => todo' \subseteq ApplicableActions(parent'.state)
      BY <2>1 DEF PathInv, ApplicableActions
    <2>4. QED
      BY <2>2, <2>3, ExtendsPathInv
  <1>6. QED
    BY <1>1, <1>2, <1>3, <1>4, <1>5, EvaluatePaths, DiscardPaths, OpenInsertPaths,
       ApplyNextPaths, ExpansionPaths DEF Next, Step

(* Whatever the lookahead applies, repairs and gives up, and however the
   search goes on, the steps that lead to a node, put in the order of their
   dates as create_solution_plan does, can be carried out and lead to its
   state: node_apply_action gives them dates that agree with
   action_must_precede.  Where steps of length zero tie and their ids are in
   the wrong order, they do in another order.                              *)
THEOREM PathsAlwaysExecute == Spec => []PathsExecute
  <1>1. PathInv => PathsExecute
    <2>1. \A cur, n : Pathed(cur, n) => LeadsTo(cur, InPlanOrder(n.steps), n.state)
      BY ScheduledLeads, Zenon DEF Pathed
    <2>2. QED
      BY <2>1, Zenon DEF PathInv, Nodes, PathsExecute
  <1>2. QED
    BY <1>1, InitPathInv, PathInvStep, InitOwnCounted, OwnCountedStep, PTL DEF Spec

-----------------------------------------------------------------------------
(* The search.  The heuristic is taken as right about dead ends: where the  *)
(* costs of the goals are not finite, under whatever strategies the memo    *)
(* was filled, the goals are out of reach even if nothing is deleted.       *)

Estimate(s, other) == H1[other, s]

LEMMA EstimateGiven ==
  ASSUME NEW s \in StateSpace, NEW other \in Strategies
  PROVE  Estimate(s, other) \in Given(s)
  BY Zenon, H1Given DEF Estimate

LEMMA DeadEndIsHopeless ==
  ASSUME DeadEndsRight, NEW st \in Strategies, NEW other \in Strategies,
         NEW s \in StateSpace, NEW g \in SUBSET Fluent,
         CostOf(st, Estimate(s, other), g) = MaxTime
  PROVE  Hopeless(g, s)
  BY Zenon DEF DeadEndsRight, Estimate, Hopeless

(* What a call is about, and a memo that holds values of h1, whichever the
   strategy was when they were computed.                                    *)
Searching ==
  /\ goals \in SUBSET Fluent /\ strategy \in Strategies
  /\ nodes_limit \in Nat /\ evaluated_nodes \in 0 .. nodes_limit
  /\ anytime \in BOOLEAN
  /\ \A s \in DOMAIN memo : \E other \in Strategies : memo[s] = Estimate(s, other)
  /\ closed_list \subseteq StateSpace
  /\ pc = "idle" => closed_list = {}
  /\ pc = "pop" => parent = NoNode
  /\ pc # "idle" /\ ~anytime => best_makespan = MaxTime

LEMMA CostsAreEstimates ==
  ASSUME Searching, NEW s \in StateSpace
  PROVE  \E other \in Strategies : Costs(s) = Estimate(s, other)
  <1>1. CASE Dae /\ s \in DOMAIN memo
    BY <1>1 DEF Costs, Searching
  <1>2. CASE ~(Dae /\ s \in DOMAIN memo)
    BY <1>2, Zenon DEF Costs, Estimate, Searching
  <1>3. QED
    BY <1>1, <1>2

LEMMA InitSearching == Init => Searching
  <1> SUFFICES ASSUME Init PROVE Searching
    OBVIOUS
  <1>1. memo = <<>> /\ DOMAIN <<>> = {}
    <2>1. memo = <<>>
      BY Zenon DEF Init
    <2>2. QED
      BY <2>1
  <1>2. anytime \in BOOLEAN /\ strategy \in Strategies
    BY SeqAssumption DEF Init, Strategies
  <1>3. evaluated_nodes \in 0 .. nodes_limit /\ nodes_limit \in Nat
    <2>1. evaluated_nodes = 0 /\ nodes_limit = 0
      BY Zenon DEF Init
    <2>2. QED
      BY <2>1
  <1>4. QED
    BY <1>1, <1>2, <1>3 DEF Init, Searching

(* What an evaluation finds out about the state of its node.                *)
LEMMA EvaluateFinds ==
  ASSUME Searching, PathInv, OwnCounted, Evaluate
  PROVE  /\ node.state \in StateSpace /\ Pathed(current_state, Numbered)
         /\ Numbered.state = node.state /\ Numbered.steps = node.steps
         /\ IsGoal <=> goals \subseteq node.state
         /\ IsDead => ~(goals \subseteq node.state)
         /\ IsDead /\ DeadEndsRight => Hopeless(goals, node.state)
  <1>1. pc = "compute" /\ Noded(node) /\ node \in Nodes
    BY NodedIsNode DEF Evaluate, OwnCounted, Nodes
  <1>2. Pathed(current_state, Numbered)
    BY <1>1, ChangedPathed DEF PathInv, Numbered
  <1>3. node.state \in StateSpace /\ Numbered.state = node.state /\ Numbered.steps = node.steps
    BY <1>1 DEF PathInv, Pathed, Scheduled, Numbered, Noded, Fields
  <1>4. PICK other \in Strategies : Costs(node.state) = Estimate(node.state, other)
    BY <1>3, CostsAreEstimates
  <1> DEFINE cost == CostOf(strategy, Estimate(node.state, other), goals)
  <1>5. ainit'[EndOp] = cost
    <2>1. ainit' = AInit(Costs(node.state))
      BY DEF Evaluate
    <2>2. ainit'[EndOp] = CostOf(strategy, Costs(node.state), goals)
      BY <2>1, Zenon DEF AInit, PrecOf
    <2>3. QED
      BY <1>4, <2>2
  <1>6. cost \in Nat /\ (cost = 0 <=> goals \subseteq node.state)
    BY <1>3, EstimateGiven, CostZero DEF Searching
  <1>7. cost = MaxTime /\ DeadEndsRight => Hopeless(goals, node.state)
    BY <1>3, DeadEndIsHopeless DEF Searching
  <1> HIDE DEF cost
  <1>8. QED
    BY <1>2, <1>3, <1>5, <1>6, <1>7, StripsAssumption DEF IsGoal, IsDead

LEMMA EvaluateSearching ==
  ASSUME Searching, PathInv, OwnCounted, Evaluate
  PROVE  Searching'
  <1>1. node.state \in StateSpace
    BY EvaluateFinds
  <1>2. evaluated_nodes' \in 0 .. nodes_limit'
    BY DEF Evaluate, LimitHit, Searching, scope, request
  <1>3. \A s \in DOMAIN memo' : \E other \in Strategies : memo'[s] = Estimate(s, other)
    <2>1. CASE ~Dae
      BY <2>1 DEF Evaluate, Searching
    <2>2. CASE Dae
      <3>1. memo' = Remembered(node.state)
        BY <2>2 DEF Evaluate
      <3>2. \A s \in DOMAIN memo' : memo'[s] = IF s = node.state THEN Costs(s) ELSE memo[s]
        BY <3>1 DEF Remembered
      <3>3. \A s \in DOMAIN memo' : s = node.state \/ s \in DOMAIN memo
        BY <3>1 DEF Remembered
      <3>4. QED
        BY <1>1, <3>2, <3>3, CostsAreEstimates DEF Searching
    <2>3. QED
      BY <2>1, <2>2 DEF Searching, SeqAssumption
  <1>4. UNCHANGED <<goals, strategy, nodes_limit, anytime>>
    BY DEF Evaluate, scope, request
  <1>5. CASE PlanFound(Numbered)
    BY <1>2, <1>3, <1>4, <1>5 DEF PlanFound, Leave, Searching
  <1>6. CASE CloseNode /\ pc' \in {"null", "extract"} /\ (anytime \/ UNCHANGED best_makespan)
    <2>1. closed_list' \subseteq StateSpace
      BY <1>1, <1>6 DEF CloseNode, Searching
    <2>2. pc' # "idle" /\ ~anytime' => best_makespan' = MaxTime
      BY <1>4, <1>6 DEF Evaluate, Searching
    <2>3. QED
      BY <1>2, <1>3, <1>4, <1>6, <2>1, <2>2 DEF Searching
  <1>7. QED
    BY <1>5, <1>6 DEF Evaluate

LEMMA SearchingStep == Searching /\ PathInv /\ OwnCounted /\ [Next]_vars => Searching'
  <1> SUFFICES ASSUME Searching, PathInv, OwnCounted, [Next]_vars PROVE Searching'
    OBVIOUS
  <1>1. CASE Reset \/ \E q \in Queries : Refuse(q)
    BY <1>1 DEF Reset, Refuse, Searching, scope, request, counts, lists, walk
  <1>2. ASSUME NEW s \in Settings, SetStrategy(s) PROVE Searching'
    BY <1>2, SeqAssumption DEF SetStrategy, Searching, scope, request, counts, lists, walk
  <1>3. ASSUME NEW q \in Queries, Call(q) PROVE Searching'
    <2>1. q[1] \in SUBSET Fluent /\ q[2] \in Nat
      BY SeqAssumption
    <2>2. goals' \in SUBSET Fluent /\ nodes_limit' \in Nat /\ evaluated_nodes' = 0
      BY <1>3, <2>1 DEF Call
    <2>3. /\ UNCHANGED <<strategy, anytime, memo, closed_list>>
          /\ pc = "idle" /\ pc' = "compute" /\ best_makespan' = MaxTime
      BY <1>3 DEF Call, lists
    <2>4. QED
      BY <2>2, <2>3 DEF Searching
  <1>4. CASE Discard
    <2>1. node.state \in StateSpace
      BY <1>4, NodedIsNode DEF Discard, OwnCounted, Nodes, PathInv, Pathed, Scheduled
    <2>2. closed_list' \subseteq StateSpace
      BY <1>4, <2>1 DEF Discard, CloseNode, Searching
    <2>3. QED
      BY <1>4, <2>2 DEF Discard, Searching, scope, request, counts
  <1>5. CASE Extract \/ Extracted \/ Exchange \/ SweepAgain \/ OpenInsert \/ ApplyNext \/ Repair
             \/ Lookahead \/ TryAction \/ Expanded
    <2>1. /\ UNCHANGED <<goals, strategy, nodes_limit, evaluated_nodes, best_makespan, anytime, memo, closed_list>>
          /\ pc # "idle" /\ pc' # "idle" /\ (pc' = "pop" => parent' = NoNode)
      BY <1>5 DEF Extract, Extracted, Exchange, SweepAgain, OpenInsert, ApplyNext, Repair,
                  Lookahead, TryAction, Expanded, scope, request, counts, lists
    <2>2. QED
      BY <2>1 DEF Searching
  <1>6. CASE Null \/ Pop
    <2>1. UNCHANGED <<goals, strategy, nodes_limit, evaluated_nodes, best_makespan, anytime, memo>> /\ pc # "idle"
      BY <1>6 DEF Null, Pop, scope, request, counts
    <2>2. CASE NoPlanFound
      BY <2>1, <2>2 DEF NoPlanFound, Leave, Searching
    <2>3. CASE UNCHANGED closed_list /\ pc' # "idle" /\ (pc' = "pop" => parent' = NoNode)
      BY <2>1, <2>3 DEF Searching
    <2>4. QED
      BY <1>6, <2>2, <2>3 DEF Null, Pop, lists, walk
  <1>7. CASE UNCHANGED vars
    <2>1. /\ UNCHANGED <<pc, goals, strategy, nodes_limit, evaluated_nodes, best_makespan, anytime,
                         closed_list, parent>>
          /\ memo' = memo \/ memo' = <<>>
      BY <1>7 DEF vars, scope, request, counts, lists, walk
    <2>2. DOMAIN <<>> = {}
      OBVIOUS
    <2>3. QED
      BY <2>1, <2>2 DEF Searching
  <1>8. QED
    BY <1>1, <1>2, <1>3, <1>4, <1>5, <1>6, <1>7, EvaluateSearching DEF Next, Step

(* What a closed state still waits for: nothing where there is no hope; to be
   expanded; or that all its sons are closed, in the making or to be tried.  *)
Known == closed_list \cup (IF pc = "compute" THEN {node.state} ELSE {})

Held(s) ==
  \/ \E n \in open_list : n.state = s
  \/ pc \in {"extract", "sort"} /\ node.state = s

Pending(s, a) == parent # NoNode /\ parent.state = s /\ a \in todo

Tried(s) == \A a \in Ops : CanApply(s, a) => Result(s, a) \in Known \/ Pending(s, a)

Settled(s) == Hopeless(goals, s) \/ Held(s) \/ Tried(s)

Unbounded == pc # "idle" /\ ~anytime /\ ~LimitHit

Explored ==
  Unbounded =>
    /\ current_state \in Known
    /\ \A s \in closed_list : ~(goals \subseteq s) /\ Settled(s)

(* Steps that lose nothing: no state known is forgotten, a state held is held
   still or all its sons are to be tried, an action to be tried stays so or
   its son is known, and a state that is closed is settled.                  *)
Keeps ==
  /\ pc # "idle" /\ (~LimitHit' => ~LimitHit) /\ UNCHANGED <<goals, current_state, anytime>>
  /\ Known \subseteq Known'
  /\ \A s \in StateSpace : Held(s) => Held(s)' \/ Tried(s)'
  /\ \A s \in StateSpace : \A a \in Ops : Pending(s, a) => Pending(s, a)' \/ Result(s, a) \in Known'

LEMMA KeepsExplored ==
  ASSUME Searching, Explored, Keeps,
         Unbounded' => \A s \in closed_list' \ closed_list : ~(goals \subseteq s) /\ Settled(s)'
  PROVE  Explored'
  <1> SUFFICES ASSUME Unbounded'
               PROVE  /\ current_state' \in Known'
                      /\ \A s \in closed_list' : ~(goals' \subseteq s) /\ Settled(s)'
    BY DEF Explored
  <1>1. /\ current_state \in Known /\ UNCHANGED <<goals, current_state>>
        /\ \A s \in closed_list : s \in StateSpace /\ ~(goals \subseteq s) /\ Settled(s)
    BY DEF Explored, Keeps, Unbounded, Searching
  <1>2. ASSUME NEW s \in StateSpace, Settled(s) PROVE Settled(s)'
    <2>1. CASE Tried(s)
      <3>1. ASSUME NEW a \in Ops, CanApply(s, a)
            PROVE  Result(s, a) \in Known' \/ Pending(s, a)'
        <4>1. Result(s, a) \in Known \/ Pending(s, a)
          BY <2>1, <3>1 DEF Tried
        <4>2. QED
          BY <4>1 DEF Keeps
      <3>2. Tried(s)'
        BY <3>1 DEF Tried
      <3>3. QED
        BY <3>2 DEF Settled
    <2>2. CASE Held(s)
      BY <2>2 DEF Keeps, Settled
    <2>3. CASE Hopeless(goals, s)
      BY <1>1, <2>3 DEF Settled
    <2>4. QED
      BY <1>2, <2>1, <2>2, <2>3 DEF Settled
  <1>3. current_state' \in Known'
    BY <1>1 DEF Keeps
  <1>4. QED
    BY <1>1, <1>2, <1>3

LEMMA InitExplored == Init => Explored
  BY DEF Init, Explored, Unbounded

LEMMA IdleExplored ==
  ASSUME pc' = "idle"
  PROVE  Explored'
  BY DEF Explored, Unbounded

LEMMA CallExplored ==
  ASSUME Searching, NEW q \in Queries, Call(q)
  PROVE  Explored'
  <1>1. closed_list' = {} /\ pc' = "compute" /\ node' = RootNode(current_state) /\ UNCHANGED current_state
    BY DEF Call, lists, Searching
  <1>2. node'.state = current_state
    BY <1>1 DEF RootNode
  <1>3. QED
    BY <1>1, <1>2 DEF Explored, Known

LEMMA DiscardExplored ==
  ASSUME Searching, Explored, InTime, Discard
  PROVE  Explored'
  <1>1. /\ pc = "compute" /\ pc' = "null"
        /\ UNCHANGED <<goals, current_state, anytime, nodes_limit, evaluated_nodes, best_makespan, open_list, parent, todo>>
    BY DEF Discard, scope, request, answer, counts, walk
  <1>2. closed_list' = closed_list \cup {node.state}
    BY DEF Discard, CloseNode
  <1>3. Keeps
    BY <1>1, <1>2 DEF Keeps, Known, Held, Pending, LimitHit
  <1>4. Unbounded' => \A s \in closed_list' \ closed_list : FALSE
    <2> SUFFICES ASSUME Unbounded', NEW s \in closed_list' \ closed_list PROVE FALSE
      OBVIOUS
    <2>1. node.state \notin closed_list
      BY <1>2
    <2>2. node.makespan >= best_makespan /\ best_makespan = MaxTime
      BY <1>1, <2>1 DEF Discard, Unbounded, LimitHit, Searching
    <2>3. ~(node.makespan >= MaxTime)
      BY <1>1 DEF InTime
    <2>4. QED
      BY <2>2, <2>3
  <1>5. QED
    BY <1>3, <1>4, KeepsExplored

LEMMA EvaluateExplored ==
  ASSUME Searching, PathInv, OwnCounted, Explored, DeadEndsRight, Evaluate
  PROVE  Explored'
  <1>1. CASE PlanFound(Numbered)
    BY <1>1, IdleExplored DEF PlanFound, Leave
  <1>2. CASE CloseNode /\ pc' \in {"null", "extract"} /\ UNCHANGED <<current_state, open_list, parent, todo>>
             /\ (pc' = "null" => anytime \/ IsDead) /\ (pc' = "extract" => ~IsGoal)
    <2>1. /\ closed_list' = closed_list \cup {node.state} /\ node' = Numbered
          /\ pc = "compute" /\ UNCHANGED <<goals, anytime, nodes_limit>> /\ evaluated_nodes' = evaluated_nodes + 1
      BY <1>2 DEF Evaluate, CloseNode, scope, request
    <2>2. ~LimitHit
      BY DEF Evaluate
    <2>3. Keeps
      BY <1>2, <2>1, <2>2 DEF Keeps, Known, Held, Pending
    <2>4. PICK t : t = node.state
      OBVIOUS
    <2>5. Unbounded' => ~(goals \subseteq t) /\ Settled(t)'
      <3> SUFFICES ASSUME Unbounded' PROVE ~(goals \subseteq t) /\ Settled(t)'
        OBVIOUS
      <3>1. CASE pc' = "null"
        <4>1. IsDead
          BY <1>2, <2>1, <3>1 DEF Unbounded
        <4>2. ~(goals \subseteq t) /\ Hopeless(goals, t)
          BY <2>4, <4>1, EvaluateFinds
        <4>3. Hopeless(goals', t)
          BY <2>1, <4>2
        <4>4. QED
          BY <4>2, <4>3 DEF Settled
      <3>2. CASE pc' = "extract"
        <4>1. ~(goals \subseteq t) /\ node'.state = t
          BY <1>2, <2>1, <2>4, <3>2, EvaluateFinds
        <4>2. Held(t)'
          BY <3>2, <4>1 DEF Held
        <4>3. QED
          BY <4>1, <4>2 DEF Settled
      <3>3. QED
        BY <1>2, <3>1, <3>2
    <2>6. \A s \in closed_list' \ closed_list : s = t
      BY <2>1, <2>4
    <2>7. QED
      BY <2>3, <2>5, <2>6, KeepsExplored
  <1>3. QED
    BY <1>1, <1>2 DEF Evaluate, answer, walk

LEMMA OpenInsertExplored ==
  ASSUME Searching, OwnCounted, Explored, OpenInsert
  PROVE  Explored'
  <1>1. /\ pc = "sort" /\ pc' = "apply" /\ Noded(node)
        /\ open_list' = open_list \cup {node'} /\ node' = [node EXCEPT !.fvalue = GValue(node) + ainit[EndOp] * Weight]
        /\ UNCHANGED <<goals, current_state, anytime, nodes_limit, evaluated_nodes, closed_list, parent, todo>>
    BY DEF OpenInsert, OwnCounted, scope, request, answer, counts, walk
  <1>2. node'.state = node.state
    BY <1>1 DEF Noded, Fields
  <1>3. \A s \in StateSpace : Held(s) => Held(s)'
    BY <1>1, <1>2 DEF Held
  <1>4. Keeps
    BY <1>1, <1>3 DEF Keeps, Known, Pending, LimitHit
  <1>5. QED
    BY <1>1, <1>4, KeepsExplored

LEMMA LookaheadExplored ==
  ASSUME Searching, Explored, Lookahead
  PROVE  Explored'
  <1>1. /\ pc = "apply" /\ pc' = "compute"
        /\ UNCHANGED <<goals, current_state, anytime, nodes_limit, evaluated_nodes, lists, parent, todo>>
    BY DEF Lookahead, scope, request, answer, counts, walk
  <1>2. Keeps
    BY <1>1 DEF Keeps, Known, Held, Pending, LimitHit, lists
  <1>3. QED
    BY <1>1, <1>2, KeepsExplored DEF lists

LEMMA PopExplored ==
  ASSUME Searching, OwnCounted, Explored, Pop
  PROVE  Explored'
  <1>1. CASE NoPlanFound
    BY <1>1, IdleExplored DEF NoPlanFound, Leave
  <1>2. ASSUME pc' = "expand", UNCHANGED <<node, son, closed_list, answer>>,
               NEW n \in open_list, open_list' = open_list \ {n}, parent' = n,
               todo' = ApplicableActions(n.state), n # NoNode
        PROVE  Explored'
    <2>1. /\ pc = "pop" /\ parent = NoNode
          /\ UNCHANGED <<goals, current_state, anytime, nodes_limit, evaluated_nodes>>
      BY <1>2 DEF Pop, Searching, scope, request, counts, answer
    <2>2. Tried(n.state)'
      BY <1>2 DEF Tried, Pending, ApplicableActions
    <2>3. \A s \in StateSpace : Held(s) => Held(s)' \/ Tried(s)'
      <3> SUFFICES ASSUME NEW s \in StateSpace, Held(s) PROVE Held(s)' \/ Tried(s)'
        OBVIOUS
      <3>1. PICK m \in open_list : m.state = s
        BY <2>1 DEF Held
      <3>2. CASE m = n
        BY <2>2, <3>1, <3>2
      <3>3. CASE m # n
        BY <1>2, <3>1, <3>3 DEF Held
      <3>4. QED
        BY <3>2, <3>3
    <2>4. Keeps
      BY <1>2, <2>1, <2>3 DEF Keeps, Known, Pending, LimitHit
    <2>5. QED
      BY <1>2, <2>4, KeepsExplored
  <1>3. ASSUME NEW n \in open_list PROVE n # NoNode
    BY NodedIsNode DEF OwnCounted
  <1>4. QED
    BY <1>1, <1>2, <1>3 DEF Pop

LEMMA TryActionExplored ==
  ASSUME Searching, PathInv, OwnCounted, Explored, TryAction
  PROVE  Explored'
  <1> DEFINE a == Min(todo)
  <1>1. /\ pc = "expand" /\ pc' = "compute" /\ todo' = todo \ {a}
        /\ node' = ApplyAction(NodeDerive(parent), a)
        /\ UNCHANGED <<goals, current_state, anytime, nodes_limit, evaluated_nodes, lists, parent>>
    BY DEF TryAction, scope, request, answer, counts
  <1>2. Noded(parent)
    BY <1>1 DEF OwnCounted
  <1> HIDE DEF a
  <1>3. node'.state = Result(parent.state, a)
    BY <1>1, <1>2 DEF Noded, Fields, NodeDerive, ApplyAction
  <1>4. \A s \in StateSpace, b \in Ops : Pending(s, b) => Pending(s, b)' \/ Result(s, b) \in Known'
    BY <1>1, <1>3 DEF Pending, Known
  <1>5. Keeps
    BY <1>1, <1>4 DEF Keeps, Known, Held, LimitHit, lists
  <1>6. QED
    BY <1>1, <1>5, KeepsExplored DEF lists

LEMMA ExploredStep ==
  ASSUME DeadEndsRight
  PROVE  Searching /\ PathInv /\ OwnCounted /\ Explored /\ InTime /\ [Next]_vars => Explored'
  <1> SUFFICES ASSUME Searching, PathInv, OwnCounted, Explored, InTime, [Next]_vars PROVE Explored'
    OBVIOUS
  <1>1. CASE Reset \/ (\E s \in Settings : SetStrategy(s)) \/ \E q \in Queries : Refuse(q)
    <2>1. pc' = "idle"
      BY <1>1 DEF Reset, SetStrategy, Refuse
    <2>2. QED
      BY <2>1, IdleExplored
  <1>2. CASE Extract \/ Extracted \/ Exchange \/ SweepAgain \/ ApplyNext \/ Repair
    <2>1. /\ UNCHANGED <<goals, current_state, anytime, nodes_limit, evaluated_nodes, node, lists, parent, todo>>
          /\ \/ pc = "extract" /\ pc' \in {"extract", "sort"}
             \/ pc = "sort" /\ pc' = "sort"
             \/ pc = "apply" /\ pc' \in {"apply", "null"}
      BY <1>2 DEF Extract, Extracted, Exchange, SweepAgain, ApplyNext, Repair, scope, request, answer, counts, walk
    <2>2. Keeps
      BY <2>1 DEF Keeps, Known, Held, Pending, LimitHit, lists
    <2>3. QED
      BY <2>1, <2>2, KeepsExplored DEF lists
  <1>3. CASE Null
    <2>1. CASE NoPlanFound
      BY <2>1, IdleExplored DEF NoPlanFound, Leave
    <2>2. CASE pc' \in {"pop", "expand"} /\ UNCHANGED <<lists, answer, walk>>
      <3>1. /\ pc = "null"
            /\ UNCHANGED <<goals, current_state, anytime, nodes_limit, evaluated_nodes, lists, parent, todo>>
        BY <1>3, <2>2 DEF Null, scope, request, answer, counts, walk
      <3>2. Keeps
        BY <2>2, <3>1 DEF Keeps, Known, Held, Pending, LimitHit, lists
      <3>3. QED
        BY <3>1, <3>2, KeepsExplored DEF lists
    <2>3. QED
      BY <1>3, <2>1, <2>2 DEF Null
  <1>4. CASE Expanded
    <2>1. /\ pc = "expand" /\ pc' = "pop" /\ todo = {}
          /\ UNCHANGED <<goals, current_state, anytime, nodes_limit, evaluated_nodes, lists>>
      BY <1>4 DEF Expanded, scope, request, answer, counts
    <2>2. Keeps
      BY <2>1 DEF Keeps, Known, Held, Pending, LimitHit, lists
    <2>3. QED
      BY <2>1, <2>2, KeepsExplored DEF lists
  <1>5. CASE UNCHANGED vars
    <2>1. UNCHANGED <<pc, goals, current_state, anytime, nodes_limit, evaluated_nodes, node, lists, parent, todo>>
      BY <1>5 DEF vars, scope, request, answer, counts, walk
    <2>2. QED
      BY <2>1 DEF Explored, Unbounded, Known, Settled, Held, Tried, Pending, LimitHit, lists
  <1>6. QED
    BY <1>1, <1>2, <1>3, <1>4, <1>5, CallExplored, DiscardExplored, EvaluateExplored,
       OpenInsertExplored, LookaheadExplored, PopExplored, TryActionExplored DEF Next, Step

LEMMA InvariantsHold == Spec => [](Searching /\ PathInv /\ OwnCounted)
  BY InitSearching, SearchingStep, InitPathInv, PathInvStep, InitOwnCounted, OwnCountedStep, PTL DEF Spec

LEMMA ExploredHolds ==
  ASSUME DeadEndsRight
  PROVE  Spec /\ []InTime => []Explored
  <1>1. Searching /\ PathInv /\ OwnCounted /\ Explored /\ InTime /\ [Next]_vars => Explored'
    BY ExploredStep
  <1>2. QED
    BY <1>1, InitExplored, InvariantsHold, PTL DEF Spec

(* While the search has neither hit its limit nor, if it goes on after one,
   found a plan, it loses no reachable state, whatever the lookahead tries,
   finds or gives up: yahsp_plan and compute_node close no state but those
   without hope before all their sons are made.                            *)
THEOREM NothingIsLost == DeadEndsRight => (Spec /\ []InTime => []NothingLost)
  <1> SUFFICES ASSUME DeadEndsRight PROVE Spec /\ []InTime => []NothingLost
    OBVIOUS
  <1>1. Searching /\ OwnCounted /\ Explored => NothingLost
    <2> SUFFICES ASSUME Searching, OwnCounted, Explored, Unbounded, NEW s \in closed_list
                 PROVE  \/ ~(goals \subseteq Attainable[s])
                        \/ \E n \in open_list \cup ({node} \ {NoNode}) : n.state = s
                        \/ parent # NoNode /\ parent.state = s /\ Forgotten(s) \subseteq todo
                        \/ Forgotten(s) = {}
      BY DEF NothingLost, Unbounded
    <2>1. CASE Hopeless(goals, s)
      BY <2>1 DEF Hopeless
    <2>2. pc \in {"compute", "extract", "sort"} => node # NoNode
      BY NodedIsNode DEF OwnCounted
    <2>3. CASE Held(s)
      BY <2>2, <2>3 DEF Held
    <2>4. CASE Tried(s)
      <3>1. \A a \in Forgotten(s) : a \in Ops /\ CanApply(s, a) /\ Result(s, a) \notin Known
        BY <2>2 DEF Forgotten, Known
      <3>2. \A a \in Forgotten(s) : Pending(s, a)
        BY <2>4, <3>1 DEF Tried
      <3>3. QED
        BY <3>2 DEF Pending
    <2>5. QED
      BY <2>1, <2>3, <2>4 DEF Explored, Settled
  <1>2. QED
    BY <1>1, ExploredHolds, InvariantsHold, PTL

-----------------------------------------------------------------------------
(* Answers.                                                                 *)

LEMMA SameExecuted == \A s, steps : P!Executed(s, steps) = Executed(s, steps)
  BY Zenon DEF P!Executed, Executed, P!CanApply, CanApply, P!Result, Result, P!Broken, Broken,
               P!FoldLeft, FoldLeft, P!MapThenFoldSet, MapThenFoldSet, P!Max, Max

LEMMA SameLeads == \A s, steps, t : P!LeadsTo(s, steps, t) = LeadsTo(s, steps, t)
  <1>1. P!TiesInOrder = TiesInOrder
    BY Zenon DEF P!TiesInOrder, TiesInOrder, P!MustPrecede, MustPrecede
  <1>2. /\ \A steps, order : P!Rearranged(steps, order) = Rearranged(steps, order)
        /\ \A steps : P!Bijection(DOMAIN steps, DOMAIN steps) = Bijection(DOMAIN steps, DOMAIN steps)
    BY Zenon DEF P!Rearranged, Rearranged, P!Bijection, Bijection, P!Injection, Injection,
                 P!IsInjective, IsInjective, P!Surjection, Surjection
  <1>3. ASSUME NEW s, NEW steps, NEW t PROVE P!LeadsTo(s, steps, t) = LeadsTo(s, steps, t)
    <2> DEFINE Orders == Bijection(DOMAIN steps, DOMAIN steps)
               Others == P!Bijection(DOMAIN steps, DOMAIN steps)
    <2>1. P!LeadsTo(s, steps, t) =
            IF P!TiesInOrder THEN P!Executed(s, steps) = t
            ELSE \E order \in Others : P!Executed(s, P!Rearranged(steps, order)) = t
      BY Zenon DEF P!LeadsTo
    <2>9. Others = Orders
      BY <1>2, Zenon
    <2>2. LeadsTo(s, steps, t) =
            IF TiesInOrder THEN Executed(s, steps) = t
            ELSE \E order \in Orders : Executed(s, Rearranged(steps, order)) = t
      BY Zenon DEF LeadsTo
    <2>3. P!Executed(s, steps) = Executed(s, steps)
      BY SameExecuted, Zenon
    <2>4. \A order : P!Executed(s, P!Rearranged(steps, order)) = Executed(s, Rearranged(steps, order))
      BY <1>2, SameExecuted, Zenon
    <2> HIDE DEF Orders, Others
    <2>5. (\E order \in Others : P!Executed(s, P!Rearranged(steps, order)) = t)
            <=> (\E order \in Orders : Executed(s, Rearranged(steps, order)) = t)
      BY <2>4, <2>9, Zenon
    <2>6. CASE TiesInOrder
      BY <1>1, <2>1, <2>2, <2>3, <2>6, Zenon
    <2>7. CASE ~TiesInOrder
      BY <1>1, <2>1, <2>2, <2>5, <2>7, Zenon
    <2>8. QED
      BY <2>6, <2>7, Zenon
  <1>4. QED
    BY <1>3, Zenon

LEMMA SameReachable == \A s, g : P!Reachable(s, g) = Reachable(s, g)
  BY Zenon DEF P!Reachable, Reachable, P!StatesFrom, StatesFrom, P!Spread, Spread, P!StateSpace, StateSpace,
               P!CanApply, CanApply, P!Result, Result, P!FoldSet, FoldSet, P!MapThenFoldSet, MapThenFoldSet,
               P!Cardinality, Cardinality

Query == IF pc = "idle" THEN <<>> ELSE <<goals, nodes_limit>>
Effort == IF pc = "idle" THEN evaluated_nodes ELSE 0

LEMMA InitAnswers == Init => P!Init
  <1> SUFFICES ASSUME Init PROVE P!Init
    OBVIOUS
  <1>1. anytime \in BOOLEAN
    BY SeqAssumption DEF Init
  <1>2. /\ pc = "idle" /\ current_state = InitState /\ code = "" /\ evaluated_nodes = 0
        /\ solution_plan = NoPlan
    BY Zenon DEF Init
  <1>3. QED
    BY <1>1, <1>2, Zenon DEF P!Init, P!NoPlan, NoPlan

LEMMA QueryIsSome == \A g, limit : <<g, limit>> # <<>> /\ <<g, limit>>[1] = g /\ <<g, limit>>[2] = limit
  OBVIOUS

(* Inside a call nothing of the interface changes.                         *)
LEMMA InsideAnswers ==
  ASSUME pc # "idle", pc' # "idle", UNCHANGED <<goals, nodes_limit, anytime, answer>>
  PROVE  UNCHANGED P!pvars
  BY Zenon DEF P!pvars, answer

LEMMA RefusedAnswers ==
  ASSUME NEW q \in Queries, Refuse(q)
  PROVE  P!Refuse(q)
  <1>1. /\ pc = "idle" /\ pc' = "idle" /\ Mutex(q[1]) /\ code' = "GOALS_MUTEX"
        /\ UNCHANGED <<anytime, current_state, solution_plan, evaluated_nodes>>
    BY DEF Refuse, counts
  <1>2. QED
    BY <1>1, Zenon DEF P!Refuse

LEMMA AskedAnswers ==
  ASSUME NEW q \in Queries, Call(q)
  PROVE  P!Ask(q)
  <1>1. /\ pc = "idle" /\ pc' = "compute" /\ goals' = q[1] /\ nodes_limit' = q[2]
        /\ code' = "" /\ solution_plan' = NoPlan
        /\ UNCHANGED <<anytime, current_state>>
    BY DEF Call
  <1>2. q = <<goals', nodes_limit'>>
    <2>1. q \in (SUBSET Fluent) \X Nat
      BY SeqAssumption
    <2>2. q = <<q[1], q[2]>>
      BY <2>1
    <2>3. QED
      BY <1>1, <2>2
  <1>3. pc' # "idle"
    BY <1>1
  <1>4. QED
    BY <1>1, <1>2, <1>3, Zenon DEF P!Ask, P!NoPlan, NoPlan

LEMMA FoundAnswers ==
  ASSUME Searching, PathInv, OwnCounted, Evaluate, PlanFound(Numbered), IsGoal, ~anytime
  PROVE  P!Found
  <1>1. /\ node.state \in StateSpace /\ Pathed(current_state, Numbered)
        /\ Numbered.state = node.state /\ goals \subseteq node.state
    BY EvaluateFinds
  <1>2. /\ pc = "compute" /\ pc' = "idle" /\ code' = "PLAN_FOUND" /\ current_state' = node.state
        /\ solution_plan' = SolutionPlan(Numbered, evaluated_nodes')
        /\ UNCHANGED <<anytime, goals, nodes_limit>>
        /\ evaluated_nodes' = evaluated_nodes + 1 /\ evaluated_nodes < nodes_limit
    <2>1. /\ pc = "compute" /\ pc' = "idle" /\ code' = "PLAN_FOUND" /\ current_state' = node.state
          /\ solution_plan' = SolutionPlan(Numbered, evaluated_nodes')
          /\ UNCHANGED <<anytime, goals, nodes_limit>>
          /\ evaluated_nodes' = evaluated_nodes + 1 /\ ~LimitHit
      BY <1>1 DEF Evaluate, PlanFound, Leave, scope, request
    <2>2. QED
      BY <2>1 DEF LimitHit, Searching
  <1>3. /\ solution_plan'.steps = InPlanOrder(Numbered.steps)
        /\ solution_plan'.backtracks = evaluated_nodes'
    BY <1>2 DEF SolutionPlan
  <1>4. LeadsTo(current_state, InPlanOrder(Numbered.steps), node.state)
    BY <1>1, ScheduledLeads DEF Pathed
  <1>5. P!LeadsTo(current_state, solution_plan'.steps, node.state)
    BY <1>3, <1>4, SameLeads
  <1>6. node.state # P!Broken
    BY <1>1, BrokenIsNoState DEF P!Broken, Broken
  <1>7. evaluated_nodes' \in 1 .. nodes_limit
    BY <1>2 DEF Searching
  <1>8. pc # "idle" /\ <<goals, nodes_limit>> # <<>>
        /\ <<goals, nodes_limit>>[1] = goals /\ <<goals, nodes_limit>>[2] = nodes_limit
    BY <1>2
  <1>9. QED
    BY <1>1, <1>2, <1>3, <1>5, <1>6, <1>7, <1>8, Zenon DEF P!Found

(* Without a plan: the limit is hit, or the open list is empty and all that
   the current state leads to is closed.                                   *)
LEMMA NotFoundAnswers ==
  ASSUME Searching, Explored, Null \/ Pop, NoPlanFound
  PROVE  P!NotFound
  <1>1. /\ pc # "idle" /\ pc' = "idle" /\ code' = "NO_PLAN"
        /\ UNCHANGED <<anytime, current_state, solution_plan, goals, nodes_limit, evaluated_nodes>>
    BY DEF Null, Pop, NoPlanFound, Leave, scope, request, counts
  <1>2. evaluated_nodes < nodes_limit /\ ~anytime => ~Reachable(current_state, goals)
    <2> SUFFICES ASSUME evaluated_nodes < nodes_limit, ~anytime PROVE ~Reachable(current_state, goals)
      OBVIOUS
    <2>1. ~LimitHit
      BY DEF LimitHit, Searching
    <2>2. pc = "pop" /\ open_list = {} /\ parent = NoNode
      BY <1>1, <2>1 DEF Null, Pop, Searching
    <2>3. current_state \in closed_list /\ \A s \in closed_list : ~(goals \subseteq s) /\ Settled(s)
      BY <1>1, <2>1, <2>2 DEF Explored, Unbounded, Known
    <2>4. \A s \in closed_list :
            Hopeless(goals, s) \/ \A a \in Ops : CanApply(s, a) => Result(s, a) \in closed_list
      BY <2>2, <2>3 DEF Settled, Held, Tried, Pending, Known
    <2>5. QED
      BY <2>3, <2>4, Exhausted DEF Searching
  <1>3. evaluated_nodes' \in 0 .. nodes_limit
    BY <1>1 DEF Searching
  <1>4. /\ <<goals, nodes_limit>> # <<>>
        /\ <<goals, nodes_limit>>[1] = goals /\ <<goals, nodes_limit>>[2] = nodes_limit
    OBVIOUS
  <1>5. QED
    BY <1>1, <1>2, <1>3, <1>4, SameReachable, Zenon DEF P!NotFound

LEMMA StepAnswers ==
  ASSUME Searching, PathInv, OwnCounted, Explored, [Next]_vars
  PROVE  [P!Next]_P!pvars
  <1>1. CASE Reset
    <2>1. /\ pc = "idle" /\ pc' = "idle" /\ current_state' = InitState
          /\ UNCHANGED <<anytime, code, solution_plan, evaluated_nodes>>
      BY <1>1 DEF Reset, scope, counts
    <2>2. P!Reset
      BY <2>1, Zenon DEF P!Reset
    <2>3. QED
      BY <2>2 DEF P!Next
  <1>2. CASE \E s \in Settings : SetStrategy(s)
    <2>1. /\ pc = "idle" /\ pc' = "idle" /\ UNCHANGED <<anytime, answer, evaluated_nodes>>
      BY <1>2 DEF SetStrategy, counts
    <2>2. QED
      BY <2>1, Zenon DEF P!pvars, answer
  <1>3. CASE \E q \in Queries : Refuse(q) \/ Call(q)
    BY <1>3, RefusedAnswers, AskedAnswers DEF P!Next
  <1>4. CASE Evaluate
    <2>1. CASE IsGoal /\ ~anytime /\ PlanFound(Numbered)
      BY <1>4, <2>1, FoundAnswers DEF P!Next
    <2>2. CASE pc' \in {"null", "extract"} /\ UNCHANGED answer
      <3>1. pc # "idle" /\ UNCHANGED <<goals, nodes_limit, anytime>>
        BY <1>4 DEF Evaluate, scope, request
      <3>2. QED
        BY <2>2, <3>1, InsideAnswers
    <2>3. QED
      BY <1>4, <2>1, <2>2 DEF Evaluate
  <1>5. CASE Null \/ Pop
    <2>1. CASE NoPlanFound
      BY <1>5, <2>1, NotFoundAnswers DEF P!Next
    <2>2. CASE pc' \in {"pop", "expand"} /\ UNCHANGED answer
      <3>1. pc # "idle" /\ UNCHANGED <<goals, nodes_limit, anytime>>
        BY <1>5 DEF Null, Pop, scope, request
      <3>2. QED
        BY <2>2, <3>1, InsideAnswers
    <2>3. QED
      BY <1>5, <2>1, <2>2 DEF Null, Pop
  <1>6. CASE Discard \/ Extract \/ Extracted \/ Exchange \/ SweepAgain \/ OpenInsert \/ ApplyNext \/ Repair
             \/ Lookahead \/ TryAction \/ Expanded
    <2>1. pc # "idle" /\ pc' # "idle" /\ UNCHANGED <<goals, nodes_limit, anytime, answer>>
      BY <1>6 DEF Discard, Extract, Extracted, Exchange, SweepAgain, OpenInsert, ApplyNext, Repair,
                  Lookahead, TryAction, Expanded, scope, request
    <2>2. QED
      BY <2>1, InsideAnswers
  <1>7. CASE UNCHANGED vars
    <2>1. UNCHANGED <<pc, goals, nodes_limit, anytime, answer, evaluated_nodes>>
      BY <1>7 DEF vars, scope, request, counts
    <2>2. QED
      BY <2>1, Zenon DEF P!pvars, answer
  <1>8. QED
    BY <1>1, <1>2, <1>3, <1>4, <1>5, <1>6, <1>7 DEF Next, Step

(* Whatever the heuristic is worth and the limits are, a plan that is
   returned leads from the current state to the goals, and the planner moves
   to the state it leads to.  The plan does so in the order it has, but for
   steps of length zero that tie and that their ids put in the wrong order.  *)
THEOREM PlansAreRight == Spec => [][pc # "idle" /\ pc' = "idle" /\ code' = "PLAN_FOUND" => P!Found]_vars
  <1>1. ASSUME Searching, PathInv, OwnCounted, [Next]_vars, pc # "idle", pc' = "idle", code' = "PLAN_FOUND"
        PROVE  P!Found
    <2>1. CASE Evaluate
      <3>1. IsGoal /\ ~anytime /\ PlanFound(Numbered)
        BY <1>1, <2>1 DEF Evaluate
      <3>2. QED
        BY <1>1, <2>1, <3>1, FoundAnswers
    <2>2. CASE Null \/ Pop
      BY <1>1, <2>2 DEF Null, Pop, NoPlanFound
    <2>3. CASE Discard \/ Extract \/ Extracted \/ Exchange \/ SweepAgain \/ OpenInsert \/ ApplyNext \/ Repair
               \/ Lookahead \/ TryAction \/ Expanded
      BY <1>1, <2>3 DEF Discard, Extract, Extracted, Exchange, SweepAgain, OpenInsert, ApplyNext, Repair,
                        Lookahead, TryAction, Expanded
    <2>4. CASE Reset \/ (\E s \in Settings : SetStrategy(s)) \/ (\E q \in Queries : Refuse(q) \/ Call(q))
      BY <1>1, <2>4 DEF Reset, SetStrategy, Refuse, Call
    <2>5. CASE UNCHANGED vars
      BY <1>1, <2>5 DEF vars
    <2>6. QED
      BY <1>1, <2>1, <2>2, <2>3, <2>4, <2>5 DEF Next, Step
  <1>2. Searching /\ PathInv /\ OwnCounted /\ [Next]_vars =>
          [pc # "idle" /\ pc' = "idle" /\ code' = "PLAN_FOUND" => P!Found]_vars
    BY <1>1
  <1>3. QED
    BY <1>2, InvariantsHold, PTL DEF Spec

(* The sequential search implements Planner: a call of cpt_search answers
   with a plan that leads from the current state to the goals, and moves
   there, or with a proof that there is none unless the limit was hit.
   Planner says what its order is worth where steps of length zero tie.    *)
THEOREM CallsAreAnswered == DeadEndsRight => (Spec /\ []InTime => AnswersCalls)
  <1> SUFFICES ASSUME DeadEndsRight PROVE Spec /\ []InTime => AnswersCalls
    OBVIOUS
  <1>1. Searching /\ PathInv /\ OwnCounted /\ Explored /\ [Next]_vars => [P!Next]_P!pvars
    BY StepAnswers
  <1>2. QED
    BY <1>1, InitAnswers, ExploredHolds, InvariantsHold, PTL DEF Spec, AnswersCalls, P!Spec

=============================================================================
