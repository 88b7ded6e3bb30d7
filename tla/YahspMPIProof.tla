--------------------------- MODULE YahspMPIProof ---------------------------
(***************************************************************************)
(* Theorems about the distributed search, for every problem and number of  *)
(* processes: the processes are called to the same rounds, no round raises *)
(* a bound, the plans the master gathers are plans, and all the processes  *)
(* together implement GraphSearch: no state is lost between two of them,   *)
(* and none is visited that was not waiting to be.                         *)
(***************************************************************************)
EXTENDS YahspMPIProps, FiniteSetTheorems, SequenceTheorems, WellFoundedInduction, TLAPS

Locations ==
  {"root", "poll", "closing", "computing", "pop", "expand", "round", "gather",
   "serve", "left"}

ProcTypes ==
  /\ opt \in Settings
  /\ pc \in [Procs -> Locations]
  /\ cur \in [Procs -> Node \cup {Nil}]
  /\ held \in [Procs -> Node \cup {Nil}]
  /\ todo \in [Procs -> Nat \ {0}]

ListTypes ==
  /\ open \in [Procs -> SUBSET Node]
  /\ closed \in [Procs -> SUBSET Node]

BoundTypes ==
  /\ best \in [Procs -> Nat]
  /\ mpi_best \in [Procs -> Nat]
  /\ solution \in [Procs -> Node \cup {Nil}]

MessageTypes ==
  /\ cached \in [Procs -> [Procs -> Seq(Node)]]
  /\ to_send \in [Procs -> [Procs -> Nat]]
  /\ unread \in [Procs -> Seq(Node)]
  /\ net \in [Procs -> [Procs -> Seq(Seq(Node))]]

RoundTypes ==
  /\ timer \in {"off", "on", "called"}
  /\ verdict \in {"go on", "timer", "first"}
  /\ path \in Seq(Node)
  /\ given \in Seq(Seq(Node))

TypeOK == ProcTypes /\ ListTypes /\ BoundTypes /\ MessageTypes /\ RoundTypes

(* How the local variables of a process go with its location.              *)
ProcShape(p) ==
  /\ pc[p] \in {"closing", "computing"} => cur[p] # Nil
  /\ pc[p] = "expand" => held[p] # Nil
  /\ pc[p] = "root" => p = master
  /\ IsFiniteSet(closed[p])

(* The processes collect a plan together, and leave together; the bound of
   the rounds is the same everywhere.                                      *)
RoundShape ==
  /\ (\E p \in Procs : pc[p] \in {"gather", "serve"}) =>
       /\ \A p \in Procs : pc[p] = IF p = master THEN "gather" ELSE "serve"
       /\ path # <<>>
  /\ (\E p \in Procs : pc[p] = "left") => Stopped
  /\ \A p \in Procs : mpi_best[p] = mpi_best[master] /\ mpi_best[p] <= MaxTime

Shape == RoundShape /\ \A p \in Procs : ProcShape(p)

-----------------------------------------------------------------------------
(* Every set of natural numbers that is not empty has a least element.     *)
LEMMA LeastNatural ==
  ASSUME NEW S, S \subseteq Nat, S # {}
  PROVE  \E m \in S : \A k \in S : m <= k
  <1>1. PICK m \in S : \A k \in S : ~(<<k, m>> \in OpToRel(<, Nat))
    BY NatLessThanWellFounded, WFMin
  <1>2. \A k \in S : k < m => <<k, m>> \in OpToRel(<, Nat)
    BY DEF OpToRel
  <1>3. \A k \in S : ~(k < m)
    BY <1>1, <1>2, Zenon
  <1>4. QED
    <2> HIDE <1>1, <1>2
    <2> QED
      BY <1>3, SMT

LEMMA MasterType == master \in Procs /\ Procs # {}
  BY ProcsAssumption DEF Procs, master

LEMMA SettingFacts ==
  ASSUME NEW o \in Settings, NEW s \in State
  PROVE  /\ Len(o.acts[s]) \in Nat
         /\ \A i \in 1 .. Len(o.acts[s]) :
              /\ o.acts[s][i].to \in State
              /\ o.acts[s][i].dur \in Nat
         /\ o.heur[s] \in Nat
         /\ o.look[s].to \in State /\ o.look[s].dur \in Nat /\ o.look[s].steps \in Nat
         /\ Owner[s] \in Procs
  <1>1. /\ o.acts[s] \in Seq([to : State, dur : Nat])
        /\ o.heur[s] \in Nat
        /\ o.look[s] \in [to : State, dur : Nat, steps : Nat]
        /\ Owner[s] \in Procs
    BY SettingsAssumption
  <1>2. \A i \in 1 .. Len(o.acts[s]) : o.acts[s][i] \in [to : State, dur : Nat]
    BY <1>1, ElementOfSeq
  <1>3. QED
    BY SMTT(60), <1>1, <1>2

LEMMA DeriveType ==
  ASSUME NEW p \in Procs, NEW n \in Node, NEW step, step.to \in State, step.dur \in Nat,
         NEW steps \in Nat
  PROVE  /\ Derive(p, n, step, steps) \in Node
         /\ Derive(p, n, step, steps) # Nil
  <1>1. Derive(p, n, step, steps) \in Node
    BY DEF Derive, Node
  <1>2. QED
    BY <1>1, ParametersAssumption

LEMMA RootNodeType == RootNode \in Node /\ RootNode # Nil
  <1>1. RootNode \in Node
    BY MasterType, SettingsAssumption DEF RootNode, Node
  <1>2. QED
    BY <1>1, ParametersAssumption

(* The son an action gives, and the node of the relaxed plan.              *)
LEMMA SonType ==
  ASSUME NEW o \in Settings, NEW p \in Procs, NEW n \in Node
  PROVE  /\ \A i \in 1 .. Len(o.acts[n.state]) :
              Derive(p, n, o.acts[n.state][i], 1) \in Node \ {Nil}
         /\ LET l == o.look[n.state] IN Derive(p, n, l, l.steps) \in Node \ {Nil}
  <1>1. n.state \in State
    BY DEF Node
  <1>2. QED
    BY <1>1, SettingFacts, DeriveType

(* A node with another id, or another place in the open list, is a node.   *)
LEMMA NumberedType ==
  ASSUME NEW n \in Node, NEW i \in Nat
  PROVE  [n EXCEPT !.id = i] \in Node /\ [n EXCEPT !.id = i] # Nil
  <1>1. [n EXCEPT !.id = i] \in Node
    BY DEF Node
  <1>2. QED
    BY <1>1, ParametersAssumption

LEMMA ChangedType ==
  ASSUME NEW n \in Node, NEW f \in Int
  PROVE  /\ [n EXCEPT !.f = f] \in Node
         /\ [n EXCEPT !.f = f, !.fresh = FALSE] \in Node
  BY DEF Node

(* The key that mpi_send_node puts in the batch.                            *)
LEMMA BoostedType ==
  ASSUME NEW n \in Node
  PROVE  LET m == [n EXCEPT !.f = n.f - Boost]
         IN  m \in Node /\ m.state = n.state /\ m.fresh = n.fresh
  <1>1. n.f \in Int
    BY DEF Node
  <1>2. n.f - Boost \in Int
    BY <1>1, ParametersAssumption
  <1>3. [n EXCEPT !.f = n.f - Boost] \in Node
    BY <1>2, ChangedType
  <1>4. QED
    BY <1>3 DEF Node

(* Some process has a cache that is not smaller than the others.           *)
LEMMA MaximumExists ==
  ASSUME NEW f \in [Procs -> Nat]
  PROVE  \E d \in Procs : \A e \in Procs : f[e] <= f[d]
  <1> DEFINE Good(j) == \E d \in 0 .. j : \A e \in 0 .. j : f[e] <= f[d]
             Bad == {j \in Procs : ~Good(j)}
  <1>1. Bad = {}
    <2> SUFFICES ASSUME Bad # {} PROVE FALSE
      OBVIOUS
    <2>1. PICK k \in Bad : \A j \in Bad : k <= j
      <3>1. Bad \subseteq Nat
        BY ProcsAssumption DEF Procs
      <3>2. QED
        BY <3>1, LeastNatural
    <2>2. k \in Procs /\ k \in Nat /\ k < NbProcs /\ ~Good(k)
      BY ProcsAssumption DEF Procs
    <2>3. CASE k = 0
      <3>1. 0 .. k = {0} /\ f[0] \in Nat
        BY <2>2, <2>3
      <3>2. Good(k)
        BY <3>1
      <3>3. QED
        BY <2>2, <3>2
    <2>4. CASE k # 0
      <3>1. k - 1 \in Procs /\ k - 1 \notin Bad
        <4>1. k - 1 \in Procs /\ ~(k <= k - 1)
          BY <2>2, <2>4, ProcsAssumption DEF Procs
        <4> HIDE DEF Bad
        <4>2. QED
          BY <2>1, <4>1, Zenon
      <3>2. PICK d \in 0 .. k - 1 : \A e \in 0 .. k - 1 : f[e] <= f[d]
        BY <3>1
      <3>3. \A e \in 0 .. k : e \in 0 .. k - 1 \/ e = k
        BY <2>2
      <3>4. \A e \in 0 .. k : f[e] \in Nat
        BY SMTT(60), <2>2, ProcsAssumption DEF Procs
      <3>5. CASE f[k] <= f[d]
        <4>1. d \in 0 .. k /\ \A e \in 0 .. k : f[e] <= f[d]
          BY <2>2, <3>2, <3>3, <3>5
        <4>2. QED
          BY <2>2, <4>1
      <3>6. CASE ~(f[k] <= f[d])
        <4>1. k \in 0 .. k /\ \A e \in 0 .. k : f[e] <= f[k]
          <5>1. d \in 0 .. k
            BY <2>2, <3>2
          <5>2. f[d] <= f[k]
            BY <2>2, <3>4, <3>6, <5>1
          <5>3. \A e \in 0 .. k - 1 : f[e] <= f[k]
            BY <2>2, <3>2, <3>4, <5>1, <5>2
          <5>4. QED
            BY SMTT(60), <2>2, <3>3, <3>4, <5>3
        <4>2. QED
          BY <2>2, <4>1
      <3>7. QED
        BY <3>5, <3>6
    <2>5. QED
      BY <2>3, <2>4
  <1>2. NbProcs - 1 \in Procs /\ Procs = 0 .. NbProcs - 1
    BY ProcsAssumption DEF Procs
  <1>3. Good(NbProcs - 1)
    BY <1>1, <1>2
  <1>4. QED
    BY <1>2, <1>3

LEMMA LessThrough ==
  ASSUME NEW a \in Nat, NEW b \in Nat, NEW c \in Nat, ~(a <= b), a <= c
  PROVE  b < c
  OBVIOUS

LEMMA FullestIsProc ==
  ASSUME cached \in [Procs -> [Procs -> Seq(Node)]], NEW p \in Procs
  PROVE  /\ Fullest(p) \in Procs
         /\ \A e \in Procs : Len(cached[p][e]) <= Len(cached[p][Fullest(p)])
  <1> DEFINE f == [e \in Procs |-> Len(cached[p][e])]
             Full == {d \in Procs : \A e \in Procs : f[e] <= f[d]}
  <1>1. f \in [Procs -> Nat]
    BY LenProperties
  <1> HIDE DEF f
  <1>2. PICK d \in Full : \A e \in Full : d <= e
    <2>1. \E d \in Procs : \A e \in Procs : f[e] <= f[d]
      BY <1>1, MaximumExists
    <2>2. Full # {}
      BY <2>1
    <2>3. Full \subseteq Nat
      BY ProcsAssumption DEF Procs
    <2>4. QED
      BY <2>2, <2>3, LeastNatural
  <1>3. d \in Procs /\ \A e \in Procs : f[e] \in Nat /\ f[e] <= f[d]
    BY <1>1, <1>2
  <1>4. ASSUME NEW e \in Procs PROVE f[e] < f[d] \/ (f[e] = f[d] /\ d <= e)
    <2>1. CASE e \in Full
      <3>1. f[d] <= f[e] /\ d <= e
        BY <1>2, <1>3, <2>1
      <3>2. QED
        BY SMTT(60), <1>3, <3>1
    <2>2. CASE e \notin Full
      <3>1. PICK g \in Procs : ~(f[g] <= f[e])
        BY <2>2
      <3>2. f[g] \in Nat /\ f[e] \in Nat /\ f[d] \in Nat /\ f[g] <= f[d]
        BY <1>3
      <3>3. f[e] < f[d]
        BY <3>1, <3>2, LessThrough
      <3>4. QED
        BY <3>3
    <2>3. QED
      BY <2>1, <2>2
  <1>5. \A e \in Procs :
          \/ Len(cached[p][e]) < Len(cached[p][d])
          \/ Len(cached[p][e]) = Len(cached[p][d]) /\ d <= e
    <2>1. \A e \in Procs : f[e] = Len(cached[p][e])
      BY DEF f
    <2>2. ASSUME NEW e \in Procs
          PROVE  \/ Len(cached[p][e]) < Len(cached[p][d])
                 \/ Len(cached[p][e]) = Len(cached[p][d]) /\ d <= e
      <3>1. f[e] < f[d] \/ (f[e] = f[d] /\ d <= e)
        BY <1>4
      <3>2. f[e] = Len(cached[p][e]) /\ f[d] = Len(cached[p][d])
        BY <1>3, <2>1
      <3>3. QED
        BY <3>1, <3>2, Zenon
    <2>3. QED
      BY <2>2
  <1>6. /\ Fullest(p) \in Procs
        /\ \A e \in Procs :
              \/ Len(cached[p][e]) < Len(cached[p][Fullest(p)])
              \/ Len(cached[p][e]) = Len(cached[p][Fullest(p)]) /\ Fullest(p) <= e
    BY <1>3, <1>5 DEF Fullest
  <1>7. \A e \in Procs : Len(cached[p][e]) \in Nat
    BY LenProperties
  <1>8. QED
    <2> SUFFICES ASSUME NEW e \in Procs
                 PROVE  Len(cached[p][e]) <= Len(cached[p][Fullest(p)])
      BY <1>6
    <2>1. Len(cached[p][e]) \in Nat /\ Len(cached[p][Fullest(p)]) \in Nat
      BY <1>6, <1>7
    <2>2. \/ Len(cached[p][e]) < Len(cached[p][Fullest(p)])
          \/ Len(cached[p][e]) = Len(cached[p][Fullest(p)])
      BY <1>6, Zenon
    <2>3. QED
      BY SMTT(60), <2>1, <2>2

-----------------------------------------------------------------------------
(* Messages: what the operations on the network and the caches give.       *)

LEMMA Updated ==
  ASSUME NEW S, NEW f \in [Procs -> [Procs -> S]], NEW p \in Procs, NEW q \in Procs,
         NEW x \in S
  PROVE  [f EXCEPT ![p][q] = x] \in [Procs -> [Procs -> S]]
  OBVIOUS

LEMMA UpdatedAt ==
  ASSUME NEW S, NEW f \in [Procs -> [Procs -> S]], NEW p \in Procs, NEW q \in Procs, NEW x,
         NEW g, g = [f EXCEPT ![p][q] = x], NEW u \in Procs, NEW e \in Procs
  PROVE  g[u][e] = IF u = p /\ e = q THEN x ELSE f[u][e]
  OBVIOUS

LEMMA SyncSentType ==
  ASSUME NEW n1 \in [Procs -> [Procs -> Seq(Seq(Node))]], NEW p \in Procs
  PROVE  SyncSent(n1, p) \in [Procs -> [Procs -> Seq(Seq(Node))]]
  BY DEF SyncSent

(* What is put at the end of a queue leaves its head alone.                 *)
LEMMA HeadOfAppend ==
  ASSUME NEW S, NEW s \in Seq(S), NEW e \in S, s # <<>>
  PROVE  Append(s, e) # <<>> /\ Head(Append(s, e)) = Head(s)
  BY HeadTailAppend, AppendProperties

LEMMA GrownType ==
  ASSUME NEW size \in Nat
  PROVE  Grown(size) \in Nat
  BY ProcsAssumption DEF Grown

(* SendNode puts the batch in its cache, or sends it and empties the cache. *)
Cached(p, n, d, batch, size) ==
  /\ d = Owner[n.state]
  /\ batch = Append(cached[p][d], [n EXCEPT !.f = n.f - Boost])
  /\ batch # <<>>
  /\ \/ SendBatch(p, d, batch) /\ to_send' = [to_send EXCEPT ![p][d] = size]
     \/ cached' = [cached EXCEPT ![p][d] = batch] /\ UNCHANGED <<net, to_send>>

LEMMA SendNodeEffect ==
  ASSUME MessageTypes, NEW p \in Procs, NEW n \in Node, SendNode(p, n)
  PROVE  \E d \in Procs, batch \in Seq(Node), size \in Nat :
           Cached(p, n, d, batch, size)
  <1> DEFINE d == Owner[n.state]
             m == [n EXCEPT !.f = n.f - Boost]
             batch == Append(cached[p][d], m)
  <1>1. d \in Procs
    BY SettingsAssumption DEF Node
  <1>2. m \in Node
    BY BoostedType
  <1>3. batch \in Seq(Node) /\ batch # <<>>
    <2>1. cached[p][d] \in Seq(Node)
      BY <1>1 DEF MessageTypes
    <2>2. QED
      BY <1>2, <2>1, AppendProperties
  <1>4. Grown(to_send[p][d]) \in Nat
    <2>1. to_send[p][d] \in Nat
      BY <1>1 DEF MessageTypes
    <2>2. QED
      BY <2>1, GrownType
  <1>5. \/ SendBatch(p, d, batch) /\ to_send' = [to_send EXCEPT ![p][d] = Grown(to_send[p][d])]
        \/ cached' = [cached EXCEPT ![p][d] = batch] /\ UNCHANGED <<net, to_send>>
    BY DEF SendNode
  <1>6. QED
    BY ZenonT(60), <1>1, <1>3, <1>4, <1>5 DEF Cached

LEMMA SendBatchType ==
  ASSUME MessageTypes, NEW p \in Procs, NEW d \in Procs, NEW batch \in Seq(Node),
         SendBatch(p, d, batch)
  PROVE  /\ cached' \in [Procs -> [Procs -> Seq(Node)]]
         /\ net' \in [Procs -> [Procs -> Seq(Seq(Node))]]
  <1>1. <<>> \in Seq(Node) /\ Append(net[p][d], batch) \in Seq(Seq(Node))
    BY DEF MessageTypes
  <1>2. QED
    BY Zenon, <1>1, Updated DEF SendBatch, MessageTypes

LEMMA SendNodeType ==
  ASSUME MessageTypes, NEW p \in Procs, NEW n \in Node, SendNode(p, n)
  PROVE  /\ cached' \in [Procs -> [Procs -> Seq(Node)]]
         /\ to_send' \in [Procs -> [Procs -> Nat]]
         /\ net' \in [Procs -> [Procs -> Seq(Seq(Node))]]
  <1>1. PICK d \in Procs, batch \in Seq(Node), size \in Nat :
          Cached(p, n, d, batch, size)
    BY SendNodeEffect
  <1>2. CASE SendBatch(p, d, batch) /\ to_send' = [to_send EXCEPT ![p][d] = size]
    BY <1>2, SendBatchType, Updated DEF MessageTypes
  <1>3. CASE cached' = [cached EXCEPT ![p][d] = batch] /\ UNCHANGED <<net, to_send>>
    BY <1>3, Updated DEF MessageTypes
  <1>4. QED
    BY Zenon, <1>1, <1>2, <1>3 DEF Cached

LEMMA ComputeOrSendType ==
  ASSUME ProcTypes, MessageTypes, NEW p \in Procs, NEW n \in Node, ComputeOrSend(p, n)
  PROVE  /\ cached' \in [Procs -> [Procs -> Seq(Node)]]
         /\ to_send' \in [Procs -> [Procs -> Nat]]
         /\ net' \in [Procs -> [Procs -> Seq(Seq(Node))]]
         /\ \/ pc' = [pc EXCEPT ![p] = "poll"] /\ cur' = cur
            \/ pc' = [pc EXCEPT ![p] = "closing"] /\ cur' = [cur EXCEPT ![p] = n]
  <1>1. CASE Owner[n.state] # p
    <2>1. SendNode(p, n) /\ pc' = [pc EXCEPT ![p] = "poll"] /\ cur' = cur
      BY <1>1 DEF ComputeOrSend, Goto
    <2>2. QED
      BY <2>1, SendNodeType
  <1>2. CASE Owner[n.state] = p
    <2>1. /\ pc' = [pc EXCEPT ![p] = "closing"] /\ cur' = [cur EXCEPT ![p] = n]
          /\ cached' = cached /\ to_send' = to_send /\ net' = net
      BY <1>2 DEF ComputeOrSend, Goto, caches
    <2>2. QED
      BY <2>1 DEF MessageTypes
  <1>3. QED
    BY <1>1, <1>2

-----------------------------------------------------------------------------
(* Types.                                                                  *)

LEMMA TypeInit == Init => TypeOK
  <1> SUFFICES ASSUME Init PROVE TypeOK
    OBVIOUS
  <1>0. \A S : <<>> \in Seq(S)
    OBVIOUS
  <1>1. ProcTypes
    <2>1. opt \in Settings /\ pc \in [Procs -> Locations]
      BY MasterType DEF Init, Locations
    <2>2. cur = [p \in Procs |-> Nil] /\ held = [p \in Procs |-> Nil]
          /\ todo = [p \in Procs |-> 1]
      BY DEF Init
    <2>3. 1 \in Nat \ {0} /\ Nil \in Node \cup {Nil}
      OBVIOUS
    <2>4. QED
      BY <2>1, <2>2, <2>3 DEF ProcTypes
  <1>2. ListTypes
    BY DEF Init, ListTypes
  <1>3. BoundTypes
    BY ParametersAssumption DEF Init, BoundTypes
  <1>4. MessageTypes
    BY <1>0 DEF Init, MessageTypes
  <1>5. RoundTypes
    BY <1>0 DEF Init, RoundTypes
  <1>6. QED
    BY <1>1, <1>2, <1>3, <1>4, <1>5 DEF TypeOK

LEMMA CardinalityNat ==
  ASSUME NEW p \in Procs, ProcShape(p)
  PROVE  Cardinality(closed[p]) \in Nat
  BY FS_CardinalityType DEF ProcShape

LEMMA ElectedLeast ==
  ASSUME TypeOK
  PROVE  /\ Elected \in Procs
         /\ \A q \in Procs : Offer(Elected) <= Offer(q) /\ Offer(q) \in Nat
  <1>1. \A q \in Procs : Offer(q) \in Nat
    BY ParametersAssumption DEF Offer, TypeOK, BoundTypes, Node
  <1>2. PICK m \in {Offer(q) : q \in Procs} : \A k \in {Offer(q) : q \in Procs} : m <= k
    BY <1>1, MasterType, LeastNatural
  <1>3. PICK p \in {q \in Procs : Offer(q) = m} : \A q \in {r \in Procs : Offer(r) = m} : p <= q
    <2>1. {q \in Procs : Offer(q) = m} \subseteq Nat /\ {q \in Procs : Offer(q) = m} # {}
      BY <1>2, ProcsAssumption DEF Procs
    <2>2. QED
      BY <2>1, LeastNatural
  <1>4. \A q \in Procs : Offer(p) < Offer(q) \/ (Offer(p) = Offer(q) /\ p <= q)
    BY <1>1, <1>2, <1>3
  <1>5. /\ Elected \in Procs
        /\ \A q \in Procs : Offer(Elected) < Offer(q) \/ (Offer(Elected) = Offer(q) /\ Elected <= q)
    BY <1>3, <1>4 DEF Elected
  <1>6. QED
    BY <1>1, <1>5

(* What a poll does to the network before it probes.                       *)
LEMMA NetCalledType ==
  ASSUME TypeOK, NEW p \in Procs
  PROVE  /\ NetCalled(p) \in [Procs -> [Procs -> Seq(Seq(Node))]]
         /\ TimerCalled(p) \in {"off", "on", "called"}
  BY SyncSentType DEF NetCalled, TimerCalled, TypeOK, MessageTypes, RoundTypes

LEMMA TypeLocal ==
  ASSUME TypeOK, Shape, NEW p \in Procs, Local(p)
  PROVE  TypeOK'
  <1> USE DEF TypeOK
  <1>0. ProcShape(p)
    BY DEF Shape
  <1>1. CASE CloseInsert(p)
    <2>1. cur[p] \in Node
      BY <1>0, <1>1 DEF CloseInsert, ProcTypes, ProcShape
    <2>2. CASE cur[p].state \in ClosedStates(p)
      <3>1. cur' = [cur EXCEPT ![p] = Nil] /\ pc' = [pc EXCEPT ![p] = "poll"] /\ closed' = closed
        BY <1>1, <2>2 DEF CloseInsert, Goto
      <3>2. ProcTypes' /\ ListTypes'
        BY <1>1, <3>1 DEF CloseInsert, ProcTypes, ListTypes, Locations
      <3>3. QED
        BY <1>1, <3>2 DEF CloseInsert, caches, rounds, BoundTypes, MessageTypes, RoundTypes
    <2>3. CASE cur[p].state \notin ClosedStates(p)
      <3> DEFINE n == [cur[p] EXCEPT !.id = Cardinality(closed[p])]
      <3>1. /\ cur' = [cur EXCEPT ![p] = n] /\ pc' = [pc EXCEPT ![p] = "computing"]
            /\ closed' = [closed EXCEPT ![p] = closed[p] \cup {n}]
        BY <1>1, <2>3 DEF CloseInsert, Goto
      <3>2. n \in Node
        BY <1>0, <2>1, CardinalityNat, NumberedType
      <3> HIDE DEF n
      <3>3. ProcTypes' /\ ListTypes'
        BY <1>1, <3>1, <3>2 DEF CloseInsert, ProcTypes, ListTypes, Locations
      <3>4. QED
        BY <1>1, <3>3 DEF CloseInsert, caches, rounds, BoundTypes, MessageTypes, RoundTypes
    <2>4. QED
      BY <2>2, <2>3
  <1>2. CASE Compute(p)
    <2>1. cur[p] \in Node
      BY <1>0, <1>2 DEF Compute, ProcTypes, ProcShape
    <2>2. MessageTypes' /\ RoundTypes' /\ BoundTypes'
      <3>1. net' = net \/ net' = SyncSent(net, p)
        BY <1>2 DEF Compute, Found
      <3>2. MessageTypes'
        BY <1>2, <3>1, SyncSentType DEF Compute, MessageTypes
      <3>3. \/ best' = best /\ solution' = solution
            \/ /\ best' = [best EXCEPT ![p] = cur[p].mk]
               /\ solution' = [solution EXCEPT ![p] = cur[p]]
        BY <1>2 DEF Compute, Found
      <3>4. BoundTypes'
        BY <1>2, <2>1, <3>3 DEF Compute, rounds, BoundTypes, Node
      <3>5. QED
        BY <1>2, <3>2, <3>4 DEF Compute, rounds, RoundTypes
    <2> DEFINE s == cur[p].state
               n == [cur[p] EXCEPT !.f = cur[p].len + Weight * opt.heur[s], !.fresh = FALSE]
               son == Derive(p, n, opt.look[s], opt.look[s].steps)
    <2>3. \/ /\ cur' = [cur EXCEPT ![p] = Nil] /\ pc' = [pc EXCEPT ![p] = "poll"]
          \/ /\ ~IsGoal(s)
             /\ cur' = [cur EXCEPT ![p] = son] /\ pc' = [pc EXCEPT ![p] = "closing"]
      BY SMTT(60), <1>2 DEF Compute, OpenAndLook, Forgotten, Goto
    <2>4. open' = open \/ open' = [open EXCEPT ![p] = open[p] \cup {n}]
      BY <1>2 DEF Compute, OpenAndLook
    <2>5. n \in Node
      <3>1. s \in State /\ cur[p].len \in Nat
        BY <2>1 DEF Node
      <3>2. cur[p].len + Weight * opt.heur[s] \in Int
        BY SMTT(60), <3>1, SettingFacts, ParametersAssumption DEF ProcTypes
      <3>3. QED
        BY <2>1, <3>2, ChangedType
    <2>6. son \in Node
      <3>1. s \in State /\ n.state = s
        BY <2>1, <2>5 DEF Node
      <3>2. QED
        BY <2>5, <3>1, SettingFacts, DeriveType DEF ProcTypes
    <2> HIDE DEF n, son, s
    <2>7. ProcTypes'
      BY <1>2, <2>3, <2>6 DEF Compute, ProcTypes, Locations
    <2>8. ListTypes'
      BY <1>2, <2>4, <2>5 DEF Compute, ListTypes
    <2>9. QED
      BY <2>2, <2>7, <2>8
  <1>3. CASE Pop(p)
    <2>1. CASE open[p] = {} /\ Goto(p, "poll") /\ UNCHANGED <<open, cur, held, todo>>
      <3> DEFINE d == Fullest(p)
      <3>1. \/ UNCHANGED <<cached, net>>
            \/ d \in Procs /\ SendBatch(p, d, cached[p][d])
        BY <1>3, <2>1, FullestIsProc DEF Pop, MessageTypes
      <3>2. cached' \in [Procs -> [Procs -> Seq(Node)]] /\ net' \in [Procs -> [Procs -> Seq(Seq(Node))]]
        <4>1. CASE UNCHANGED <<cached, net>>
          BY <4>1 DEF MessageTypes
        <4>2. CASE d \in Procs /\ SendBatch(p, d, cached[p][d])
          <5>1. cached[p][d] \in Seq(Node)
            BY <4>2 DEF MessageTypes
          <5>2. QED
            BY <4>2, <5>1, SendBatchType
        <4>3. QED
          BY <3>1, <4>1, <4>2
      <3>3. pc' \in [Procs -> Locations]
        BY <2>1 DEF Goto, ProcTypes, Locations
      <3>4. QED
        BY <1>3, <2>1, <3>2, <3>3
           DEF Pop, rounds, ProcTypes, MessageTypes, ListTypes, BoundTypes, RoundTypes
    <2>2. CASE \E n \in BestOf(open[p]) :
                 /\ UNCHANGED <<cached, net>>
                 /\ open' = [open EXCEPT ![p] = @ \ {n}]
                 /\ \/ /\ cur' = [cur EXCEPT ![p] = n] /\ Goto(p, "computing")
                       /\ UNCHANGED <<held, todo>>
                    \/ /\ held' = [held EXCEPT ![p] = n] /\ todo' = [todo EXCEPT ![p] = 1]
                       /\ Goto(p, "expand") /\ UNCHANGED cur
      <3>1. PICK n \in BestOf(open[p]) :
                 /\ UNCHANGED <<cached, net>>
                 /\ open' = [open EXCEPT ![p] = @ \ {n}]
                 /\ \/ /\ cur' = [cur EXCEPT ![p] = n] /\ Goto(p, "computing")
                       /\ UNCHANGED <<held, todo>>
                    \/ /\ held' = [held EXCEPT ![p] = n] /\ todo' = [todo EXCEPT ![p] = 1]
                       /\ Goto(p, "expand") /\ UNCHANGED cur
        BY <2>2
      <3>2. n \in Node
        BY DEF BestOf, ListTypes
      <3>3. ProcTypes'
        <4>1. /\ cur' \in [Procs -> Node \cup {Nil}]
              /\ held' \in [Procs -> Node \cup {Nil}]
          BY <3>1, <3>2 DEF ProcTypes
        <4>2. todo' = todo \/ todo' = [todo EXCEPT ![p] = 1]
          BY <3>1
        <4>3. todo' \in [Procs -> Nat \ {0}]
          BY <4>2 DEF ProcTypes
        <4>4. pc' \in [Procs -> Locations]
          BY <3>1 DEF Goto, ProcTypes, Locations
        <4>5. QED
          BY <1>3, <4>1, <4>3, <4>4 DEF Pop, ProcTypes
      <3>4. ListTypes' /\ MessageTypes' /\ BoundTypes' /\ RoundTypes'
        BY <1>3, <3>1 DEF Pop, rounds, ListTypes, MessageTypes, BoundTypes, RoundTypes
      <3>5. QED
        BY <3>3, <3>4
    <2>3. QED
      BY <1>3, <2>1, <2>2 DEF Pop
  <1>4. CASE Expand(p)
    <2>1. held[p] \in Node
      BY <1>0, <1>4 DEF Expand, ProcTypes, ProcShape
    <2>2. CASE todo[p] <= Len(opt.acts[held[p].state])
      <3> DEFINE son == Derive(p, held[p], opt.acts[held[p].state][todo[p]], 1)
      <3>1. ComputeOrSend(p, son) /\ todo' = [todo EXCEPT ![p] = todo[p] + 1] /\ held' = held
        <4>1. ~(todo[p] > Len(opt.acts[held[p].state]))
          BY SMTT(60), <2>1, <2>2, SettingFacts DEF ProcTypes, Node
        <4>2. QED
          BY <1>4, <4>1 DEF Expand
      <3>2. son \in Node
        <4>1. todo[p] \in 1 .. Len(opt.acts[held[p].state])
          BY <2>1, <2>2, SettingFacts DEF ProcTypes, Node
        <4>2. QED
          BY <2>1, <4>1, SonType DEF ProcTypes
      <3> HIDE DEF son
      <3>3. /\ cached' \in [Procs -> [Procs -> Seq(Node)]]
            /\ to_send' \in [Procs -> [Procs -> Nat]]
            /\ net' \in [Procs -> [Procs -> Seq(Seq(Node))]]
            /\ \/ pc' = [pc EXCEPT ![p] = "poll"] /\ cur' = cur
               \/ pc' = [pc EXCEPT ![p] = "closing"] /\ cur' = [cur EXCEPT ![p] = son]
        BY <3>1, <3>2, ComputeOrSendType
      <3>4. ProcTypes'
        <4>1. todo' \in [Procs -> Nat \ {0}] /\ held' = held
          BY <3>1 DEF ProcTypes
        <4>2. pc' \in [Procs -> Locations]
          BY <3>3 DEF ProcTypes, Locations
        <4>3. cur' \in [Procs -> Node \cup {Nil}]
          BY ZenonT(120), <3>2, <3>3 DEF ProcTypes
        <4>4. QED
          BY SMTT(60), <1>4, <4>1, <4>2, <4>3 DEF Expand, ProcTypes
      <3>5. QED
        BY <1>4, <3>3, <3>4
           DEF Expand, lists, rounds, MessageTypes, ListTypes, BoundTypes, RoundTypes
    <2>3. CASE /\ held' = [held EXCEPT ![p] = Nil] /\ Goto(p, "poll")
               /\ UNCHANGED <<todo, cur, caches>>
      BY <1>4, <2>3 DEF Expand, Goto, lists, caches, rounds, ProcTypes, Locations, MessageTypes,
         ListTypes, BoundTypes, RoundTypes
    <2>4. QED
      BY <1>4, <2>2, <2>3 DEF Expand
  <1>5. CASE ReadNode(p)
    <2> DEFINE n == Head(unread[p])
               m == [n EXCEPT !.id = Cardinality(closed[p])]
    <2>1. n \in Node /\ Tail(unread[p]) \in Seq(Node)
      BY <1>5 DEF ReadNode, MessageTypes
    <2>2. m \in Node
      BY <1>0, <2>1, CardinalityNat, NumberedType
    <2>3. \/ UNCHANGED lists
          \/ /\ closed' = [closed EXCEPT ![p] = closed[p] \cup {m}]
             /\ open' = [open EXCEPT ![p] = open[p] \cup {m}]
      BY <1>5 DEF ReadNode, InsertForeign
    <2>4. unread' = [unread EXCEPT ![p] = Tail(unread[p])]
      BY <1>5 DEF ReadNode
    <2> HIDE DEF m, n
    <2>5. ListTypes'
      BY <2>2, <2>3 DEF lists, ListTypes
    <2>6. MessageTypes'
      BY <1>5, <2>1, <2>4 DEF ReadNode, caches, MessageTypes
    <2>7. QED
      BY <1>5, <2>5, <2>6 DEF ReadNode, ProcTypes, BoundTypes, rounds, RoundTypes
  <1>6. CASE PollNothing(p)
    <2>1. pc' \in [Procs -> Locations]
      BY <1>6 DEF PollNothing, Goto, Resume, ProcTypes, Locations
    <2>2. QED
      BY <1>6, <2>1, NetCalledType
         DEF PollNothing, lists, rounds, ProcTypes, MessageTypes, ListTypes, BoundTypes, RoundTypes
  <1>7. QED
    BY <1>1, <1>2, <1>3, <1>4, <1>5, <1>6 DEF Local

LEMMA TypeReceive ==
  ASSUME TypeOK, NEW p \in Procs, NEW q \in Procs, Receive(p, q)
  PROVE  TypeOK'
  <1> DEFINE n1 == NetCalled(p)
  <1>1. n1 \in [Procs -> [Procs -> Seq(Seq(Node))]] /\ timer' \in {"off", "on", "called"}
    BY SMTT(60), NetCalledType DEF Receive, PollBatch, PollSync
  <1>2. net' = [n1 EXCEPT ![q][p] = Tail(n1[q][p])]
    BY DEF Receive, PollBatch, PollSync
  <1>3. n1[q][p] # <<>>
    <2>1. net[q][p] # <<>> /\ net[q][p] \in Seq(Seq(Node))
      BY DEF Receive, PollBatch, PollSync, TypeOK, MessageTypes
    <2>2. n1[q][p] = net[q][p] \/ n1[q][p] = Append(net[q][p], <<>>)
      BY DEF NetCalled, SyncSent, TypeOK, MessageTypes
    <2>3. QED
      BY <2>1, <2>2
  <1> HIDE DEF n1
  <1>4. Tail(n1[q][p]) \in Seq(Seq(Node))
    BY <1>1, <1>3
  <1>5. net' \in [Procs -> [Procs -> Seq(Seq(Node))]]
    BY <1>1, <1>2, <1>4, Updated
  <1>6. unread' \in [Procs -> Seq(Node)]
    <2>1. \/ unread' = unread
          \/ unread' = [unread EXCEPT ![p] = Head(net[q][p])] /\ net[q][p] # <<>>
      BY DEF Receive, PollBatch, PollSync
    <2>2. net[q][p] \in Seq(Seq(Node))
      BY DEF TypeOK, MessageTypes
    <2>3. net[q][p] # <<>> => Head(net[q][p]) \in Seq(Node)
      BY <2>2
    <2>4. QED
      BY <2>1, <2>3 DEF TypeOK, MessageTypes
  <1>7. pc' \in [Procs -> Locations]
    BY SMTT(60) DEF Receive, PollBatch, PollSync, Goto, Resume, TypeOK, ProcTypes, Locations
  <1>8. QED
    BY <1>1, <1>5, <1>6, <1>7
       DEF Receive, PollBatch, PollSync, lists, rounds, TypeOK, ProcTypes, MessageTypes, ListTypes,
           BoundTypes, RoundTypes

(* A round that lowers the bound elects a process that has a solution.     *)
LEMMA ElectedHasSolution ==
  ASSUME TypeOK, Shape, Offer(Elected) < mpi_best[master]
  PROVE  /\ Elected \in Procs /\ solution[Elected] \in Node /\ solution[Elected] # Nil
         /\ Offer(Elected) = solution[Elected].mk
         /\ Offer(Elected) \in Nat /\ Offer(Elected) < MaxTime
  <1>1. Elected \in Procs /\ Offer(Elected) \in Nat
    BY ElectedLeast
  <1>2. mpi_best[master] <= MaxTime /\ mpi_best[master] \in Nat
    BY MasterType DEF Shape, RoundShape, TypeOK, BoundTypes
  <1>3. solution[Elected] # Nil
    BY <1>1, <1>2, ParametersAssumption DEF Offer
  <1>4. QED
    BY <1>1, <1>2, <1>3, ParametersAssumption DEF Offer, TypeOK, BoundTypes

LEMMA Reversed ==
  ASSUME NEW S, NEW s \in Seq(S)
  PROVE  /\ Reverse(s) \in Seq(S)
         /\ Len(Reverse(s)) = Len(s)
         /\ \A i \in 1 .. Len(s) : Reverse(s)[i] = s[Len(s) - i + 1]
  <1>1. Len(s) \in Nat
    BY LenProperties
  <1>2. \A i \in 1 .. Len(s) : s[(Len(s) - i) + 1] \in S
    <2> SUFFICES ASSUME NEW i \in 1 .. Len(s) PROVE s[(Len(s) - i) + 1] \in S
      OBVIOUS
    <2>1. (Len(s) - i) + 1 \in 1 .. Len(s)
      BY <1>1
    <2>2. QED
      BY <2>1, ElementOfSeq
  <1>3. Reverse(s) \in [1 .. Len(s) -> S]
    BY <1>2 DEF Reverse
  <1>4. Reverse(s) \in Seq(S)
    BY <1>1, <1>3, SeqDef
  <1>5. DOMAIN Reverse(s) = 1 .. Len(s)
    BY <1>3
  <1>6. Len(Reverse(s)) = Len(s)
    BY <1>1, <1>4, <1>5, LenProperties
  <1>7. QED
    BY <1>1, <1>4, <1>6 DEF Reverse

(* The node that joins the plan is a node of the process that derived the
   node before it.                                                         *)
LEMMA GatheredNode ==
  ASSUME TypeOK, Shape, Gather
  PROVE  /\ path # <<>> /\ path \in Seq(Node)
         /\ Len(path) \in 1 .. Len(path) /\ Oldest \in Node /\ Oldest.rank \in Procs
         /\ \E n \in Node : n \in ParentOf(Oldest) /\ path' = Append(path, n)
  <1>1. PICK n \in ParentOf(Oldest) : path' = Append(path, n)
    BY DEF Gather
  <1>2. path # <<>> /\ path \in Seq(Node)
    BY MasterType DEF Gather, Shape, RoundShape, TypeOK, RoundTypes
  <1>3. Len(path) \in 1 .. Len(path)
    BY <1>2, EmptySeq
  <1>4. Oldest \in Node
    BY <1>2, <1>3, ElementOfSeq DEF Oldest
  <1>5. Oldest.rank \in Procs
    BY <1>4 DEF Node
  <1>6. n \in Node
    BY <1>1, <1>5 DEF ParentOf, TypeOK, ListTypes
  <1>7. QED
    BY <1>1, <1>2, <1>3, <1>4, <1>5, <1>6

LEMMA TypeRound ==
  ASSUME TypeOK, Shape, Reduce \/ Gather \/ GatherEnd
  PROVE  TypeOK'
  <1>1. CASE Reduce
    <2>1. verdict' \in {"go on", "timer", "first"}
      BY <1>1 DEF Reduce, Verdict
    <2>2. pc' \in [Procs -> Locations]
      BY ZenonT(120), <1>1 DEF Reduce, AfterRound, Resume, Locations, TypeOK, ProcTypes
    <2>3. mpi_best' \in [Procs -> Nat] /\ best' \in [Procs -> Nat] /\ path' \in Seq(Node)
      <3>1. CASE Offer(Elected) < mpi_best[master]
        <4>1. /\ mpi_best' = [p \in Procs |-> Offer(Elected)]
              /\ best' = [p \in Procs |-> Offer(Elected)]
              /\ path' = <<solution[Elected]>>
          BY <1>1, <3>1 DEF Reduce
        <4>2. Offer(Elected) \in Nat /\ solution[Elected] \in Node
          BY <3>1, ElectedHasSolution
        <4>3. QED
          BY <4>1, <4>2
      <3>2. CASE ~(Offer(Elected) < mpi_best[master])
        BY <1>1, <3>2 DEF Reduce, TypeOK, BoundTypes, RoundTypes
      <3>3. QED
        BY <3>1, <3>2
    <2>4. QED
      BY <1>1, <2>1, <2>2, <2>3
         DEF Reduce, lists, caches, TypeOK, ProcTypes, MessageTypes, ListTypes, BoundTypes,
             RoundTypes
  <1>2. CASE Gather
    <2>5. path' \in Seq(Node)
      BY <1>2, GatheredNode, AppendProperties
    <2>6. QED
      BY <1>2, <2>5
         DEF Gather, lists, caches, TypeOK, ProcTypes, MessageTypes, ListTypes, BoundTypes,
             RoundTypes
  <1>3. CASE GatherEnd
    <2>1. Reverse(path) \in Seq(Node)
      BY Reversed DEF TypeOK, RoundTypes
    <2>2. given' \in Seq(Seq(Node)) /\ path' \in Seq(Node)
      <3>1. Append(given, Reverse(path)) \in Seq(Seq(Node)) /\ <<>> \in Seq(Node)
        BY <2>1, AppendProperties, EmptySeq DEF TypeOK, RoundTypes
      <3>2. QED
        BY <1>3, <3>1 DEF GatherEnd, TypeOK, RoundTypes
    <2>3. pc' \in [Procs -> Locations]
      BY <1>3 DEF GatherEnd, AfterRound, Resume, Locations, TypeOK, ProcTypes
    <2>4. QED
      BY <1>3, <2>2, <2>3
         DEF GatherEnd, lists, caches, TypeOK, ProcTypes, MessageTypes, ListTypes, BoundTypes,
             RoundTypes
  <1>4. QED
    BY <1>1, <1>2, <1>3

LEMMA TypeStep == TypeOK /\ Shape /\ [Next]_vars => TypeOK'
  <1> SUFFICES ASSUME TypeOK, Shape, [Next]_vars PROVE TypeOK'
    OBVIOUS
  <1>1. CASE Begin
    <2>1. ComputeOrSend(master, RootNode)
      BY <1>1 DEF Begin
    <2>2. /\ cached' \in [Procs -> [Procs -> Seq(Node)]]
          /\ to_send' \in [Procs -> [Procs -> Nat]]
          /\ net' \in [Procs -> [Procs -> Seq(Seq(Node))]]
          /\ \/ pc' = [pc EXCEPT ![master] = "poll"] /\ cur' = cur
             \/ pc' = [pc EXCEPT ![master] = "closing"] /\ cur' = [cur EXCEPT ![master] = RootNode]
      BY <2>1, MasterType, RootNodeType, ComputeOrSendType DEF TypeOK
    <2>3. pc' \in [Procs -> Locations]
      BY <2>2 DEF TypeOK, ProcTypes, Locations
    <2>4. cur' \in [Procs -> Node \cup {Nil}]
      BY ZenonT(120), <2>2, RootNodeType DEF TypeOK, ProcTypes
    <2>5. QED
      BY ZenonT(120), <1>1, <2>2, <2>3, <2>4
         DEF Begin, lists, rounds, TypeOK, ProcTypes, MessageTypes, ListTypes, BoundTypes, RoundTypes
  <1>2. CASE \E p \in Procs : Local(p)
    BY <1>2, TypeLocal
  <1>3. CASE \E p, q \in Procs : Receive(p, q)
    BY <1>3, TypeReceive
  <1>4. CASE Reduce \/ Gather \/ GatherEnd
    BY <1>4, TypeRound
  <1>5. CASE TimerExpires
    BY <1>5
       DEF TimerExpires, lists, caches, rounds, TypeOK, ProcTypes, MessageTypes, ListTypes,
           BoundTypes, RoundTypes
  <1>6. CASE UNCHANGED vars
    BY <1>6
       DEF vars, lists, caches, rounds, TypeOK, ProcTypes, MessageTypes, ListTypes, BoundTypes,
           RoundTypes
  <1>7. QED
    BY <1>1, <1>2, <1>3, <1>4, <1>5, <1>6 DEF Next, Terminating

-----------------------------------------------------------------------------
(* Locations.                                                              *)

Alone == {"poll", "closing", "computing", "pop", "expand", "round"}

LEMMA ShapeInit == Init => Shape
  <1> SUFFICES ASSUME Init PROVE Shape
    OBVIOUS
  <1>1. \A p \in Procs : pc[p] = IF p = master THEN "root" ELSE "poll"
    BY DEF Init
  <1>2. \A p \in Procs : IsFiniteSet(closed[p])
    BY FS_EmptySet DEF Init
  <1>3. \A p \in Procs : mpi_best[p] = MaxTime
    BY DEF Init
  <1>4. \A p \in Procs : ProcShape(p)
    BY <1>1, <1>2 DEF ProcShape
  <1>5. RoundShape
    BY <1>1, <1>3, MasterType, ParametersAssumption DEF RoundShape
  <1>6. QED
    BY <1>4, <1>5 DEF Shape

(* A process that goes on leaves the shape of the rounds as it was: it is
   in no round with the others, so they are in none.                       *)
LEMMA GoesOn ==
  ASSUME TypeOK, Shape, NEW p \in Procs, pc[p] \notin {"gather", "serve", "left"},
         NEW l \in Alone, pc' = [pc EXCEPT ![p] = l], mpi_best' = mpi_best
  PROVE  RoundShape' /\ \A q \in Procs : pc[q] \notin {"gather", "serve", "left"}
  <1>1. \A q \in Procs : pc[q] \notin {"gather", "serve", "left"}
    BY DEF Shape, RoundShape, Stopped
  <1>2. \A q \in Procs : pc'[q] \notin {"gather", "serve", "left"}
    BY <1>1 DEF Alone, TypeOK, ProcTypes
  <1>3. QED
    BY <1>1, <1>2 DEF Shape, RoundShape

(* What a process that goes on by itself must keep.                        *)
LEMMA ShapeOfOne ==
  ASSUME TypeOK, Shape, NEW p \in Procs, pc[p] \notin {"gather", "serve", "left"},
         NEW l \in Alone, pc' = [pc EXCEPT ![p] = l], mpi_best' = mpi_best,
         l \in {"closing", "computing"} => cur'[p] # Nil,
         l = "expand" => held'[p] # Nil,
         IsFiniteSet(closed'[p]),
         \A q \in Procs \ {p} : cur'[q] = cur[q] /\ held'[q] = held[q] /\ closed'[q] = closed[q]
  PROVE  Shape'
  <1>1. RoundShape'
    BY GoesOn
  <1>2. ASSUME NEW q \in Procs PROVE ProcShape(q)'
    <2>1. CASE q = p
      <3>1. pc'[q] = l
        BY <2>1 DEF TypeOK, ProcTypes
      <3>2. QED
        BY <2>1, <3>1 DEF ProcShape, Alone
    <2>2. CASE q # p
      <3>1. pc'[q] = pc[q] /\ ProcShape(q)
        BY <2>2 DEF TypeOK, ProcTypes, Shape
      <3>2. cur'[q] = cur[q] /\ held'[q] = held[q] /\ closed'[q] = closed[q]
        BY <2>2
      <3>3. QED
        BY <3>1, <3>2 DEF ProcShape
    <2>3. QED
      BY <2>1, <2>2
  <1>3. QED
    BY <1>1, <1>2 DEF Shape

LEMMA ResumeShape ==
  ASSUME NEW p \in Procs
  PROVE  /\ Resume(p) \in {"expand", "pop"}
         /\ Resume(p) = "expand" => held[p] # Nil
  BY DEF Resume

LEMMA ShapeLocal ==
  ASSUME TypeOK, Shape, NEW p \in Procs, Local(p)
  PROVE  Shape'
  <1>0. ProcShape(p) /\ IsFiniteSet(closed[p])
    BY DEF Shape, ProcShape
  <1>1. CASE CloseInsert(p)
    <2>1. pc[p] = "closing" /\ cur[p] # Nil /\ cur[p] \in Node /\ mpi_best' = mpi_best /\ held' = held
      BY <1>0, <1>1 DEF CloseInsert, rounds, ProcShape, TypeOK, ProcTypes
    <2>2. CASE /\ cur' = [cur EXCEPT ![p] = Nil] /\ pc' = [pc EXCEPT ![p] = "poll"]
               /\ closed' = closed
      BY <1>0, <2>1, <2>2, ShapeOfOne DEF Alone, TypeOK, ProcTypes
    <2>3. CASE \E n \in Node :
                 /\ n # Nil
                 /\ cur' = [cur EXCEPT ![p] = n]
                 /\ pc' = [pc EXCEPT ![p] = "computing"]
                 /\ closed' = [closed EXCEPT ![p] = @ \cup {n}]
      <3>1. PICK n \in Node :
                 /\ n # Nil
                 /\ cur' = [cur EXCEPT ![p] = n]
                 /\ pc' = [pc EXCEPT ![p] = "computing"]
                 /\ closed' = [closed EXCEPT ![p] = @ \cup {n}]
        BY <2>3
      <3>2. IsFiniteSet(closed[p] \cup {n})
        BY <1>0, FS_AddElement
      <3>3. /\ cur'[p] = n /\ closed'[p] = closed[p] \cup {n}
            /\ \A q \in Procs \ {p} : cur'[q] = cur[q] /\ closed'[q] = closed[q]
        BY <3>1 DEF TypeOK, ProcTypes, ListTypes
      <3>4. QED
        BY <2>1, <3>1, <3>2, <3>3, ShapeOfOne DEF Alone
    <2>4. [cur[p] EXCEPT !.id = Cardinality(closed[p])] \in Node \ {Nil}
      BY <1>0, <2>1, CardinalityNat, NumberedType
    <2>5. QED
      BY <1>1, <2>2, <2>3, <2>4 DEF CloseInsert, Goto
  <1>2. CASE Compute(p)
    <2>1. pc[p] = "computing" /\ mpi_best' = mpi_best /\ held' = held /\ closed' = closed
      BY <1>2 DEF Compute, rounds
    <2>2. cur[p] \in Node
      BY SMTT(60), <1>0, <2>1 DEF ProcShape, TypeOK, ProcTypes
    <2> DEFINE s == cur[p].state
               n == [cur[p] EXCEPT !.f = cur[p].len + Weight * opt.heur[s], !.fresh = FALSE]
               son == Derive(p, n, opt.look[s], opt.look[s].steps)
    <2>3. \/ /\ cur' = [cur EXCEPT ![p] = Nil] /\ pc' = [pc EXCEPT ![p] = "poll"]
          \/ /\ cur' = [cur EXCEPT ![p] = son] /\ pc' = [pc EXCEPT ![p] = "closing"]
      BY <1>2 DEF Compute, OpenAndLook, Forgotten, Goto
    <2>4. son # Nil
      <3>1. s \in State /\ cur[p].len \in Nat
        BY <2>2 DEF Node
      <3>2. cur[p].len + Weight * opt.heur[s] \in Int
        BY <3>1, SettingFacts, ParametersAssumption DEF TypeOK, ProcTypes
      <3>3. n \in Node
        BY <2>2, <3>2, ChangedType
      <3>4. QED
        BY <3>1, <3>3, SettingFacts, DeriveType DEF TypeOK, ProcTypes
    <2> HIDE DEF s, n, son
    <2>5. CASE cur' = [cur EXCEPT ![p] = Nil] /\ pc' = [pc EXCEPT ![p] = "poll"]
      BY <1>0, <2>1, <2>5, ShapeOfOne DEF Alone, TypeOK, ProcTypes
    <2>6. CASE cur' = [cur EXCEPT ![p] = son] /\ pc' = [pc EXCEPT ![p] = "closing"]
      BY <1>0, <2>1, <2>4, <2>6, ShapeOfOne DEF Alone, TypeOK, ProcTypes
    <2>7. QED
      BY <2>3, <2>5, <2>6
  <1>3. CASE Pop(p)
    <2>1. pc[p] = "pop" /\ mpi_best' = mpi_best /\ closed' = closed
      BY <1>3 DEF Pop, rounds
    <2>2. CASE pc' = [pc EXCEPT ![p] = "poll"] /\ UNCHANGED <<cur, held>>
      BY <1>0, <2>1, <2>2, ShapeOfOne DEF Alone
    <2>3. CASE \E n \in BestOf(open[p]) :
                 \/ /\ cur' = [cur EXCEPT ![p] = n] /\ pc' = [pc EXCEPT ![p] = "computing"]
                    /\ held' = held
                 \/ /\ held' = [held EXCEPT ![p] = n] /\ pc' = [pc EXCEPT ![p] = "expand"]
                    /\ cur' = cur
      <3>1. PICK n \in BestOf(open[p]) :
                 \/ /\ cur' = [cur EXCEPT ![p] = n] /\ pc' = [pc EXCEPT ![p] = "computing"]
                    /\ held' = held
                 \/ /\ held' = [held EXCEPT ![p] = n] /\ pc' = [pc EXCEPT ![p] = "expand"]
                    /\ cur' = cur
        BY <2>3
      <3>2. n # Nil
        BY ParametersAssumption DEF BestOf, TypeOK, ListTypes
      <3>3. CASE /\ cur' = [cur EXCEPT ![p] = n] /\ pc' = [pc EXCEPT ![p] = "computing"]
                 /\ held' = held
        BY <1>0, <2>1, <3>2, <3>3, ShapeOfOne DEF Alone, TypeOK, ProcTypes
      <3>4. CASE /\ held' = [held EXCEPT ![p] = n] /\ pc' = [pc EXCEPT ![p] = "expand"]
                 /\ cur' = cur
        BY <1>0, <2>1, <3>2, <3>4, ShapeOfOne DEF Alone, TypeOK, ProcTypes
      <3>5. QED
        BY <3>1, <3>3, <3>4
    <2>4. QED
      BY <1>3, <2>2, <2>3 DEF Pop, Goto
  <1>4. CASE Expand(p)
    <2>1. /\ pc[p] = "expand" /\ mpi_best' = mpi_best /\ closed' = closed
          /\ held[p] # Nil /\ held[p] \in Node
      BY <1>0, <1>4 DEF Expand, rounds, lists, ProcShape, TypeOK, ProcTypes
    <2>2. CASE todo[p] <= Len(opt.acts[held[p].state])
      <3> DEFINE son == Derive(p, held[p], opt.acts[held[p].state][todo[p]], 1)
      <3>1. ComputeOrSend(p, son) /\ held' = held
        <4>1. ~(todo[p] > Len(opt.acts[held[p].state]))
          BY <2>1, <2>2, SettingFacts DEF TypeOK, ProcTypes, Node
        <4>2. QED
          BY <1>4, <4>1 DEF Expand
      <3>2. son \in Node /\ son # Nil
        <4>1. todo[p] \in 1 .. Len(opt.acts[held[p].state])
          BY <2>1, <2>2, SettingFacts DEF TypeOK, ProcTypes, Node
        <4>2. QED
          BY <2>1, <4>1, SonType DEF TypeOK, ProcTypes
      <3> HIDE DEF son
      <3>3. \/ pc' = [pc EXCEPT ![p] = "poll"] /\ cur' = cur
            \/ pc' = [pc EXCEPT ![p] = "closing"] /\ cur' = [cur EXCEPT ![p] = son]
        BY <3>1 DEF ComputeOrSend, Goto
      <3>4. CASE pc' = [pc EXCEPT ![p] = "poll"] /\ cur' = cur
        BY <1>0, <2>1, <3>1, <3>4, ShapeOfOne DEF Alone
      <3>5. CASE pc' = [pc EXCEPT ![p] = "closing"] /\ cur' = [cur EXCEPT ![p] = son]
        BY <1>0, <2>1, <3>1, <3>2, <3>5, ShapeOfOne DEF Alone, TypeOK, ProcTypes
      <3>6. QED
        BY <3>3, <3>4, <3>5
    <2>3. CASE /\ held' = [held EXCEPT ![p] = Nil] /\ Goto(p, "poll")
               /\ UNCHANGED <<todo, cur, caches>>
      BY <1>0, <2>1, <2>3, ShapeOfOne DEF Goto, Alone, TypeOK, ProcTypes
    <2>4. QED
      BY <1>4, <2>2, <2>3 DEF Expand
  <1>5. CASE ReadNode(p)
    <2>1. pc[p] = "poll" /\ mpi_best' = mpi_best /\ cur' = cur /\ held' = held /\ pc' = pc
      BY <1>5 DEF ReadNode, rounds
    <2>2. \/ closed' = closed
          \/ \E m : closed' = [closed EXCEPT ![p] = closed[p] \cup {m}]
      BY <1>5 DEF ReadNode, InsertForeign, lists
    <2>3. IsFiniteSet(closed'[p]) /\ \A q \in Procs \ {p} : closed'[q] = closed[q]
      <3>1. CASE closed' = closed
        BY <1>0, <3>1
      <3>2. ASSUME NEW m, closed' = [closed EXCEPT ![p] = closed[p] \cup {m}]
            PROVE  IsFiniteSet(closed'[p]) /\ \A q \in Procs \ {p} : closed'[q] = closed[q]
        <4>1. IsFiniteSet(closed[p] \cup {m})
          BY <1>0, FS_AddElement
        <4>2. QED
          BY <3>2, <4>1 DEF TypeOK, ListTypes
      <3>3. QED
        BY <2>2, <3>1, <3>2
    <2>4. pc' = [pc EXCEPT ![p] = "poll"]
      BY <2>1 DEF TypeOK, ProcTypes
    <2>5. QED
      BY <2>1, <2>3, <2>4, ShapeOfOne DEF Alone
  <1>6. CASE PollNothing(p)
    <2>1. /\ pc[p] = "poll" /\ mpi_best' = mpi_best /\ cur' = cur /\ held' = held
          /\ closed' = closed /\ pc' = [pc EXCEPT ![p] = Resume(p)]
      BY <1>6 DEF PollNothing, rounds, lists, Goto
    <2>2. QED
      BY <1>0, <2>1, ResumeShape, ShapeOfOne DEF Alone
  <1>7. QED
    BY <1>1, <1>2, <1>3, <1>4, <1>5, <1>6 DEF Local

LEMMA ShapeReceive ==
  ASSUME TypeOK, Shape, NEW p \in Procs, NEW q \in Procs, Receive(p, q)
  PROVE  Shape'
  <1>1. /\ pc[p] = "poll" /\ mpi_best' = mpi_best /\ cur' = cur /\ held' = held
        /\ closed' = closed
        /\ pc' = [pc EXCEPT ![p] = Resume(p)] \/ pc' = [pc EXCEPT ![p] = "round"]
    BY DEF Receive, PollBatch, PollSync, rounds, lists, Goto
  <1>2. IsFiniteSet(closed[p])
    BY DEF Shape, ProcShape
  <1>3. QED
    BY <1>1, <1>2, ResumeShape, ShapeOfOne DEF Alone

(* After a round all go on, or all leave.                                  *)
LEMMA RoundOver ==
  ASSUME TypeOK, Shape, NEW v, AfterRound(v), UNCHANGED <<held, closed>>,
         mpi_best' = mpi_best
  PROVE  Shape' /\ \A p \in Procs : pc'[p] \in {"expand", "pop", "left"}
  <1>1. \A p \in Procs : pc'[p] = IF v = "go on" THEN Resume(p) ELSE "left"
    BY DEF AfterRound
  <1>2. \A p \in Procs :
          /\ pc'[p] \in {"expand", "pop", "left"}
          /\ pc'[p] = "expand" => held'[p] # Nil
    BY <1>1, ResumeShape
  <1>3. \A p \in Procs : ProcShape(p)'
    BY <1>2 DEF ProcShape, Shape
  <1>4. (\E p \in Procs : pc'[p] = "left") => Stopped'
    BY <1>1, ResumeShape DEF Stopped
  <1>5. RoundShape'
    BY <1>2, <1>4 DEF RoundShape, Shape
  <1>6. QED
    BY <1>2, <1>3, <1>5 DEF Shape

LEMMA ShapeRound ==
  ASSUME TypeOK, Shape, Reduce \/ Gather \/ GatherEnd
  PROVE  Shape'
  <1>1. CASE Reduce /\ Offer(Elected) < mpi_best[master]
    <2>1. /\ mpi_best' = [p \in Procs |-> Offer(Elected)]
          /\ path' = <<solution[Elected]>>
          /\ pc' = [p \in Procs |-> IF p = master THEN "gather" ELSE "serve"]
          /\ closed' = closed
      BY <1>1 DEF Reduce, lists
    <2>2. Offer(Elected) \in Nat /\ Offer(Elected) < MaxTime
      BY <1>1, ElectedHasSolution
    <2>3. RoundShape'
      BY <2>1, <2>2, MasterType, ParametersAssumption DEF RoundShape
    <2>4. \A p \in Procs : ProcShape(p)'
      BY <2>1 DEF ProcShape, Shape
    <2>5. QED
      BY <2>3, <2>4 DEF Shape
  <1>2. CASE Reduce /\ ~(Offer(Elected) < mpi_best[master])
    BY <1>2, RoundOver DEF Reduce, lists
  <1>3. CASE Gather
    <2>2. path' # <<>>
      BY <1>3, GatheredNode, AppendProperties
    <2>3. UNCHANGED <<pc, cur, held, closed, mpi_best>>
      BY <1>3 DEF Gather, lists
    <2>4. QED
      BY <2>2, <2>3 DEF Shape, RoundShape, ProcShape, Stopped
  <1>4. CASE GatherEnd
    BY <1>4, RoundOver DEF GatherEnd, lists
  <1>5. QED
    BY <1>1, <1>2, <1>3, <1>4

LEMMA ShapeStep == TypeOK /\ Shape /\ [Next]_vars => Shape'
  <1> SUFFICES ASSUME TypeOK, Shape, [Next]_vars PROVE Shape'
    OBVIOUS
  <1>1. CASE Begin
    <2>1. /\ ComputeOrSend(master, RootNode) /\ pc[master] = "root" /\ held' = held
          /\ closed' = closed /\ mpi_best' = mpi_best
      BY <1>1 DEF Begin, lists, rounds
    <2>2. IsFiniteSet(closed[master])
      BY MasterType DEF Shape, ProcShape
    <2>3. \/ pc' = [pc EXCEPT ![master] = "poll"] /\ cur' = cur
          \/ pc' = [pc EXCEPT ![master] = "closing"] /\ cur' = [cur EXCEPT ![master] = RootNode]
      BY <2>1 DEF ComputeOrSend, Goto
    <2>4. CASE pc' = [pc EXCEPT ![master] = "poll"] /\ cur' = cur
      BY <2>1, <2>2, <2>4, MasterType, ShapeOfOne DEF Alone
    <2>5. CASE /\ pc' = [pc EXCEPT ![master] = "closing"]
               /\ cur' = [cur EXCEPT ![master] = RootNode]
      <3>1. cur'[master] # Nil /\ \A q \in Procs \ {master} : cur'[q] = cur[q]
        BY <2>5, MasterType, RootNodeType DEF TypeOK, ProcTypes
      <3>2. QED
        BY <2>1, <2>2, <2>5, <3>1, MasterType, ShapeOfOne DEF Alone
    <2>6. QED
      BY <2>3, <2>4, <2>5
  <1>2. CASE \E p \in Procs : Local(p)
    BY <1>2, ShapeLocal
  <1>3. CASE \E p, q \in Procs : Receive(p, q)
    BY <1>3, ShapeReceive
  <1>4. CASE Reduce \/ Gather \/ GatherEnd
    BY <1>4, ShapeRound
  <1>5. CASE TimerExpires \/ UNCHANGED vars
    <2>1. UNCHANGED <<pc, cur, held, closed, mpi_best, path>>
      BY <1>5 DEF TimerExpires, vars, lists, rounds
    <2>2. QED
      BY <2>1 DEF Shape, RoundShape, ProcShape, Stopped
  <1>6. QED
    BY <1>1, <1>2, <1>3, <1>4, <1>5 DEF Next, Terminating

-----------------------------------------------------------------------------
(* The empty messages of a network, receiver by receiver.                  *)

Networks == [Procs -> [Procs -> Seq(Seq(Node))]]

WaitingIn(nt, p) ==
  UNION {{q} \X {i \in 1 .. Len(nt[q][p]) : nt[q][p][i] = <<>>} : q \in Procs}

LEMMA WaitingPair ==
  ASSUME NEW nt, NEW p, NEW q, NEW i
  PROVE  <<q, i>> \in WaitingIn(nt, p) <=>
           q \in Procs /\ i \in 1 .. Len(nt[q][p]) /\ nt[q][p][i] = <<>>
  BY DEF WaitingIn

LEMMA WaitingIsPair ==
  ASSUME NEW nt, NEW p, NEW x \in WaitingIn(nt, p)
  PROVE  x = <<x[1], x[2]>>
  BY DEF WaitingIn

LEMMA SameWaiting ==
  ASSUME NEW n1, NEW n2, NEW p, NEW r,
         \A q \in Procs : \A i :
           (i \in 1 .. Len(n1[q][p]) /\ n1[q][p][i] = <<>>) <=>
           (i \in 1 .. Len(n2[q][r]) /\ n2[q][r][i] = <<>>)
  PROVE  WaitingIn(n1, p) = WaitingIn(n2, r)
  <1>1. \A q, i : <<q, i>> \in WaitingIn(n1, p) <=> <<q, i>> \in WaitingIn(n2, r)
    <2> SUFFICES ASSUME NEW q, NEW i
                 PROVE  <<q, i>> \in WaitingIn(n1, p) <=> <<q, i>> \in WaitingIn(n2, r)
      OBVIOUS
    <2>1. /\ <<q, i>> \in WaitingIn(n1, p) <=>
               q \in Procs /\ i \in 1 .. Len(n1[q][p]) /\ n1[q][p][i] = <<>>
          /\ <<q, i>> \in WaitingIn(n2, r) <=>
               q \in Procs /\ i \in 1 .. Len(n2[q][r]) /\ n2[q][r][i] = <<>>
      BY WaitingPair
    <2>2. QED
      BY <2>1, Zenon
  <1>2. \A x \in WaitingIn(n1, p) : x \in WaitingIn(n2, r)
    BY <1>1, WaitingIsPair
  <1>3. \A x \in WaitingIn(n2, r) : x \in WaitingIn(n1, p)
    BY <1>1, WaitingIsPair
  <1>4. QED
    BY <1>2, <1>3

(* A call to a round: one more empty message for every process.            *)
LEMMA SyncWaits ==
  ASSUME NEW nt \in Networks, NEW p \in Procs, NEW r \in Procs, IsFiniteSet(WaitingIn(nt, r))
  PROVE  /\ IsFiniteSet(WaitingIn(SyncSent(nt, p), r))
         /\ Cardinality(WaitingIn(SyncSent(nt, p), r)) = Cardinality(WaitingIn(nt, r)) + 1
  <1> DEFINE x == <<p, Len(nt[p][r]) + 1>>
             n2 == SyncSent(nt, p)
  <1>1. /\ nt[p][r] \in Seq(Seq(Node)) /\ Len(nt[p][r]) \in Nat /\ <<>> \in Seq(Node)
    BY DEF Networks
  <1>2. n2[p][r] = Append(nt[p][r], <<>>) /\ \A q \in Procs \ {p} : n2[q][r] = nt[q][r]
    BY DEF SyncSent, Networks
  <1>3. /\ Len(n2[p][r]) = Len(nt[p][r]) + 1
        /\ n2[p][r][Len(nt[p][r]) + 1] = <<>>
        /\ \A i \in 1 .. Len(nt[p][r]) : n2[p][r][i] = nt[p][r][i]
    BY <1>1, <1>2, AppendProperties
  <1> HIDE DEF n2
  <1>4. x \notin WaitingIn(nt, r)
    BY <1>1, WaitingPair
  <1>5. \A q, i : <<q, i>> \in WaitingIn(n2, r) <=> <<q, i>> \in WaitingIn(nt, r) \cup {x}
    <2> SUFFICES ASSUME NEW q, NEW i
                 PROVE  <<q, i>> \in WaitingIn(n2, r) <=> <<q, i>> \in WaitingIn(nt, r) \cup {x}
      OBVIOUS
    <2>1. CASE q = p
      <3>1. i \in 1 .. Len(n2[p][r]) <=> i \in 1 .. Len(nt[p][r]) \/ i = Len(nt[p][r]) + 1
        BY SMTT(60), <1>1, <1>3
      <3>2. <<q, i>> = x <=> i = Len(nt[p][r]) + 1
        BY <2>1
      <3>3. QED
        BY SMTT(60), <1>3, <2>1, <3>1, <3>2, WaitingPair
    <2>2. CASE q # p
      BY <1>2, <2>2, WaitingPair
    <2>3. QED
      BY <2>1, <2>2
  <1>6. WaitingIn(n2, r) = WaitingIn(nt, r) \cup {x}
    <2>1. \A y \in WaitingIn(n2, r) : y \in WaitingIn(nt, r) \cup {x}
      BY <1>5, WaitingIsPair
    <2>2. \A y \in WaitingIn(nt, r) \cup {x} : y \in WaitingIn(n2, r)
      BY <1>5, WaitingIsPair
    <2>3. QED
      BY <2>1, <2>2
  <1>7. QED
    BY <1>4, <1>6, FS_AddElement DEF n2

(* A batch is no call.                                                     *)
Delivers(nt, n2, r, p, d, batch) ==
  \A q \in Procs : n2[q][r] = IF q = p /\ r = d THEN Append(nt[p][d], batch) ELSE nt[q][r]

LEMMA BatchWaits ==
  ASSUME NEW nt \in Networks, NEW p \in Procs, NEW d \in Procs, NEW batch \in Seq(Node),
         batch # <<>>, NEW r \in Procs, NEW n2, Delivers(nt, n2, r, p, d, batch)
  PROVE  WaitingIn(n2, r) = WaitingIn(nt, r)
  <1> USE DEF Delivers
  <1>1. nt[p][d] \in Seq(Seq(Node)) /\ Len(nt[p][d]) \in Nat
    BY DEF Networks
  <1>3. /\ Len(Append(nt[p][d], batch)) = Len(nt[p][d]) + 1
        /\ Append(nt[p][d], batch)[Len(nt[p][d]) + 1] = batch
        /\ \A i \in 1 .. Len(nt[p][d]) : Append(nt[p][d], batch)[i] = nt[p][d][i]
    BY <1>1, AppendProperties
  <1>4. ASSUME NEW q \in Procs, NEW i
        PROVE  (i \in 1 .. Len(n2[q][r]) /\ n2[q][r][i] = <<>>) <=>
               (i \in 1 .. Len(nt[q][r]) /\ nt[q][r][i] = <<>>)
    <2>1. CASE q = p /\ r = d
      <3>1. n2[q][r] = Append(nt[p][d], batch)
        BY <2>1
      <3>2. i \in 1 .. Len(n2[q][r]) <=> i \in 1 .. Len(nt[p][d]) \/ i = Len(nt[p][d]) + 1
        BY <1>1, <1>3, <3>1
      <3>3. QED
        BY <1>3, <2>1, <3>1, <3>2
    <2>2. CASE ~(q = p /\ r = d)
      BY <2>2
    <2>3. QED
      BY <2>1, <2>2
  <1>5. QED
    BY <1>4, SameWaiting

(* A message that is received is one less if it is empty.                  *)
LEMMA TailWaits ==
  ASSUME NEW nt \in Networks, NEW p \in Procs, NEW q \in Procs, nt[q][p] # <<>>,
         NEW r \in Procs, IsFiniteSet(WaitingIn(nt, r)), NEW n2,
         \A u \in Procs : n2[u][r] = IF u = q /\ r = p THEN Tail(nt[q][p]) ELSE nt[u][r]
  PROVE  /\ IsFiniteSet(WaitingIn(n2, r))
         /\ Cardinality(WaitingIn(n2, r)) =
              IF r = p /\ Head(nt[q][p]) = <<>> THEN Cardinality(WaitingIn(nt, r)) - 1
                                               ELSE Cardinality(WaitingIn(nt, r))
  <1> DEFINE l  == Len(nt[q][p])
             x  == <<q, 1>>
             W  == WaitingIn(nt, r) \ {x}
             W2 == WaitingIn(n2, r)
  <1>1. nt[q][p] \in Seq(Seq(Node)) /\ l \in Nat \ {0}
    BY EmptySeq DEF Networks
  <1>2. \A u \in Procs : n2[u][r] = IF u = q /\ r = p THEN Tail(nt[q][p]) ELSE nt[u][r]
    OBVIOUS
  <1>3. /\ Len(Tail(nt[q][p])) = l - 1
        /\ \A i \in 1 .. l - 1 : Tail(nt[q][p])[i] = nt[q][p][i + 1]
        /\ Head(nt[q][p]) = nt[q][p][1]
    BY <1>1, HeadTailProperties
  <1> HIDE DEF l
  <1>4. CASE r # p
    <2>1. W2 = WaitingIn(nt, r)
      BY <1>2, <1>4, SameWaiting
    <2>2. QED
      BY <1>4, <2>1
  <1>5. CASE r = p
    <2>1. x \in WaitingIn(nt, r) <=> Head(nt[q][p]) = <<>>
      BY SMTT(60), <1>1, <1>3, <1>5, WaitingPair DEF l
    <2> DEFINE f == [y \in W |-> IF y[1] = q THEN <<q, y[2] - 1>> ELSE y]
    <2>2. \A u, i : <<u, i>> \in W <=>
                   /\ u \in Procs /\ i \in 1 .. Len(nt[u][p]) /\ nt[u][p][i] = <<>>
                   /\ u = q => i # 1
      <3> SUFFICES ASSUME NEW u, NEW i
                   PROVE  <<u, i>> \in W <=>
                   /\ u \in Procs /\ i \in 1 .. Len(nt[u][p]) /\ nt[u][p][i] = <<>>
                   /\ u = q => i # 1
        OBVIOUS
      <3>1. <<u, i>> \in WaitingIn(nt, r) <=>
              u \in Procs /\ i \in 1 .. Len(nt[u][p]) /\ nt[u][p][i] = <<>>
        BY <1>5, WaitingPair
      <3>2. <<u, i>> = x <=> u = q /\ i = 1
        OBVIOUS
      <3>3. QED
        BY <3>1, <3>2, Zenon
    <2>3. \A u, i : <<u, i>> \in W2 <=>
                   /\ u \in Procs
                   /\ \/ u # q /\ i \in 1 .. Len(nt[u][p]) /\ nt[u][p][i] = <<>>
                      \/ u = q /\ i \in 1 .. l - 1 /\ nt[q][p][i + 1] = <<>>
      <3> SUFFICES ASSUME NEW u, NEW i
                   PROVE  <<u, i>> \in W2 <=>
                   /\ u \in Procs
                   /\ \/ u # q /\ i \in 1 .. Len(nt[u][p]) /\ nt[u][p][i] = <<>>
                      \/ u = q /\ i \in 1 .. l - 1 /\ nt[q][p][i + 1] = <<>>
        OBVIOUS
      <3>1. CASE u = q
        <4>1. n2[u][r] = Tail(nt[q][p]) /\ u \in Procs
          BY <1>2, <1>5, <3>1
        <4>2. <<u, i>> \in W2 <=>
                i \in 1 .. Len(Tail(nt[q][p])) /\ Tail(nt[q][p])[i] = <<>>
          <5>1. <<u, i>> \in W2 <=> u \in Procs /\ i \in 1 .. Len(n2[u][r]) /\ n2[u][r][i] = <<>>
            BY WaitingPair
          <5>2. QED
            BY <4>1, <5>1, Zenon
        <4>3. <<u, i>> \in W2 <=> i \in 1 .. l - 1 /\ nt[q][p][i + 1] = <<>>
          BY <1>3, <4>2
        <4>4. QED
          BY <3>1, <4>1, <4>3, Zenon
      <3>2. CASE u # q
        BY <1>2, <1>5, <3>2, WaitingPair
      <3>3. QED
        BY <3>1, <3>2
    <2>4. f \in Bijection(W, W2)
      <3>1. \A y \in W : y = <<y[1], y[2]>> /\ y \in WaitingIn(nt, p)
        BY <1>5, WaitingIsPair
      <3>2. \A y \in W2 : y = <<y[1], y[2]>>
        BY WaitingIsPair
      <3> HIDE DEF W, W2
      <3>3. ASSUME NEW y \in W
            PROVE  f[y] \in W2
        <4>1. /\ y[1] \in Procs /\ y[2] \in 1 .. Len(nt[y[1]][p]) /\ nt[y[1]][p][y[2]] = <<>>
              /\ y[1] = q => y[2] # 1
          BY ZenonT(120), <2>2, <3>1
        <4>2. CASE y[1] = q
          <5>1. f[y] = <<q, y[2] - 1>>
            BY <4>2
          <5>2. y[2] \in 1 .. l /\ y[2] # 1
            BY <4>1, <4>2 DEF l
          <5>3. y[2] - 1 \in 1 .. l - 1 /\ (y[2] - 1) + 1 = y[2]
            BY <1>1, <5>2
          <5>4. QED
            BY <2>3, <4>1, <4>2, <5>1, <5>3
        <4>3. CASE y[1] # q
          <5>1. f[y] = <<y[1], y[2]>>
            BY <3>1, <4>3
          <5>2. <<y[1], y[2]>> \in W2
            BY <2>3, <4>1, <4>3, Zenon
          <5>3. QED
            BY <5>1, <5>2
        <4>4. QED
          BY <4>2, <4>3
      <3>4. ASSUME NEW z \in W2
            PROVE  \E y \in W : f[y] = z
        <4>1. /\ z[1] \in Procs
              /\ \/ z[1] # q /\ z[2] \in 1 .. Len(nt[z[1]][p]) /\ nt[z[1]][p][z[2]] = <<>>
                 \/ z[1] = q /\ z[2] \in 1 .. l - 1 /\ nt[q][p][z[2] + 1] = <<>>
          <5>1. <<z[1], z[2]>> \in W2
            BY <3>2, Zenon
          <5>2. QED
            BY <2>3, <5>1, Zenon
        <4>2. CASE z[1] = q
          <5>1. /\ z[2] + 1 \in 1 .. Len(nt[q][p]) /\ z[2] + 1 # 1 /\ z[2] \in Nat
                /\ nt[q][p][z[2] + 1] = <<>>
            BY SMTT(60), <1>1, <4>1, <4>2 DEF l
          <5>2. <<q, z[2] + 1>> \in W
            BY <2>2, <4>1, <4>2, <5>1, Zenon
          <5>3. f[<<q, z[2] + 1>>] = <<q, z[2]>>
            BY <5>1, <5>2
          <5>4. QED
            BY <3>2, <4>2, <5>2, <5>3
        <4>3. CASE z[1] # q
          <5>1. <<z[1], z[2]>> \in W
            BY <2>2, <4>1, <4>3, Zenon
          <5>2. z \in W /\ f[z] = z
            BY <3>2, <4>3, <5>1
          <5>3. QED
            BY <5>2
        <4>4. QED
          BY <4>2, <4>3
      <3>5. ASSUME NEW y \in W, NEW z \in W, f[y] = f[z]
            PROVE  y = z
        <4>1. y[1] = z[1]
          <5>1. f[y][1] = y[1] /\ f[z][1] = z[1]
            OBVIOUS
          <5>2. QED
            BY <3>5, <5>1
        <4>2. CASE y[1] = q
          <5>1. y[2] - 1 = z[2] - 1 /\ y[2] \in Int /\ z[2] \in Int
            <6>1. y[2] \in Int /\ z[2] \in Int
              BY <2>2, <3>1
            <6>2. f[y] = <<q, y[2] - 1>> /\ f[z] = <<q, z[2] - 1>>
              BY <4>1, <4>2
            <6>3. QED
              BY <3>5, <6>1, <6>2
          <5>2. y[2] = z[2]
            BY <5>1
          <5>3. QED
            BY <3>1, <4>1, <5>2
        <4>3. CASE y[1] # q
          BY <3>5, <4>1, <4>3
        <4>4. QED
          BY <4>2, <4>3
      <3>6. f \in [W -> W2]
        BY <3>3
      <3> HIDE DEF f
      <3>7. QED
        BY <3>4, <3>5, <3>6 DEF Bijection, Injection, Surjection, IsInjective
    <2>5. IsFiniteSet(W) /\ Cardinality(W) = IF Head(nt[q][p]) = <<>>
                              THEN Cardinality(WaitingIn(nt, r)) - 1
                              ELSE Cardinality(WaitingIn(nt, r))
      BY <2>1, FS_RemoveElement
    <2>6. ExistsBijection(W, W2)
      BY <2>4 DEF ExistsBijection
    <2>7. IsFiniteSet(W2) /\ Cardinality(W2) = Cardinality(W)
      BY <2>5, <2>6, FS_Bijection
    <2>8. QED
      BY <1>5, <2>5, <2>7
  <1>6. QED
    BY <1>4, <1>5

-----------------------------------------------------------------------------
(* The processes are called to the same rounds.                            *)

InRound(p) == IF pc[p] = "round" THEN 1 ELSE 0

Matched ==
  /\ \A p \in Procs : IsFiniteSet(WaitingIn(net, p))
  /\ \A p, q \in Procs :
       Cardinality(WaitingIn(net, p)) + InRound(p) = Cardinality(WaitingIn(net, q)) + InRound(q)

LEMMA MatchedGivesRoundsMatch == Matched /\ Shape => RoundsMatch
  BY DEF Matched, Shape, RoundShape, RoundsMatch, Calls, Waiting, WaitingIn, InRound

LEMMA MatchedInit == Init => Matched
  <1> SUFFICES ASSUME Init PROVE Matched
    OBVIOUS
  <1>1. ASSUME NEW p \in Procs
        PROVE  WaitingIn(net, p) = {} /\ InRound(p) = 0
    <2>1. \A q \in Procs : net[q][p] = <<>> /\ Len(net[q][p]) = 0
      BY DEF Init
    <2>2. ASSUME NEW q, NEW i PROVE <<q, i>> \notin WaitingIn(net, p)
      <3>1. <<q, i>> \in WaitingIn(net, p) => q \in Procs /\ i \in 1 .. Len(net[q][p])
        BY WaitingPair
      <3>2. q \in Procs => i \notin 1 .. Len(net[q][p])
        BY <2>1
      <3>3. QED
        BY <3>1, <3>2, Zenon
    <2>3. WaitingIn(net, p) = {}
      BY <2>2, WaitingIsPair
    <2>4. InRound(p) = 0
      BY DEF Init, InRound
    <2>5. QED
      BY <2>3, <2>4
  <1>2. QED
    BY <1>1, FS_EmptySet DEF Matched

(* A step that changes the calls of every process by the same amount.      *)
Shifted(k) ==
  \A r \in Procs :
    /\ IsFiniteSet(WaitingIn(net', r))
    /\ Cardinality(WaitingIn(net', r)) + InRound(r)' =
         Cardinality(WaitingIn(net, r)) + InRound(r) + k

LEMMA MatchedShift ==
  ASSUME Matched, NEW k \in Int, Shifted(k)
  PROVE  Matched'
  <1>1. \A r \in Procs :
          /\ Cardinality(WaitingIn(net, r)) \in Nat /\ Cardinality(WaitingIn(net', r)) \in Nat
          /\ InRound(r) \in Nat /\ InRound(r)' \in Nat
    BY FS_CardinalityType DEF Matched, InRound, Shifted
  <1>2. ASSUME NEW p \in Procs, NEW q \in Procs
        PROVE  Cardinality(WaitingIn(net', p)) + InRound(p)' =
                 Cardinality(WaitingIn(net', q)) + InRound(q)'
    <2>1. Cardinality(WaitingIn(net, p)) + InRound(p) = Cardinality(WaitingIn(net, q)) + InRound(q)
      BY DEF Matched
    <2>2. QED
      BY <1>1, <2>1 DEF Shifted
  <1>3. QED
    BY <1>2 DEF Matched, Shifted

(* A process that goes on outside of the rounds, sending nothing, a batch or
   a call.                                                                 *)
LEMMA MatchedAlone ==
  ASSUME TypeOK, Matched, NEW p \in Procs, pc[p] # "round",
         NEW l, l # "round", pc' = [pc EXCEPT ![p] = l],
         \/ net' = net
         \/ net' = SyncSent(net, p)
         \/ \E d \in Procs, batch \in Seq(Node) :
              batch # <<>> /\ net' = [net EXCEPT ![p][d] = Append(net[p][d], batch)]
  PROVE  Matched'
  <1>1. \A r \in Procs : InRound(r)' = InRound(r) /\ InRound(r) \in Nat
    BY DEF InRound, TypeOK, ProcTypes
  <1>2. \A r \in Procs :
          /\ IsFiniteSet(WaitingIn(net, r))
          /\ Cardinality(WaitingIn(net, r)) \in Nat
    BY FS_CardinalityType DEF Matched
  <1>3. net \in Networks
    BY DEF TypeOK, MessageTypes, Networks
  <1>4. CASE net' = net
    <2>1. Shifted(0)
      BY <1>1, <1>2, <1>4 DEF Shifted
    <2>2. QED
      BY <2>1, MatchedShift
  <1>5. CASE net' = SyncSent(net, p)
    <2>1. Shifted(1)
      BY <1>1, <1>2, <1>3, <1>5, SyncWaits DEF Shifted
    <2>2. QED
      BY <2>1, MatchedShift
  <1>6. ASSUME NEW d \in Procs, NEW batch \in Seq(Node),
               batch # <<>>, net' = [net EXCEPT ![p][d] = Append(net[p][d], batch)]
        PROVE  Matched'
    <2>1. \A r \in Procs : WaitingIn(net', r) = WaitingIn(net, r)
      <3>1. \A q, r \in Procs :
              net'[q][r] = IF q = p /\ r = d THEN Append(net[p][d], batch) ELSE net[q][r]
        BY <1>3, <1>6 DEF Networks
      <3>2. ASSUME NEW r \in Procs PROVE WaitingIn(net', r) = WaitingIn(net, r)
        <4>1. Delivers(net, net', r, p, d, batch)
          BY <3>1 DEF Delivers
        <4>2. QED
          BY <1>3, <1>6, <4>1, BatchWaits
      <3>3. QED
        BY <3>2
    <2>2. Shifted(0)
      BY <1>1, <1>2, <2>1 DEF Shifted
    <2>3. QED
      BY <2>2, MatchedShift
  <1>7. QED
    BY <1>4, <1>5, <1>6

(* What the calls of processes and the network are together after the master
   has called for the last round.                                          *)
LEMMA CalledWaits ==
  ASSUME TypeOK, Matched, NEW p \in Procs
  PROVE  /\ NetCalled(p) \in Networks
         /\ \E k \in Nat : \A r \in Procs :
              /\ IsFiniteSet(WaitingIn(NetCalled(p), r))
              /\ Cardinality(WaitingIn(NetCalled(p), r)) = Cardinality(WaitingIn(net, r)) + k
              /\ Cardinality(WaitingIn(net, r)) \in Nat
         /\ \A q \in Procs : net[q][p] # <<>> =>
              NetCalled(p)[q][p] # <<>> /\ Head(NetCalled(p)[q][p]) = Head(net[q][p])
  <1>1. \A r \in Procs :
          /\ IsFiniteSet(WaitingIn(net, r))
          /\ Cardinality(WaitingIn(net, r)) \in Nat
    BY FS_CardinalityType DEF Matched
  <1>2. net \in Networks
    BY DEF TypeOK, MessageTypes, Networks
  <1>3. CASE StopCalled(p)
    <2>1. NetCalled(p) = SyncSent(net, p)
      BY <1>3 DEF NetCalled
    <2>2. SyncSent(net, p) \in Networks
      BY <1>2, SyncSentType DEF Networks
    <2>3. \A q \in Procs :
            \/ SyncSent(net, p)[q][p] = net[q][p]
            \/ SyncSent(net, p)[q][p] = Append(net[q][p], <<>>)
      BY <1>2 DEF SyncSent, Networks
    <2>4. \A q \in Procs : net[q][p] \in Seq(Seq(Node))
      BY <1>2 DEF Networks
    <2>5. <<>> \in Seq(Node)
      OBVIOUS
    <2>6. \A q \in Procs : net[q][p] # <<>> =>
            SyncSent(net, p)[q][p] # <<>> /\ Head(SyncSent(net, p)[q][p]) = Head(net[q][p])
      <3> SUFFICES ASSUME NEW q \in Procs, net[q][p] # <<>>
                   PROVE  /\ SyncSent(net, p)[q][p] # <<>>
                          /\ Head(SyncSent(net, p)[q][p]) = Head(net[q][p])
        OBVIOUS
      <3>1. /\ Append(net[q][p], <<>>) # <<>>
            /\ Head(Append(net[q][p], <<>>)) = Head(net[q][p])
        BY <2>4, <2>5, HeadOfAppend
      <3>2. QED
        BY <2>3, <3>1
    <2>7. \A r \in Procs :
            /\ IsFiniteSet(WaitingIn(SyncSent(net, p), r))
            /\ Cardinality(WaitingIn(SyncSent(net, p), r)) = Cardinality(WaitingIn(net, r)) + 1
      BY <1>1, <1>2, SyncWaits
    <2>8. QED
      BY <1>1, <2>1, <2>2, <2>6, <2>7
  <1>4. CASE ~StopCalled(p)
    <2>1. NetCalled(p) = net
      BY <1>4 DEF NetCalled
    <2>2. \A r \in Procs : Cardinality(WaitingIn(net, r)) = Cardinality(WaitingIn(net, r)) + 0
      BY <1>1
    <2>3. QED
      BY <1>1, <1>2, <2>1, <2>2
  <1>5. QED
    BY <1>3, <1>4

LEMMA MatchedReceive ==
  ASSUME TypeOK, Matched, NEW p \in Procs, NEW q \in Procs, Receive(p, q)
  PROVE  Matched'
  <1> DEFINE n1 == NetCalled(p)
  <1>1. /\ net' = [n1 EXCEPT ![q][p] = Tail(n1[q][p])]
        /\ net[q][p] # <<>> /\ pc[p] = "poll"
        /\ \/ Head(net[q][p]) # <<>> /\ pc' = [pc EXCEPT ![p] = Resume(p)]
           \/ Head(net[q][p]) = <<>> /\ pc' = [pc EXCEPT ![p] = "round"]
    BY DEF Receive, PollBatch, PollSync, Goto
  <1>2. /\ n1 \in Networks /\ n1[q][p] # <<>> /\ Head(n1[q][p]) = Head(net[q][p])
    BY <1>1, CalledWaits
  <1>3. PICK k \in Nat : \A r \in Procs :
              /\ IsFiniteSet(WaitingIn(n1, r))
              /\ Cardinality(WaitingIn(n1, r)) = Cardinality(WaitingIn(net, r)) + k
              /\ Cardinality(WaitingIn(net, r)) \in Nat
    BY CalledWaits
  <1> HIDE DEF n1
  <1>4. \A u, r \in Procs : net'[u][r] = IF u = q /\ r = p THEN Tail(n1[q][p]) ELSE n1[u][r]
    BY <1>1, <1>2 DEF Networks
  <1>5. ASSUME NEW r \in Procs
        PROVE  /\ IsFiniteSet(WaitingIn(net', r))
               /\ Cardinality(WaitingIn(net', r)) + InRound(r)' =
                    Cardinality(WaitingIn(net, r)) + InRound(r) + k
    <2>1. /\ IsFiniteSet(WaitingIn(net', r))
          /\ Cardinality(WaitingIn(net', r)) =
               IF r = p /\ Head(n1[q][p]) = <<>> THEN Cardinality(WaitingIn(n1, r)) - 1
                                                ELSE Cardinality(WaitingIn(n1, r))
      BY SMTT(60), <1>2, <1>3, <1>4, TailWaits
    <2>2. /\ Cardinality(WaitingIn(n1, r)) = Cardinality(WaitingIn(net, r)) + k
          /\ Cardinality(WaitingIn(net, r)) \in Nat
      BY <1>3
    <2>3. CASE r # p
      <3>1. InRound(r)' = InRound(r) /\ InRound(r) \in Nat
        BY <1>1, <2>3 DEF InRound, TypeOK, ProcTypes
      <3>2. QED
        BY <2>1, <2>2, <2>3, <3>1
    <2>4. CASE r = p /\ Head(net[q][p]) # <<>>
      <3>1. InRound(r)' = 0 /\ InRound(r) = 0
        BY <1>1, <2>4, ResumeShape DEF InRound, TypeOK, ProcTypes
      <3>2. QED
        BY <1>2, <2>1, <2>2, <2>4, <3>1
    <2>5. CASE r = p /\ Head(net[q][p]) = <<>>
      <3>1. InRound(r)' = 1 /\ InRound(r) = 0
        BY <1>1, <2>5 DEF InRound, TypeOK, ProcTypes
      <3>2. QED
        BY <1>2, <2>1, <2>2, <2>5, <3>1
    <2>6. QED
      BY <2>3, <2>4, <2>5
  <1>6. Shifted(k)
    BY <1>5 DEF Shifted
  <1>7. QED
    BY <1>6, MatchedShift

LEMMA MatchedSend ==
  ASSUME TypeOK, NEW p \in Procs, NEW n \in Node, ComputeOrSend(p, n)
  PROVE  /\ \E l : l # "round" /\ pc' = [pc EXCEPT ![p] = l]
         /\ \/ net' = net
            \/ \E d \in Procs, batch \in Seq(Node) :
                 batch # <<>> /\ net' = [net EXCEPT ![p][d] = Append(net[p][d], batch)]
  <1>1. CASE Owner[n.state] # p
    <2>1. SendNode(p, n) /\ pc' = [pc EXCEPT ![p] = "poll"]
      BY <1>1 DEF ComputeOrSend, Goto
    <2>2. PICK d \in Procs, batch \in Seq(Node), size \in Nat : Cached(p, n, d, batch, size)
      BY <2>1, SendNodeEffect DEF TypeOK
    <2>3. batch # <<>>
      BY Zenon, <2>2 DEF Cached
    <2>4. QED
      BY ZenonT(120), <2>1, <2>2, <2>3 DEF Cached, SendBatch
  <1>2. CASE Owner[n.state] = p
    BY <1>2 DEF ComputeOrSend, Goto, caches
  <1>3. QED
    BY <1>1, <1>2

LEMMA MatchedStep == TypeOK /\ Shape /\ Matched /\ [Next]_vars => Matched'
  <1> SUFFICES ASSUME TypeOK, Shape, Matched, [Next]_vars PROVE Matched'
    OBVIOUS
  <1>1. CASE Begin
    BY ZenonT(120), <1>1, MasterType, RootNodeType, MatchedSend, MatchedAlone DEF Begin
  <1>2. ASSUME NEW p \in Procs, Local(p) PROVE Matched'
    <2>1. CASE CloseInsert(p) \/ ReadNode(p)
      <3>1. net' = net /\ pc[p] # "round" /\ \E l : l # "round" /\ pc' = [pc EXCEPT ![p] = l]
        BY <2>1 DEF CloseInsert, ReadNode, caches, Goto, TypeOK, ProcTypes
      <3>2. QED
        BY <3>1, MatchedAlone
    <2>2. CASE Compute(p)
      <3>1. /\ net' = net \/ net' = SyncSent(net, p)
            /\ pc[p] # "round" /\ \E l : l # "round" /\ pc' = [pc EXCEPT ![p] = l]
        BY <2>2 DEF Compute, Found, OpenAndLook, Forgotten, Goto
      <3>2. QED
        BY <3>1, MatchedAlone
    <2>3. CASE Pop(p)
      <3>1. pc[p] # "round" /\ \E l : l # "round" /\ pc' = [pc EXCEPT ![p] = l]
        BY <2>3 DEF Pop, Goto
      <3>2. \/ net' = net
            \/ /\ cached[p][Fullest(p)] # <<>>
               /\ net' = [net EXCEPT ![p][Fullest(p)] = Append(@, cached[p][Fullest(p)])]
        BY <2>3 DEF Pop, SendBatch
      <3>3. Fullest(p) \in Procs /\ cached[p][Fullest(p)] \in Seq(Node)
        BY FullestIsProc DEF TypeOK, MessageTypes
      <3>4. QED
        BY <3>1, <3>2, <3>3, MatchedAlone
    <2>4. CASE Expand(p)
      <3>1. held[p] \in Node /\ pc[p] # "round"
        BY SMTT(60), <2>4 DEF Expand, Shape, ProcShape, TypeOK, ProcTypes
      <3>2. CASE todo[p] <= Len(opt.acts[held[p].state])
        <4>1. todo[p] \in 1 .. Len(opt.acts[held[p].state])
          BY SMTT(60), <3>1, <3>2, SettingFacts DEF TypeOK, ProcTypes, Node
        <4>2. ~(todo[p] > Len(opt.acts[held[p].state]))
          BY SMTT(60), <3>1, <3>2, SettingFacts DEF TypeOK, ProcTypes, Node
        <4>3. ComputeOrSend(p, Derive(p, held[p], opt.acts[held[p].state][todo[p]], 1))
          BY <2>4, <4>2 DEF Expand
        <4>4. Derive(p, held[p], opt.acts[held[p].state][todo[p]], 1) \in Node
          BY <3>1, <4>1, SonType DEF TypeOK, ProcTypes
        <4>5. QED
          BY <3>1, <4>3, <4>4, MatchedSend, MatchedAlone
      <3>3. CASE ~(todo[p] <= Len(opt.acts[held[p].state]))
        BY <2>4, <3>1, <3>3, MatchedAlone DEF Expand, caches, Goto
      <3>4. QED
        BY <3>2, <3>3
    <2>5. CASE PollNothing(p)
      <3>1. /\ net' = net \/ net' = SyncSent(net, p)
            /\ pc[p] # "round" /\ pc' = [pc EXCEPT ![p] = Resume(p)]
        BY <2>5 DEF PollNothing, NetCalled, Goto
      <3>2. Resume(p) # "round"
        BY ResumeShape
      <3>3. QED
        BY <3>1, <3>2, MatchedAlone
    <2>6. QED
      BY <1>2, <2>1, <2>2, <2>3, <2>4, <2>5 DEF Local
  <1>3. CASE \E p, q \in Procs : Receive(p, q)
    BY <1>3, MatchedReceive
  <1>4. CASE Reduce
    <2>1. net' = net /\ \A r \in Procs : pc[r] = "round"
      BY <1>4 DEF Reduce, caches
    <2>2. \A r \in Procs : pc'[r] # "round"
      BY <1>4, ResumeShape DEF Reduce, AfterRound
    <2>3. \A r \in Procs : IsFiniteSet(WaitingIn(net, r)) /\ Cardinality(WaitingIn(net, r)) \in Nat
      BY FS_CardinalityType DEF Matched
    <2>4. Shifted(-1)
      BY <2>1, <2>2, <2>3 DEF Shifted, InRound
    <2>5. QED
      BY <2>4, MatchedShift
  <1>5. CASE Gather \/ TimerExpires \/ UNCHANGED vars
    <2>1. net' = net /\ pc' = pc
      BY <1>5 DEF Gather, TimerExpires, vars, caches, rounds, lists
    <2>2. QED
      BY <2>1 DEF Matched, InRound
  <1>6. CASE GatherEnd
    <2>1. net' = net /\ \A r \in Procs : pc[r] # "round"
      BY <1>6, MasterType DEF GatherEnd, Shape, RoundShape, caches
    <2>2. \A r \in Procs : pc'[r] # "round"
      BY <1>6, ResumeShape DEF GatherEnd, AfterRound
    <2>3. QED
      BY <2>1, <2>2 DEF Matched, InRound
  <1>7. QED
    BY <1>1, <1>2, <1>3, <1>4, <1>5, <1>6 DEF Next, Terminating

-----------------------------------------------------------------------------
(* Bounds.                                                                 *)

(* A bound is that of the last round, or the makespan of the solution the
   process has found since then.                                           *)
BoundKnown ==
  \A p \in Procs :
    /\ best[p] <= mpi_best[p]
    /\ \/ best[p] = mpi_best[p]
       \/ solution[p] # Nil /\ solution[p].mk = best[p]

LEMMA BoundInit == Init => BoundKnown
  <1> SUFFICES ASSUME Init, NEW p \in Procs PROVE best[p] = MaxTime /\ mpi_best[p] = MaxTime
    BY ParametersAssumption DEF BoundKnown
  <1> QED
    BY DEF Init

(* Only a process that finds a solution, and a round, change a bound.      *)
LEMMA BoundSteps ==
  ASSUME TypeOK, Shape, [Next]_vars
  PROVE  \/ UNCHANGED <<best, mpi_best, solution>>
         \/ \E p \in Procs :
              /\ pc[p] = "computing" /\ cur[p] \in Node /\ cur[p] # Nil
              /\ cur[p].mk < best[p] /\ IsGoal(cur[p].state)
              /\ best' = [best EXCEPT ![p] = cur[p].mk]
              /\ solution' = [solution EXCEPT ![p] = cur[p]]
              /\ mpi_best' = mpi_best
         \/ /\ Reduce /\ Offer(Elected) < mpi_best[master]
            /\ mpi_best' = [p \in Procs |-> Offer(Elected)]
            /\ best' = [p \in Procs |-> Offer(Elected)]
            /\ solution' = solution
  <1>1. CASE \E p \in Procs : Local(p)
    <2>1. PICK p \in Procs : Local(p)
      BY <1>1
    <2>2. CASE Compute(p)
      <3>1. pc[p] = "computing" /\ cur[p] \in Node /\ cur[p] # Nil /\ mpi_best' = mpi_best
        BY <2>2 DEF Compute, rounds, Shape, ProcShape, TypeOK, ProcTypes
      <3>2. \/ best' = best /\ solution' = solution
            \/ /\ cur[p].mk < best[p] /\ IsGoal(cur[p].state)
               /\ best' = [best EXCEPT ![p] = cur[p].mk]
               /\ solution' = [solution EXCEPT ![p] = cur[p]]
        BY <2>2 DEF Compute, Found
      <3>3. QED
        BY <3>1, <3>2
    <2>3. CASE CloseInsert(p) \/ Pop(p) \/ Expand(p) \/ ReadNode(p) \/ PollNothing(p)
      BY <2>3 DEF CloseInsert, Pop, Expand, ReadNode, PollNothing, rounds
    <2>4. QED
      BY <2>1, <2>2, <2>3 DEF Local
  <1>2. CASE Reduce
    BY <1>2 DEF Reduce
  <1>3. CASE \/ Begin \/ \E p, q \in Procs : Receive(p, q)
             \/ Gather \/ GatherEnd \/ TimerExpires \/ UNCHANGED vars
    BY <1>3 DEF Begin, Receive, PollBatch, PollSync, Gather, GatherEnd, TimerExpires, rounds, vars
  <1>4. QED
    BY <1>1, <1>2, <1>3 DEF Next, Terminating

LEMMA BoundStep ==
  ASSUME TypeOK, Shape, BoundKnown, [Next]_vars
  PROVE  BoundKnown' /\ \A p \in Procs : best'[p] <= best[p]
  <1>0. \A p \in Procs :
          best[p] \in Nat /\ mpi_best[p] \in Nat /\ mpi_best[p] = mpi_best[master]
    BY DEF TypeOK, BoundTypes, Shape, RoundShape
  <1>1. CASE UNCHANGED <<best, mpi_best, solution>>
    BY <1>0, <1>1 DEF BoundKnown
  <1>2. ASSUME NEW p \in Procs, cur[p] \in Node, cur[p] # Nil, cur[p].mk < best[p],
               best' = [best EXCEPT ![p] = cur[p].mk],
               solution' = [solution EXCEPT ![p] = cur[p]], mpi_best' = mpi_best
        PROVE  BoundKnown' /\ \A q \in Procs : best'[q] <= best[q]
    <2>1. cur[p].mk \in Nat
      BY <1>2 DEF Node
    <2>2. /\ best'[p] = cur[p].mk /\ solution'[p] = cur[p]
          /\ \A q \in Procs \ {p} : best'[q] = best[q] /\ solution'[q] = solution[q]
      BY <1>2 DEF TypeOK, BoundTypes
    <2>3. ASSUME NEW q \in Procs
          PROVE  /\ best'[q] <= best[q] /\ best'[q] <= mpi_best[q]
                 /\ \/ best'[q] = mpi_best[q]
                    \/ solution'[q] # Nil /\ solution'[q].mk = best'[q]
      <3>1. best[q] <= mpi_best[q] /\ best[q] \in Nat /\ mpi_best[q] \in Nat
        BY <1>0 DEF BoundKnown
      <3>2. CASE q = p
        BY <1>2, <2>1, <2>2, <3>1, <3>2
      <3>3. CASE q # p
        BY <2>2, <3>1, <3>3 DEF BoundKnown
      <3>4. QED
        BY <3>2, <3>3
    <2>4. QED
      BY <1>2, <2>3 DEF BoundKnown
  <1>3. ASSUME Offer(Elected) < mpi_best[master],
               mpi_best' = [p \in Procs |-> Offer(Elected)],
               best' = [p \in Procs |-> Offer(Elected)]
        PROVE  BoundKnown' /\ \A q \in Procs : best'[q] <= best[q]
    <2>1. Offer(Elected) \in Nat
      BY <1>3, ElectedHasSolution
    <2>2. ASSUME NEW q \in Procs PROVE Offer(Elected) <= best[q]
      <3>1. CASE best[q] = mpi_best[q]
        BY <1>0, <1>3, <2>1, <3>1
      <3>2. CASE solution[q] # Nil /\ solution[q].mk = best[q]
        BY <3>2, ElectedLeast DEF Offer
      <3>3. QED
        BY <3>1, <3>2 DEF BoundKnown
    <2>3. \A q \in Procs : best'[q] = Offer(Elected) /\ mpi_best'[q] = Offer(Elected)
      BY <1>3
    <2>4. QED
      BY <2>1, <2>2, <2>3 DEF BoundKnown
  <1>4. QED
    BY <1>1, <1>2, <1>3, BoundSteps

-----------------------------------------------------------------------------
(* Where nodes come from.  A node is derived when its parent is closed by the
   process it names, under the id it names, and a step of the problem leads
   from there to it; what a process works on is tied to what it has closed. *)

LinkedIn(o, m, n) ==
  LET d == n.mk - m.mk IN
  \/ \E i \in 1 .. Len(o.acts[m.state]) :
       o.acts[m.state][i] = [to |-> n.state, dur |-> d]
  \/ o.look[m.state].to = n.state /\ o.look[m.state].dur = d

DerivedIn(o, cl, n) ==
  IF n.parent = Nil THEN n.state = Root
  ELSE \E m \in cl[n.rank] : m.id = n.parent /\ LinkedIn(o, m, n)

AllDerived(o, cl, s) == \A i \in 1 .. Len(s) : DerivedIn(o, cl, s[i])

NetDerived(o, cl, nt) ==
  \A p, q \in Procs : \A i \in 1 .. Len(nt[p][q]) : AllDerived(o, cl, nt[p][q][i])

Alike(m, n) == m.state = n.state /\ m.mk = n.mk /\ m.parent = n.parent /\ m.rank = n.rank

Tied(cl, p, n) == \E m \in cl[p] : m.id = n.id /\ Alike(m, n)

Grows(c1, c2) == \A p \in Procs : c1[p] \subseteq c2[p]

LEMMA DerivedGrows ==
  ASSUME NEW o, NEW c1, NEW c2, Grows(c1, c2), NEW n \in Node, DerivedIn(o, c1, n)
  PROVE  DerivedIn(o, c2, n)
  <1>1. n.rank \in Procs
    BY DEF Node
  <1>2. c1[n.rank] \subseteq c2[n.rank]
    BY <1>1 DEF Grows
  <1>3. QED
    BY <1>2 DEF DerivedIn

LEMMA AllGrows ==
  ASSUME NEW o, NEW c1, NEW c2, Grows(c1, c2), NEW s \in Seq(Node), AllDerived(o, c1, s)
  PROVE  AllDerived(o, c2, s)
  <1> SUFFICES ASSUME NEW i \in 1 .. Len(s) PROVE DerivedIn(o, c2, s[i])
    BY DEF AllDerived
  <1>1. s[i] \in Node /\ DerivedIn(o, c1, s[i])
    BY ElementOfSeq DEF AllDerived
  <1>2. QED
    BY <1>1, DerivedGrows

LEMMA NetGrows ==
  ASSUME NEW o, NEW c1, NEW c2, Grows(c1, c2), NEW nt \in Networks, NetDerived(o, c1, nt)
  PROVE  NetDerived(o, c2, nt)
  <1> SUFFICES ASSUME NEW p \in Procs, NEW q \in Procs, NEW i \in 1 .. Len(nt[p][q])
               PROVE  AllDerived(o, c2, nt[p][q][i])
    BY DEF NetDerived
  <1>1. nt[p][q] \in Seq(Seq(Node))
    BY DEF Networks
  <1>2. nt[p][q][i] \in Seq(Node)
    BY <1>1, ElementOfSeq
  <1>3. AllDerived(o, c1, nt[p][q][i])
    BY DEF NetDerived
  <1>4. QED
    BY <1>2, <1>3, AllGrows

LEMMA TiedGrows ==
  ASSUME NEW c1, NEW c2, Grows(c1, c2), NEW p \in Procs, NEW n, Tied(c1, p, n)
  PROVE  Tied(c2, p, n)
  BY DEF Grows, Tied

LEMMA AlikeDerived ==
  ASSUME NEW o, NEW cl, NEW m, NEW n, Alike(m, n), DerivedIn(o, cl, m)
  PROVE  DerivedIn(o, cl, n)
  BY SMTT(60) DEF Alike, DerivedIn, LinkedIn

LEMMA TiedDerived ==
  ASSUME NEW o, NEW cl, NEW p \in Procs, NEW n, Tied(cl, p, n),
         \A m \in cl[p] : DerivedIn(o, cl, m)
  PROVE  DerivedIn(o, cl, n)
  BY AlikeDerived DEF Tied

(* A node derived from one that is tied.                                   *)
LEMMA SonDerived ==
  ASSUME NEW o \in Settings, NEW cl, NEW p \in Procs, NEW n \in Node, Tied(cl, p, n)
  PROVE  /\ \A i \in 1 .. Len(o.acts[n.state]) :
              DerivedIn(o, cl, Derive(p, n, o.acts[n.state][i], 1))
         /\ DerivedIn(o, cl, Derive(p, n, o.look[n.state], o.look[n.state].steps))
  <1>1. PICK m \in cl[p] : m.id = n.id /\ Alike(m, n)
    BY DEF Tied
  <1>2. n.id \in Nat /\ n.id # Nil /\ n.mk \in Nat /\ n.state \in State
    BY ParametersAssumption DEF Node
  <1>3. m.state = n.state /\ m.mk = n.mk
    BY <1>1 DEF Alike
  <1>4. ASSUME NEW i \in 1 .. Len(o.acts[n.state])
        PROVE  DerivedIn(o, cl, Derive(p, n, o.acts[n.state][i], 1))
    <2> DEFINE a == o.acts[n.state][i]
               son == Derive(p, n, a, 1)
    <2>1. a \in [to : State, dur : Nat]
      <3>1. o.acts[n.state] \in Seq([to : State, dur : Nat])
        BY <1>2, SettingsAssumption
      <3>2. QED
        BY <3>1, ElementOfSeq
    <2> HIDE DEF a
    <2>2. son.mk = n.mk + a.dur /\ son.state = a.to /\ son.parent = n.id /\ son.rank = p
      BY DEF Derive
    <2> HIDE DEF son
    <2>3. son.mk - m.mk = a.dur
      BY <1>2, <1>3, <2>1, <2>2
    <2>4. a = [to |-> son.state, dur |-> son.mk - m.mk]
      BY <2>1, <2>2, <2>3
    <2>5. LinkedIn(o, m, son)
      BY <1>3, <2>4 DEF LinkedIn, a
    <2>6. DerivedIn(o, cl, son)
      BY <1>1, <1>2, <2>2, <2>5 DEF DerivedIn
    <2>7. QED
      BY <2>6 DEF son, a
  <1>5. DerivedIn(o, cl, Derive(p, n, o.look[n.state], o.look[n.state].steps))
    <2> DEFINE a == o.look[n.state]
               son == Derive(p, n, a, a.steps)
    <2>1. a \in [to : State, dur : Nat, steps : Nat]
      BY <1>2, SettingsAssumption
    <2> HIDE DEF a
    <2>2. son.mk = n.mk + a.dur /\ son.state = a.to /\ son.parent = n.id /\ son.rank = p
      BY DEF Derive
    <2> HIDE DEF son
    <2>3. son.mk - m.mk = a.dur
      BY <1>2, <1>3, <2>1, <2>2
    <2>4. LinkedIn(o, m, son)
      BY <1>3, <2>2, <2>3 DEF LinkedIn, a
    <2>5. DerivedIn(o, cl, son)
      BY <1>1, <1>2, <2>2, <2>4 DEF DerivedIn
    <2>6. QED
      BY <2>5 DEF son, a
  <1>6. QED
    BY <1>4, <1>5

LEMMA AllOfAppend ==
  ASSUME NEW o, NEW cl, NEW s \in Seq(Node), NEW n \in Node,
         AllDerived(o, cl, s), DerivedIn(o, cl, n)
  PROVE  AllDerived(o, cl, Append(s, n))
  <1> SUFFICES ASSUME NEW i \in 1 .. Len(Append(s, n)) PROVE DerivedIn(o, cl, Append(s, n)[i])
    BY DEF AllDerived
  <1>1. Len(s) \in Nat /\ Len(Append(s, n)) = Len(s) + 1
    BY AppendProperties, LenProperties
  <1>2. CASE i = Len(s) + 1
    BY <1>2, AppendProperties
  <1>3. CASE i # Len(s) + 1
    <2>1. i \in 1 .. Len(s)
      BY <1>1, <1>3
    <2>2. Append(s, n)[i] = s[i]
      BY <2>1, AppendProperties
    <2>3. QED
      BY <2>1, <2>2 DEF AllDerived
  <1>4. QED
    BY <1>2, <1>3

LEMMA AllOfTail ==
  ASSUME NEW o, NEW cl, NEW s \in Seq(Node), s # <<>>, AllDerived(o, cl, s)
  PROVE  DerivedIn(o, cl, Head(s)) /\ AllDerived(o, cl, Tail(s))
  <1>1. Len(s) \in Nat \ {0} /\ Head(s) = s[1]
    BY EmptySeq
  <1>2. ASSUME NEW i \in 1 .. Len(Tail(s)) PROVE DerivedIn(o, cl, Tail(s)[i])
    <2>1. Tail(s)[i] = s[i + 1] /\ i + 1 \in 1 .. Len(s)
      BY <1>1, HeadTailProperties
    <2>2. QED
      BY <2>1 DEF AllDerived
  <1>3. QED
    BY <1>1, <1>2 DEF AllDerived

LEMMA NetOfSync ==
  ASSUME NEW o, NEW cl, NEW nt \in Networks, NetDerived(o, cl, nt), NEW p \in Procs
  PROVE  NetDerived(o, cl, SyncSent(nt, p))
  <1> SUFFICES ASSUME NEW u \in Procs, NEW q \in Procs, NEW i \in 1 .. Len(SyncSent(nt, p)[u][q])
               PROVE  AllDerived(o, cl, SyncSent(nt, p)[u][q][i])
    BY DEF NetDerived
  <1>1. SyncSent(nt, p)[u][q] = IF u = p THEN Append(nt[u][q], <<>>) ELSE nt[u][q]
    BY DEF SyncSent, Networks
  <1>2. nt[u][q] \in Seq(Seq(Node)) /\ Len(nt[u][q]) \in Nat /\ <<>> \in Seq(Node)
    BY DEF Networks
  <1>3. CASE u = p /\ i = Len(nt[u][q]) + 1
    <2>1. SyncSent(nt, p)[u][q][i] = <<>>
      BY <1>1, <1>2, <1>3, AppendProperties
    <2>2. QED
      BY <2>1 DEF AllDerived
  <1>4. CASE ~(u = p /\ i = Len(nt[u][q]) + 1)
    <2>1. i \in 1 .. Len(nt[u][q]) /\ SyncSent(nt, p)[u][q][i] = nt[u][q][i]
      BY <1>1, <1>2, <1>4, AppendProperties
    <2>2. QED
      BY <2>1 DEF NetDerived
  <1>5. QED
    BY <1>3, <1>4

(* One list of messages is replaced: by itself with a batch, or its tail.  *)
LEMMA NetOfBatch ==
  ASSUME NEW o, NEW cl, NEW nt \in Networks, NetDerived(o, cl, nt), NEW p \in Procs,
         NEW d \in Procs, NEW batch \in Seq(Node), AllDerived(o, cl, batch),
         NEW n2, n2 = [nt EXCEPT ![p][d] = Append(nt[p][d], batch)]
  PROVE  NetDerived(o, cl, n2)
  <1> SUFFICES ASSUME NEW u \in Procs, NEW q \in Procs, NEW i \in 1 .. Len(n2[u][q])
               PROVE  AllDerived(o, cl, n2[u][q][i])
    BY DEF NetDerived
  <1>1. n2[u][q] = IF u = p /\ q = d THEN Append(nt[u][q], batch) ELSE nt[u][q]
    BY DEF Networks
  <1>2. nt[u][q] \in Seq(Seq(Node)) /\ Len(nt[u][q]) \in Nat
    BY DEF Networks
  <1>3. CASE u = p /\ q = d /\ i = Len(nt[u][q]) + 1
    <2>1. n2[u][q][i] = batch
      BY <1>1, <1>2, <1>3, AppendProperties
    <2>2. QED
      BY <2>1
  <1>4. CASE ~(u = p /\ q = d /\ i = Len(nt[u][q]) + 1)
    <2>1. i \in 1 .. Len(nt[u][q]) /\ n2[u][q][i] = nt[u][q][i]
      BY <1>1, <1>2, <1>4, AppendProperties
    <2>2. QED
      BY <2>1 DEF NetDerived
  <1>5. QED
    BY <1>3, <1>4

LEMMA NetOfTail ==
  ASSUME NEW o, NEW cl, NEW nt \in Networks, NetDerived(o, cl, nt), NEW p \in Procs,
         NEW d \in Procs, nt[p][d] # <<>>,
         NEW n2, n2 = [nt EXCEPT ![p][d] = Tail(nt[p][d])]
  PROVE  NetDerived(o, cl, n2)
  <1> SUFFICES ASSUME NEW u \in Procs, NEW q \in Procs, NEW i \in 1 .. Len(n2[u][q])
               PROVE  AllDerived(o, cl, n2[u][q][i])
    BY DEF NetDerived
  <1>1. n2[u][q] = IF u = p /\ q = d THEN Tail(nt[u][q]) ELSE nt[u][q]
    BY DEF Networks
  <1>2. nt[u][q] \in Seq(Seq(Node)) /\ Len(nt[u][q]) \in Nat
    BY DEF Networks
  <1>3. CASE u = p /\ q = d
    <2>1. n2[u][q][i] = nt[u][q][i + 1] /\ i + 1 \in 1 .. Len(nt[u][q])
      <3>1. nt[u][q] # <<>> /\ n2[u][q] = Tail(nt[u][q]) /\ i \in 1 .. Len(Tail(nt[u][q]))
        BY <1>1, <1>3
      <3>2. /\ Len(Tail(nt[u][q])) = Len(nt[u][q]) - 1
            /\ Tail(nt[u][q])[i] = nt[u][q][i + 1]
        BY <1>2, <3>1, HeadTailProperties
      <3>3. i \in 1 .. Len(nt[u][q]) - 1
        BY <3>1, <3>2
      <3>4. i + 1 \in 1 .. Len(nt[u][q])
        BY SMTT(60), <1>2, <3>3
      <3>5. QED
        BY <3>1, <3>2, <3>4
    <2>2. QED
      BY <2>1 DEF NetDerived
  <1>4. CASE ~(u = p /\ q = d)
    BY <1>1, <1>4 DEF NetDerived
  <1>5. QED
    BY <1>3, <1>4

-----------------------------------------------------------------------------
(* Ids.                                                                    *)

Numbered ==
  \A p \in Procs :
    /\ \A n \in closed[p] : n.id < Cardinality(closed[p])
    /\ \A m, n \in closed[p] : m.id = n.id => m = n

(* A closed list stays, or one process adds a node with the next id.       *)
Adds(p, n) ==
  closed' = [closed EXCEPT ![p] = closed[p] \cup {[n EXCEPT !.id = Cardinality(closed[p])]}]

LEMMA ClosedStep ==
  ASSUME TypeOK, Shape, [Next]_vars
  PROVE  /\ opt' = opt
         /\ \/ closed' = closed
            \/ \E p \in Procs : CloseInsert(p) /\ cur[p] \in Node /\ Adds(p, cur[p])
            \/ \E p \in Procs :
                 ReadNode(p) /\ Head(unread[p]) \in Node /\ Adds(p, Head(unread[p]))
  <1>1. CASE \E p \in Procs : Local(p)
    <2>1. PICK p \in Procs : Local(p)
      BY <1>1
    <2>2. CASE CloseInsert(p)
      <3>1. cur[p] \in Node
        BY <2>2 DEF CloseInsert, Shape, ProcShape, TypeOK, ProcTypes
      <3>2. QED
        BY <2>2, <3>1 DEF CloseInsert, Adds
    <2>3. CASE ReadNode(p)
      <3>1. Head(unread[p]) \in Node
        BY <2>3 DEF ReadNode, TypeOK, MessageTypes
      <3>2. QED
        BY <2>3, <3>1 DEF ReadNode, InsertForeign, Adds, lists
    <2>4. CASE Compute(p) \/ Pop(p) \/ Expand(p) \/ PollNothing(p)
      BY <2>4 DEF Compute, Pop, Expand, PollNothing, lists
    <2>5. QED
      BY <2>1, <2>2, <2>3, <2>4 DEF Local
  <1>2. CASE \/ Begin \/ \E p, q \in Procs : Receive(p, q)
             \/ Reduce \/ Gather \/ GatherEnd \/ TimerExpires \/ UNCHANGED vars
    BY <1>2 DEF Begin, Receive, PollBatch, PollSync, Reduce, Gather, GatherEnd, TimerExpires,
       lists, vars
  <1>3. QED
    BY <1>1, <1>2 DEF Next, Terminating

LEMMA ClosedGrows ==
  ASSUME TypeOK, Shape, [Next]_vars
  PROVE  opt' = opt /\ Grows(closed, closed')
  BY ClosedStep DEF Grows, Adds, TypeOK, ListTypes

LEMMA AddedNode ==
  ASSUME TypeOK, Shape, NEW p \in Procs, NEW n \in Node, Adds(p, n)
  PROVE  LET m == [n EXCEPT !.id = Cardinality(closed[p])]
         IN /\ m \in Node /\ m.id = Cardinality(closed[p]) /\ Alike(n, m) /\ Alike(m, n)
            /\ closed'[p] = closed[p] \cup {m}
            /\ \A q \in Procs \ {p} : closed'[q] = closed[q]
            /\ Cardinality(closed[p]) \in Nat
  <1>1. ProcShape(p)
    BY DEF Shape
  <1>2. Cardinality(closed[p]) \in Nat
    BY <1>1, CardinalityNat
  <1>3. QED
    BY <1>2, NumberedType DEF Adds, Alike, Node, TypeOK, ListTypes

LEMMA NumberedInit == Init => Numbered
  <1> SUFFICES ASSUME Init, NEW p \in Procs PROVE closed[p] = {}
    BY DEF Numbered
  <1> QED
    BY DEF Init

LEMMA NumberedAdds ==
  ASSUME TypeOK, Shape, Numbered, NEW p \in Procs, NEW n \in Node, Adds(p, n)
  PROVE  Numbered'
  <1> DEFINE m == [n EXCEPT !.id = Cardinality(closed[p])]
  <1>1. /\ m \in Node /\ m.id = Cardinality(closed[p])
        /\ closed'[p] = closed[p] \cup {m}
        /\ \A q \in Procs \ {p} : closed'[q] = closed[q]
        /\ Cardinality(closed[p]) \in Nat
    BY AddedNode
  <1> HIDE DEF m
  <1>2. \A x \in closed[p] : x.id < Cardinality(closed[p]) /\ x.id \in Nat
    BY DEF Numbered, TypeOK, ListTypes, Node
  <1>3. m \notin closed[p]
    BY <1>1, <1>2
  <1>4. Cardinality(closed'[p]) = Cardinality(closed[p]) + 1
    BY ZenonT(120), <1>1, <1>3, FS_AddElement DEF Shape, ProcShape
  <1>5. \A x \in closed'[p] : x.id < Cardinality(closed'[p])
    BY <1>1, <1>2, <1>4
  <1>6. ASSUME NEW x \in closed'[p], NEW y \in closed'[p], x.id = y.id
        PROVE  x = y
    BY <1>1, <1>2, <1>6 DEF Numbered
  <1>7. ASSUME NEW q \in Procs
        PROVE  /\ \A x \in closed'[q] : x.id < Cardinality(closed'[q])
               /\ \A x, y \in closed'[q] : x.id = y.id => x = y
    <2>1. CASE q = p
      BY <1>5, <1>6, <2>1
    <2>2. CASE q # p
      BY <1>1, <2>2 DEF Numbered
    <2>3. QED
      BY <2>1, <2>2
  <1>8. QED
    BY <1>7 DEF Numbered

LEMMA NumberedStep == TypeOK /\ Shape /\ Numbered /\ [Next]_vars => Numbered'
  <1> SUFFICES ASSUME TypeOK, Shape, Numbered, [Next]_vars PROVE Numbered'
    OBVIOUS
  <1>1. CASE closed' = closed
    BY <1>1 DEF Numbered
  <1>2. CASE \E p \in Procs, n \in Node : Adds(p, n)
    BY <1>2, NumberedAdds
  <1>3. QED
    BY <1>1, <1>2, ClosedStep

-----------------------------------------------------------------------------
(* Derivations.                                                            *)

ClosedDerived == \A p \in Procs : \A n \in closed[p] : DerivedIn(opt, closed, n)

ProcDerived(p) ==
  /\ pc[p] = "closing" => DerivedIn(opt, closed, cur[p])
  /\ pc[p] = "computing" => Tied(closed, p, cur[p])
  /\ held[p] # Nil => Tied(closed, p, held[p])
  /\ \A n \in open[p] : Tied(closed, p, n)
  /\ solution[p] # Nil =>
       DerivedIn(opt, closed, solution[p]) /\ opt.heur[solution[p].state] = 0

MessagesDerived ==
  /\ \A p \in Procs : AllDerived(opt, closed, unread[p])
  /\ \A p, q \in Procs : AllDerived(opt, closed, cached[p][q])
  /\ NetDerived(opt, closed, net)

NodesDerived == ClosedDerived /\ MessagesDerived /\ \A p \in Procs : ProcDerived(p)

LEMMA DerivedInit == Init => NodesDerived
  <1> SUFFICES ASSUME Init PROVE NodesDerived
    OBVIOUS
  <1>1. ASSUME NEW p \in Procs
        PROVE  /\ closed[p] = {} /\ open[p] = {} /\ held[p] = Nil /\ solution[p] = Nil
               /\ pc[p] \in {"root", "poll"} /\ unread[p] = <<>>
               /\ \A q \in Procs : cached[p][q] = <<>> /\ net[p][q] = <<>>
    BY DEF Init
  <1>2. \A s : s = <<>> => Len(s) = 0
    OBVIOUS
  <1>3. \A s : s = <<>> => AllDerived(opt, closed, s)
    BY <1>2 DEF AllDerived
  <1>4. NetDerived(opt, closed, net)
    BY <1>1, <1>2 DEF NetDerived
  <1>5. QED
    BY <1>1, <1>3, <1>4 DEF NodesDerived, ClosedDerived, MessagesDerived, ProcDerived

(* A closed node that is added is derived as the node it is a copy of.     *)
LEMMA ClosedDerivedAdds ==
  ASSUME TypeOK, Shape, ClosedDerived, opt' = opt, Grows(closed, closed'),
         NEW p \in Procs, NEW n \in Node, Adds(p, n), DerivedIn(opt, closed, n)
  PROVE  ClosedDerived'
  <1> SUFFICES ASSUME NEW q \in Procs, NEW x \in closed'[q]
               PROVE  DerivedIn(opt, closed', x)
    BY DEF ClosedDerived
  <1> DEFINE m == [n EXCEPT !.id = Cardinality(closed[p])]
  <1>1. /\ m \in Node /\ Alike(n, m)
        /\ closed'[p] = closed[p] \cup {m} /\ \A u \in Procs \ {p} : closed'[u] = closed[u]
    BY AddedNode
  <1> HIDE DEF m
  <1>2. CASE x \in closed[q]
    <2>1. x \in Node /\ DerivedIn(opt, closed, x)
      BY <1>2 DEF ClosedDerived, TypeOK, ListTypes
    <2>2. QED
      BY <2>1, DerivedGrows
  <1>3. CASE x = m
    <2>1. DerivedIn(opt, closed', n)
      BY DerivedGrows
    <2>2. QED
      BY <1>1, <1>3, <2>1, AlikeDerived
  <1>4. QED
    BY <1>1, <1>2, <1>3

LEMMA ClosedDerivedStep ==
  ASSUME TypeOK, Shape, NodesDerived, [Next]_vars
  PROVE  ClosedDerived'
  <1>0. opt' = opt /\ Grows(closed, closed')
    BY ClosedGrows
  <1>1. CASE closed' = closed
    BY <1>0, <1>1 DEF NodesDerived, ClosedDerived
  <1>2. ASSUME NEW p \in Procs, CloseInsert(p), cur[p] \in Node, Adds(p, cur[p])
        PROVE  ClosedDerived'
    <2>1. DerivedIn(opt, closed, cur[p])
      BY <1>2 DEF CloseInsert, NodesDerived, ProcDerived
    <2>2. QED
      BY <1>0, <1>2, <2>1, ClosedDerivedAdds DEF NodesDerived
  <1>3. ASSUME NEW p \in Procs, ReadNode(p), Head(unread[p]) \in Node, Adds(p, Head(unread[p]))
        PROVE  ClosedDerived'
    <2>1. unread[p] # <<>> /\ unread[p] \in Seq(Node) /\ AllDerived(opt, closed, unread[p])
      BY <1>3 DEF ReadNode, NodesDerived, MessagesDerived, TypeOK, MessageTypes
    <2>2. DerivedIn(opt, closed, Head(unread[p]))
      BY <2>1, AllOfTail
    <2>3. QED
      BY <1>0, <1>3, <2>2, ClosedDerivedAdds DEF NodesDerived
  <1>4. QED
    BY <1>1, <1>2, <1>3, ClosedStep

(* What the others have is as it was.                                      *)
LEMMA OtherDerived ==
  ASSUME TypeOK, opt' = opt, Grows(closed, closed'), NEW q \in Procs, ProcDerived(q),
         ProcShape(q),
         pc'[q] = pc[q] \/ pc'[q] \notin {"closing", "computing"},
         cur'[q] = cur[q], held'[q] = held[q], open'[q] = open[q], solution'[q] = solution[q]
  PROVE  ProcDerived(q)'
  <1>1. pc[q] = "closing" => DerivedIn(opt, closed', cur[q])
    BY DerivedGrows DEF ProcDerived, ProcShape, TypeOK, ProcTypes
  <1>2. solution[q] # Nil => DerivedIn(opt, closed', solution[q])
    BY DerivedGrows DEF ProcDerived, TypeOK, BoundTypes
  <1>3. /\ pc[q] = "computing" => Tied(closed', q, cur[q])
        /\ held[q] # Nil => Tied(closed', q, held[q])
        /\ \A n \in open[q] : Tied(closed', q, n)
    BY TiedGrows DEF ProcDerived
  <1>4. QED
    BY <1>1, <1>2, <1>3 DEF ProcDerived

(* The node that was added is tied to its copy.                            *)
LEMMA AddedTied ==
  ASSUME TypeOK, Shape, NEW p \in Procs, NEW n \in Node, Adds(p, n)
  PROVE  Tied(closed', p, [n EXCEPT !.id = Cardinality(closed[p])])
  <1> DEFINE m == [n EXCEPT !.id = Cardinality(closed[p])]
  <1>1. m \in closed'[p]
    BY AddedNode
  <1>2. QED
    BY <1>1 DEF Tied, Alike

LEMMA ProcDerivedLocal ==
  ASSUME TypeOK, Shape, NodesDerived, opt' = opt, Grows(closed, closed'),
         NEW p \in Procs, Local(p)
  PROVE  ProcDerived(p)'
  <1>0. /\ ProcDerived(p) /\ ProcShape(p)
        /\ cur[p] \in Node \cup {Nil} /\ solution[p] \in Node \cup {Nil}
    BY DEF NodesDerived, Shape, TypeOK, ProcTypes, BoundTypes
  <1>1. CASE CloseInsert(p)
    <2>1. /\ pc[p] = "closing" /\ cur[p] \in Node
          /\ held' = held /\ open' = open /\ solution' = solution
      BY <1>0, <1>1 DEF CloseInsert, ProcShape
    <2>2. /\ solution[p] # Nil => DerivedIn(opt, closed', solution[p])
          /\ held[p] # Nil => Tied(closed', p, held[p])
          /\ \A n \in open[p] : Tied(closed', p, n)
      BY <1>0, DerivedGrows, TiedGrows DEF ProcDerived
    <2>3. CASE pc'[p] = "poll"
      BY <1>0, <2>1, <2>2, <2>3 DEF ProcDerived
    <2>4. CASE /\ Adds(p, cur[p]) /\ pc'[p] = "computing"
               /\ cur'[p] = [cur[p] EXCEPT !.id = Cardinality(closed[p])]
      <3>1. Tied(closed', p, cur'[p])
        BY <2>1, <2>4, AddedTied
      <3>2. QED
        BY <1>0, <2>1, <2>2, <2>4, <3>1 DEF ProcDerived
    <2>5. QED
      BY <1>1, <2>3, <2>4 DEF CloseInsert, Goto, Adds, TypeOK, ProcTypes
  <1>2. CASE Compute(p)
    <2>1. /\ pc[p] = "computing" /\ cur[p] \in Node /\ held' = held /\ closed' = closed
          /\ Tied(closed, p, cur[p])
      BY <1>0, <1>2 DEF Compute, ProcShape, ProcDerived
    <2> DEFINE s == cur[p].state
               n == [cur[p] EXCEPT !.f = cur[p].len + Weight * opt.heur[s], !.fresh = FALSE]
               son == Derive(p, n, opt.look[s], opt.look[s].steps)
    <2>2. n \in Node
      <3>1. s \in State /\ cur[p].len \in Nat
        BY <2>1 DEF Node
      <3>2. cur[p].len + Weight * opt.heur[s] \in Int
        BY SMTT(60), <3>1, SettingFacts, ParametersAssumption DEF TypeOK, ProcTypes
      <3>3. QED
        BY <2>1, <3>2, ChangedType
    <2>3. Tied(closed, p, n) /\ n.state = s
      <3>1. n.id = cur[p].id /\ Alike(cur[p], n) /\ n.state = s
        BY <2>1 DEF Alike, Node
      <3>2. QED
        BY <2>1, <3>1 DEF Tied, Alike
    <2>4. DerivedIn(opt, closed, son)
      BY ZenonT(120), <2>2, <2>3, SonDerived DEF TypeOK, ProcTypes
    <2>5. DerivedIn(opt, closed, cur[p])
      BY <2>1, TiedDerived DEF NodesDerived, ClosedDerived
    <2>6. open' = open \/ open' = [open EXCEPT ![p] = open[p] \cup {n}]
      BY <1>2 DEF Compute, OpenAndLook
    <2>7. \/ pc'[p] = "poll"
          \/ pc'[p] = "closing" /\ cur'[p] = son
      BY <1>2 DEF Compute, OpenAndLook, Forgotten, Goto, TypeOK, ProcTypes
    <2>8. \/ solution' = solution
          \/ solution'[p] = cur[p] /\ opt.heur[s] = 0
      BY <1>2 DEF Compute, Found, IsGoal, TypeOK, BoundTypes
    <2> HIDE DEF n, son
    <2>9. \A x \in open'[p] : Tied(closed, p, x)
      BY <1>0, <2>3, <2>6 DEF ProcDerived, TypeOK, ListTypes
    <2>10. solution'[p] # Nil =>
             DerivedIn(opt, closed, solution'[p]) /\ opt.heur[solution'[p].state] = 0
      BY <1>0, <2>5, <2>8 DEF ProcDerived
    <2>11. QED
      BY <1>0, <2>1, <2>4, <2>7, <2>9, <2>10 DEF ProcDerived
  <1>3. CASE Pop(p)
    <2>1. /\ pc[p] = "pop" /\ closed' = closed /\ solution' = solution
      BY <1>3 DEF Pop
    <2>2. CASE pc' = [pc EXCEPT ![p] = "poll"] /\ UNCHANGED <<open, cur, held>>
      BY <1>0, <2>1, <2>2, OtherDerived DEF TypeOK, ProcTypes
    <2>3. CASE \E n \in BestOf(open[p]) :
                 /\ open' = [open EXCEPT ![p] = @ \ {n}]
                 /\ \/ /\ cur' = [cur EXCEPT ![p] = n] /\ pc' = [pc EXCEPT ![p] = "computing"]
                       /\ held' = held
                    \/ /\ held' = [held EXCEPT ![p] = n] /\ pc' = [pc EXCEPT ![p] = "expand"]
                       /\ cur' = cur
      <3>1. PICK n \in BestOf(open[p]) :
                 /\ open' = [open EXCEPT ![p] = @ \ {n}]
                 /\ \/ /\ cur' = [cur EXCEPT ![p] = n] /\ pc' = [pc EXCEPT ![p] = "computing"]
                       /\ held' = held
                    \/ /\ held' = [held EXCEPT ![p] = n] /\ pc' = [pc EXCEPT ![p] = "expand"]
                       /\ cur' = cur
        BY <2>3
      <3>2. Tied(closed, p, n) /\ \A x \in open'[p] : Tied(closed, p, x)
        BY <1>0, <3>1 DEF ProcDerived, BestOf, TypeOK, ListTypes
      <3>3. \/ pc'[p] = "computing" /\ cur'[p] = n /\ held' = held
            \/ pc'[p] = "expand" /\ held'[p] = n
        BY <3>1 DEF TypeOK, ProcTypes
      <3>4. QED
        BY <1>0, <2>1, <3>2, <3>3 DEF ProcDerived
    <2>4. QED
      BY <1>3, <2>2, <2>3 DEF Pop, Goto
  <1>4. CASE Expand(p)
    <2>1. /\ pc[p] = "expand" /\ open' = open /\ closed' = closed /\ solution' = solution
          /\ held[p] # Nil /\ held[p] \in Node /\ Tied(closed, p, held[p])
      BY <1>0, <1>4 DEF Expand, lists, ProcShape, ProcDerived, TypeOK, ProcTypes
    <2>2. CASE todo[p] <= Len(opt.acts[held[p].state])
      <3> DEFINE son == Derive(p, held[p], opt.acts[held[p].state][todo[p]], 1)
      <3>1. ComputeOrSend(p, son) /\ held' = held
        <4>1. ~(todo[p] > Len(opt.acts[held[p].state]))
          BY <2>1, <2>2, SettingFacts DEF TypeOK, ProcTypes, Node
        <4>2. QED
          BY <1>4, <4>1 DEF Expand
      <3>2. DerivedIn(opt, closed, son)
        <4>1. todo[p] \in 1 .. Len(opt.acts[held[p].state])
          BY <2>1, <2>2, SettingFacts DEF TypeOK, ProcTypes, Node
        <4>2. QED
          BY <2>1, <4>1, SonDerived DEF TypeOK, ProcTypes
      <3> HIDE DEF son
      <3>3. \/ pc'[p] = "poll"
            \/ pc'[p] = "closing" /\ cur'[p] = son
        BY <3>1 DEF ComputeOrSend, Goto, TypeOK, ProcTypes
      <3>4. QED
        BY <1>0, <2>1, <3>1, <3>2, <3>3 DEF ProcDerived
    <2>3. CASE /\ held' = [held EXCEPT ![p] = Nil] /\ Goto(p, "poll")
               /\ UNCHANGED <<todo, cur, caches>>
      <3>1. held'[p] = Nil /\ pc'[p] = "poll"
        BY <2>3 DEF Goto, TypeOK, ProcTypes
      <3>2. QED
        BY <1>0, <2>1, <3>1 DEF ProcDerived
    <2>4. QED
      BY <1>4, <2>2, <2>3 DEF Expand
  <1>5. CASE ReadNode(p)
    <2>1. /\ pc[p] = "poll" /\ pc' = pc /\ cur' = cur /\ held' = held /\ solution' = solution
      BY <1>5 DEF ReadNode
    <2>2. CASE UNCHANGED lists
      BY <1>0, <2>1, <2>2, OtherDerived DEF lists
    <2>3. CASE ~(UNCHANGED lists)
      <3> DEFINE n == Head(unread[p])
                 m == [n EXCEPT !.id = Cardinality(closed[p])]
      <3>1. /\ Adds(p, n) /\ open' = [open EXCEPT ![p] = open[p] \cup {m}]
            /\ n \in Node
        BY <1>5, <2>3 DEF ReadNode, InsertForeign, Adds, TypeOK, MessageTypes
      <3>2. Tied(closed', p, m)
        BY <3>1, AddedTied
      <3> HIDE DEF m, n
      <3>3. \A x \in open'[p] : Tied(closed', p, x)
        BY <1>0, <3>1, <3>2, TiedGrows DEF ProcDerived, TypeOK, ListTypes
      <3>4. /\ solution[p] # Nil => DerivedIn(opt, closed', solution[p])
            /\ held[p] # Nil => Tied(closed', p, held[p])
        BY <1>0, DerivedGrows, TiedGrows DEF ProcDerived
      <3>5. QED
        BY <1>0, <2>1, <3>3, <3>4 DEF ProcDerived
    <2>4. QED
      BY <2>2, <2>3
  <1>6. CASE PollNothing(p)
    <2>1. /\ pc'[p] \notin {"closing", "computing"}
          /\ UNCHANGED <<cur, held, open, solution>>
      BY <1>6, ResumeShape DEF PollNothing, Goto, lists, TypeOK, ProcTypes
    <2>2. QED
      BY <1>0, <2>1, OtherDerived
  <1>7. QED
    BY <1>1, <1>2, <1>3, <1>4, <1>5, <1>6 DEF Local

(* A process that goes on leaves alone what the others have.               *)
LEMMA OthersAlone ==
  ASSUME TypeOK, NEW p \in Procs, NEW q \in Procs \ {p}, Local(p)
  PROVE  /\ pc'[q] = pc[q] /\ cur'[q] = cur[q] /\ held'[q] = held[q]
         /\ open'[q] = open[q] /\ solution'[q] = solution[q] /\ todo'[q] = todo[q]
         /\ closed'[q] = closed[q] /\ unread'[q] = unread[q] /\ cached'[q] = cached[q]
  <1>0. /\ DOMAIN pc = Procs /\ DOMAIN cur = Procs /\ DOMAIN held = Procs
        /\ DOMAIN todo = Procs /\ DOMAIN open = Procs /\ DOMAIN closed = Procs
        /\ DOMAIN solution = Procs /\ DOMAIN unread = Procs /\ DOMAIN cached = Procs
    BY DEF TypeOK, ProcTypes, ListTypes, BoundTypes, MessageTypes
  <1>1. CASE CloseInsert(p)
    <2>1. UNCHANGED <<held, todo, open, solution, cached, unread>>
      BY <1>1 DEF CloseInsert, caches
    <2>2. pc'[q] = pc[q] /\ cur'[q] = cur[q]
      BY <1>0, <1>1 DEF CloseInsert, Goto
    <2>3. closed'[q] = closed[q]
      BY <1>0, <1>1 DEF CloseInsert
    <2>4. QED
      BY <2>1, <2>2, <2>3
  <1>2. CASE Compute(p)
    <2>1. UNCHANGED <<held, todo, closed, cached, unread>>
      BY <1>2 DEF Compute
    <2>2. pc'[q] = pc[q] /\ cur'[q] = cur[q]
      BY <1>0, <1>2 DEF Compute, OpenAndLook, Forgotten, Goto
    <2>3. open'[q] = open[q] /\ solution'[q] = solution[q]
      BY <1>0, <1>2 DEF Compute, OpenAndLook, Found
    <2>4. QED
      BY <2>1, <2>2, <2>3
  <1>3. CASE Pop(p)
    <2>1. UNCHANGED <<closed, solution, unread>>
      BY <1>3 DEF Pop
    <2>2. open'[q] = open[q] /\ pc'[q] = pc[q]
      BY <1>0, <1>3 DEF Pop, Goto
    <2>3. cur'[q] = cur[q] /\ held'[q] = held[q] /\ todo'[q] = todo[q]
      BY <1>0, <1>3 DEF Pop
    <2>4. cached'[q] = cached[q]
      BY <1>0, <1>3 DEF Pop, SendBatch
    <2>5. QED
      BY <2>1, <2>2, <2>3, <2>4
  <1>4. CASE Expand(p)
    <2>1. UNCHANGED <<open, closed, solution, unread>>
      BY <1>4 DEF Expand, lists
    <2>2. held'[q] = held[q] /\ todo'[q] = todo[q]
      BY <1>0, <1>4 DEF Expand
    <2>3. PICK n : ComputeOrSend(p, n) \/ (Goto(p, "poll") /\ UNCHANGED <<cur, caches>>)
      BY <1>4 DEF Expand
    <2>4. pc'[q] = pc[q] /\ cur'[q] = cur[q]
      BY SMTT(60), <1>0, <2>3 DEF ComputeOrSend, Goto
    <2>5. PICK d, batch : SendBatch(p, d, batch) \/ cached' = [cached EXCEPT ![p][d] = batch]
                                               \/ cached' = cached
      BY <1>0, <2>3 DEF ComputeOrSend, SendNode, caches
    <2>6. cached'[q] = cached[q]
      BY <1>0, <2>5 DEF SendBatch
    <2>7. QED
      BY <2>1, <2>2, <2>4, <2>6
  <1>5. CASE ReadNode(p)
    <2>1. UNCHANGED <<pc, cur, held, todo, solution, cached>>
      BY <1>5 DEF ReadNode, caches
    <2>2. unread'[q] = unread[q]
      BY <1>0, <1>5 DEF ReadNode
    <2>3. closed'[q] = closed[q] /\ open'[q] = open[q]
      BY <1>0, <1>5 DEF ReadNode, InsertForeign, lists
    <2>4. QED
      BY <2>1, <2>2, <2>3
  <1>6. CASE PollNothing(p)
    BY <1>0, <1>6 DEF PollNothing, Goto, lists
  <1>7. QED
    BY <1>1, <1>2, <1>3, <1>4, <1>5, <1>6 DEF Local

LEMMA RootDerived ==
  ASSUME NEW o, NEW cl
  PROVE  DerivedIn(o, cl, RootNode)
  BY DEF DerivedIn, RootNode

LEMMA ProcDerivedStep ==
  ASSUME TypeOK, Shape, NodesDerived, [Next]_vars, NEW q \in Procs
  PROVE  ProcDerived(q)'
  <1>0. opt' = opt /\ Grows(closed, closed') /\ ProcDerived(q) /\ ProcShape(q)
    BY ClosedGrows DEF NodesDerived, Shape
  <1>1. CASE Begin
    <2>1. /\ ComputeOrSend(master, RootNode) /\ pc[master] = "root"
          /\ held' = held /\ open' = open /\ solution' = solution
      BY <1>1 DEF Begin, lists
    <2>2. \/ pc' = [pc EXCEPT ![master] = "poll"] /\ cur' = cur
          \/ pc' = [pc EXCEPT ![master] = "closing"] /\ cur' = [cur EXCEPT ![master] = RootNode]
      BY <2>1 DEF ComputeOrSend, Goto
    <2>3. CASE q # master
      <3>1. pc'[q] = pc[q] /\ cur'[q] = cur[q]
        BY <2>2, <2>3 DEF TypeOK, ProcTypes
      <3>2. QED
        BY <1>0, <2>1, <3>1, OtherDerived
    <2>4. CASE q = master
      <3>1. pc'[q] = "poll" \/ (pc'[q] = "closing" /\ cur'[q] = RootNode)
        BY <2>2, <2>4 DEF TypeOK, ProcTypes
      <3>2. /\ solution[q] # Nil => DerivedIn(opt, closed', solution[q])
            /\ held[q] # Nil => Tied(closed', q, held[q])
            /\ \A n \in open[q] : Tied(closed', q, n)
        BY <1>0, DerivedGrows, TiedGrows DEF ProcDerived, TypeOK, BoundTypes
      <3>3. QED
        BY <1>0, <2>1, <3>1, <3>2, RootDerived DEF ProcDerived
    <2>5. QED
      BY <2>3, <2>4
  <1>2. ASSUME NEW p \in Procs, Local(p) PROVE ProcDerived(q)'
    <2>1. CASE q = p
      BY <1>0, <1>2, <2>1, ProcDerivedLocal
    <2>2. CASE q # p
      <3>1. /\ pc'[q] = pc[q] /\ cur'[q] = cur[q] /\ held'[q] = held[q]
            /\ open'[q] = open[q] /\ solution'[q] = solution[q]
        BY <1>2, <2>2, OthersAlone
      <3>2. QED
        BY <1>0, <3>1, OtherDerived
    <2>3. QED
      BY <2>1, <2>2
  <1>3. ASSUME NEW p \in Procs, NEW u \in Procs, Receive(p, u) PROVE ProcDerived(q)'
    <2>1. UNCHANGED <<cur, held, open, solution>>
      BY <1>3 DEF Receive, PollBatch, PollSync, lists
    <2>2. pc'[q] = pc[q] \/ pc'[q] \notin {"closing", "computing"}
      BY <1>3, ResumeShape DEF Receive, PollBatch, PollSync, Goto, TypeOK, ProcTypes
    <2>3. QED
      BY <1>0, <2>1, <2>2, OtherDerived
  <1>4. CASE Reduce \/ GatherEnd
    <2>1. UNCHANGED <<cur, held, open, solution>>
      BY <1>4 DEF Reduce, GatherEnd, lists
    <2>2. pc'[q] \notin {"closing", "computing"}
      BY <1>4, ResumeShape DEF Reduce, GatherEnd, AfterRound
    <2>3. QED
      BY <1>0, <2>1, <2>2, OtherDerived
  <1>5. CASE Gather \/ TimerExpires \/ UNCHANGED vars
    <2>1. UNCHANGED <<pc, cur, held, open, solution>>
      BY <1>5 DEF Gather, TimerExpires, lists, vars
    <2>2. QED
      BY <1>0, <2>1, OtherDerived
  <1>6. QED
    BY <1>1, <1>2, <1>3, <1>4, <1>5 DEF Next, Terminating

(* The messages after a derived node has been given to its owner.          *)
LEMMA SendDerived ==
  ASSUME TypeOK, NodesDerived, NEW p \in Procs, NEW n \in Node, DerivedIn(opt, closed, n),
         ComputeOrSend(p, n)
  PROVE  /\ \A u, d \in Procs : AllDerived(opt, closed, cached'[u][d])
         /\ NetDerived(opt, closed, net')
  <1>0. /\ \A u, d \in Procs : AllDerived(opt, closed, cached[u][d])
        /\ NetDerived(opt, closed, net) /\ net \in Networks
        /\ \A u, d \in Procs : cached[u][d] \in Seq(Node)
    BY DEF NodesDerived, MessagesDerived, TypeOK, MessageTypes, Networks
  <1>1. CASE Owner[n.state] = p
    BY <1>0, <1>1 DEF ComputeOrSend, caches
  <1>2. CASE Owner[n.state] # p
    <2>1. SendNode(p, n)
      BY <1>2 DEF ComputeOrSend
    <2>2. PICK d \in Procs, batch \in Seq(Node), size \in Nat : Cached(p, n, d, batch, size)
      BY <2>1, SendNodeEffect DEF TypeOK
    <2> DEFINE m == [n EXCEPT !.f = n.f - Boost]
    <2>3. m \in Node
      BY BoostedType
    <2>4. DerivedIn(opt, closed, m)
      <3>1. Alike(n, m)
        BY DEF Alike, Node
      <3>2. QED
        BY <3>1, AlikeDerived
    <2> HIDE DEF m
    <2>5. AllDerived(opt, closed, batch)
      <3>1. batch = Append(cached[p][d], m)
        BY Zenon, <2>2 DEF Cached, m
      <3>2. cached[p][d] \in Seq(Node) /\ AllDerived(opt, closed, cached[p][d])
        BY Zenon, <1>0
      <3>3. AllDerived(opt, closed, Append(cached[p][d], m))
        BY Zenon, <2>3, <2>4, <3>2, AllOfAppend
      <3>4. QED
        BY <3>1, <3>3
    <2>6. \/ net' = net
          \/ net' = [net EXCEPT ![p][d] = Append(net[p][d], batch)]
      BY Zenon, <2>2 DEF Cached, SendBatch
    <2>7. NetDerived(opt, closed, net')
      BY <1>0, <2>5, <2>6, NetOfBatch
    <2>8. AllDerived(opt, closed, <<>>)
      BY DEF AllDerived
    <2>9. ASSUME NEW u \in Procs, NEW e \in Procs
          PROVE  AllDerived(opt, closed, cached'[u][e])
      <3>1. cached' = [cached EXCEPT ![p][d] = <<>>] \/ cached' = [cached EXCEPT ![p][d] = batch]
        BY Zenon, <2>2 DEF Cached, SendBatch
      <3>2. cached'[u][e] = cached[u][e] \/ cached'[u][e] = <<>> \/ cached'[u][e] = batch
        <4>1. cached \in [Procs -> [Procs -> Seq(Node)]]
          BY DEF TypeOK, MessageTypes
        <4>2. CASE cached' = [cached EXCEPT ![p][d] = batch]
          BY <4>1, <4>2, UpdatedAt
        <4>3. CASE cached' = [cached EXCEPT ![p][d] = <<>>]
          BY <4>1, <4>3, UpdatedAt
        <4>4. QED
          BY <3>1, <4>2, <4>3
      <3>3. QED
        BY SMTT(60), <1>0, <2>5, <2>8, <3>2
    <2>10. QED
      BY <2>7, <2>9
  <1>3. QED
    BY <1>1, <1>2

(* The messages are derived from what was closed before the step, and so from
   what is closed after it.                                                *)
LEMMA MessagesSuffice ==
  ASSUME TypeOK, TypeOK', opt' = opt, Grows(closed, closed'),
         \A p \in Procs : AllDerived(opt, closed, unread'[p]),
         \A p, q \in Procs : AllDerived(opt, closed, cached'[p][q]),
         NetDerived(opt, closed, net')
  PROVE  MessagesDerived'
  <1>1. \A p \in Procs : unread'[p] \in Seq(Node) /\ \A q \in Procs : cached'[p][q] \in Seq(Node)
    BY DEF TypeOK, MessageTypes
  <1>2. net' \in Networks
    BY DEF TypeOK, MessageTypes, Networks
  <1>3. NetDerived(opt, closed', net')
    BY <1>2, NetGrows
  <1>4. /\ \A p \in Procs : AllDerived(opt, closed', unread'[p])
        /\ \A p, q \in Procs : AllDerived(opt, closed', cached'[p][q])
    BY <1>1, AllGrows
  <1>5. QED
    BY <1>3, <1>4 DEF MessagesDerived

LEMMA MessagesDerivedStep ==
  ASSUME TypeOK, TypeOK', Shape, NodesDerived, [Next]_vars
  PROVE  MessagesDerived'
  <1>0. /\ opt' = opt /\ Grows(closed, closed')
        /\ \A p \in Procs : AllDerived(opt, closed, unread[p]) /\ unread[p] \in Seq(Node)
        /\ \A p, q \in Procs : AllDerived(opt, closed, cached[p][q]) /\ cached[p][q] \in Seq(Node)
        /\ NetDerived(opt, closed, net) /\ net \in Networks
    BY ClosedGrows DEF NodesDerived, MessagesDerived, TypeOK, MessageTypes, Networks
  <1>1. CASE Begin
    <2>1. ComputeOrSend(master, RootNode) /\ unread' = unread
      BY <1>1 DEF Begin
    <2>2. QED
      BY <1>0, <2>1, MasterType, RootNodeType, RootDerived, SendDerived, MessagesSuffice
  <1>2. ASSUME NEW p \in Procs, Local(p) PROVE MessagesDerived'
    <2>1. CASE CloseInsert(p)
      BY <1>0, <2>1, MessagesSuffice DEF CloseInsert, caches
    <2>2. CASE Compute(p)
      <3>1. /\ net' = net \/ net' = SyncSent(net, p)
            /\ cached' = cached /\ unread' = unread
        BY <2>2 DEF Compute, Found
      <3>2. QED
        BY <1>0, <3>1, NetOfSync, MessagesSuffice
    <2>3. CASE Pop(p)
      <3> DEFINE d == Fullest(p)
      <3>1. /\ unread' = unread
            /\ \/ UNCHANGED <<cached, net>>
               \/ /\ net' = [net EXCEPT ![p][d] = Append(net[p][d], cached[p][d])]
                  /\ cached' = [cached EXCEPT ![p][d] = <<>>]
        BY <2>3 DEF Pop, SendBatch
      <3>2. d \in Procs
        BY FullestIsProc DEF TypeOK, MessageTypes
      <3> HIDE DEF d
      <3>3. NetDerived(opt, closed, net')
        BY <1>0, <3>1, <3>2, NetOfBatch
      <3>4. AllDerived(opt, closed, <<>>)
        BY DEF AllDerived
      <3>5. \A u, e \in Procs : cached'[u][e] = cached[u][e] \/ cached'[u][e] = <<>>
        <4>1. cached \in [Procs -> [Procs -> Seq(Node)]]
          BY DEF TypeOK, MessageTypes
        <4>2. CASE cached' = cached
          BY <4>2
        <4>3. CASE cached' = [cached EXCEPT ![p][d] = <<>>]
          BY <3>2, <4>1, <4>3, UpdatedAt
        <4>4. QED
          BY <3>1, <4>2, <4>3
      <3>6. \A u, e \in Procs : AllDerived(opt, closed, cached'[u][e])
        BY <1>0, <3>4, <3>5
      <3>7. QED
        BY <1>0, <3>1, <3>3, <3>6, MessagesSuffice
    <2>4. CASE Expand(p)
      <3>1. held[p] \in Node /\ Tied(closed, p, held[p]) /\ unread' = unread
        BY <2>4 DEF Expand, Shape, ProcShape, NodesDerived, ProcDerived, TypeOK, ProcTypes
      <3>2. CASE todo[p] <= Len(opt.acts[held[p].state])
        <4> DEFINE son == Derive(p, held[p], opt.acts[held[p].state][todo[p]], 1)
        <4>1. todo[p] \in 1 .. Len(opt.acts[held[p].state])
          BY <3>1, <3>2, SettingFacts DEF TypeOK, ProcTypes, Node
        <4>2. ~(todo[p] > Len(opt.acts[held[p].state]))
          BY SMTT(60), <3>1, <3>2, SettingFacts DEF TypeOK, ProcTypes, Node
        <4>3. ComputeOrSend(p, son)
          BY <2>4, <4>2 DEF Expand
        <4>4. son \in Node /\ DerivedIn(opt, closed, son)
          BY <3>1, <4>1, SonType, SonDerived DEF TypeOK, ProcTypes
        <4> HIDE DEF son
        <4>5. QED
          BY <1>0, <3>1, <4>3, <4>4, SendDerived, MessagesSuffice
      <3>3. CASE ~(todo[p] <= Len(opt.acts[held[p].state]))
        BY <1>0, <2>4, <3>1, <3>3, MessagesSuffice DEF Expand, caches
      <3>4. QED
        BY <3>2, <3>3
    <2>5. CASE ReadNode(p)
      <3>1. /\ unread[p] # <<>> /\ unread' = [unread EXCEPT ![p] = Tail(unread[p])]
            /\ cached' = cached /\ net' = net
        BY <2>5 DEF ReadNode, caches
      <3>2. AllDerived(opt, closed, Tail(unread[p]))
        BY <1>0, <3>1, AllOfTail
      <3>3. \A u \in Procs : unread'[u] = IF u = p THEN Tail(unread[p]) ELSE unread[u]
        BY <3>1 DEF TypeOK, MessageTypes
      <3>4. \A u \in Procs : AllDerived(opt, closed, unread'[u])
        BY <1>0, <3>2, <3>3
      <3>5. QED
        BY <1>0, <3>1, <3>4, MessagesSuffice
    <2>6. CASE PollNothing(p)
      <3>1. /\ net' = net \/ net' = SyncSent(net, p)
            /\ cached' = cached /\ unread' = unread
        BY <2>6 DEF PollNothing, NetCalled
      <3>2. QED
        BY <1>0, <3>1, NetOfSync, MessagesSuffice
    <2>7. QED
      BY <1>2, <2>1, <2>2, <2>3, <2>4, <2>5, <2>6 DEF Local
  <1>3. ASSUME NEW p \in Procs, NEW q \in Procs, Receive(p, q) PROVE MessagesDerived'
    <2> DEFINE n1 == NetCalled(p)
    <2>1. /\ net' = [n1 EXCEPT ![q][p] = Tail(n1[q][p])] /\ cached' = cached
          /\ unread' = unread \/ unread' = [unread EXCEPT ![p] = Head(net[q][p])]
          /\ net[q][p] # <<>>
      BY <1>3 DEF Receive, PollBatch, PollSync
    <2>2. n1 \in Networks /\ NetDerived(opt, closed, n1)
      BY <1>0, NetOfSync, NetCalledType DEF NetCalled, Networks
    <2>3. n1[q][p] # <<>>
      <3>1. net[q][p] \in Seq(Seq(Node)) /\ <<>> \in Seq(Node)
        BY <1>0 DEF Networks
      <3>2. n1[q][p] = net[q][p] \/ n1[q][p] = Append(net[q][p], <<>>)
        BY <1>0 DEF NetCalled, SyncSent, Networks
      <3>3. QED
        BY <2>1, <3>1, <3>2, AppendProperties
    <2> HIDE DEF n1
    <2>4. NetDerived(opt, closed, net')
      BY <2>1, <2>2, <2>3, NetOfTail
    <2>5. AllDerived(opt, closed, Head(net[q][p]))
      <3>1. net[q][p] \in Seq(Seq(Node))
        BY <1>0 DEF Networks
      <3>2. Head(net[q][p]) = net[q][p][1] /\ 1 \in 1 .. Len(net[q][p])
        BY <2>1, <3>1, EmptySeq
      <3>3. QED
        BY <1>0, <3>2 DEF NetDerived
    <2>6. \A u \in Procs : unread'[u] = unread[u] \/ unread'[u] = Head(net[q][p])
      BY <2>1 DEF TypeOK, MessageTypes
    <2>7. \A u \in Procs : AllDerived(opt, closed, unread'[u])
      BY <1>0, <2>5, <2>6
    <2>8. QED
      BY <1>0, <2>1, <2>4, <2>7, MessagesSuffice
  <1>4. CASE Reduce \/ Gather \/ GatherEnd \/ TimerExpires \/ UNCHANGED vars
    <2>1. UNCHANGED <<unread, cached, net>>
      BY <1>4 DEF Reduce, Gather, GatherEnd, TimerExpires, vars, caches
    <2>2. QED
      BY <1>0, <2>1, MessagesSuffice
  <1>5. QED
    BY <1>1, <1>2, <1>3, <1>4 DEF Next, Terminating

LEMMA DerivedStep == TypeOK /\ Shape /\ NodesDerived /\ [Next]_vars => NodesDerived'
  <1> SUFFICES ASSUME TypeOK, Shape, NodesDerived, [Next]_vars PROVE NodesDerived'
    OBVIOUS
  <1>1. TypeOK'
    BY SMTT(60), TypeStep
  <1>2. QED
    BY <1>1, ClosedDerivedStep, ProcDerivedStep, MessagesDerivedStep DEF NodesDerived

-----------------------------------------------------------------------------
(* Plans.                                                                  *)

(* What the master has collected of the plan of the last round.            *)
PathShape ==
  /\ AllDerived(opt, closed, path)
  /\ \A k \in 1 .. Len(path) - 1 : LinkedIn(opt, path[k + 1], path[k])
  /\ path # <<>> => opt.heur[path[1].state] = 0 /\ path[1].mk = mpi_best[master]

IsPlan(o, plan) ==
  /\ plan # <<>> /\ plan[1].state = Root
  /\ \A k \in 1 .. Len(plan) - 1 : LinkedIn(o, plan[k], plan[k + 1])
  /\ o.heur[plan[Len(plan)].state] = 0

Makespan(plan) == plan[Len(plan)].mk

(* The plans given are ever shorter; the bound of the rounds is not above the
   last of them, and below it while another plan is collected.             *)
GivenShape ==
  /\ \A i \in 1 .. Len(given) :
       IsPlan(opt, given[i]) /\ (i > 1 => Makespan(given[i]) < Makespan(given[i - 1]))
  /\ given # <<>> =>
       /\ mpi_best[master] <= Makespan(given[Len(given)])
       /\ pc[master] = "gather" => mpi_best[master] < Makespan(given[Len(given)])

LEMMA GivenShapeSuffices == GivenShape => PlansGathered
  BY DEF GivenShape, IsPlan, Makespan, PlansGathered, LinkedIn, Linked, Last, IsGoal

LEMMA PlansInit == Init => PathShape /\ GivenShape
  <1> SUFFICES ASSUME Init PROVE PathShape /\ GivenShape
    OBVIOUS
  <1>1. path = <<>> /\ given = <<>> /\ Len(path) = 0 /\ Len(given) = 0
    BY DEF Init
  <1>2. QED
    BY <1>1 DEF PathShape, GivenShape, AllDerived

(* The parent that is asked for is the node the oldest one comes from.     *)
LEMMA GatherPath ==
  ASSUME TypeOK, TypeOK', Shape, Numbered, NodesDerived, PathShape, Gather
  PROVE  PathShape'
  <1>1. /\ path # <<>> /\ path \in Seq(Node) /\ Len(path) \in 1 .. Len(path)
        /\ Oldest \in Node /\ Oldest.rank \in Procs
    BY GatheredNode
  <1>2. PICK n \in Node : n \in ParentOf(Oldest) /\ path' = Append(path, n)
    BY GatheredNode
  <1>3. Oldest.parent # Nil /\ closed' = closed /\ opt' = opt /\ mpi_best' = mpi_best
    BY DEF Gather, lists
  <1>4. Oldest = path[Len(path)] /\ DerivedIn(opt, closed, Oldest)
    BY <1>1 DEF Oldest, PathShape, AllDerived
  <1>5. LinkedIn(opt, n, Oldest)
    <2>1. PICK m \in closed[Oldest.rank] : m.id = Oldest.parent /\ LinkedIn(opt, m, Oldest)
      BY <1>3, <1>4 DEF DerivedIn
    <2>2. n = m
      BY <1>1, <1>2, <2>1 DEF ParentOf, Numbered
    <2>3. QED
      BY <2>1, <2>2
  <1>6. DerivedIn(opt, closed, n)
    BY <1>1, <1>2 DEF ParentOf, NodesDerived, ClosedDerived
  <1>7. AllDerived(opt, closed, path')
    BY <1>1, <1>2, <1>6, AllOfAppend DEF PathShape
  <1>8. /\ Len(path') = Len(path) + 1 /\ path'[Len(path) + 1] = n
        /\ \A k \in 1 .. Len(path) : path'[k] = path[k]
        /\ Len(path) \in Nat
    BY <1>1, <1>2, AppendProperties, LenProperties
  <1>9. ASSUME NEW k \in 1 .. Len(path') - 1
        PROVE  LinkedIn(opt, path'[k + 1], path'[k])
    <2>1. CASE k = Len(path)
      BY <1>1, <1>4, <1>5, <1>8, <2>1
    <2>2. CASE k # Len(path)
      <3>1. k \in 1 .. Len(path) - 1 /\ k \in 1 .. Len(path) /\ k + 1 \in 1 .. Len(path)
        BY <1>8, <2>2
      <3>2. path'[k] = path[k] /\ path'[k + 1] = path[k + 1]
        BY <1>8, <3>1
      <3>3. QED
        BY <3>1, <3>2 DEF PathShape
    <2>3. QED
      BY <2>1, <2>2
  <1>10. path'[1] = path[1]
    BY <1>1, <1>8
  <1>11. QED
    BY <1>1, <1>3, <1>7, <1>9, <1>10 DEF PathShape

LEMMA PathStep ==
  ASSUME TypeOK, TypeOK', Shape, Numbered, NodesDerived, PathShape, [Next]_vars
  PROVE  PathShape'
  <1>0. opt' = opt /\ Grows(closed, closed')
    BY ClosedGrows
  <1>1. CASE Reduce /\ Offer(Elected) < mpi_best[master]
    <2>1. /\ Elected \in Procs /\ solution[Elected] \in Node /\ solution[Elected] # Nil
          /\ Offer(Elected) = solution[Elected].mk
      BY <1>1, ElectedHasSolution
    <2>2. /\ path' = <<solution[Elected]>> /\ closed' = closed
          /\ mpi_best'[master] = Offer(Elected)
      BY <1>1, MasterType DEF Reduce, lists
    <2>3. /\ DerivedIn(opt, closed, solution[Elected])
          /\ opt.heur[solution[Elected].state] = 0
      BY <2>1 DEF NodesDerived, ProcDerived
    <2>4. Len(path') = 1 /\ path'[1] = solution[Elected]
      BY <2>2
    <2>5. QED
      BY <1>0, <2>1, <2>2, <2>3, <2>4 DEF PathShape, AllDerived
  <1>2. CASE Gather
    BY <1>2, GatherPath
  <1>3. CASE GatherEnd
    <2>1. path' = <<>> /\ Len(path') = 0
      BY <1>3 DEF GatherEnd
    <2>2. QED
      BY <2>1 DEF PathShape, AllDerived
  <1>4. CASE path' = path /\ mpi_best' = mpi_best
    <2>1. AllDerived(opt, closed', path)
      BY <1>0, AllGrows DEF PathShape, TypeOK, RoundTypes
    <2>2. QED
      BY <1>0, <1>4, <2>1 DEF PathShape
  <1>5. QED
    <2>1. ASSUME NEW p \in Procs, Local(p) PROVE path' = path /\ mpi_best' = mpi_best
      BY <2>1 DEF Local, CloseInsert, Compute, Pop, Expand, ReadNode, PollNothing, rounds
    <2>2. CASE \/ Begin \/ \E p, q \in Procs : Receive(p, q)
               \/ TimerExpires \/ UNCHANGED vars
      BY <1>4, <2>2 DEF Begin, Receive, PollBatch, PollSync, TimerExpires, rounds, vars
    <2>3. CASE Reduce /\ ~(Offer(Elected) < mpi_best[master])
      BY <1>4, <2>3 DEF Reduce
    <2>4. QED
      BY <1>1, <1>2, <1>3, <1>4, <2>1, <2>2, <2>3 DEF Next, Terminating

(* The path, read backwards, is a plan whose makespan is the bound.        *)
LEMMA PathIsPlan ==
  ASSUME TypeOK, Shape, NodesDerived, PathShape, GatherEnd
  PROVE  IsPlan(opt, Reverse(path)) /\ Makespan(Reverse(path)) = mpi_best[master]
  <1>1. path # <<>> /\ path \in Seq(Node)
    BY MasterType DEF GatherEnd, Shape, RoundShape, TypeOK, RoundTypes
  <1>2. Len(path) \in Nat \ {0}
    BY <1>1, EmptySeq
  <1> DEFINE plan == Reverse(path)
             l == Len(path)
  <1>3. /\ plan \in Seq(Node) /\ Len(plan) = l
        /\ \A k \in 1 .. l : plan[k] = path[l - k + 1]
    BY <1>1, Reversed
  <1> HIDE DEF plan, l
  <1>4. l \in Nat \ {0}
    BY <1>2 DEF l
  <1>5. plan # <<>>
    BY <1>3, <1>4
  <1>6. plan[1] = path[l] /\ plan[l] = path[1]
    <2>1. 1 \in 1 .. l /\ l \in 1 .. l /\ l - 1 + 1 = l /\ l - l + 1 = 1
      BY <1>4
    <2>2. plan[1] = path[l - 1 + 1] /\ plan[l] = path[l - l + 1]
      BY <1>3, <2>1
    <2>3. QED
      BY <2>1, <2>2
  <1>7. plan[1].state = Root
    <2>1. path[l].parent = Nil
      BY DEF GatherEnd, Oldest, l
    <2>2. DerivedIn(opt, closed, path[l])
      BY <1>4 DEF PathShape, AllDerived, l
    <2>3. QED
      BY <1>6, <2>1, <2>2 DEF DerivedIn
  <1>8. ASSUME NEW k \in 1 .. l - 1
        PROVE  LinkedIn(opt, plan[k], plan[k + 1])
    <2>1. /\ k \in 1 .. l /\ k + 1 \in 1 .. l /\ l - k \in 1 .. l - 1
          /\ l - k + 1 = (l - k) + 1 /\ l - (k + 1) + 1 = l - k
      BY <1>4
    <2>2. plan[k] = path[l - k + 1] /\ plan[k + 1] = path[l - (k + 1) + 1]
      BY <1>3, <2>1
    <2>3. LinkedIn(opt, path[(l - k) + 1], path[l - k])
      BY <2>1 DEF PathShape, l
    <2>4. plan[k] = path[(l - k) + 1] /\ plan[k + 1] = path[l - k]
      BY <2>1, <2>2
    <2>5. QED
      BY <2>3, <2>4
  <1>9. opt.heur[path[1].state] = 0 /\ path[1].mk = mpi_best[master]
    BY <1>1 DEF PathShape
  <1>10. IsPlan(opt, plan) /\ Makespan(plan) = mpi_best[master]
    BY <1>3, <1>5, <1>6, <1>7, <1>8, <1>9 DEF IsPlan, Makespan
  <1>11. QED
    BY <1>10 DEF plan

LEMMA GivenStep ==
  ASSUME TypeOK, TypeOK', Shape, NodesDerived, PathShape, GivenShape, [Next]_vars
  PROVE  GivenShape'
  <1>0. opt' = opt /\ given \in Seq(Seq(Node)) /\ Len(given) \in Nat
    BY ClosedGrows, LenProperties DEF TypeOK, RoundTypes
  <1>1. given # <<>> =>
          /\ given[Len(given)] \in Seq(Node) /\ given[Len(given)] # <<>>
          /\ Makespan(given[Len(given)]) \in Nat
    <2> SUFFICES ASSUME given # <<>>
                 PROVE  /\ given[Len(given)] \in Seq(Node) /\ given[Len(given)] # <<>>
                        /\ Makespan(given[Len(given)]) \in Nat
      OBVIOUS
    <2>1. Len(given) \in 1 .. Len(given)
      BY <1>0, EmptySeq
    <2>2. given[Len(given)] \in Seq(Node) /\ given[Len(given)] # <<>>
      BY <1>0, <2>1, ElementOfSeq DEF GivenShape, IsPlan
    <2> DEFINE plan == given[Len(given)]
    <2>3. Len(plan) \in 1 .. Len(plan)
      BY <2>2, EmptySeq
    <2>4. plan[Len(plan)] \in Node
      BY <2>2, <2>3, ElementOfSeq
    <2>5. QED
      BY <2>2, <2>4 DEF Makespan, Node
  <1>2. CASE GatherEnd /\ verdict # "timer"
    <2> DEFINE plan == Reverse(path)
    <2>1. given' = Append(given, plan) /\ mpi_best' = mpi_best /\ pc[master] = "gather"
      BY <1>2 DEF GatherEnd
    <2>2. IsPlan(opt, plan) /\ Makespan(plan) = mpi_best[master] /\ plan \in Seq(Node)
      BY <1>2, PathIsPlan, Reversed DEF TypeOK, RoundTypes
    <2> HIDE DEF plan
    <2>3. /\ Len(given') = Len(given) + 1 /\ given'[Len(given) + 1] = plan
          /\ \A i \in 1 .. Len(given) : given'[i] = given[i]
      BY <1>0, <2>1, <2>2, AppendProperties
    <2>4. pc'[master] # "gather"
      BY <1>2, MasterType, ResumeShape DEF GatherEnd, AfterRound
    <2>5. ASSUME NEW i \in 1 .. Len(given')
          PROVE  IsPlan(opt, given'[i]) /\ (i > 1 => Makespan(given'[i]) < Makespan(given'[i - 1]))
      <3>1. CASE i = Len(given) + 1
        <4>1. IsPlan(opt, given'[i])
          BY <2>2, <2>3, <3>1
        <4>2. ASSUME i > 1 PROVE Makespan(given'[i]) < Makespan(given'[i - 1])
          <5>1. Len(given) \in 1 .. Len(given) /\ i - 1 = Len(given) /\ given # <<>>
            BY <1>0, <3>1, <4>2
          <5>2. given'[i - 1] = given[Len(given)] /\ given'[i] = plan
            BY <2>3, <3>1, <5>1
          <5>3. mpi_best[master] < Makespan(given[Len(given)])
            BY <2>1, <5>1 DEF GivenShape
          <5>4. QED
            BY <2>2, <5>2, <5>3
        <4>3. QED
          BY <4>1, <4>2
      <3>2. CASE i # Len(given) + 1
        <4>1. i \in 1 .. Len(given) /\ given'[i] = given[i]
          BY <1>0, <2>3, <3>2
        <4>2. i > 1 => i - 1 \in 1 .. Len(given) /\ given'[i - 1] = given[i - 1]
          <5>1. i > 1 => i - 1 \in 1 .. Len(given)
            BY <1>0, <4>1
          <5>2. QED
            BY <2>3, <5>1
        <4>3. QED
          BY <4>1, <4>2 DEF GivenShape
      <3>3. QED
        BY <3>1, <3>2
    <2>6. mpi_best[master] \in Nat
      BY MasterType DEF TypeOK, BoundTypes
    <2>7. mpi_best[master] <= Makespan(given'[Len(given')])
      BY <2>2, <2>3, <2>6
    <2>8. QED
      BY <1>0, <2>1, <2>4, <2>5, <2>7 DEF GivenShape
  <1>3. CASE Reduce /\ Offer(Elected) < mpi_best[master]
    <2>1. given' = given /\ mpi_best'[master] = Offer(Elected)
      BY <1>3, MasterType DEF Reduce
    <2>2. Offer(Elected) \in Nat /\ mpi_best[master] \in Nat
      BY <1>3, ElectedHasSolution, MasterType DEF TypeOK, BoundTypes
    <2>3. given # <<>> => Offer(Elected) < Makespan(given[Len(given)])
      BY <1>1, <1>3, <2>2 DEF GivenShape
    <2>4. given # <<>> => Offer(Elected) <= Makespan(given[Len(given)])
      BY <1>1, <2>2, <2>3
    <2>5. QED
      BY <1>0, <2>1, <2>3, <2>4 DEF GivenShape
  <1>4. CASE given' = given /\ mpi_best' = mpi_best /\ (pc'[master] = "gather" => pc[master] = "gather")
    BY <1>0, <1>4 DEF GivenShape
  <1>5. QED
    <2>1. ASSUME NEW p \in Procs, Local(p) PROVE GivenShape'
      <3>1. given' = given /\ mpi_best' = mpi_best
        BY <2>1 DEF Local, CloseInsert, Compute, Pop, Expand, ReadNode, PollNothing, rounds
      <3>2. pc'[master] = "gather" => pc[master] = "gather"
        <4>1. CASE master = p
          BY <2>1, <4>1, ResumeShape
             DEF Local, CloseInsert, Compute, OpenAndLook, Forgotten, Pop, Expand, ComputeOrSend, ReadNode,
                 PollNothing, Goto, TypeOK, ProcTypes
        <4>2. CASE master # p
          BY <2>1, <4>2, MasterType, OthersAlone
        <4>3. QED
          BY SMTT(60), <4>1, <4>2
      <3>3. QED
        BY <1>4, <3>1, <3>2
    <2>2. CASE Begin
      BY <1>4, <2>2, MasterType DEF Begin, ComputeOrSend, Goto, rounds, TypeOK, ProcTypes
    <2>3. ASSUME NEW p \in Procs, NEW q \in Procs, Receive(p, q) PROVE GivenShape'
      BY <1>4, <2>3, MasterType, ResumeShape
         DEF Receive, PollBatch, PollSync, Goto, rounds, TypeOK, ProcTypes
    <2>4. CASE Reduce /\ ~(Offer(Elected) < mpi_best[master])
      BY <1>4, <2>4, MasterType, ResumeShape DEF Reduce, AfterRound
    <2>5. CASE GatherEnd /\ verdict = "timer"
      BY <1>4, <2>5, MasterType, ResumeShape DEF GatherEnd, AfterRound
    <2>6. CASE Gather \/ TimerExpires \/ UNCHANGED vars
      BY <1>4, <2>6 DEF Gather, TimerExpires, rounds, vars
    <2>7. QED
      BY <1>2, <1>3, <2>1, <2>2, <2>3, <2>4, <2>5, <2>6 DEF Next, Terminating

-----------------------------------------------------------------------------
Inv ==
  /\ TypeOK /\ Shape /\ Matched /\ BoundKnown
  /\ Numbered /\ NodesDerived /\ PathShape /\ GivenShape

LEMMA InvKept == Spec => []Inv
  <1>1. Init => Inv
    BY TypeInit, ShapeInit, MatchedInit, BoundInit, NumberedInit, DerivedInit, PlansInit DEF Inv
  <1>2. Inv /\ [Next]_vars => Inv'
    BY TypeStep, ShapeStep, MatchedStep, BoundStep, NumberedStep, DerivedStep, PathStep, GivenStep
       DEF Inv
  <1>3. QED
    BY <1>1, <1>2, PTL DEF Spec

(* Every process is called to the same number of rounds, and they leave the
   search together (check_received_nodes and mpi_synchronize_solution):
   for every number of processes, every problem and every order in which the
   messages arrive.                                                        *)
THEOREM RoundsAlwaysMatch == Spec => []RoundsMatch
  <1>1. Inv => RoundsMatch
    BY MatchedGivesRoundsMatch DEF Inv
  <1>2. QED
    BY <1>1, InvKept, PTL

(* The bound of a process never grows, not even in the round that replaces it
   by the makespan of a solution of another process.                       *)
THEOREM BoundsImprove == Spec => BoundsOnlyImprove
  <1>1. Inv /\ [Next]_vars => [\A p \in Procs : best'[p] <= best[p]]_vars
    BY BoundStep DEF Inv
  <1>2. QED
    BY <1>1, InvKept, PTL DEF Spec, BoundsOnlyImprove

(* Every plan the master traces or returns is a plan from the root to a goal,
   put together from the closed lists of the processes that own its nodes,
   and each is shorter than the one before (mpi_synchronize_solution and
   gather_node).                                                           *)
THEOREM PlansAreGathered == Spec => []PlansGathered
  <1>1. Inv => PlansGathered
    BY GivenShapeSuffices DEF Inv
  <1>2. QED
    BY <1>1, InvKept, PTL

-----------------------------------------------------------------------------
(* All the processes as one search: first the nodes under way.             *)

LEMMA ToSetOfEmpty == ToSet(<<>>) = {}
  BY DEF ToSet

LEMMA ToSetOfAppend ==
  ASSUME NEW S, NEW s \in Seq(S), NEW x \in S
  PROVE  ToSet(Append(s, x)) = ToSet(s) \cup {x}
  <1> DEFINE t == Append(s, x)
  <1>1. /\ Len(s) \in Nat /\ Len(t) = Len(s) + 1
        /\ DOMAIN s = 1 .. Len(s) /\ DOMAIN t = 1 .. Len(s) + 1
        /\ \A i \in 1 .. Len(s) : t[i] = s[i]
        /\ t[Len(s) + 1] = x
    BY AppendProperties, LenProperties
  <1> HIDE DEF t
  <1>2. DOMAIN t = DOMAIN s \cup {Len(s) + 1}
    BY <1>1
  <1>3. \A y : y \in ToSet(t) <=> y \in ToSet(s) \/ y = x
    BY <1>1, <1>2 DEF ToSet
  <1>4. QED
    BY <1>3 DEF t

LEMMA ToSetOfTail ==
  ASSUME NEW S, NEW s \in Seq(S), s # <<>>
  PROVE  ToSet(s) = {Head(s)} \cup ToSet(Tail(s)) /\ Head(s) \in S /\ Tail(s) \in Seq(S)
  <1>1. /\ Len(s) \in Nat \ {0} /\ Len(Tail(s)) = Len(s) - 1
        /\ Head(s) \in S /\ Head(s) = s[1] /\ Tail(s) \in Seq(S)
        /\ \A i \in 1 .. Len(Tail(s)) : Tail(s)[i] = s[i + 1]
    BY EmptySeq, HeadTailProperties
  <1>2. DOMAIN s = 1 .. Len(s) /\ DOMAIN Tail(s) = 1 .. Len(s) - 1
    BY <1>1, LenProperties
  <1>3. ASSUME NEW i \in DOMAIN s PROVE s[i] \in {Head(s)} \cup ToSet(Tail(s))
    <2>1. CASE i = 1
      BY <1>1, <2>1
    <2>2. CASE i # 1
      <3>1. i - 1 \in DOMAIN Tail(s) /\ Tail(s)[i - 1] = s[i]
        BY <1>1, <1>2, <2>2
      <3>2. QED
        BY <3>1 DEF ToSet
    <2>3. QED
      BY <2>1, <2>2
  <1>4. ASSUME NEW i \in DOMAIN Tail(s) PROVE Tail(s)[i] \in ToSet(s)
    <2>1. i + 1 \in DOMAIN s /\ Tail(s)[i] = s[i + 1]
      BY <1>1, <1>2
    <2>2. QED
      BY <2>1 DEF ToSet
  <1>5. 1 \in DOMAIN s
    BY <1>1, <1>2
  <1>6. QED
    BY ZenonT(120), <1>1, <1>3, <1>4, <1>5 DEF ToSet

LEMMA ToSetType ==
  ASSUME NEW S, NEW s \in Seq(S)
  PROVE  ToSet(s) \subseteq S
  BY LenProperties, ElementOfSeq DEF ToSet

(* The nodes of the messages of a channel.                                 *)
Carried(batches) == UNION {ToSet(batch) : batch \in ToSet(batches)}

LEMMA CarriedByMore ==
  ASSUME NEW batches \in Seq(Seq(Node)), NEW batch \in Seq(Node)
  PROVE  Carried(Append(batches, batch)) = Carried(batches) \cup ToSet(batch)
  BY ToSetOfAppend DEF Carried

LEMMA CarriedByLess ==
  ASSUME NEW batches \in Seq(Seq(Node)), batches # <<>>
  PROVE  Carried(batches) = ToSet(Head(batches)) \cup Carried(Tail(batches))
  BY ToSetOfTail DEF Carried

(* A call to a round carries nothing.                                      *)
LEMMA CarriedBySync ==
  ASSUME NEW nt \in Networks, NEW p \in Procs, NEW u \in Procs, NEW q \in Procs
  PROVE  Carried(SyncSent(nt, p)[u][q]) = Carried(nt[u][q])
  <1>1. CASE u = p
    <2>1. SyncSent(nt, p)[u][q] = Append(nt[u][q], <<>>)
      BY <1>1 DEF SyncSent, Networks
    <2>2. nt[u][q] \in Seq(Seq(Node)) /\ <<>> \in Seq(Node)
      BY DEF Networks
    <2>3. QED
      BY <2>1, <2>2, CarriedByMore, ToSetOfEmpty
  <1>2. CASE u # p
    BY <1>2 DEF SyncSent, Networks
  <1>3. QED
    BY <1>1, <1>2

(* What waits in the caches and under way between two processes.           *)
Channel(c, nt, u, q) == ToSet(c[u][q]) \cup Carried(nt[u][q])

LEMMA UnderWayNodes ==
  /\ \A n : n \in UnderWay <=> \/ \E u, q \in Procs : n \in Channel(cached, net, u, q)
                               \/ \E u \in Procs : n \in ToSet(unread[u])
  /\ \A n : n \in UnderWay' <=> \/ \E u, q \in Procs : n \in Channel(cached', net', u, q)
                                \/ \E u \in Procs : n \in ToSet(unread'[u])
  <1>1. UnderWay = (UNION {Channel(cached, net, u, q) : u \in Procs, q \in Procs})
                   \cup (UNION {ToSet(unread[u]) : u \in Procs})
    BY DEF UnderWay, Channel, Carried
  <1>2. UnderWay' = (UNION {Channel(cached', net', u, q) : u \in Procs, q \in Procs})
                    \cup (UNION {ToSet(unread'[u]) : u \in Procs})
    BY DEF UnderWay, Channel, Carried
  <1>3. QED
    BY <1>1, <1>2

(* An operation on the caches that keeps the channels keeps the nodes.     *)
LEMMA SameChannels ==
  ASSUME unread' = unread,
         \A u, q \in Procs : Channel(cached', net', u, q) = Channel(cached, net, u, q)
  PROVE  UnderWay' = UnderWay
  <1>1. \A n : n \in UnderWay' <=> n \in UnderWay
    BY UnderWayNodes
  <1>2. QED
    BY <1>1

(* mpi_send_node: the node is under way, in its cache or in a batch.       *)
LEMMA SentIsUnderWay ==
  ASSUME TypeOK, NEW p \in Procs, NEW n \in Node, SendNode(p, n), unread' = unread
  PROVE  \E m \in Node : /\ m.state = n.state /\ m.fresh = n.fresh
                         /\ UnderWay' = UnderWay \cup {m}
  <1> DEFINE m == [n EXCEPT !.f = n.f - Boost]
  <1>1. m \in Node /\ m.state = n.state /\ m.fresh = n.fresh
    BY BoostedType
  <1>2. cached \in [Procs -> [Procs -> Seq(Node)]] /\ net \in Networks
    <2>1. MessageTypes
      BY DEF TypeOK
    <2>2. cached \in [Procs -> [Procs -> Seq(Node)]]
      BY <2>1 DEF MessageTypes
    <2>3. net \in Networks
      BY <2>1 DEF MessageTypes, Networks
    <2>4. QED
      BY <2>2, <2>3
  <1> HIDE DEF m
  <1>3. PICK d \in Procs, batch \in Seq(Node), size \in Nat : Cached(p, n, d, batch, size)
    BY ZenonT(60), SendNodeEffect DEF TypeOK
  <1>4. /\ batch = Append(cached[p][d], m)
        /\ cached[p][d] \in Seq(Node) /\ net[p][d] \in Seq(Seq(Node))
    <2>1. batch = Append(cached[p][d], m)
      BY Zenon, <1>3 DEF Cached, m
    <2>2. \A u, e \in Procs : cached[u][e] \in Seq(Node) /\ net[u][e] \in Seq(Seq(Node))
      BY <1>2 DEF Networks
    <2>3. QED
      BY Zenon, <2>1, <2>2
  <1>5. ToSet(batch) = ToSet(cached[p][d]) \cup {m}
    BY <1>1, <1>4, ToSetOfAppend
  <1>6. \A u, q \in Procs :
          Channel(cached', net', u, q) =
            IF u = p /\ q = d THEN Channel(cached, net, u, q) \cup {m}
                              ELSE Channel(cached, net, u, q)
    <2> SUFFICES ASSUME NEW u \in Procs, NEW q \in Procs
                 PROVE  Channel(cached', net', u, q) =
                          IF u = p /\ q = d THEN Channel(cached, net, u, q) \cup {m}
                                            ELSE Channel(cached, net, u, q)
      OBVIOUS
    <2>1. CASE SendBatch(p, d, batch)
      <3>1. /\ cached'[u][q] = IF u = p /\ q = d THEN <<>> ELSE cached[u][q]
            /\ net'[u][q] = IF u = p /\ q = d THEN Append(net[p][d], batch) ELSE net[u][q]
        BY <1>2, <2>1 DEF SendBatch, Networks
      <3>2. Carried(Append(net[p][d], batch)) = Carried(net[p][d]) \cup ToSet(batch)
        BY <1>4, CarriedByMore
      <3>3. QED
        BY <1>5, <3>1, <3>2, ToSetOfEmpty DEF Channel
    <2>2. CASE cached' = [cached EXCEPT ![p][d] = batch] /\ net' = net
      <3>1. cached'[u][q] = IF u = p /\ q = d THEN batch ELSE cached[u][q]
        BY <1>2, <2>2
      <3>2. QED
        BY <1>5, <2>2, <3>1 DEF Channel
    <2>3. QED
      BY Zenon, <1>3, <2>1, <2>2 DEF Cached
  <1>7. \A x : x \in UnderWay' <=> x \in UnderWay \/ x = m
    BY <1>6, UnderWayNodes
  <1>8. QED
    BY <1>1, <1>7

(* cached_nodes_send moves the nodes of a cache, it loses none.            *)
LEMMA FlushKeepsNodes ==
  ASSUME TypeOK, NEW p \in Procs, NEW d \in Procs, SendBatch(p, d, cached[p][d]),
         unread' = unread
  PROVE  UnderWay' = UnderWay
  <1>1. /\ cached \in [Procs -> [Procs -> Seq(Node)]] /\ net \in Networks
        /\ cached[p][d] \in Seq(Node) /\ net[p][d] \in Seq(Seq(Node))
    BY DEF TypeOK, MessageTypes, Networks
  <1>2. ASSUME NEW u \in Procs, NEW q \in Procs
        PROVE  Channel(cached', net', u, q) = Channel(cached, net, u, q)
    <2>1. /\ cached'[u][q] = IF u = p /\ q = d THEN <<>> ELSE cached[u][q]
          /\ net'[u][q] = IF u = p /\ q = d THEN Append(net[p][d], cached[p][d]) ELSE net[u][q]
      BY <1>1 DEF SendBatch, Networks
    <2>2. Carried(Append(net[p][d], cached[p][d])) = Carried(net[p][d]) \cup ToSet(cached[p][d])
      BY <1>1, CarriedByMore
    <2>3. QED
      BY <2>1, <2>2, ToSetOfEmpty DEF Channel
  <1>3. QED
    BY <1>2, SameChannels

LEMMA CalledCarries ==
  ASSUME TypeOK, NEW p \in Procs
  PROVE  /\ NetCalled(p) \in Networks
         /\ \A u, q \in Procs : Carried(NetCalled(p)[u][q]) = Carried(net[u][q])
  <1>1. net \in Networks
    BY DEF TypeOK, MessageTypes, Networks
  <1>2. QED
    BY ZenonT(120), <1>1, NetCalledType, CarriedBySync DEF NetCalled, Networks

(* A batch that is received moves from the channel to the buffer.          *)
LEMMA ReceiveKeepsNodes ==
  ASSUME TypeOK, Matched, NEW p \in Procs, NEW q \in Procs, Receive(p, q)
  PROVE  UnderWay' = UnderWay
  <1> DEFINE nt == NetCalled(p)
  <1>1. /\ nt \in Networks
        /\ \A u, d \in Procs : Carried(nt[u][d]) = Carried(net[u][d])
    BY CalledCarries
  <1>2. /\ net[q][p] # <<>> /\ unread[p] = <<>> /\ cached' = cached
        /\ net' = [nt EXCEPT ![q][p] = Tail(nt[q][p])]
        /\ unread' = [unread EXCEPT ![p] = Head(net[q][p])]
    <2>1. unread \in [Procs -> Seq(Node)]
      BY DEF TypeOK, MessageTypes
    <2>2. CASE PollBatch(p, q)
      BY <2>2 DEF PollBatch
    <2>3. CASE PollSync(p, q)
      BY <2>1, <2>3 DEF PollSync
    <2>4. QED
      BY <2>2, <2>3 DEF Receive
  <1>3. nt[q][p] # <<>> /\ Head(nt[q][p]) = Head(net[q][p])
    BY <1>2, CalledWaits
  <1>4. nt[q][p] \in Seq(Seq(Node))
    BY <1>1 DEF Networks
  <1>5. Carried(nt[q][p]) = ToSet(Head(net[q][p])) \cup Carried(Tail(nt[q][p]))
    BY <1>3, <1>4, CarriedByLess
  <1>6. \A u, d \in Procs :
          net'[u][d] = IF u = q /\ d = p THEN Tail(nt[q][p]) ELSE nt[u][d]
    BY <1>1, <1>2 DEF Networks
  <1>7. \A u \in Procs : unread'[u] = IF u = p THEN Head(net[q][p]) ELSE unread[u]
    BY <1>2 DEF TypeOK, MessageTypes
  <1> HIDE DEF nt
  <1>8. ASSUME NEW u \in Procs, NEW d \in Procs
        PROVE  Channel(cached, net, u, d) =
                 IF u = q /\ d = p
                   THEN Channel(cached', net', u, d) \cup ToSet(Head(net[q][p]))
                   ELSE Channel(cached', net', u, d)
    BY <1>1, <1>2, <1>5, <1>6 DEF Channel
  <1>9. ToSet(unread[p]) = {}
    BY <1>2, ToSetOfEmpty
  <1>10. ASSUME NEW n \in UnderWay PROVE n \in UnderWay'
    BY <1>7, <1>8, <1>9, UnderWayNodes
  <1>11. ASSUME NEW n \in UnderWay' PROVE n \in UnderWay
    BY <1>7, <1>8, <1>9, UnderWayNodes
  <1>12. QED
    BY <1>10, <1>11

(* mpi_recv_node takes the first node of the buffer.                       *)
LEMMA ReadTakesNode ==
  ASSUME TypeOK, NEW p \in Procs, ReadNode(p)
  PROVE  /\ Head(unread[p]) \in Node
         /\ UnderWay = UnderWay' \cup {Head(unread[p])}
  <1>1. unread[p] \in Seq(Node) /\ unread[p] # <<>> /\ cached' = cached /\ net' = net
    BY DEF ReadNode, caches, TypeOK, MessageTypes
  <1>2. \A u \in Procs : unread'[u] = IF u = p THEN Tail(unread[p]) ELSE unread[u]
    BY DEF ReadNode, TypeOK, MessageTypes
  <1>3. /\ ToSet(unread[p]) = {Head(unread[p])} \cup ToSet(Tail(unread[p]))
        /\ Head(unread[p]) \in Node
    BY <1>1, ToSetOfTail
  <1>4. \A n : n \in UnderWay <=> n \in UnderWay' \/ n = Head(unread[p])
    BY <1>1, <1>2, <1>3, UnderWayNodes
  <1>5. QED
    BY <1>3, <1>4

(* The messages hold nodes.                                                *)
LEMMA UnderWayType ==
  ASSUME TypeOK
  PROVE  UnderWay \subseteq Node
  <1>1. ASSUME NEW u \in Procs, NEW q \in Procs
        PROVE  Channel(cached, net, u, q) \subseteq Node
    <2>1. cached[u][q] \in Seq(Node) /\ net[u][q] \in Seq(Seq(Node))
      BY DEF TypeOK, MessageTypes
    <2>2. ToSet(cached[u][q]) \subseteq Node /\ ToSet(net[u][q]) \subseteq Seq(Node)
      BY <2>1, ToSetType
    <2>3. QED
      BY <2>2, ToSetType DEF Channel, Carried
  <1>2. ASSUME NEW u \in Procs PROVE ToSet(unread[u]) \subseteq Node
    BY ToSetType DEF TypeOK, MessageTypes
  <1>3. QED
    BY <1>1, <1>2, UnderWayNodes

-----------------------------------------------------------------------------
(* The invariant that the mapping needs.                                   *)

(* A node that is sent has not been computed.                              *)
SentFresh == \A n \in UnderWay : n.fresh

(* Whatever is in an open list and has been computed is neither a goal nor a
   dead end.                                                               *)
OpenInterior == \A p \in Procs : \A n \in open[p] : n.fresh \/ Interior(opt, n.state)

(* A process takes another node when it has expanded the last one.         *)
PopsFree == \A p \in Procs : pc[p] = "pop" => held[p] = Nil

(* What made a round stop the search will make the next one stop it.       *)
StopShape == verdict # "go on" => timer # "off" \/ ~opt.anytime

(* The rounds have a bound because a process had a solution.               *)
SolutionFound == mpi_best[master] < MaxTime => \E p \in Procs : solution[p] # Nil

(* The lookahead of an open node has been tried, or its process is about to
   close it.                                                               *)
LookTried ==
  IsCut \/ \A p \in Procs : \A n \in open[p] :
    \/ n.fresh
    \/ opt.look[n.state].to \in Visited
    \/ pc[p] = "closing" /\ cur[p].state = opt.look[n.state].to

Explored ==
  IsCut \/ \A s \in Visited : SonsOf(opt, s) \subseteq Visited \cup Pending

Control == SentFresh /\ OpenInterior /\ PopsFree /\ StopShape /\ SolutionFound

LEMMA UnderWayInit == Init => UnderWay = {}
  <1> SUFFICES ASSUME Init PROVE UnderWay = {}
    OBVIOUS
  <1>1. \A u, q \in Procs : cached[u][q] = <<>> /\ net[u][q] = <<>> /\ unread[u] = <<>>
    BY DEF Init
  <1>2. \A u, q \in Procs : Channel(cached, net, u, q) = {} /\ ToSet(unread[u]) = {}
    BY <1>1, ToSetOfEmpty DEF Channel, Carried
  <1>3. QED
    BY <1>2, UnderWayNodes

LEMMA ControlInit == Init => Control
  <1> SUFFICES ASSUME Init PROVE Control
    OBVIOUS
  <1>1. SentFresh
    BY UnderWayInit DEF SentFresh
  <1>2. OpenInterior /\ PopsFree /\ StopShape
    BY DEF Init, OpenInterior, PopsFree, StopShape
  <1>3. SolutionFound
    <2>1. mpi_best[master] = MaxTime /\ MaxTime \in Nat
      BY MasterType, ParametersAssumption DEF Init
    <2>2. ~(MaxTime < MaxTime)
      BY <2>1
    <2>3. QED
      BY <2>1, <2>2 DEF SolutionFound
  <1>4. QED
    BY <1>1, <1>2, <1>3 DEF Control

LEMMA StopShapeStep ==
  ASSUME TypeOK, StopShape, [Next]_vars
  PROVE  StopShape' /\ (verdict # "go on" => verdict' # "go on")
  <1>1. opt' = opt /\ (timer' = "off" => timer = "off") /\ timer \in {"off", "on", "called"}
    BY ZenonT(120) DEF Next, Begin, Local, CloseInsert, Compute, Pop, Expand, ReadNode,
       PollNothing, Receive,
       PollBatch, PollSync, TimerCalled, Reduce, Gather, GatherEnd, TimerExpires, Terminating,
       vars, TypeOK, RoundTypes
  <1>2. CASE Reduce
    BY <1>1, <1>2 DEF Reduce, Verdict, StopShape
  <1>3. CASE verdict' = verdict
    BY <1>1, <1>3 DEF StopShape
  <1>4. Reduce \/ verdict' = verdict
    BY ZenonT(120) DEF Next, Begin, Local, CloseInsert, Compute, Pop, Expand, ReadNode,
       PollNothing, Receive,
       PollBatch, PollSync, Gather, GatherEnd, TimerExpires, Terminating, vars, rounds
  <1>5. QED
    BY <1>2, <1>3, <1>4

(* A process never loses its solution.                                     *)
LEMMA SolutionStays ==
  ASSUME TypeOK, Shape, [Next]_vars, NEW p \in Procs, solution[p] # Nil
  PROVE  solution'[p] # Nil
  BY BoundSteps DEF Reduce, TypeOK, BoundTypes

LEMMA SolutionFoundStep ==
  ASSUME TypeOK, Shape, SolutionFound, [Next]_vars
  PROVE  SolutionFound'
  <1>1. CASE mpi_best' = mpi_best
    BY <1>1, SolutionStays DEF SolutionFound
  <1>2. CASE Reduce /\ Offer(Elected) < mpi_best[master]
    <2>1. Elected \in Procs /\ solution[Elected] # Nil
      BY <1>2, ElectedHasSolution
    <2>2. QED
      BY <2>1, SolutionStays DEF SolutionFound
  <1>3. QED
    BY <1>1, <1>2, BoundSteps

(* Once there is a reason to cut the search, there always is.              *)
LEMMA CutStays ==
  ASSUME TypeOK, TypeOK', Shape, StopShape, [Next]_vars, IsCut
  PROVE  IsCut'
  <1>1. CASE verdict # "go on"
    BY <1>1, StopShapeStep DEF IsCut
  <1>2. CASE \E p \in Procs : solution[p] # Nil
    BY <1>2, SolutionStays DEF IsCut
  <1>3. CASE \E p \in Procs : \E n \in closed[p] : TooLate(n)
    BY <1>3, ClosedGrows DEF IsCut, Grows, TooLate
  <1>4. QED
    BY <1>1, <1>2, <1>3 DEF IsCut

(* A node that its process finds too late is too late for any bound, or the
   process has a bound: either way the search is cut.                      *)
LEMMA LateCuts ==
  ASSUME TypeOK, Shape, BoundKnown, SolutionFound, NEW p \in Procs, NEW n \in Node,
         Tied(closed, p, n),
         n.mk >= best[p] \/ n.mk + opt.look[n.state].dur > best[p]
  PROVE  IsCut
  <1>1. /\ best[p] \in Nat /\ mpi_best[p] = mpi_best[master] /\ mpi_best[p] \in Nat
        /\ n.mk \in Nat /\ n.state \in State /\ MaxTime \in Nat
    BY ParametersAssumption DEF TypeOK, BoundTypes, Shape, RoundShape, Node
  <1>2. opt.look[n.state].dur \in Nat
    BY <1>1, SettingFacts DEF TypeOK, ProcTypes
  <1>3. CASE best[p] < MaxTime
    <2>1. solution[p] # Nil \/ mpi_best[master] < MaxTime
      BY <1>1, <1>3 DEF BoundKnown
    <2>2. QED
      BY <2>1 DEF SolutionFound, IsCut
  <1>4. CASE best[p] >= MaxTime
    <2>1. n.mk >= MaxTime \/ n.mk + opt.look[n.state].dur > MaxTime
      BY <1>1, <1>2, <1>4
    <2>2. PICK m \in closed[p] : Alike(m, n)
      BY DEF Tied
    <2>3. TooLate(m)
      BY SMTT(60), <2>1, <2>2 DEF TooLate, Alike
    <2>4. QED
      BY <2>2, <2>3 DEF IsCut
  <1>5. QED
    BY <1>1, <1>3, <1>4

(* What a process does alone to the nodes under way.                       *)
LEMMA LocalUnderWay ==
  ASSUME TypeOK, Shape, Matched, NEW p \in Procs, Local(p)
  PROVE  \/ UnderWay' = UnderWay
         \/ /\ ReadNode(p)
            /\ UnderWay = UnderWay' \cup {Head(unread[p])} /\ Head(unread[p]) \in Node
         \/ /\ Expand(p) /\ pc'[p] = "poll" /\ cur' = cur
            /\ held[p] \in Node /\ todo[p] \in 1 .. Len(opt.acts[held[p].state])
            /\ todo'[p] = todo[p] + 1 /\ held' = held
            /\ \E m \in Node :
                 /\ m.state = opt.acts[held[p].state][todo[p]].to /\ m.fresh
                 /\ UnderWay' = UnderWay \cup {m}
  <1>1. CASE CloseInsert(p)
    BY <1>1, SameChannels DEF CloseInsert, caches
  <1>2. CASE Compute(p)
    <2>1. cached' = cached /\ unread' = unread
      BY <1>2 DEF Compute
    <2>2. net' = net \/ net' = SyncSent(net, p)
      BY <1>2 DEF Compute, Found
    <2>3. net \in Networks
      BY DEF TypeOK, MessageTypes, Networks
    <2>4. \A u, q \in Procs : Channel(cached', net', u, q) = Channel(cached, net, u, q)
      BY SMTT(60), <2>1, <2>2, <2>3, CarriedBySync DEF Channel
    <2>5. QED
      BY <2>1, <2>4, SameChannels
  <1>3. CASE Pop(p)
    <2>1. unread' = unread
      BY <1>3 DEF Pop
    <2>2. CASE cached' = cached /\ net' = net
      BY <2>1, <2>2, SameChannels
    <2>3. CASE SendBatch(p, Fullest(p), cached[p][Fullest(p)])
      <3>1. Fullest(p) \in Procs
        BY FullestIsProc DEF TypeOK, MessageTypes
      <3>2. QED
        BY <2>1, <2>3, <3>1, FlushKeepsNodes
    <2>4. QED
      BY ZenonT(120), <1>3, <2>2, <2>3 DEF Pop
  <1>4. CASE Expand(p)
    <2>1. unread' = unread /\ held[p] \in Node
      BY <1>4 DEF Expand, Shape, ProcShape, TypeOK, ProcTypes
    <2>2. CASE caches' = caches
      BY SMTT(60), <2>1, <2>2, SameChannels DEF caches
    <2>3. CASE ~(caches' = caches)
      <3> DEFINE acts == opt.acts[held[p].state]
                 son == Derive(p, held[p], acts[todo[p]], 1)
      <3>1. /\ todo[p] <= Len(acts) /\ ComputeOrSend(p, son)
            /\ todo' = [todo EXCEPT ![p] = todo[p] + 1] /\ held' = held
        BY SMTT(60), <1>4, <2>3 DEF Expand, caches
      <3>2. SendNode(p, son) /\ pc' = [pc EXCEPT ![p] = "poll"] /\ cur' = cur
        BY <2>3, <3>1 DEF ComputeOrSend, caches, Goto
      <3>3. todo[p] \in 1 .. Len(acts)
        <4>1. Len(acts) \in Nat /\ todo[p] \in Nat \ {0}
          BY <2>1, SettingFacts DEF TypeOK, ProcTypes, Node
        <4>2. QED
          BY <3>1, <4>1
      <3>4. son \in Node
        BY <2>1, <3>3, SonType DEF TypeOK, ProcTypes
      <3>5. son.state = acts[todo[p]].to /\ son.fresh
        BY DEF Derive
      <3> HIDE DEF son
      <3>6. \E m \in Node : /\ m.state = son.state /\ m.fresh = son.fresh
                            /\ UnderWay' = UnderWay \cup {m}
        BY <2>1, <3>2, <3>4, SentIsUnderWay
      <3>7. pc'[p] = "poll" /\ todo'[p] = todo[p] + 1
        BY <3>1, <3>2 DEF TypeOK, ProcTypes
      <3>8. QED
        BY ZenonT(120), <1>4, <2>1, <3>1, <3>2, <3>3, <3>5, <3>6, <3>7
    <2>4. QED
      BY <2>2, <2>3
  <1>5. CASE ReadNode(p)
    BY <1>5, ReadTakesNode
  <1>6. CASE PollNothing(p)
    <2>1. cached' = cached /\ unread' = unread /\ net' = NetCalled(p)
      BY <1>6 DEF PollNothing
    <2>2. QED
      BY <2>1, CalledCarries, SameChannels DEF Channel
  <1>7. QED
    BY ZenonT(120), <1>1, <1>2, <1>3, <1>4, <1>5, <1>6 DEF Local

(* The master sends the root, or computes it.                              *)
LEMMA BeginSends ==
  ASSUME TypeOK, Shape, Begin
  PROVE  /\ pc[master] = "root" /\ closed' = closed /\ open' = open /\ held' = held
         /\ todo' = todo /\ solution' = solution /\ verdict' = verdict /\ opt' = opt
         /\ \/ /\ pc' = [pc EXCEPT ![master] = "poll"] /\ cur' = cur
               /\ \E m \in Node : m.state = Root /\ m.fresh /\ UnderWay' = UnderWay \cup {m}
            \/ /\ pc' = [pc EXCEPT ![master] = "closing"]
               /\ cur' = [cur EXCEPT ![master] = RootNode]
               /\ UnderWay' = UnderWay
  <1>1. /\ pc[master] = "root" /\ closed' = closed /\ open' = open /\ held' = held
        /\ todo' = todo /\ solution' = solution /\ verdict' = verdict /\ opt' = opt
        /\ unread' = unread /\ ComputeOrSend(master, RootNode)
    BY DEF Begin, lists, rounds
  <1>2. RootNode.state = Root /\ RootNode.fresh
    BY DEF RootNode
  <1>3. CASE Owner[Root] # master
    <2>1. /\ SendNode(master, RootNode) /\ pc' = [pc EXCEPT ![master] = "poll"] /\ cur' = cur
      BY <1>1, <1>2, <1>3 DEF ComputeOrSend, Goto
    <2>2. \E m \in Node : /\ m.state = RootNode.state /\ m.fresh = RootNode.fresh
                          /\ UnderWay' = UnderWay \cup {m}
      BY <1>1, <2>1, MasterType, RootNodeType, SentIsUnderWay
    <2>3. QED
      BY <1>1, <1>2, <2>1, <2>2
  <1>4. CASE Owner[Root] = master
    <2>1. /\ pc' = [pc EXCEPT ![master] = "closing"] /\ cur' = [cur EXCEPT ![master] = RootNode]
          /\ cached' = cached /\ net' = net
      BY <1>1, <1>2, <1>4 DEF ComputeOrSend, Goto, caches
    <2>2. QED
      BY <1>1, <2>1, SameChannels DEF Channel
  <1>5. QED
    BY <1>3, <1>4

Joint == Reduce \/ Gather \/ GatherEnd \/ TimerExpires \/ UNCHANGED vars

(* A round, a reception and the alarm change neither the lists nor what the
   processes hold; they take a process to places where it computes nothing. *)
LEMMA JointKeeps ==
  ASSUME TypeOK, Shape, Matched, Joint \/ \E p, q \in Procs : Receive(p, q)
  PROVE  /\ UNCHANGED <<open, closed, cur, held, todo, solution, opt>>
         /\ UnderWay' = UnderWay
         /\ \A u \in Procs : \/ pc'[u] = pc[u]
                             \/ /\ pc[u] \in {"poll", "round", "gather", "serve"}
                                /\ pc'[u] \in {"round", "gather", "serve", "left", Resume(u)}
  <1>1. CASE \E p, q \in Procs : Receive(p, q)
    <2>1. PICK p \in Procs, q \in Procs : Receive(p, q)
      BY <1>1
    <2>2. /\ UNCHANGED <<open, closed, cur, held, todo, solution, opt>>
          /\ pc[p] = "poll"
          /\ pc' = [pc EXCEPT ![p] = Resume(p)] \/ pc' = [pc EXCEPT ![p] = "round"]
      BY <2>1 DEF Receive, PollBatch, PollSync, Goto, lists
    <2>3. QED
      BY <2>1, <2>2, ReceiveKeepsNodes DEF TypeOK, ProcTypes
  <1>2. CASE Joint
    <2>1. /\ UNCHANGED <<open, closed, cur, held, todo, solution, opt>>
          /\ UNCHANGED <<cached, net, unread>>
      BY <1>2 DEF Joint, Reduce, Gather, GatherEnd, TimerExpires, lists, caches, vars
    <2>2. UnderWay' = UnderWay
      BY <2>1, SameChannels
    <2>3. ASSUME NEW u \in Procs
          PROVE  \/ pc'[u] = pc[u]
                 \/ /\ pc[u] \in {"poll", "round", "gather", "serve"}
                    /\ pc'[u] \in {"round", "gather", "serve", "left", Resume(u)}
      <3>1. CASE Reduce
        <4>1. pc[u] = "round"
          BY <3>1 DEF Reduce
        <4>2. pc'[u] \in {"gather", "serve", "left", Resume(u)}
          BY <3>1 DEF Reduce, AfterRound
        <4>3. QED
          BY <4>1, <4>2
      <3>2. CASE GatherEnd
        <4>1. pc[u] \in {"gather", "serve"}
          BY <3>2, MasterType DEF GatherEnd, Shape, RoundShape
        <4>2. pc'[u] \in {"left", Resume(u)}
          BY <3>2 DEF GatherEnd, AfterRound
        <4>3. QED
          BY <4>1, <4>2
      <3>3. CASE Gather \/ TimerExpires \/ UNCHANGED vars
        BY <3>3 DEF Gather, TimerExpires, vars
      <3>4. QED
        BY <1>2, <3>1, <3>2, <3>3 DEF Joint
    <2>4. QED
      BY <2>1, <2>2, <2>3
  <1>3. QED
    BY <1>1, <1>2

LEMMA NextCases ==
  ASSUME [Next]_vars
  PROVE  \/ Begin
         \/ \E p \in Procs : Local(p)
         \/ Joint \/ \E p, q \in Procs : Receive(p, q)
  BY DEF Next, Joint, Terminating

LEMMA SentFreshStep ==
  ASSUME TypeOK, Shape, Matched, SentFresh, [Next]_vars
  PROVE  SentFresh'
  <1>1. CASE Begin
    BY <1>1, BeginSends DEF SentFresh
  <1>2. CASE \E p \in Procs : Local(p)
    BY <1>2, LocalUnderWay DEF SentFresh
  <1>3. CASE Joint \/ \E p, q \in Procs : Receive(p, q)
    BY <1>3, JointKeeps DEF SentFresh
  <1>4. QED
    BY <1>1, <1>2, <1>3, NextCases

(* The head of a buffer has not been computed.                             *)
LEMMA ReadIsFresh ==
  ASSUME TypeOK, SentFresh, NEW p \in Procs, ReadNode(p)
  PROVE  Head(unread[p]) \in UnderWay /\ Head(unread[p]).fresh
  BY ReadTakesNode DEF SentFresh

(* The open list of a process grows by the node it computes, and by those it
   receives.                                                               *)
LEMMA OpenStep ==
  ASSUME TypeOK, Shape, SentFresh, NEW p \in Procs, Local(p)
  PROVE  /\ opt' = opt
         /\ \A q \in Procs \ {p} : open'[q] = open[q]
         /\ \/ open'[p] \subseteq open[p]
            \/ ReadNode(p) /\ \E m \in Node : m.fresh /\ open'[p] = open[p] \cup {m}
            \/ /\ Compute(p) /\ OpenAndLook(p) /\ cur[p] \in Node
               /\ Interior(opt, cur[p].state)
               /\ \E n \in Node : /\ n.state = cur[p].state /\ n.mk = cur[p].mk
                                  /\ open'[p] = open[p] \cup {n}
  <1>0. opt' = opt /\ \A q \in Procs \ {p} : open'[q] = open[q]
    BY ClosedGrows, OthersAlone DEF Next
  <1>1. CASE CloseInsert(p) \/ Expand(p) \/ PollNothing(p)
    BY <1>0, <1>1 DEF CloseInsert, Expand, PollNothing, lists
  <1>2. CASE Compute(p)
    <2>1. CASE open' = open
      BY <1>0, <2>1
    <2>2. CASE open' # open
      <3>1. cur[p] \in Node
        BY <1>2 DEF Compute, Shape, ProcShape, TypeOK, ProcTypes
      <3>2. OpenAndLook(p) /\ ~IsGoal(cur[p].state) /\ ~IsDead(cur[p].state)
        BY <1>2, <2>2 DEF Compute
      <3> DEFINE n == [cur[p] EXCEPT !.f = cur[p].len + Weight * opt.heur[cur[p].state],
                                     !.fresh = FALSE]
      <3>3. open'[p] = open[p] \cup {n}
        BY <3>2 DEF OpenAndLook, TypeOK, ListTypes
      <3>4. n \in Node /\ n.state = cur[p].state /\ n.mk = cur[p].mk
        <4>1. cur[p].len + Weight * opt.heur[cur[p].state] \in Int
          <5>1. cur[p].len \in Nat /\ cur[p].state \in State
            BY <3>1 DEF Node
          <5>2. opt.heur[cur[p].state] \in Nat
            BY <5>1, SettingFacts DEF TypeOK, ProcTypes
          <5>3. QED
            BY <5>1, <5>2, ParametersAssumption
        <4>2. QED
          BY <3>1, <4>1 DEF Node
      <3>5. Interior(opt, cur[p].state)
        BY <3>2 DEF Interior, IsGoal, IsDead
      <3>6. QED
        BY <1>0, <1>2, <3>1, <3>2, <3>3, <3>4, <3>5
    <2>3. QED
      BY <2>1, <2>2
  <1>3. CASE Pop(p)
    <2>1. open'[p] \subseteq open[p]
      BY <1>3 DEF Pop, TypeOK, ListTypes
    <2>2. QED
      BY <1>0, <2>1
  <1>4. CASE ReadNode(p)
    <2>1. CASE open' = open
      BY <1>0, <2>1
    <2>2. CASE open' # open
      <3> DEFINE h == Head(unread[p])
                 m == [h EXCEPT !.id = Cardinality(closed[p])]
      <3>1. h \in Node /\ h.fresh
        BY <1>4, ReadTakesNode, ReadIsFresh
      <3>2. open'[p] = open[p] \cup {m}
        BY <1>4, <2>2 DEF ReadNode, InsertForeign, lists, TypeOK, ListTypes
      <3>3. Cardinality(closed[p]) \in Nat
        BY CardinalityNat DEF Shape
      <3>4. m \in Node /\ m.fresh
        BY <3>1, <3>3, NumberedType DEF Node
      <3>5. QED
        BY <1>0, <1>4, <3>2, <3>4
    <2>3. QED
      BY <2>1, <2>2
  <1>5. QED
    BY <1>1, <1>2, <1>3, <1>4 DEF Local

LEMMA OpenInteriorStep ==
  ASSUME TypeOK, Shape, Matched, SentFresh, OpenInterior, [Next]_vars
  PROVE  OpenInterior'
  <1>1. CASE \E p \in Procs : Local(p)
    <2>1. PICK p \in Procs : Local(p)
      BY <1>1
    <2>2. ASSUME NEW q \in Procs, NEW n \in open'[q]
          PROVE  n.fresh \/ Interior(opt, n.state)
      BY <2>1, OpenStep DEF OpenInterior
    <2>3. opt' = opt
      BY <2>1, OpenStep
    <2>4. QED
      BY <2>2, <2>3 DEF OpenInterior
  <1>2. CASE open' = open /\ opt' = opt
    BY <1>2 DEF OpenInterior
  <1>3. QED
    BY <1>1, <1>2, NextCases, BeginSends, JointKeeps

LEMMA PopsFreeStep ==
  ASSUME TypeOK, Shape, Matched, PopsFree, [Next]_vars
  PROVE  PopsFree'
  <1>0. \A p \in Procs : Resume(p) = "pop" => held[p] = Nil
    BY DEF Resume
  <1>1. ASSUME NEW p \in Procs, Local(p), NEW u \in Procs, pc'[u] = "pop"
        PROVE  held'[u] = Nil
    <2>1. CASE u # p
      BY <1>1, <2>1, OthersAlone DEF PopsFree
    <2>2. CASE u = p
      <3>1. PollNothing(p)
        <4>1. CASE CloseInsert(p) \/ Compute(p)
          BY <1>1, <2>2, <4>1
             DEF CloseInsert, Compute, Forgotten, OpenAndLook, Goto, TypeOK, ProcTypes
        <4>2. CASE Pop(p) \/ ReadNode(p)
          BY SMTT(60), <1>1, <2>2, <4>2 DEF Pop, ReadNode, Goto, TypeOK, ProcTypes
        <4>3. CASE Expand(p)
          BY <1>1, <2>2, <4>3 DEF Expand, ComputeOrSend, Goto, TypeOK, ProcTypes
        <4>4. QED
          BY SMTT(60), <1>1, <4>1, <4>2, <4>3 DEF Local
      <3>2. pc'[p] = Resume(p) /\ held' = held
        BY <3>1 DEF PollNothing, Goto, TypeOK, ProcTypes
      <3>3. QED
        BY <1>0, <1>1, <2>2, <3>2
    <2>3. QED
      BY <2>1, <2>2
  <1>2. CASE Joint \/ \E p, q \in Procs : Receive(p, q)
    BY <1>0, <1>2, JointKeeps DEF PopsFree
  <1>3. CASE Begin
    BY <1>3, BeginSends, MasterType DEF PopsFree, TypeOK, ProcTypes
  <1>4. QED
    BY <1>1, <1>2, <1>3, NextCases DEF PopsFree

LEMMA ControlStep ==
  ASSUME TypeOK, Shape, Matched, Control, [Next]_vars
  PROVE  Control'
  BY SentFreshStep, OpenInteriorStep, PopsFreeStep, StopShapeStep, SolutionFoundStep DEF Control

-----------------------------------------------------------------------------
(* The states under way, those a process has to try, and those it shares
   out with the others.                                                    *)
Sent      == {n.state : n \in UnderWay}
Theirs(p) == UNION {ToTry(q) : q \in Procs \ {p}}
Lot(p)    == Sent \cup ToTry(p)

LEMMA PendingSplit ==
  ASSUME NEW p \in Procs
  PROVE  /\ Pending = (Lot(p) \cup Theirs(p) \cup Unstarted) \ Visited
         /\ Pending' = (Lot(p)' \cup Theirs(p)' \cup Unstarted') \ Visited'
  <1>1. UNION {ToTry(q) : q \in Procs} = ToTry(p) \cup Theirs(p)
    BY DEF Theirs
  <1>2. UNION {ToTry(q)' : q \in Procs} = ToTry(p)' \cup Theirs(p)'
    BY DEF Theirs
  <1>3. Pending' = (Sent' \cup (UNION {ToTry(q)' : q \in Procs}) \cup Unstarted') \ Visited'
    BY DEF Pending, Sent
  <1>4. QED
    BY <1>1, <1>2, <1>3 DEF Pending, Sent, Lot

LEMMA TheirsStay ==
  ASSUME TypeOK, Shape, NEW p \in Procs, Local(p)
  PROVE  Theirs(p)' = Theirs(p) /\ Unstarted' = Unstarted
  <1>1. opt' = opt
    BY ClosedGrows DEF Next
  <1>2. ASSUME NEW q \in Procs \ {p}
        PROVE  ToTry(q)' = ToTry(q)
    <2>1. /\ pc'[q] = pc[q] /\ cur'[q] = cur[q] /\ held'[q] = held[q]
          /\ open'[q] = open[q] /\ todo'[q] = todo[q]
      BY OthersAlone
    <2>2. Here(q)' = Here(q)
      BY <1>1, <2>1 DEF Here
    <2>3. Opened(q)' = Opened(q)
      BY <1>1, <2>1 DEF Opened
    <2>4. Untried(q)' = Untried(q)
      BY <1>1, <2>1 DEF Untried
    <2>5. QED
      BY <2>2, <2>3, <2>4 DEF ToTry
  <1>3. Theirs(p)' = Theirs(p)
    BY <1>2 DEF Theirs
  <1>4. pc'[master] = "root" <=> pc[master] = "root"
    <2>1. CASE master # p
      BY <2>1, MasterType, OthersAlone
    <2>2. CASE master = p
      <3>1. pc[p] # "root"
        BY DEF Local, CloseInsert, Compute, Pop, Expand, ReadNode, PollNothing
      <3>2. pc'[p] # "root"
        <4>1. CASE CloseInsert(p) \/ Compute(p)
          BY <4>1 DEF CloseInsert, Compute, Forgotten, OpenAndLook, Goto, TypeOK, ProcTypes
        <4>2. CASE Pop(p) \/ ReadNode(p) \/ PollNothing(p)
          BY SMTT(60), <3>1, <4>2, ResumeShape DEF Pop, ReadNode, PollNothing, Goto, TypeOK,
             ProcTypes
        <4>3. CASE Expand(p)
          BY <4>3 DEF Expand, ComputeOrSend, Goto, TypeOK, ProcTypes
        <4>4. QED
          BY SMTT(60), <4>1, <4>2, <4>3 DEF Local
      <3>3. QED
        BY <2>2, <3>1, <3>2
    <2>3. QED
      BY <2>1, <2>2
  <1>5. QED
    BY <1>3, <1>4 DEF Unstarted

(* A closed list that takes a node visits its state.                       *)
LEMMA AddVisits ==
  ASSUME TypeOK, Shape, NEW p \in Procs, NEW n \in Node, Adds(p, n)
  PROVE  Visited' = Visited \cup {n.state}
  <1> DEFINE m == [n EXCEPT !.id = Cardinality(closed[p])]
  <1>1. /\ m.state = n.state /\ closed'[p] = closed[p] \cup {m}
        /\ \A q \in Procs \ {p} : closed'[q] = closed[q]
    BY AddedNode DEF Alike
  <1> HIDE DEF m
  <1>2. \A q \in Procs : ClosedStates(q)' = IF q = p THEN ClosedStates(p) \cup {n.state}
                                                     ELSE ClosedStates(q)
    BY <1>1 DEF ClosedStates
  <1>3. \A s : s \in Visited' <=> s \in Visited \/ s = n.state
    <2>1. \A s : s \in Visited' <=> \E q \in Procs : s \in ClosedStates(q)'
      BY DEF Visited
    <2>2. \A s : s \in Visited <=> \E q \in Procs : s \in ClosedStates(q)
      BY DEF Visited
    <2>3. QED
      BY <1>2, <2>1, <2>2
  <1>4. QED
    BY <1>3

LEMMA SameVisited ==
  ASSUME closed' = closed
  PROVE  Visited' = Visited
  BY DEF Visited, ClosedStates

(* A process forgets nothing that it has to try ...                        *)
Keeps(p) ==
  /\ Visited' = Visited
  /\ Lot(p)' \subseteq Lot(p)
  /\ IsCut' \/ Lot(p) \subseteq Lot(p)' \cup Visited

(* ... until it closes it; then the sons have to be tried.                 *)
Closes(p, s) ==
  /\ s \in Lot(p)
  /\ Visited' = Visited \cup {s}
  /\ Lot(p)' \cup {s} = Lot(p) \cup SonsOf(opt, s) \cup {s}

LEMMA SentState ==
  ASSUME NEW m, UnderWay' = UnderWay \cup {m}
  PROVE  Sent' = Sent \cup {m.state}
  BY DEF Sent

LEMMA CloseInsertLot ==
  ASSUME TypeOK, Shape, NEW p \in Procs, CloseInsert(p)
  PROVE  Keeps(p) \/ \E s : Closes(p, s)
  <1> DEFINE s == cur[p].state
  <1>1. /\ open' = open /\ held' = held /\ todo' = todo /\ opt' = opt /\ pc[p] = "closing"
        /\ cur[p] \in Node /\ cur[p] # Nil
    BY DEF CloseInsert, Shape, ProcShape, TypeOK, ProcTypes
  <1>2. UnderWay' = UnderWay
    BY SameChannels DEF CloseInsert, caches
  <1>3. Opened(p)' = Opened(p) /\ Untried(p)' = Untried(p) /\ Sent' = Sent
    BY <1>1, <1>2 DEF Opened, Untried, Sent
  <1>4. Here(p) = {s}
    BY <1>1 DEF Here
  <1>5. CASE s \in ClosedStates(p)
    <2>1. closed' = closed /\ pc'[p] = "poll"
      BY <1>5 DEF CloseInsert, Goto, TypeOK, ProcTypes
    <2>2. Here(p)' = {} /\ Visited' = Visited
      BY <2>1, SameVisited DEF Here
    <2>3. s \in Visited
      BY <1>5 DEF Visited
    <2>4. Keeps(p)
      BY <1>3, <1>4, <2>2, <2>3 DEF Keeps, Lot, ToTry
    <2>5. QED
      BY <2>4
  <1>6. CASE s \notin ClosedStates(p)
    <2> DEFINE n == [cur[p] EXCEPT !.id = Cardinality(closed[p])]
    <2>1. /\ Adds(p, cur[p]) /\ cur'[p] = n /\ pc'[p] = "computing"
      BY <1>6 DEF CloseInsert, Adds, Goto, TypeOK, ProcTypes
    <2>2. n.state = s
      BY <1>1 DEF Node
    <2>3. Here(p)' = SonsOf(opt, s)
      BY <1>1, <2>1, <2>2 DEF Here
    <2>4. Visited' = Visited \cup {s}
      BY <1>1, <2>1, AddVisits
    <2>5. Closes(p, s)
      BY <1>3, <1>4, <2>3, <2>4 DEF Closes, Lot, ToTry
    <2>6. QED
      BY <2>5
  <1>7. QED
    BY <1>5, <1>6

LEMMA ReadNodeLot ==
  ASSUME TypeOK, Shape, NEW p \in Procs, ReadNode(p)
  PROVE  Keeps(p) \/ \E s : Closes(p, s)
  <1> DEFINE h == Head(unread[p])
             s == h.state
  <1>1. /\ pc' = pc /\ cur' = cur /\ held' = held /\ todo' = todo /\ opt' = opt
        /\ InsertForeign(p, h)
    BY DEF ReadNode
  <1>2. h \in Node /\ UnderWay = UnderWay' \cup {h}
    BY ReadTakesNode
  <1> HIDE DEF h
  <1>3. Sent = Sent' \cup {s}
    BY <1>2 DEF Sent
  <1>4. Here(p)' = Here(p) /\ Untried(p)' = Untried(p)
    <2>1. pc[p] = "poll"
      BY DEF ReadNode
    <2>2. QED
      BY <1>1, <2>1 DEF Here, Untried
  <1>5. CASE s \in ClosedStates(p)
    <2>1. open' = open /\ closed' = closed
      BY <1>1, <1>5 DEF InsertForeign, lists
    <2>2. Opened(p)' = Opened(p) /\ Visited' = Visited
      BY <1>1, <2>1, SameVisited DEF Opened
    <2>3. s \in Visited
      BY <1>5 DEF Visited
    <2>4. Keeps(p)
      BY <1>3, <1>4, <2>2, <2>3 DEF Keeps, Lot, ToTry
    <2>5. QED
      BY <2>4
  <1>6. CASE s \notin ClosedStates(p)
    <2> DEFINE m == [h EXCEPT !.id = Cardinality(closed[p])]
    <2>1. Adds(p, h) /\ open'[p] = open[p] \cup {m}
      BY <1>1, <1>6 DEF InsertForeign, Adds, TypeOK, ListTypes
    <2>2. m.state = s
      BY <1>2 DEF Node
    <2> HIDE DEF m
    <2>3. Opened(p)' = Opened(p) \cup SonsOf(opt, s)
      BY <1>1, <2>1, <2>2 DEF Opened
    <2>4. Visited' = Visited \cup {s}
      BY <1>2, <2>1, AddVisits
    <2>5. Closes(p, s)
      BY <1>3, <1>4, <2>3, <2>4 DEF Closes, Lot, ToTry
    <2>6. QED
      BY <2>5
  <1>7. QED
    BY <1>5, <1>6

LEMMA ComputeLot ==
  ASSUME TypeOK, TypeOK', Shape, Matched, BoundKnown, NodesDerived, Control,
         NEW p \in Procs, Compute(p)
  PROVE  Keeps(p)
  <1> DEFINE s == cur[p].state
             look == opt.look[s]
  <1>1. /\ cur[p] \in Node /\ cur[p] # Nil /\ pc[p] = "computing" /\ Tied(closed, p, cur[p])
        /\ held' = held /\ todo' = todo /\ opt' = opt /\ closed' = closed
    BY DEF Compute, Shape, ProcShape, TypeOK, ProcTypes, NodesDerived, ProcDerived
  <1>2. Sent' = Sent /\ Untried(p)' = Untried(p) /\ Visited' = Visited
    <2>1. UnderWay' = UnderWay
      <3>1. ~ReadNode(p) /\ ~Expand(p)
        BY <1>1 DEF ReadNode, Expand
      <3>2. QED
        BY <3>1, LocalUnderWay DEF Local
    <2>2. QED
      BY <1>1, <2>1, SameVisited DEF Sent, Untried
  <1>3. Here(p) = SonsOf(opt, s)
    BY <1>1 DEF Here
  <1>4. IsCut => IsCut'
    BY CutStays DEF Next, Local, Control
  <1>5. CASE (cur[p].mk >= best[p] \/ IsDead(s)) /\ Forgotten(p) /\ open' = open
    <2>1. Here(p)' = {} /\ Opened(p)' = Opened(p)
      BY <1>1, <1>5 DEF Forgotten, Goto, Here, Opened, TypeOK, ProcTypes
    <2>2. IsDead(s) => SonsOf(opt, s) = {}
      BY DEF IsDead, SonsOf, Interior
    <2>3. cur[p].mk >= best[p] => IsCut
      BY <1>1, LateCuts DEF Control
    <2>4. QED
      BY <1>2, <1>3, <1>4, <1>5, <2>1, <2>2, <2>3 DEF Keeps, Lot, ToTry
  <1>6. CASE Found(p) /\ Forgotten(p) /\ open' = open
    <2>1. Here(p)' = {} /\ Opened(p)' = Opened(p)
      BY <1>1, <1>6 DEF Forgotten, Goto, Here, Opened, TypeOK, ProcTypes
    <2>2. IsCut'
      BY <1>1, <1>6 DEF Found, IsCut, TypeOK, BoundTypes
    <2>3. QED
      BY <1>2, <2>1, <2>2 DEF Keeps, Lot, ToTry
  <1>7. CASE ~IsGoal(s) /\ ~IsDead(s) /\ OpenAndLook(p)
    <2>1. Interior(opt, s)
      BY SMTT(60), <1>7 DEF Interior, IsGoal, IsDead
    <2> DEFINE n == [cur[p] EXCEPT !.f = cur[p].len + Weight * opt.heur[s], !.fresh = FALSE]
               son == Derive(p, n, look, look.steps)
    <2>2. /\ open'[p] = open[p] \cup {n} /\ n.state = s
          /\ \/ pc'[p] = "poll"
             \/ pc'[p] = "closing" /\ cur'[p] = son
      BY <1>1, <1>7 DEF OpenAndLook, Forgotten, Goto, Node, TypeOK, ProcTypes, ListTypes
    <2>3. son.state = look.to
      BY DEF Derive
    <2> HIDE DEF n, son
    <2>4. Opened(p)' = Opened(p) \cup SonsOf(opt, s)
      BY <1>1, <2>2 DEF Opened
    <2>5. Here(p)' \subseteq {look.to}
      BY <2>2, <2>3 DEF Here
    <2>6. look.to \in SonsOf(opt, s)
      BY <2>1 DEF SonsOf
    <2>7. QED
      BY <1>2, <1>3, <2>4, <2>5, <2>6 DEF Keeps, Lot, ToTry
  <1>8. QED
    BY <1>5, <1>6, <1>7 DEF Compute

LEMMA PopLot ==
  ASSUME TypeOK, TypeOK', Shape, Matched, Control, LookTried, NEW p \in Procs, Pop(p)
  PROVE  Keeps(p)
  <1>1. pc[p] = "pop" /\ held[p] = Nil /\ opt' = opt /\ closed' = closed
    BY DEF Pop, Control, PopsFree
  <1>2. Sent' = Sent /\ Visited' = Visited /\ Here(p) = {} /\ Untried(p) = {}
    <2>1. UnderWay' = UnderWay
      <3>1. ~ReadNode(p) /\ ~Expand(p)
        BY <1>1 DEF ReadNode, Expand
      <3>2. QED
        BY <3>1, LocalUnderWay DEF Local
    <2>2. QED
      BY <1>1, <2>1, SameVisited DEF Sent, Here, Untried
  <1>3. IsCut => IsCut'
    BY CutStays DEF Next, Local, Control
  <1>4. ASSUME NEW n \in open[p], open' = [open EXCEPT ![p] = open[p] \ {n}],
               n.fresh, cur' = [cur EXCEPT ![p] = n], Goto(p, "computing"),
               UNCHANGED <<held, todo>>
        PROVE  Keeps(p)
    <2>1. Here(p)' = SonsOf(opt, n.state)
      BY <1>1, <1>4 DEF Here, Goto, TypeOK, ProcTypes
    <2>2. Untried(p)' = {}
      BY <1>1, <1>4 DEF Untried
    <2>3. Opened(p) = Opened(p)' \cup SonsOf(opt, n.state)
      BY <1>1, <1>4 DEF Opened, TypeOK, ListTypes
    <2>4. QED
      BY <1>2, <2>1, <2>2, <2>3 DEF Keeps, Lot, ToTry
  <1>5. ASSUME NEW n \in open[p], open' = [open EXCEPT ![p] = open[p] \ {n}],
               ~n.fresh, held' = [held EXCEPT ![p] = n], todo' = [todo EXCEPT ![p] = 1],
               Goto(p, "expand")
        PROVE  Keeps(p)
    <2> DEFINE Tos == {opt.acts[n.state][i].to : i \in 1 .. Len(opt.acts[n.state])}
               look == opt.look[n.state]
    <2>1. n \in Node /\ n # Nil
      BY ParametersAssumption DEF TypeOK, ListTypes
    <2>2. Here(p)' = {}
      BY <1>5 DEF Here, Goto, TypeOK, ProcTypes
    <2>3. Untried(p)' = Tos
      BY <1>1, <1>5, <2>1 DEF Untried, TypeOK, ProcTypes
    <2>4. Opened(p) = Opened(p)' \cup SonsOf(opt, n.state)
      BY <1>1, <1>5 DEF Opened, TypeOK, ListTypes
    <2>5. SonsOf(opt, n.state) = Tos \cup {look.to}
      BY <1>5 DEF Control, OpenInterior, SonsOf
    <2>6. IsCut \/ look.to \in Visited
      BY <1>1, <1>5 DEF LookTried
    <2> HIDE DEF Tos, look
    <2>7. QED
      BY <1>2, <1>3, <2>2, <2>3, <2>4, <2>5, <2>6 DEF Keeps, Lot, ToTry
  <1>6. CASE Goto(p, "poll") /\ UNCHANGED <<open, cur, held, todo>>
    <2>1. Here(p)' = {} /\ Untried(p)' = {} /\ Opened(p)' = Opened(p)
      BY <1>1, <1>6 DEF Here, Untried, Opened, Goto, TypeOK, ProcTypes
    <2>2. QED
      BY <1>2, <2>1 DEF Keeps, Lot, ToTry
  <1>7. QED
    <2>1. BestOf(open[p]) \subseteq open[p]
      BY DEF BestOf
    <2>2. QED
      BY <1>4, <1>5, <1>6, <2>1 DEF Pop

(* The node is either closed here next or under way to its owner.          *)
LEMMA SonIsHeld ==
  ASSUME TypeOK, NEW p \in Procs, NEW son \in Node, ComputeOrSend(p, son), unread' = unread
  PROVE  Sent' \cup Here(p)' = Sent \cup {son.state}
  <1>1. CASE Owner[son.state] = p
    <2>1. cached' = cached /\ net' = net
      BY <1>1 DEF ComputeOrSend, caches
    <2>2. UnderWay' = UnderWay
      BY <2>1, SameChannels
    <2>3. pc'[p] = "closing" /\ cur'[p] = son
      BY <1>1 DEF ComputeOrSend, Goto, TypeOK, ProcTypes
    <2>4. Here(p)' = {son.state}
      BY <2>3 DEF Here
    <2>5. QED
      BY <2>2, <2>4 DEF Sent
  <1>2. CASE Owner[son.state] # p
    <2>1. SendNode(p, son)
      BY <1>2 DEF ComputeOrSend
    <2>2. pc'[p] = "poll"
      BY <1>2 DEF ComputeOrSend, Goto, TypeOK, ProcTypes
    <2>3. Here(p)' = {}
      BY <2>2 DEF Here
    <2>4. PICK m \in Node : m.state = son.state /\ UnderWay' = UnderWay \cup {m}
      BY Zenon, <2>1, SentIsUnderWay
    <2>5. Sent' = Sent \cup {son.state}
      BY Zenon, <2>4, SentState
    <2>6. QED
      BY <2>3, <2>5
  <1>3. QED
    BY <1>1, <1>2

LEMMA ExpandLot ==
  ASSUME TypeOK, Shape, Matched, NEW p \in Procs, Expand(p)
  PROVE  Keeps(p)
  <1> DEFINE acts == opt.acts[held[p].state]
             l == Len(acts)
             son == Derive(p, held[p], acts[todo[p]], 1)
  <1>1. /\ pc[p] = "expand" /\ held[p] \in Node /\ held[p] # Nil /\ open' = open
        /\ closed' = closed /\ opt' = opt /\ todo[p] \in Nat \ {0}
    BY DEF Expand, lists, Shape, ProcShape, TypeOK, ProcTypes
  <1>2. l \in Nat
    BY <1>1, SettingFacts DEF TypeOK, ProcTypes, Node
  <1>3. Visited' = Visited /\ Opened(p)' = Opened(p) /\ Here(p) = {}
    BY <1>1, SameVisited DEF Opened, Here
  <1>4. Untried(p) = {acts[i].to : i \in todo[p] .. l}
    BY SMTT(60), <1>1 DEF Untried
  <1>5. CASE /\ todo[p] <= l /\ ComputeOrSend(p, son)
             /\ todo' = [todo EXCEPT ![p] = todo[p] + 1] /\ held' = held
    <2>1. Untried(p)' = {acts[i].to : i \in todo[p] + 1 .. l}
      BY <1>1, <1>5 DEF Untried, TypeOK, ProcTypes
    <2>2. todo[p] .. l = {todo[p]} \cup (todo[p] + 1 .. l)
      BY SMTT(60), <1>1, <1>2, <1>5
    <2>3. Untried(p) = {acts[todo[p]].to} \cup Untried(p)'
      BY <1>4, <2>1, <2>2
    <2>4. Sent' \cup Here(p)' = Sent \cup {acts[todo[p]].to}
      <3>1. unread' = unread
        BY DEF Expand
      <3>2. todo[p] \in 1 .. l
        BY <1>1, <1>2, <1>5
      <3>3. opt \in Settings /\ held[p] \in Node
        BY <1>1 DEF TypeOK, ProcTypes
      <3>4. son \in Node
        BY <3>2, <3>3, SonType
      <3>5. son.state = acts[todo[p]].to
        BY DEF Derive
      <3> HIDE DEF son, acts
      <3>6. Sent' \cup Here(p)' = Sent \cup {son.state}
        BY <1>5, <3>1, <3>4, SonIsHeld
      <3>7. QED
        BY <3>5, <3>6
    <2>5. QED
      BY SMTT(60), <1>3, <2>3, <2>4 DEF Keeps, Lot, ToTry
  <1>6. CASE /\ todo[p] > l /\ held' = [held EXCEPT ![p] = Nil] /\ Goto(p, "poll")
             /\ UNCHANGED <<todo, cur, caches>>
    <2>1. UnderWay' = UnderWay
      BY <1>6, SameChannels DEF Expand, caches
    <2>2. Here(p)' = {} /\ Untried(p)' = {}
      BY <1>6 DEF Here, Untried, Goto, TypeOK, ProcTypes
    <2>3. todo[p] .. l = {}
      BY <1>1, <1>2, <1>6
    <2>4. Untried(p) = {}
      BY <1>4, <2>3
    <2>5. QED
      BY <1>3, <2>1, <2>2, <2>4 DEF Keeps, Lot, ToTry, Sent
  <1>7. QED
    BY <1>5, <1>6 DEF Expand

LEMMA PollLot ==
  ASSUME TypeOK, Shape, Matched, NEW p \in Procs, PollNothing(p)
  PROVE  Keeps(p)
  <1>1. /\ pc[p] = "poll" /\ pc'[p] = Resume(p)
        /\ UNCHANGED <<opt, cur, held, todo, open, closed>>
    BY DEF PollNothing, Goto, lists, TypeOK, ProcTypes
  <1>2. UnderWay' = UnderWay
    <2>1. ~ReadNode(p) /\ ~Expand(p)
      BY <1>1 DEF ReadNode, Expand, PollNothing
    <2>2. QED
      BY <2>1, LocalUnderWay DEF Local
  <1>3. Here(p) = {} /\ Here(p)' = {}
    BY <1>1, ResumeShape DEF Here
  <1>4. Opened(p)' = Opened(p) /\ Untried(p)' = Untried(p) /\ Visited' = Visited /\ Sent' = Sent
    BY <1>1, <1>2, SameVisited DEF Opened, Untried, Sent
  <1>5. QED
    BY <1>3, <1>4 DEF Keeps, Lot, ToTry

LEMMA LocalLot ==
  ASSUME TypeOK, TypeOK', Shape, Matched, BoundKnown, NodesDerived, Control, LookTried,
         NEW p \in Procs, Local(p)
  PROVE  Keeps(p) \/ \E s : Closes(p, s)
  BY CloseInsertLot, ReadNodeLot, ComputeLot, PopLot, ExpandLot, PollLot DEF Local

-----------------------------------------------------------------------------
(* What a step does to the states visited and pending.                     *)
Same == Visited' = Visited /\ Pending' = Pending

Less ==
  /\ IsCut' /\ Visited' = Visited
  /\ Pending' \subseteq (Pending \cup UNION {SonsOf(opt, s) : s \in Visited}) \ Visited

Visits(s) ==
  /\ s \in Pending
  /\ Visited' = Visited \cup {s}
  /\ Pending' = (Pending \cup SonsOf(opt, s)) \ Visited'

LEMMA LocalSearches ==
  ASSUME TypeOK, TypeOK', Shape, Matched, BoundKnown, NodesDerived, Control, LookTried,
         Explored, NEW p \in Procs, Local(p)
  PROVE  Same \/ Less \/ \E s : Visits(s)
  <1> DEFINE R == Theirs(p) \cup Unstarted
  <1>1. R' = R
    BY TheirsStay
  <1> HIDE DEF R
  <1>2. Pending = (Lot(p) \cup R) \ Visited /\ Pending' = (Lot(p)' \cup R') \ Visited'
    BY PendingSplit DEF R
  <1>3. CASE Keeps(p)
    BY <1>1, <1>2, <1>3 DEF Keeps, Same, Less
  <1>4. ASSUME NEW s, Closes(p, s)
        PROVE  Same \/ Less \/ Visits(s)
    <2>1. CASE s \notin Visited
      BY <1>1, <1>2, <1>4, <2>1 DEF Closes, Visits
    <2>2. CASE s \in Visited
      <3>1. Visited' = Visited /\ Pending' = Pending \cup (SonsOf(opt, s) \ Visited)
        BY <1>1, <1>2, <1>4, <2>2 DEF Closes
      <3>2. CASE IsCut'
        BY <1>2, <2>2, <3>1, <3>2 DEF Less
      <3>3. CASE ~IsCut'
        <4>1. ~IsCut
          BY <3>3, CutStays DEF Next, Control
        <4>2. SonsOf(opt, s) \subseteq Visited \cup Pending
          BY <2>2, <4>1 DEF Explored
        <4>3. QED
          BY <3>1, <4>2 DEF Same
      <3>4. QED
        BY <3>2, <3>3
    <2>3. QED
      BY <2>1, <2>2
  <1>5. QED
    BY <1>3, <1>4, LocalLot

(* The master starts the search with the root.                             *)
LEMMA BeginSearches ==
  ASSUME TypeOK, Shape, Begin
  PROVE  Same
  <1>1. /\ pc[master] = "root" /\ closed' = closed /\ open' = open /\ held' = held
        /\ todo' = todo /\ opt' = opt
    BY BeginSends
  <1>2. /\ pc'[master] # "root" /\ \A q \in Procs \ {master} : pc'[q] = pc[q] /\ cur'[q] = cur[q]
    BY BeginSends, MasterType DEF TypeOK, ProcTypes
  <1>3. Unstarted = {Root} /\ Unstarted' = {}
    BY <1>1, <1>2 DEF Unstarted
  <1>4. \A q \in Procs : Opened(q)' = Opened(q) /\ Untried(q)' = Untried(q)
    BY <1>1 DEF Opened, Untried
  <1>5. \A q \in Procs \ {master} : Here(q)' = Here(q)
    BY <1>1, <1>2 DEF Here
  <1>6. Theirs(master)' = Theirs(master)
    <2>1. \A q \in Procs \ {master} : ToTry(q)' = ToTry(q)
      BY <1>4, <1>5 DEF ToTry
    <2>2. QED
      BY <2>1 DEF Theirs
  <1>7. Here(master) = {}
    BY <1>1 DEF Here
  <1>8. Sent' \cup Here(master)' = Sent \cup {Root}
    <2>1. CASE /\ pc' = [pc EXCEPT ![master] = "poll"]
               /\ \E m \in Node : m.state = Root /\ UnderWay' = UnderWay \cup {m}
      <3>1. Here(master)' = {}
        BY <2>1, MasterType DEF Here, TypeOK, ProcTypes
      <3>2. Sent' = Sent \cup {Root}
        BY <2>1, SentState
      <3>3. QED
        BY <3>1, <3>2
    <2>2. CASE /\ pc' = [pc EXCEPT ![master] = "closing"]
               /\ cur' = [cur EXCEPT ![master] = RootNode]
               /\ UnderWay' = UnderWay
      <3>1. Here(master)' = {Root}
        BY <2>2, MasterType DEF Here, RootNode, TypeOK, ProcTypes
      <3>2. Sent' = Sent
        BY <2>2 DEF Sent
      <3>3. QED
        BY <3>1, <3>2
    <2>3. QED
      BY <2>1, <2>2, BeginSends
  <1>9. Lot(master)' = Lot(master) \cup {Root}
    BY <1>4, <1>7, <1>8, MasterType DEF Lot, ToTry
  <1>10. Visited' = Visited
    BY <1>1, SameVisited
  <1>11. QED
    BY SMTT(60), <1>3, <1>6, <1>9, <1>10, MasterType, PendingSplit DEF Same

LEMMA JointSearches ==
  ASSUME TypeOK, Shape, Matched, Joint \/ \E p, q \in Procs : Receive(p, q)
  PROVE  Same
  <1>1. /\ UNCHANGED <<open, closed, cur, held, todo, solution, opt>>
        /\ UnderWay' = UnderWay
    BY JointKeeps
  <1>2. \A u \in Procs :
          \/ pc'[u] = pc[u]
          \/ /\ pc[u] \notin {"closing", "computing", "root"}
             /\ pc'[u] \notin {"closing", "computing", "root"}
    BY JointKeeps, ResumeShape
  <1>3. ASSUME NEW u \in Procs
        PROVE  ToTry(u)' = ToTry(u)
    <2>1. Here(u)' = Here(u)
      BY <1>1, <1>2 DEF Here
    <2>2. Opened(u)' = Opened(u) /\ Untried(u)' = Untried(u)
      BY <1>1 DEF Opened, Untried
    <2>3. QED
      BY <2>1, <2>2 DEF ToTry
  <1>4. Unstarted' = Unstarted
    BY <1>2, MasterType DEF Unstarted
  <1>5. Visited' = Visited /\ Sent' = Sent
    BY <1>1, SameVisited DEF Sent
  <1>6. Theirs(master)' = Theirs(master) /\ Lot(master)' = Lot(master)
    BY <1>3, <1>5, MasterType DEF Theirs, Lot
  <1>7. QED
    BY <1>4, <1>5, <1>6, MasterType, PendingSplit DEF Same

LEMMA StepSearches ==
  ASSUME TypeOK, TypeOK', Shape, Matched, BoundKnown, NodesDerived, Control, LookTried,
         Explored, [Next]_vars
  PROVE  Same \/ Less \/ \E s : Visits(s)
  BY NextCases, LocalSearches, BeginSearches, JointSearches

(* An uncut search loses no son of a visited state.                        *)
LEMMA ExploredStep ==
  ASSUME TypeOK, TypeOK', Shape, Matched, BoundKnown, NodesDerived, Control, LookTried,
         Explored, [Next]_vars
  PROVE  Explored'
  <1> SUFFICES ASSUME ~IsCut'
               PROVE  \A u \in Visited' : SonsOf(opt, u) \subseteq Visited' \cup Pending'
    <2>1. opt' = opt
      BY ClosedGrows
    <2>2. QED
      BY <2>1 DEF Explored
  <1>1. \A u \in Visited : SonsOf(opt, u) \subseteq Visited \cup Pending
    BY CutStays DEF Explored, Control
  <1>2. CASE Same
    BY <1>1, <1>2 DEF Same
  <1>3. ASSUME NEW s, Visits(s)
        PROVE  \A u \in Visited' : SonsOf(opt, u) \subseteq Visited' \cup Pending'
    <2>1. Visited \cup Pending \cup SonsOf(opt, s) \subseteq Visited' \cup Pending'
      BY <1>3 DEF Visits
    <2>2. QED
      BY <1>1, <1>3, <2>1 DEF Visits
  <1>4. QED
    BY <1>2, <1>3, StepSearches DEF Less

LEMMA VisitedGrows ==
  ASSUME TypeOK, Shape, [Next]_vars
  PROVE  Visited \subseteq Visited'
  <1>1. \A q \in Procs : ClosedStates(q) \subseteq ClosedStates(q)'
    BY ClosedGrows DEF Grows, ClosedStates
  <1>2. QED
    BY <1>1 DEF Visited

(* A process that was to close a node has closed its state.                *)
LEMMA ClosingVisits ==
  ASSUME TypeOK, Shape, NEW p \in Procs, Local(p), pc[p] = "closing"
  PROVE  cur[p].state \in Visited' /\ open' = open
  <1>1. CloseInsert(p)
    BY DEF Local, Compute, Pop, Expand, ReadNode, PollNothing
  <1>2. open' = open /\ cur[p] \in Node
    BY <1>1 DEF CloseInsert, Shape, ProcShape, TypeOK, ProcTypes
  <1>3. CASE cur[p].state \in ClosedStates(p)
    BY <1>2, <1>3, VisitedGrows DEF Visited, Next
  <1>4. CASE cur[p].state \notin ClosedStates(p)
    BY <1>1, <1>2, <1>4, AddVisits DEF CloseInsert, Adds
  <1>5. QED
    BY <1>2, <1>3, <1>4

(* The lookahead of an open node stays tried.                              *)
LEMMA LookTriedStep ==
  ASSUME TypeOK, TypeOK', Shape, Matched, BoundKnown, NodesDerived, Control, LookTried,
         [Next]_vars
  PROVE  LookTried'
  <1> DEFINE Tried(q, n) == \/ n.fresh
                            \/ opt.look[n.state].to \in Visited
                            \/ pc[q] = "closing" /\ cur[q].state = opt.look[n.state].to
             Kept(q, n) == \/ n.fresh
                           \/ opt.look[n.state].to \in Visited'
                           \/ pc'[q] = "closing" /\ cur'[q].state = opt.look[n.state].to
  <1>1. opt' = opt /\ Visited \subseteq Visited'
    BY ClosedGrows, VisitedGrows
  <1> SUFFICES ASSUME ~IsCut', NEW q \in Procs, NEW n \in open'[q]
               PROVE  Kept(q, n)
    BY <1>1 DEF LookTried
  <1>2. ~IsCut /\ \A m \in open[q] : Tried(q, m)
    BY CutStays DEF LookTried, Control
  <1>3. CASE pc'[q] = pc[q] /\ cur'[q] = cur[q] /\ open'[q] = open[q]
    BY <1>1, <1>2, <1>3
  <1>4. CASE Local(q)
    <2>1. CASE pc[q] = "closing"
      <3>1. cur[q].state \in Visited' /\ open' = open
        BY <1>4, <2>1, ClosingVisits
      <3>2. QED
        BY <1>1, <1>2, <3>1
    <2>2. CASE pc[q] # "closing"
      <3>1. \A m \in open[q] : Kept(q, m)
        BY <1>1, <1>2, <2>2
      <3>2. CASE n \in open[q]
        BY SMTT(60), <3>1, <3>2
      <3>3. CASE n \notin open[q] /\ Compute(q) /\ OpenAndLook(q)
        <4> DEFINE s == cur[q].state
                   look == opt.look[s]
                   m == [cur[q] EXCEPT !.f = cur[q].len + Weight * opt.heur[s],
                                       !.fresh = FALSE]
                   son == Derive(q, m, look, look.steps)
        <4>1. cur[q] \in Node /\ Tied(closed, q, cur[q])
          BY SMTT(60), <3>3 DEF Compute, Shape, ProcShape, TypeOK, ProcTypes, NodesDerived,
             ProcDerived
        <4>2. n = m /\ m.state = s /\ m.mk = cur[q].mk
          BY <3>3, <4>1 DEF OpenAndLook, TypeOK, ListTypes, Node
        <4>3. son.state = look.to /\ son.mk = cur[q].mk + look.dur
          BY SMTT(60), <4>2 DEF Derive
        <4>4. ~(son.mk > best[q])
          <5>1. ~(cur[q].mk + look.dur > best[q])
            BY SMTT(60), <1>2, <4>1, LateCuts DEF Control
          <5>2. QED
            BY <4>3, <5>1
        <4>5. pc'[q] = "closing" /\ cur'[q] = son
          BY <3>3, <4>4 DEF OpenAndLook, Goto, TypeOK, ProcTypes
        <4>6. QED
          BY <4>2, <4>3, <4>5
      <3>4. CASE n \notin open[q] /\ n.fresh
        BY <3>4
      <3>5. QED
        BY <1>4, <3>2, <3>3, <3>4, OpenStep DEF Control
    <2>3. QED
      BY <2>1, <2>2
  <1>5. CASE \E p \in Procs \ {q} : Local(p)
    BY <1>3, <1>5, OthersAlone
  <1>6. CASE Begin
    <2>1. open' = open /\ pc[master] # "closing"
      BY <1>6, BeginSends
    <2>2. q # master => pc'[q] = pc[q] /\ cur'[q] = cur[q]
      BY <1>6, BeginSends, MasterType DEF TypeOK, ProcTypes
    <2>3. QED
      BY <1>1, <1>2, <2>1, <2>2
  <1>7. CASE Joint \/ \E p, u \in Procs : Receive(p, u)
    <2>1. open' = open /\ cur' = cur
      BY <1>7, JointKeeps
    <2>2. pc[q] = "closing" => pc'[q] = pc[q]
      BY <1>7, JointKeeps
    <2>3. QED
      BY <1>1, <1>2, <2>1, <2>2
  <1>8. QED
    BY <1>4, <1>5, <1>6, <1>7, NextCases

-----------------------------------------------------------------------------
SearchInv == Inv /\ Control /\ LookTried /\ Explored

LEMMA SearchInit ==
  ASSUME Init
  PROVE  /\ Control /\ LookTried /\ Explored
         /\ Visited = {} /\ Pending = {Root} /\ IsCut \in BOOLEAN
  <1>1. \A p \in Procs : closed[p] = {} /\ open[p] = {} /\ held[p] = Nil
    BY DEF Init
  <1>2. pc[master] = "root" /\ \A p \in Procs : pc[p] \in {"root", "poll"}
    BY MasterType DEF Init
  <1>3. Visited = {}
    BY <1>1 DEF Visited, ClosedStates
  <1>4. \A p \in Procs : ToTry(p) = {}
    BY <1>1, <1>2 DEF ToTry, Here, Opened, Untried
  <1>5. Pending = {Root}
    BY <1>2, <1>3, <1>4, UnderWayInit DEF Pending, Unstarted
  <1>6. LookTried /\ Explored
    BY <1>1, <1>3 DEF LookTried, Explored
  <1>7. IsCut \in BOOLEAN
    BY DEF IsCut
  <1>8. QED
    BY <1>3, <1>5, <1>6, <1>7, ControlInit

LEMMA SearchInvKept == Spec => []SearchInv
  <1>1. Init => Control /\ LookTried /\ Explored
    BY SearchInit
  <1>2. /\ Inv /\ Control /\ LookTried /\ Explored /\ Inv' /\ [Next]_vars
        => (Control /\ LookTried /\ Explored)'
    BY ControlStep, LookTriedStep, ExploredStep DEF Inv
  <1>3. QED
    BY <1>1, <1>2, InvKept, PTL DEF Spec, SearchInv

(* The processes together implement GraphSearch, step by step: wherever a
   node is, in a cache, in a batch, in a buffer or in the hands of a process,
   the search loses no state until it is cut, and visits none that was not
   pending.  For any number of processes, any problem and owner of its
   states, any size of the caches.                                         *)
THEOREM ProcsImplementSearch == Spec => ProcsSearch
  <1>1. ASSUME Init, NEW o \in Settings
        PROVE  Graph(o)!Init
    BY <1>1, SearchInit DEF Graph!Init
  <1>2. ASSUME SearchInv, SearchInv', [Next]_vars, NEW o \in Settings, opt = o
        PROVE  Graph(o)!Next \/ UNCHANGED Graph(o)!gvars
    <2>1. Same \/ Less \/ \E s : Visits(s)
      BY <1>2, StepSearches DEF SearchInv, Inv
    <2>2. IsCut \in BOOLEAN /\ IsCut' \in BOOLEAN /\ (IsCut => IsCut')
      <3>1. IsCut => IsCut'
        BY <1>2, CutStays DEF SearchInv, Inv, Control
      <3>2. QED
        BY <3>1 DEF IsCut
    <2>3. CASE Less
      <3>1. Graph(o)!Cut
        BY <1>2, <2>3 DEF Less, Graph!Cut
      <3>2. QED
        BY <3>1 DEF Graph!Next
    <2>4. ASSUME NEW s, Visits(s)
          PROVE  Graph(o)!Next
      <3>1. Graph(o)!Visit(s)
        BY <1>2, <2>2, <2>4 DEF Visits, Graph!Visit
      <3>2. s \in Pending
        BY <2>4 DEF Visits
      <3>3. QED
        BY <3>1, <3>2 DEF Graph!Next
    <2>5. CASE Same
      <3>1. CASE IsCut'
        <4>1. Graph(o)!Cut
          BY <2>5, <3>1 DEF Same, Graph!Cut, Pending
        <4>2. QED
          BY <4>1 DEF Graph!Next
      <3>2. CASE ~IsCut'
        BY <2>2, <2>5, <3>2 DEF Same, Graph!gvars
      <3>3. QED
        BY <3>1, <3>2
    <2>6. QED
      BY <2>1, <2>3, <2>4, <2>5
  <1>3. Init => \A o \in Settings : opt = o => Graph(o)!Init
    BY <1>1
  <1>4. SearchInv /\ SearchInv' /\ [Next]_vars =>
          [\A o \in Settings : opt = o => Graph(o)!Next \/ UNCHANGED Graph(o)!gvars]_vars
    BY <1>2
  <1>5. QED
    BY <1>3, <1>4, SearchInvKept, PTL DEF Spec, ProcsSearch

=============================================================================
