-------------------------- MODULE GraphSearchProof --------------------------
(***************************************************************************)
(* What the abstract search guarantees, for every graph: it visits only    *)
(* states that can be reached, none twice, and when it ends without having *)
(* been cut it has visited them all.                                       *)
(***************************************************************************)
EXTENDS GraphSearch, TLAPS

(* Only reachable states are visited or pending, and a state waits only as
   long as it is not visited.                                              *)
Confined ==
  /\ TypeOK
  /\ visited \cup pending \subseteq Reach
  /\ visited \cap pending = {}

(* Nothing is lost: the sons of a visited state are visited or pending.    *)
Explored ==
  ~cut => /\ Root \in visited \cup pending
          /\ \A s \in visited : Sons(s) \subseteq visited \cup pending

-----------------------------------------------------------------------------
(* The root is reachable, and so are the sons of a reachable state.        *)
LEMMA ReachClosed ==
  ASSUME GraphAssumption
  PROVE  /\ Reach \subseteq State
         /\ Root \in Reach
         /\ \A s \in Reach : Sons(s) \subseteq Reach
  <1>1. Root \in Reach
    BY DEF GraphAssumption, Reach, ClosedUnderSons
  <1>2. ASSUME NEW s \in Reach, NEW u \in Sons(s)
        PROVE  u \in Reach
    <2>1. s \in State /\ u \in State
      BY <1>2 DEF GraphAssumption, Reach
    <2>2. ASSUME NEW C \in SUBSET State, ClosedUnderSons(C)
          PROVE  u \in C
      <3>1. s \in C
        BY <2>2 DEF Reach
      <3>2. QED
        BY <1>2, <2>2, <3>1 DEF ClosedUnderSons
    <2>3. QED
      BY <2>1, <2>2 DEF Reach
  <1>3. QED
    BY <1>1, <1>2 DEF Reach

(* A set of states that holds the root and the sons of its members holds
   every reachable state.                                                  *)
LEMMA ReachLeast ==
  ASSUME NEW C \in SUBSET State, ClosedUnderSons(C)
  PROVE  Reach \subseteq C
  BY DEF Reach

(* A step keeps what is visited and pending among the reachable states.    *)
LEMMA ConfinedStep ==
  ASSUME GraphAssumption, Confined, [Next]_gvars
  PROVE  Confined'
  <1> USE DEF Confined, TypeOK
  <1>1. ASSUME NEW s \in pending, Visit(s)
        PROVE  Confined'
    <2>1. s \in Reach /\ Sons(s) \subseteq Reach /\ Reach \subseteq State
      BY <1>1, ReachClosed
    <2>2. visited' \subseteq Reach /\ pending' \subseteq Reach
      BY <1>1, <2>1 DEF Visit
    <2>3. visited' \cap pending' = {}
      BY <1>1 DEF Visit
    <2>4. cut' \in BOOLEAN
      BY <1>1 DEF Visit
    <2>5. Reach' = Reach
      BY DEF Reach
    <2>6. QED
      BY <2>1, <2>2, <2>3, <2>4, <2>5
  <1>2. CASE Cut
    <2>1. Reach' = Reach
      BY DEF Reach
    <2>2. UNION {Sons(s) : s \in visited} \subseteq Reach
      BY ReachClosed
    <2>3. pending' \subseteq Reach /\ Reach \subseteq State
      BY <1>2, <2>2, ReachClosed DEF Cut
    <2>4. QED
      BY <1>2, <2>1, <2>3 DEF Cut
  <1>3. CASE UNCHANGED gvars
    <2>1. Reach' = Reach
      BY DEF Reach
    <2>2. QED
      BY <1>3, <2>1 DEF gvars
  <1>4. QED
    BY <1>1, <1>2, <1>3 DEF Next

(* A step that does not cut the search loses no state.                     *)
LEMMA ExploredStep ==
  ASSUME Explored, cut \in BOOLEAN, [Next]_gvars
  PROVE  Explored'
  <1>1. ASSUME NEW s \in pending, Visit(s), ~cut'
        PROVE  Explored'
    <2>1. ~cut
      BY <1>1 DEF Visit
    <2>2. /\ Root \in visited \cup pending
          /\ \A u \in visited : Sons(u) \subseteq visited \cup pending
      BY <2>1 DEF Explored
    <2>3. /\ visited' = visited \cup {s}
          /\ visited' \cup pending' = visited \cup {s} \cup pending \cup Sons(s)
      BY <1>1 DEF Visit
    <2>4. \A u \in visited' : Sons(u) \subseteq visited' \cup pending'
      BY <2>2, <2>3
    <2>5. QED
      BY <2>2, <2>3, <2>4 DEF Explored
  <1>2. ASSUME Cut
        PROVE  Explored'
    BY <1>2 DEF Cut, Explored
  <1>3. ASSUME UNCHANGED gvars
        PROVE  Explored'
    BY <1>3 DEF gvars, Explored
  <1>4. CASE cut'
    BY <1>4 DEF Explored
  <1>5. QED
    BY <1>1, <1>2, <1>3, <1>4 DEF Next

-----------------------------------------------------------------------------
(* Whatever the order in which states are visited and wherever the search
   is cut, only reachable states are visited.                              *)
THEOREM SearchSound == GraphAssumption => (Spec => [](TypeOK /\ Sound))
  <1> SUFFICES ASSUME GraphAssumption PROVE Spec => [](TypeOK /\ Sound)
    OBVIOUS
  <1>1. Init => Confined
    BY ReachClosed DEF Init, Confined, TypeOK
  <1>2. Confined /\ [Next]_gvars => Confined'
    BY ConfinedStep
  <1>3. Confined => TypeOK /\ Sound
    BY DEF Confined, Sound
  <1>4. QED
    BY <1>1, <1>2, <1>3, PTL DEF Spec

(* A search that has nothing left to try and was never cut has visited
   every reachable state: the answer that there is no plan is a proof.     *)
THEOREM SearchComplete == GraphAssumption => (Spec => []Complete)
  <1> SUFFICES ASSUME GraphAssumption PROVE Spec => []Complete
    OBVIOUS
  <1>1. Init => Confined /\ Explored
    BY ReachClosed DEF Init, Confined, Explored, TypeOK
  <1>2. Confined /\ Explored /\ [Next]_gvars => (Confined /\ Explored)'
    BY ConfinedStep, ExploredStep DEF Confined, TypeOK
  <1>3. Confined /\ Explored => Complete
    <2> SUFFICES ASSUME Confined, Explored, ~cut, pending = {}
                 PROVE  Reach \subseteq visited
      BY DEF Complete
    <2>1. ClosedUnderSons(visited) /\ visited \subseteq State
      BY DEF Explored, Confined, TypeOK, ClosedUnderSons
    <2>2. QED
      BY <2>1, ReachLeast
  <1>4. QED
    BY <1>1, <1>2, <1>3, PTL DEF Spec

(* A state is visited once: what has been visited stays visited and is never
   pending again, and only what is pending is visited.                     *)
THEOREM VisitedOnce ==
  Spec => /\ [](visited \cap pending = {})
          /\ [][visited \subseteq visited' /\ visited' \ visited \subseteq pending]_gvars
  <1> DEFINE Apart == visited \cap pending = {}
             Grows == visited \subseteq visited' /\ visited' \ visited \subseteq pending
  <1>1. Init => Apart
    BY DEF Init
  <1>2. Apart /\ [Next]_gvars => Apart'
    BY DEF Next, Visit, Cut, gvars
  <1>3. [Next]_gvars => [Grows]_gvars
    BY DEF Next, Visit, Cut, gvars
  <1>4. QED
    BY <1>1, <1>2, <1>3, PTL DEF Spec

=============================================================================
