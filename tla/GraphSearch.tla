---------------------------- MODULE GraphSearch ----------------------------
(***************************************************************************)
(* What a forward search of YAHSP promises, whatever the order in which it *)
(* takes nodes and however many threads share the work: starting from      *)
(* Root it visits states, each one once, and every son of a visited state  *)
(* is either visited or still pending, unless the search was cut by a      *)
(* solution, a bound or a limit.                                           *)
(***************************************************************************)
EXTENDS FiniteSets

CONSTANTS State, Root, Sons(_)

(* What an instance has to give; the theorems take it as a hypothesis.     *)
GraphAssumption ==
  /\ Root \in State
  /\ \A s \in State : Sons(s) \subseteq State

VARIABLES
  visited,  \* states whose node entered the closed list
  pending,  \* states that still have to be tried
  cut       \* was the search allowed to forget pending states?

gvars == <<visited, pending, cut>>

ClosedUnderSons(C) == Root \in C /\ \A s \in C : Sons(s) \subseteq C

(* The states reachable from Root: those in every set closed under Sons.   *)
Reach == {s \in State : \A C \in SUBSET State : ClosedUnderSons(C) => s \in C}

Init ==
  /\ visited = {}
  /\ pending = {Root}
  /\ cut \in BOOLEAN

(* The state that is visited may be a reason to cut the search.             *)
Visit(s) ==
  /\ s \in pending
  /\ visited' = visited \cup {s}
  /\ pending' = (pending \cup Sons(s)) \ visited'
  /\ cut' \in {cut, TRUE}

(* Once cut, the search may forget what it likes, come back to the sons of
   a state it has visited, and go on.                                      *)
Cut ==
  /\ cut' = TRUE
  /\ pending' \subseteq (pending \cup UNION {Sons(s) : s \in visited}) \ visited
  /\ UNCHANGED visited

Next == (\E s \in pending : Visit(s)) \/ Cut

Spec == Init /\ [][Next]_gvars

-----------------------------------------------------------------------------
TypeOK ==
  /\ visited \subseteq State
  /\ pending \subseteq State
  /\ cut \in BOOLEAN

(* An uncut search that has nothing pending has visited every reachable
   state; and it never visits anything else.                               *)
Complete == ~cut /\ pending = {} => Reach \subseteq visited
Sound    == visited \subseteq Reach

=============================================================================
