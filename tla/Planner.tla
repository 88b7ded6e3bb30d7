------------------------------ MODULE Planner ------------------------------
(***************************************************************************)
(* What a call of the planner promises to the evaluation of Descarwin.     *)
(* The planner keeps a current state.  Asked for goals and a node limit,   *)
(* it answers with a plan that leads from the current state to the goals,  *)
(* and moves there, or with no plan, and stays; the latter is a proof that *)
(* the goals are out of reach unless the limit was hit.  A plan lists its  *)
(* steps by their dates; LeadsTo says what that is worth.                  *)
(***************************************************************************)
EXTENDS Strips

CONSTANTS
  Queries,       (* pairs <<goals, limit>> the callers ask for              *)
  Mutex(_)       (* does a goal set hold two mutually exclusive fluents?    *)

Codes  == {"PLAN_FOUND", "NO_PLAN", "GOALS_MUTEX"}

VARIABLES
  anytime,        \* opt.anytime: plans are printed, not returned
  current_state,
  query,          \* <<goals, limit>> being answered, <<>> if none
  code,           \* code of the last answer, "" if none
  plan,           \* solution_plan
  evaluated       \* nodes evaluated for the last answer

pvars == <<anytime, current_state, query, code, plan, evaluated>>

Init ==
  /\ anytime \in BOOLEAN
  /\ current_state = InitState
  /\ query = <<>>
  /\ code = ""
  /\ plan = NoPlan
  /\ evaluated = 0

Reset ==
  /\ query = <<>>
  /\ current_state' = InitState
  /\ UNCHANGED <<anytime, query, code, plan, evaluated>>

Ask(q) ==
  /\ query = <<>>
  /\ query' = q
  /\ code' = ""
  /\ plan' = NoPlan
  /\ evaluated' = 0
  /\ UNCHANGED <<anytime, current_state>>

(* Goals that exclude each other are refused at once, the last plan stays.  *)
Refuse(q) ==
  /\ query = <<>> /\ Mutex(q[1])
  /\ code' = "GOALS_MUTEX"
  /\ UNCHANGED <<anytime, current_state, query, plan, evaluated>>

Found ==
  /\ query # <<>> /\ ~anytime
  /\ code' = "PLAN_FOUND"
  /\ LeadsTo(current_state, plan'.steps, current_state')
  /\ current_state' # Broken /\ query[1] \subseteq current_state'
  /\ plan'.backtracks = evaluated' /\ evaluated' \in 1 .. query[2]
  /\ query' = <<>>
  /\ UNCHANGED anytime

NotFound ==
  /\ query # <<>>
  /\ code' = "NO_PLAN"
  /\ evaluated' \in 0 .. query[2]
  /\ evaluated' < query[2] /\ ~anytime => ~Reachable(current_state, query[1])
  /\ query' = <<>>
  /\ UNCHANGED <<anytime, current_state, plan>>

Next ==
  \/ Reset
  \/ \E q \in Queries : Ask(q) \/ Refuse(q)
  \/ Found
  \/ NotFound

Spec == Init /\ [][Next]_pvars
=============================================================================
