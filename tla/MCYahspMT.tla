----------------------------- MODULE MCYahspMT -----------------------------
(***************************************************************************)
(* Instances of YahspMT.  In Diamond two branches leave the root, state 5  *)
(* is a dead end, and two goal states are reached: 6 by a long plan, which *)
(* is also what the lookahead of 4 gives, 7 by a short one.  Lost has the  *)
(* same shape and no action that leads to its goal.  In Fan three branches *)
(* leave the root, the first of which branches again, so that three        *)
(* threads have something to evaluate at a time; two of the branches end   *)
(* in a goal state, one by a longer plan.                                  *)
(***************************************************************************)
EXTENDS YahspMTProps

DiamondStates == 1 .. 7
LostStates    == 1 .. 6

act(to, dur)         == [to |-> to, dur |-> dur]
look(to, dur, steps) == [to |-> to, dur |-> dur, steps |-> steps]

DiamondActs ==
  << <<act(2, 1), act(3, 2)>>, <<act(4, 1), act(1, 1)>>,
     <<act(5, 1), act(7, 1)>>, <<act(3, 1), act(6, 4)>>, <<>>, <<>>, <<>> >>

DiamondLook ==
  << look(1, 0, 0), look(2, 0, 0), look(3, 0, 0), look(6, 3, 2),
     look(5, 0, 0), look(6, 0, 0), look(7, 0, 0) >>

DiamondHeur == <<2, 1, 1, 1, 20, 0, 0>>

LostActs ==
  << <<act(2, 1), act(3, 1)>>, <<act(4, 1), act(1, 1)>>,
     <<act(4, 1), act(5, 1)>>, <<act(2, 1)>>, <<>>, <<act(1, 1)>> >>

LostLook ==
  << look(1, 0, 0), look(4, 2, 2), look(3, 0, 0), look(4, 0, 0),
     look(5, 0, 0), look(6, 0, 0) >>

LostHeur == <<2, 1, 1, 1, 20, 0>>

FanActs ==
  << <<act(2, 1), act(3, 1), act(4, 1)>>,
     <<act(5, 1), act(8, 1)>>, <<act(6, 3)>>, <<act(7, 1)>>, <<>>, <<>>, <<>>, <<>> >>

FanStates == 1 .. 8

FanLook == [s \in FanStates |-> look(s, 0, 0)]

FanHeur == <<1, 1, 1, 1, 1, 0, 0, 1>>

=============================================================================
