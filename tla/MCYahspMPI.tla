---------------------------- MODULE MCYahspMPI ----------------------------
(***************************************************************************)
(* Instances of YahspMPI.  In every problem several branches leave the     *)
(* root.  Goals has two goal states, 5 by a long plan whose nodes several  *)
(* processes own, and 6 by a shorter one; in Twice a state is closed by    *)
(* two processes, the second after the first solution; NoGoal leads to     *)
(* dead ends, and the first process that expands has four nodes to send to *)
(* another: a batch of one, a batch of two whose states are both new, and  *)
(* one that waits in its cache.                                            *)
(***************************************************************************)
EXTENDS YahspMPIProps

act(to, dur)         == [to |-> to, dur |-> dur]
look(to, dur, steps) == [to |-> to, dur |-> dur, steps |-> steps]

States == 1 .. 8
Owners == <<1, 0, 2, 0, 1, 2, 2, 2>>

GoalsActs ==
  << <<act(2, 1), act(3, 1)>>, <<act(4, 1)>>, <<act(6, 2)>>, <<act(5, 2)>>,
     <<>>, <<>>, <<>>, <<>> >>
(* Both the look ahead of 4 and its action reach the goal 5.                *)
GoalsLook ==
  << look(1, 0, 0), look(4, 1, 1), look(3, 0, 0), look(5, 3, 1),
     look(5, 0, 0), look(6, 0, 0), look(7, 0, 0), look(8, 0, 0) >>
GoalsHeur == <<2, 1, 1, 1, 0, 0, 20, 20>>

NoGoalActs ==
  << <<act(3, 1), act(6, 1), act(7, 1), act(8, 1), act(2, 1)>>, <<act(4, 1)>>,
     <<>>, <<act(3, 1)>>, <<>>, <<>>, <<>>, <<>> >>
(* The owner of 4 finds it too late and forgets it; another process, which
   comes to it earlier by the lookahead of 3, closes it as well.            *)
TwiceActs ==
  << <<act(4, 9), act(3, 1), act(5, 5)>>, <<>>, <<>>, <<act(7, 1)>>,
     <<>>, <<>>, <<>>, <<>> >>
TwiceLook == [GoalsLook EXCEPT ![3] = look(4, 1, 1), ![4] = look(7, 1, 1)]

NoGoalLook == [GoalsLook EXCEPT ![4] = look(3, 1, 1)]
NoGoalHeur == <<2, 1, 1, 1, 20, 20, 20, 20>>

setting(acts, heur, lk, anytime, time) ==
  [acts |-> acts, heur |-> heur, look |-> lk, anytime |-> anytime,
   timer |-> time]

RunSettings ==
  {setting(GoalsActs, GoalsHeur, GoalsLook, TRUE, FALSE),
   setting(GoalsActs, GoalsHeur, GoalsLook, FALSE, TRUE),
   setting(TwiceActs, GoalsHeur, TwiceLook, TRUE, FALSE),
   setting(NoGoalActs, NoGoalHeur, NoGoalLook, FALSE, FALSE)}

=============================================================================
