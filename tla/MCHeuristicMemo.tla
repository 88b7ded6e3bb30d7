-------------------------- MODULE MCHeuristicMemo --------------------------
(***************************************************************************)
(* An instance of HeuristicMemo.  The chain to "far" has a short way that  *)
(* is slow and cheap, and a long way that is quick and dear; "lost" has a  *)
(* producer that cannot be applied, "free" one that always can.            *)
(***************************************************************************)
EXTENDS HeuristicMemo

RoadFluents == {"home", "mid", "far", "lost", "free"}
RoadOps  == {2, 3, 4, 5, 6}
RoadPre  == 2 :> {"mid"} @@ 3 :> {"home"} @@ 4 :> {"home"} @@ 5 :> {"lost"} @@ 6 :> {}
RoadAdd  == 2 :> {"far"} @@ 3 :> {"mid"} @@ 4 :> {"far"} @@ 5 :> {"lost", "home"} @@ 6 :> {"free"}
RoadDel  == 2 :> {"mid"} @@ 3 :> {"home"} @@ 4 :> {"home"} @@ 5 :> {} @@ 6 :> {}
RoadDur  == 2 :> 1 @@ 3 :> 1 @@ 4 :> 6 @@ 5 :> 1 @@ 6 :> 1
RoadCost == 2 :> 5 @@ 3 :> 4 @@ 4 :> 0 @@ 5 :> 1 @@ 6 :> 2
RoadInit == {"home"}

(* The same state under every strategy, and one state that is a dead end.   *)
RaceTasks ==
  {[state |-> {"home"}, goals |-> {"far", "free"}, strategy |-> x] : x \in Strategies}
    \cup {[state |-> {"mid"}, goals |-> {"home", "mid"}, strategy |-> "length"]}

=============================================================================
