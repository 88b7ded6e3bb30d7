----------------------------- MODULE MCYahspSeq -----------------------------
(***************************************************************************)
(* An instance of YahspSeq: a key opens a door or a chest, not both,       *)
(* and a coin opens the door too, so that a relaxed plan needs repair; the *)
(* note can only be read as long as the key is there.  A lamp finds the    *)
(* gold as well.  The coin for the door, the lamp for the gold and the     *)
(* reading of the note spoil each other in a circle.                       *)
(***************************************************************************)
EXTENDS YahspSeqProps

MCMutex(g) == {"key", "gold"} \subseteq g

KeysFluents == {"key", "coin", "lamp", "door", "gold", "out", "note"}
(* Key in door, coin and lamp in door, key in chest, go out, find a coin,
   read the label of the key, lamp in chest.  Two take no time.             *)
KeysOps  == 2 .. 8
KeysPre  == 2 :> {"key"} @@ 3 :> {"coin"} @@ 4 :> {"key"} @@ 5 :> {"door"} @@ 6 :> {"out"}
            @@ 7 :> {"key"} @@ 8 :> {"lamp"}
KeysAdd  == 2 :> {"door"} @@ 3 :> {"door"} @@ 4 :> {"gold"} @@ 5 :> {"out"} @@ 6 :> {"coin"}
            @@ 7 :> {"note"} @@ 8 :> {"gold"}
KeysDel  == 2 :> {"key"} @@ 3 :> {"coin", "lamp"} @@ 4 :> {"key"} @@ 5 :> {} @@ 6 :> {}
            @@ 7 :> {"coin"} @@ 8 :> {"key"}
KeysDur  == 2 :> 0 @@ 3 :> 3 @@ 4 :> 2 @@ 5 :> 0 @@ 6 :> 1 @@ 7 :> 3 @@ 8 :> 2
KeysCost == 2 :> 0 @@ 3 :> 1 @@ 4 :> 1 @@ 5 :> 0 @@ 6 :> 2 @@ 7 :> 1 @@ 8 :> 1
KeysInit == {"key", "coin", "lamp"}
KeysQueries == {{"gold", "out"}, {"note", "gold", "door"}, {"key", "gold"}, {"key", "out"}} \X {4, 30}

(* On this instance the heuristic is right about dead ends.                 *)
ASSUME HeuristicRight == DeadEndsRight

=============================================================================
