----------------------------- MODULE MCDaeEval -----------------------------
(***************************************************************************)
(* An instance of DaeEval.  A truck at A may go to C and from there to B,  *)
(* or straight to B, where it stays; a parcel is packed anywhere and       *)
(* delivered at C.  What takes one action has date 1, the delivery date 2. *)
(***************************************************************************)
EXTENDS DaeEval

PostFluents == {"tA", "tB", "tC", "open", "packed", "given"}
PostOps  == {2, 3, 4, 5, 6}     \* A to B, A to C, C to B, pack, deliver
PostPre  == 2 :> {"tA"} @@ 3 :> {"tA"} @@ 4 :> {"tC"} @@ 5 :> {"open"} @@ 6 :> {"tC", "packed"}
PostAdd  == 2 :> {"tB"} @@ 3 :> {"tC"} @@ 4 :> {"tB"} @@ 5 :> {"packed"} @@ 6 :> {"given"}
PostDel  == 2 :> {"tA"} @@ 3 :> {"tA"} @@ 4 :> {"tC"} @@ 5 :> {"open"} @@ 6 :> {"packed"}
PostOnes == [a \in PostOps |-> 1]
PostDur  == [a \in PostOps |-> IF a \in {2, 5} THEN 0 ELSE 1]
PostInit == {"tA", "open"}
PostGoal == {"given", "tB"}
PostDate == "tA" :> 0 @@ "open" :> 0 @@ "tB" :> 1 @@ "tC" :> 1 @@ "packed" :> 1 @@ "given" :> 2
PostMutexes == {{"tA", "tB"}, {"tA", "tC"}, {"tB", "tC"},
                 {"open", "packed"}, {"open", "given"}, {"packed", "given"}}

(* One as it was drawn, and one with a goal added.                           *)
PostMates ==
  {<<Goal({"tC", "packed"}), Goal({"given"})>>, <<Goal({"packed"}), Goal({"tB"}), Goal({"given"})>>}

(* Where TiesInOrder does not hold, the order of a plan may be wrong.  Steps
   of length zero, the coin for the door and then out, are both dated 0 and
   listed by their ids.                                                     *)
Tied == INSTANCE Strips WITH
          Fluent <- {"coin", "door", "out"}, Ops <- {2, 3},
          Pre <- 2 :> {"door"} @@ 3 :> {"coin"}, Add <- 2 :> {"out"} @@ 3 :> {"door"},
          Del <- 2 :> {} @@ 3 :> {}, Dur <- 2 :> 0 @@ 3 :> 0, Cost <- 2 :> 0 @@ 3 :> 0,
          InitState <- {"coin"}

ASSUME TiesMatter ==
  LET path == Tied!ApplyAction(Tied!ApplyAction(Tied!RootNode({"coin"}), 3), 2)
      plan == Tied!SolutionPlan(path, 1)
  IN /\ ~Tied!TiesInOrder
     /\ path.state = {"coin", "door", "out"}
     /\ Tied!Executed({"coin"}, plan.steps) = Tied!Broken
     /\ Tied!LeadsTo({"coin"}, plan.steps, path.state)

=============================================================================
