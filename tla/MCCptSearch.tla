----------------------------- MODULE MCCptSearch -----------------------------
(***************************************************************************)
(* Problems of three to five actions over five fluents, and command lines. *)
(* Between them: threats, supports and mutexes to decide, several bounds,  *)
(* backtracks and restarts, fluents and actions to drop, problems without  *)
(* a plan that the pruning, the first propagation or the search refuses.   *)
(***************************************************************************)
EXTENDS CptSearchProps

(* What holds at first, the goals, then <<prec, add, del, dur>> of the others. *)
Problem(init, goals, acts) ==
  LET all == <<<<{}, init, {}, 0>>, <<goals, {}, {}, 0>>>> \o acts
      field(k) == [i \in DOMAIN all |-> all[i][k]]
  IN [prec |-> field(1), add |-> field(2), del |-> field(3), dur |-> field(4)]

MCProblems == {
  Problem({2, 4}, {1, 3}, << <<{1}, {5}, {1}, 2>>, <<{2}, {3}, {2}, 2>>, <<{2}, {1, 5}, {}, 1>>,
                             <<{5}, {1, 2}, {5}, 1>> >>),
  Problem({5}, {1, 3, 4}, << <<{4}, {1, 3}, {4}, 1>>, <<{1, 5}, {4}, {}, 1>>, <<{5}, {4}, {5}, 1>>,
                             <<{3}, {5}, {3}, 1>> >>),
  Problem({3, 5}, {2, 3}, << <<{4}, {1}, {3}, 1>>, <<{3, 5}, {2}, {3}, 1>>, <<{1}, {2}, {1}, 1>>,
                             <<{2}, {3, 4}, {2}, 1>> >>),
  Problem({1, 4}, {1, 4, 5}, << <<{4}, {3}, {4}, 2>>, <<{1}, {4}, {1}, 2>>, <<{3}, {1, 5}, {}, 2>>,
                                <<{1}, {4}, {1, 5}, 2>> >>),
  Problem({1, 2}, {3, 5}, << <<{4}, {2}, {4}, 2>>, <<{5}, {3}, {5}, 2>>, <<{1}, {2, 5}, {1}, 2>>,
                             <<{2}, {5}, {2}, 1>> >>),
  Problem({1}, {3, 4, 5}, << <<{2}, {1}, {2}, 1>>, <<{1}, {3}, {1}, 2>>, <<{3}, {4, 5}, {3}, 1>>,
                             <<{1}, {3}, {}, 2>> >>),
  Problem({2}, {1, 3, 4}, << <<{2}, {1}, {2}, 1>>, <<{1}, {3}, {}, 1>>, <<{5}, {4}, {}, 1>> >>),
  Problem({1}, {2, 3}, << <<{1}, {2}, {1}, 1>>, <<{1}, {3}, {1}, 1>>, <<{4}, {1}, {}, 2>> >>),
  Problem({1}, {2, 3}, << <<{1}, {2, 4}, {5}, 2>>, <<{1}, {3, 5}, {}, 1>>, <<{4}, {1}, {2}, 1>> >>),
  Problem({2, 3}, {3, 4, 5}, << <<{3}, {1, 4}, {3}, 1>>, <<{1, 3}, {2}, {3}, 2>>,
                                <<{1, 3}, {5}, {1, 2}, 1>>, <<{2}, {1, 3}, {5}, 1>>,
                                <<{2}, {4}, {3}, 2>> >>),
  Problem({1, 3}, {1, 4}, << <<{3}, {1, 2}, {3}, 1>>, <<{1}, {4}, {1, 3}, 1>>, <<{2}, {3}, {2}, 1>>,
                             <<{4}, {1, 2}, {4}, 1>>, <<{2}, {4}, {2}, 2>> >>),
  Problem({3}, {2, 4, 5}, << <<{1}, {2}, {1}, 2>>, <<{2}, {4, 5}, {1, 2}, 1>>, <<{3}, {1}, {3}, 1>>,
                             <<{3}, {1, 2}, {}, 1>>, <<{1, 3}, {2}, {3}, 2>> >>)}

Line(i, d, b, e, x) ==
  [heuristic |-> i, distances |-> d, supporters |-> b, boosting |-> e, limit |-> x]

MCOptions ==
  {Line(1, 1, TRUE, TRUE, x) : x \in {"none", "restarts", "all"}} \cup
  {Line(0, 0, FALSE, FALSE, x) : x \in {"none", "restarts", "all"}} \cup
  {Line(1, 1, TRUE, FALSE, "none"), Line(0, 1, FALSE, TRUE, "restarts")}
=============================================================================
