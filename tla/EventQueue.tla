----------------------------- MODULE EventQueue -----------------------------
(***************************************************************************)
(* The circular event queues of CPT (the macros at the end of              *)
(* src/cpt-yahsp/src/var.h).  Every variable that may be posted has a slot *)
(* of its own from the start, and one more slot holds NULL; the queue is   *)
(* the part of the array from first up to last.  A variable is posted by   *)
(* exchanging it with the one in the slot last, and taken out of the middle*)
(* by exchanging it with the first one, so the array is always a           *)
(* permutation of the variables, and idx says where each of them is.       *)
(***************************************************************************)
EXTENDS Naturals, FiniteSets

CONSTANT NoVar  (* the NULL of the array *)

Shift(q, p) == IF p = q.end THEN 0 ELSE p + 1

InWindow(q, p) ==
  IF q.first <= q.last
    THEN q.first <= p /\ p < q.last
    ELSE q.first <= p \/ p < q.last

Window(q) == {p \in 0 .. q.end : InWindow(q, p)}

(* The variables in the queue.                                              *)
Pending(q) == {q.elt[p] : p \in Window(q)}

First(q) == q.elt[q.first]

(* _post_event.                                                             *)
Post(q, v) ==
  LET u == q.elt[q.last]
  IN [q EXCEPT
        !.elt  = [p \in DOMAIN @ |->
                    IF p = q.last THEN v ELSE IF p = q.idx[v] THEN u ELSE @[p]],
        !.idx  = [x \in DOMAIN @ |->
                    IF x = v THEN q.last ELSE IF x = u THEN q.idx[v] ELSE @[x]],
        !.last = Shift(q, q.last)]

(* _rem_event.                                                              *)
Rem(q, v) ==
  LET u == q.elt[q.first]
  IN [q EXCEPT
        !.elt   = [p \in DOMAIN @ |->
                     IF p = q.first THEN v ELSE IF p = q.idx[v] THEN u ELSE @[p]],
        !.idx   = [x \in DOMAIN @ |->
                     IF x = v THEN q.first ELSE IF x = u THEN q.idx[v] ELSE @[x]],
        !.first = Shift(q, q.first)]

(* _pop_event.                                                              *)
Pop(q) == [q EXCEPT !.first = Shift(q, q.first)]

(* _raz_queue, without the events.                                          *)
Raz(q) == [q EXCEPT !.first = q.last]

(* init_queue, then register_var for each variable of the set, in some
   order.                                                                   *)
Queues(S) ==
  {q \in [elt   : [0 .. Cardinality(S) -> S \cup {NoVar}],
          idx   : [S -> 1 .. Cardinality(S)],
          first : {0}, last : {0}, end : {Cardinality(S)}] :
     /\ q.elt[0] = NoVar
     /\ \A v \in S : q.elt[q.idx[v]] = v}
=============================================================================
