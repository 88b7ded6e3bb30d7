---------------------------- MODULE MCCptKernel ----------------------------
(* Supports alone, so that values leave in every order: one with enough of
   them for a gap to be merged with those on both sides of it, one to which two
   values are added.  Two supports, where the queues mix, and a support with a
   date in nested worlds.                                                   *)
EXTENDS CptKernelProps, TLC

CONSTANTS s1, s2, d1

Size(n, sup) == [n |-> n, sup |-> sup]

Wide   == s1 :> Size(5, 0)
Cloned == s1 :> Size(2, 2)
Mixed  == s1 :> Size(2, 0) @@ s2 :> Size(2, 0)
Dated  == s1 :> Size(2, 0) @@ d1 :> Size(1, 1)

MCProblems == {Wide, Cloned, Mixed, Dated}
MCMaxWorld == [p \in MCProblems |-> IF p = Dated THEN 2 ELSE 1]
=============================================================================
