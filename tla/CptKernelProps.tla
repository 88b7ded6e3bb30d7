--------------------------- MODULE CptKernelProps ---------------------------
(***************************************************************************)
(* What the rest of CPT relies on in its variables and worlds.             *)
(***************************************************************************)
EXTENDS CptKernel

(* Going down a world gives back the memory it was opened on: when the loop
   of backtrack meets a mark, every field of every variable has the value it
   had when the mark was pushed, however often and in whichever worlds above
   it was stored in between.  (The mark that cpt_search sets before its first
   propagation opens no world: what is stored then is meant to stay.)       *)
WorldRestored ==
  trail # <<>> =>
    LET r == trail[Len(trail)]
    IN IsMark(r) /\ r.level > 0 => mem = r.was

(* FORPROD: from a value to the one in the next bucket, up to max: the least
   set that holds what it starts at and where it goes on from what it holds. *)
Reached(next, max, first) ==
  LET Closed == {C \in SUBSET (0 .. max) :
                   /\ first <= max => first \in C
                   /\ \A i \in C : next[i] <= max => next[i] \in C}
  IN {i \in 0 .. max : \A C \in Closed : i \in C}

Onward(v, i) == mem[Bucket(v, i + 1)]

WalkFrom(v, first) ==
  LET max == mem[Field(v, "max")]
  IN Reached([i \in 0 .. max |-> Onward(v, i)], max, first)

Walk(v) == WalkFrom(v, mem[Field(v, "min")])

(* The loops over the producers of a causal meet the values that can_produce
   accepts and no other, in ascending order, so they end; and card counts
   them, although values leave the domain in any order and the links over a
   gap are kept at its ends only.                                           *)
DomainLinked ==
  Idle =>
    \A v \in MadeEnums :
      LET met == Walk(v)
      IN /\ met = {i \in DOMAIN Dom(v) : CanProduce(v, i)}
         /\ \A i \in met : Onward(v, i) > i
         /\ mem[Field(v, "card")] = Cardinality(met)
         /\ Known(v) <=> mem[Field(v, "card")] = 1

(* A loop over the producers may take out the one it is at, as
   synchronize_causal does.  It then still meets every value above it and no
   value that has left the domain; it may meet the one below it a second
   time, when the value above had been taken out before.                    *)
LoopGoesOn ==
  [][Idle /\ ~unwind'.on /\ mem' # mem =>
       \A v \in MadeEnums :
         LET now   == Walk(v)
             after == Walk(v)'
         IN \A i \in now :
              after = now \ {i} =>
                LET met == WalkFrom(v, mem[Bucket(v, i + 1)])'
                IN met \subseteq after /\ \A j \in after : j > i => j \in met]_vars

(* A variable waits in the queue that its event field names and in no other,
   exactly once, and the arrays stay permutations, although the queues are
   emptied, and variables taken out of their middle, by exchanges.          *)
EventsKept ==
  \A k \in DOMAIN queue :
    /\ \A v \in DOMAIN queue[k].idx : queue[k].elt[queue[k].idx[v]] = v
    /\ \A p \in Window(queue[k]) : queue[k].elt[p] # NoVar
    /\ Pending(queue[k]) = {v \in DOMAIN made : event[v] = k}

ContentOf(v) == [x \in {y \in DOMAIN mem : y[1] = v} |-> mem[x]]

(* What an operation takes off a domain is announced to the hooks, as an
   instantiation when one value is left: only backtracking, and adding the
   value of a new clone, change a variable that is not left in a queue.  An
   instantiation still in the queue stays announced as one, even when clones
   have added values since: post_removal_event leaves it there.             *)
ChangesAnnounced ==
  [][\A v \in DOMAIN made :
       (Idle /\ ContentOf(v)' # ContentOf(v)) =>
         \/ v \in Enums /\ \E i \in DOMAIN Dom(v) : AddVal(v, i)
         \/ /\ event'[v] # "none"
            /\ v \in Enums =>
                 /\ Known(v)' => event'[v] = "instantiate"
                 /\ event'[v] = "instantiate" => Known(v)' \/ event[v] = "instantiate"]_vars
=============================================================================
