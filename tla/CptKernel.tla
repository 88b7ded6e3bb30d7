----------------------------- MODULE CptKernel -----------------------------
(***************************************************************************)
(* The variables and the worlds of CPT (src/cpt-yahsp/src/var.h, var.cpp). *)
(* A support variable (EnumVariable) keeps its domain in an array whose    *)
(* entries are linked over the gaps; a date (BoundVariable) is an interval.*)
(* Every field that an operation stores is pushed on a trail first, unless *)
(* no world is open; a contradiction, or the end of a bound, pops the trail*)
(* back to a mark.  A change posts the variable to one of three circular   *)
(* queues, which share their arrays with the variables that are not in     *)
(* them; propagate() takes the variables out and calls their hooks.        *)
(*                                                                         *)
(* The hooks (propagations.cpp) are not part of this module: they call the *)
(* operations of this module in some order, and so does the search.  The   *)
(* hook of an empty domain either raises a contradiction or, when the      *)
(* action it belongs to can still be left out of the plan, changes nothing *)
(* here.                                                                   *)
(***************************************************************************)
EXTENDS Integers, Sequences, FiniteSets, EventQueue

CONSTANTS
  Enums,       (* the EnumVariables a problem may need                      *)
  Bounds,      (* the BoundVariables a problem may need                     *)
  Problems,    (* what create_problem makes: for each variable of a problem
                  the number n of its values and the room sup for values
                  added later; for a date the latest one                    *)
  Limit,       (* wstack.backtrack_limit                                    *)
  MaxWorld     (* bound of this model: the worlds open in each problem      *)

(* VAL_UNKNOWN is the largest value, MAXVAL + 1.                            *)
Unknown == 255

(* create_enum_variable refuses more values than MAXVAL.                    *)
ASSUME KernelAssumption ==
  /\ \A made \in Problems :
       /\ DOMAIN made \subseteq Enums \cup Bounds
       /\ made \in [DOMAIN made -> [n : Nat \ {0}, sup : Nat]]
       /\ \A v \in DOMAIN made \cap Enums : made[v].n + made[v].sup < Unknown
  /\ Limit \in Nat
  /\ IsFiniteSet(Enums) /\ IsFiniteSet(Bounds)
  /\ Enums \cap Bounds = {}
  /\ NoVar \notin Enums \cup Bounds

(* The fields that are stored through the trail.                            *)
Field(v, f) == <<v, f, 0>>
Bucket(v, i) == <<v, "bucket", i>>

FieldsOf(v, size) ==
  IF v \in Enums
    THEN {Field(v, f) : f \in {"min", "max", "card", "value", "producers_nb"}}
         \cup {Bucket(v, i) : i \in 0 .. size.n + size.sup}
    ELSE {Field(v, f) : f \in {"inf", "sup"}}

VARIABLES
  made,        (* the problem                                               *)
  mem,         (* the fields of the variables                               *)
  trail,       (* wstack.data: fields saved, and marks                      *)
  world,       (* wstack.world                                              *)
  init_world,  (* wstack.init_world                                         *)
  backtracks,  (* wstack.backtracks_run, counted up to the limit            *)
  unwind,      (* the loops of backtrack: the world to go down to           *)
  event,       (* the event field of each variable                          *)
  queue        (* queue_removal, queue_instantiate, queue_bound             *)

store  == <<mem, trail>>
worlds == <<world, init_world, backtracks>>
events == <<event, queue>>
vars   == <<made, store, worlds, unwind, events>>

Off  == [on |-> FALSE, to |-> 0, raz |-> FALSE]

(* Below world 0 (ulong: above all others) only the contradiction of the
   first propagation leads, after which cpt_search returns for good.        *)
Idle == ~unwind.on /\ world >= 0

-----------------------------------------------------------------------------
(* The trail.                                                               *)

Saved(x, old) == [mark |-> FALSE, loc |-> x, old |-> old]

(* push_stack(wstack.env), push_stack(NULL).  What memory held, and the world
   that it opens, are noted for the properties only: no operation reads them. *)
Mark(level) == [mark |-> TRUE, was |-> mem, level |-> level]

IsMark(r) == r.mark

(* A list of stores, each <<field, value>>.  A field may be stored twice.   *)
Earlier(ws, k) == {j \in 1 .. k - 1 : ws[j][1] = ws[k][1]}
Writes(ws, x)  == {j \in DOMAIN ws : ws[j][1] = x}
LatestOf(S)    == CHOOSE j \in S : \A i \in S : i <= j

OldValue(ws, k) ==
  IF Earlier(ws, k) = {} THEN mem[ws[k][1]] ELSE ws[LatestOf(Earlier(ws, k))][2]

StoreUnsaved(ws) ==                                          \* mutant of Store
  /\ mem' = [x \in DOMAIN mem |->
               IF Writes(ws, x) = {} THEN mem[x] ELSE ws[LatestOf(Writes(ws, x))][2]]
  /\ trail' = IF world > 1
                THEN trail \o [k \in DOMAIN ws |-> Saved(ws[k][1], OldValue(ws, k))]
                ELSE trail

(* store(v, i) for each of them: save, then assign.                         *)
Store(ws) ==
  /\ mem' = [x \in DOMAIN mem |->
               IF Writes(ws, x) = {} THEN mem[x] ELSE ws[LatestOf(Writes(ws, x))][2]]
  /\ trail' = IF world > 0
                THEN trail \o [k \in DOMAIN ws |-> Saved(ws[k][1], OldValue(ws, k))]
                ELSE trail

-----------------------------------------------------------------------------
(* Events.                                                                  *)

PostBoth(v, kind) ==                                          \* mutant of Posted
  IF event[v] # kind
    THEN [event |-> [event EXCEPT ![v] = kind],
          queue |-> [queue EXCEPT ![kind] = Post(@, v)]]
    ELSE [event |-> event, queue |-> queue]

PostFirstOnly(v, kind) ==                                     \* mutant of Posted
  IF event[v] = "none"
    THEN [event |-> [event EXCEPT ![v] = kind],
          queue |-> [queue EXCEPT ![kind] = Post(@, v)]]
    ELSE [event |-> event, queue |-> queue]

(* post_instantiate_event takes the variable out of the other queue first;
   post_removal_event and post_bound_event do nothing when one is pending.  *)
Posted(v, kind) ==
  IF kind = "instantiate" /\ event[v] # "instantiate"
    THEN [event |-> [event EXCEPT ![v] = "instantiate"],
          queue |-> [queue EXCEPT
             !["removal"]     = IF event[v] = "removal" THEN Rem(@, v) ELSE @,
             !["instantiate"] = Post(@, v)]]
  ELSE IF kind # "instantiate" /\ event[v] = "none"
    THEN [event |-> [event EXCEPT ![v] = kind],
          queue |-> [queue EXCEPT ![kind] = Post(@, v)]]
    ELSE [event |-> event, queue |-> queue]

PostEvent(v, kind) ==
  LET p == Posted(v, kind)
  IN event' = p.event /\ queue' = p.queue

(* raz_event_queues.                                                        *)
RazEvents ==
  /\ event' = [v \in DOMAIN made |->
                 IF \E k \in DOMAIN queue : v \in Pending(queue[k]) THEN "none" ELSE event[v]]
  /\ queue' = [k \in DOMAIN queue |-> Raz(queue[k])]

-----------------------------------------------------------------------------
(* The domains.                                                             *)

Dom(v) == [i \in 0 .. made[v].n + made[v].sup |-> mem[Bucket(v, i)]]

Known(v) == mem[Field(v, "value")] # Unknown

(* can_produce, for a causal that is not excluded.                          *)
CanProduce(v, i) ==
  \/ ~Known(v) /\ mem[Bucket(v, i)] = i
  \/ mem[Field(v, "value")] = i

(* contradiction().                                                         *)
Contradiction ==
  /\ \E p \in DOMAIN trail : IsMark(trail[p])
  /\ unwind' = [on |-> TRUE, raz |-> TRUE,
                to |-> IF backtracks >= Limit /\ world > init_world
                         THEN init_world - 1 ELSE world - 1]
  /\ backtracks' = IF backtracks < Limit /\ world > init_world
                     THEN backtracks + 1 ELSE backtracks
  /\ UNCHANGED <<store, world, init_world, events>>

LinksLost(v, i) ==                                      \* mutant of RemovedStores
  LET dom  == Dom(v)
      min  == mem[Field(v, "min")]
      max  == mem[Field(v, "max")]
      prev == IF dom[i - 1] = i THEN i - 2 ELSE dom[i - 1]
      suiv == dom[i + 1]
  IN <<<<Field(v, "card"), mem[Field(v, "card")] - 1>>>> \o
     IF i = min
       THEN <<<<Field(v, "min"), dom[i + 1]>>, <<Bucket(v, i), Unknown>>>>
     ELSE IF i = max
       THEN <<<<Field(v, "max"), prev>>, <<Bucket(v, i), Unknown>>>>
       ELSE (IF prev # i - 1 THEN <<<<Bucket(v, i), Unknown>>>> ELSE <<>>)
            \o <<<<Bucket(v, prev + 1), suiv>>>>

ForgetsNext(v, i) ==                                    \* mutant of RemovedStores
  LET dom  == Dom(v)
      prev == IF dom[i - 1] = i THEN i - 2 ELSE dom[i - 1]
  IN <<<<Field(v, "card"), mem[Field(v, "card")] - 1>>>> \o
     IF i = mem[Field(v, "min")]
       THEN <<<<Field(v, "min"), dom[i + 1]>>, <<Bucket(v, i), Unknown>>,
              <<Bucket(v, i + 1), Unknown>>>>
     ELSE IF i = mem[Field(v, "max")]
       THEN <<<<Field(v, "max"), prev>>, <<Bucket(v, i), Unknown>>>>
       ELSE <<<<Bucket(v, i), dom[i + 1]>>, <<Bucket(v, prev + 1), dom[i + 1]>>>>

(* The stores of remove_val_variable, when min and max differ.              *)
RemovedStores(v, i) ==
  LET dom  == Dom(v)
      min  == mem[Field(v, "min")]
      max  == mem[Field(v, "max")]
      prev == IF dom[i - 1] = i THEN i - 2 ELSE dom[i - 1]
      suiv == dom[i + 1]
  IN <<<<Field(v, "card"), mem[Field(v, "card")] - 1>>>> \o
     IF i = min
       THEN <<<<Field(v, "min"), dom[i + 1]>>, <<Bucket(v, i), Unknown>>>>
     ELSE IF i = max
       THEN <<<<Field(v, "max"), prev>>, <<Bucket(v, i), Unknown>>>>
       ELSE (IF prev # i - 1 THEN <<<<Bucket(v, i), Unknown>>>> ELSE <<>>)
            \o (IF prev + 2 # suiv THEN <<<<Bucket(v, suiv - 1), prev>>>> ELSE <<>>)
            \o <<<<Bucket(v, prev + 1), suiv>>>>

(* What is left is one value: min after min was removed, prev after max.    *)
LeftAlone(v, i) ==
  LET dom  == Dom(v)
      prev == IF dom[i - 1] = i THEN i - 2 ELSE dom[i - 1]
  IN IF i = mem[Field(v, "min")]
       THEN IF dom[i + 1] = mem[Field(v, "max")] THEN {dom[i + 1]} ELSE {}
     ELSE IF i = mem[Field(v, "max")]
       THEN IF prev = mem[Field(v, "min")] THEN {prev} ELSE {}
       ELSE {}

(* rem_producer, which calls remove_val_variable.                           *)
RemoveVal(v, i) ==
  /\ Idle /\ UNCHANGED made
  /\ CanProduce(v, i)
  /\ IF mem[Field(v, "min")] = mem[Field(v, "max")]
       THEN Contradiction
     ELSE IF LeftAlone(v, i) # {}
       THEN /\ \E a \in LeftAlone(v, i) :
                 Store(RemovedStores(v, i) \o <<<<Field(v, "value"), a>>>>)
            /\ PostEvent(v, "instantiate")
            /\ UNCHANGED <<worlds, unwind>>
       ELSE /\ Store(RemovedStores(v, i))
            /\ PostEvent(v, "removal")
            /\ UNCHANGED <<worlds, unwind>>

(* The stores of add_val_variable, and of vstore(f->producers, clone).       *)
AddedStores(v, i) ==
  LET prev == mem[Field(v, "max")]
  IN <<<<Bucket(v, i), i>>, <<Field(v, "max"), i>>,
       <<Field(v, "card"), mem[Field(v, "card")] + 1>>>>
     \o (IF prev < i - 2 THEN <<<<Bucket(v, i - 1), prev>>>> ELSE <<>>)
     \o (IF prev < i - 1 THEN <<<<Bucket(v, prev + 1), i>>>> ELSE <<>>)
     \o (IF Known(v) THEN <<<<Field(v, "value"), Unknown>>>> ELSE <<>>)
     \o <<<<Field(v, "producers_nb"), i + 1>>>>

(* clone_action, for a causal that the action can support: the value is the
   next index of the producers of its fluent.  A variable that
   instantiate_variable has fixed keeps the buckets of the values it had:
   clone_action is only given one whose other values are gone.              *)
AddVal(v, i) ==
  /\ Idle /\ UNCHANGED made
  /\ i = mem[Field(v, "producers_nb")]
  /\ i < made[v].n + made[v].sup
  /\ Known(v) => \A j \in DOMAIN Dom(v) : Dom(v)[j] = j => j = mem[Field(v, "value")]
  /\ Store(AddedStores(v, i))
  /\ UNCHANGED <<worlds, unwind, events>>

(* set_producer, which calls instantiate_variable.                          *)
Instantiate(v, i) ==
  /\ Idle /\ UNCHANGED made
  /\ IF Dom(v)[i] # i
       THEN Contradiction
       ELSE /\ ~Known(v)
            /\ Store(<<<<Field(v, "value"), i>>, <<Field(v, "min"), i>>,
                       <<Field(v, "max"), i>>, <<Field(v, "card"), 1>>>>)
            /\ PostEvent(v, "instantiate")
            /\ UNCHANGED <<worlds, unwind>>

(* update_inf_variable and update_sup_variable.                             *)
UpdateInf(b, i) ==
  /\ Idle /\ UNCHANGED made
  /\ i > mem[Field(b, "inf")]
  /\ IF i > mem[Field(b, "sup")]
       THEN Contradiction
       ELSE /\ Store(<<<<Field(b, "inf"), i>>>>)
            /\ PostEvent(b, "bound")
            /\ UNCHANGED <<worlds, unwind>>

UpdateSup(b, i) ==
  /\ Idle /\ UNCHANGED made
  /\ i < mem[Field(b, "sup")]
  /\ IF i < mem[Field(b, "inf")]
       THEN Contradiction
       ELSE /\ Store(<<<<Field(b, "sup"), i>>>>)
            /\ PostEvent(b, "bound")
            /\ UNCHANGED <<worlds, unwind>>

-----------------------------------------------------------------------------
(* Worlds.                                                                  *)

NothingPending == \A k \in DOMAIN queue : Pending(queue[k]) = {}

(* new_world(count).  It is counted for a choice of search(), which has
   propagated to the end.                                                   *)
NewWorld(count) ==
  /\ Idle /\ UNCHANGED made
  /\ count => NothingPending
  /\ world < MaxWorld[made]
  /\ trail' = Append(trail, Mark(world + 1))
  /\ world' = world + 1
  /\ init_world' = IF count THEN init_world ELSE world + 1
  /\ UNCHANGED <<mem, backtracks, unwind, events>>

(* protected(false): a place to come back to without a world.  cpt_search
   opens it before the first propagation, whose effects are kept.           *)
Protected ==
  /\ Idle /\ UNCHANGED made
  /\ trail = <<>>
  /\ trail' = Append(trail, Mark(world))
  /\ UNCHANGED <<mem, worlds, unwind, events>>

(* set_backtrack_limit: a new run of the search.                            *)
SetBacktrackLimit ==
  /\ Idle /\ UNCHANGED made
  /\ backtracks > 0
  /\ backtracks' = 0
  /\ UNCHANGED <<store, world, init_world, unwind, events>>

(* restore_initial_world(w).                                                *)
RestoreWorld(w) ==
  /\ Idle /\ UNCHANGED made
  /\ w < world
  /\ unwind' = [on |-> TRUE, to |-> w, raz |-> TRUE]
  /\ UNCHANGED <<store, worlds, events>>

(* backtrack(false), as in shaving: a trial that propagated to the end.     *)
Abandon ==
  /\ Idle /\ UNCHANGED made
  /\ world > 0
  /\ NothingPending
  /\ unwind' = [on |-> TRUE, to |-> world - 1, raz |-> FALSE]
  /\ UNCHANGED <<store, worlds, events>>

(* One round of the loop of backtrack: pop_var(_ptr), then the value.       *)
UndoStore ==
  /\ unwind.on /\ UNCHANGED made
  /\ trail # <<>>
  /\ LET r == trail[Len(trail)]
     IN /\ ~IsMark(r)
        /\ mem' = [mem EXCEPT ![r.loc] = r.old]
        /\ trail' = SubSeq(trail, 1, Len(trail) - 1)
  /\ UNCHANGED <<worlds, unwind, events>>

(* Its end: pop_var(wstack.env), wstack.world--, and for the last world
   raz_event_queues and longjmp.                                            *)
PopWorld ==
  /\ unwind.on /\ UNCHANGED made
  /\ trail # <<>>
  /\ IsMark(trail[Len(trail)])
  /\ trail' = SubSeq(trail, 1, Len(trail) - 1)
  /\ world' = world - 1
  /\ IF world - 1 > unwind.to
       THEN UNCHANGED <<unwind, events>>
       ELSE /\ unwind' = Off
            /\ IF unwind.raz THEN RazEvents ELSE UNCHANGED events
  /\ UNCHANGED <<mem, init_world, backtracks>>

-----------------------------------------------------------------------------
(* propagate(): the next variable of the first queue that has one.          *)

Take(kind) ==
  LET v == First(queue[kind])
  IN /\ event' = [event EXCEPT ![v] = "none"]
     /\ queue' = [queue EXCEPT ![kind] = Pop(@)]

Propagate ==
  /\ Idle /\ UNCHANGED made
  /\ \/ /\ Pending(queue["instantiate"]) # {}
        /\ Take("instantiate")
     \/ /\ Pending(queue["instantiate"]) = {}
        /\ Pending(queue["bound"]) # {}
        /\ Take("bound")
     \/ /\ Pending(queue["instantiate"]) = {}
        /\ Pending(queue["bound"]) = {}
        /\ Pending(queue["removal"]) # {}
        /\ Take("removal")
  /\ UNCHANGED <<store, worlds, unwind>>

-----------------------------------------------------------------------------
(* create_enum_variable.                                                    *)
EnumFields(v, size) ==
  LET n == size.n
  IN [x \in FieldsOf(v, size) |->
        CASE x[2] = "min"    -> 0
       [] x[2] = "max"    -> n - 1
       [] x[2] \in {"card", "producers_nb"} -> n
       [] x[2] = "value"  -> IF n = 1 THEN 0 ELSE Unknown
       [] x[2] = "bucket" -> IF x[3] < n THEN x[3] ELSE Unknown]

(* create_bound_variable.                                                   *)
BoundFields(b, size) ==
  [x \in FieldsOf(b, size) |-> IF x[2] = "inf" THEN 0 ELSE size.sup]

NewFields(v, size) == IF v \in Enums THEN EnumFields(v, size) ELSE BoundFields(v, size)

MadeEnums  == DOMAIN made \cap Enums
MadeBounds == DOMAIN made \cap Bounds

Init ==
  /\ made \in Problems
  /\ mem = [x \in UNION {FieldsOf(v, made[v]) : v \in DOMAIN made} |->
              NewFields(x[1], made[x[1]])[x]]
  /\ trail = <<>>
  /\ world = 0
  /\ init_world = 0
  /\ backtracks = 0
  /\ unwind = Off
  /\ event = [v \in DOMAIN made |-> "none"]
  /\ \E qe \in Queues(MadeEnums), qb \in Queues(MadeBounds) :
       queue = [k \in {"removal", "instantiate", "bound"} |-> IF k = "bound" THEN qb ELSE qe]

Next ==
  \/ \E v \in MadeEnums : \E i \in DOMAIN Dom(v) :
       \/ RemoveVal(v, i)
       \/ AddVal(v, i)
       \/ Instantiate(v, i)
  \/ \E b \in MadeBounds : \E i \in 0 .. made[b].sup :
       \/ UpdateInf(b, i)
       \/ UpdateSup(b, i)
  \/ \E count \in BOOLEAN : NewWorld(count)
  \/ Protected
  \/ SetBacktrackLimit
  \/ \E w \in 0 .. MaxWorld[made] : RestoreWorld(w)
  \/ Abandon
  \/ UndoStore
  \/ PopWorld
  \/ Propagate

Spec == Init /\ [][Next]_vars
=============================================================================
