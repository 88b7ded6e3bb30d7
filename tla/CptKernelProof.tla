--------------------------- MODULE CptKernelProof ---------------------------
(***************************************************************************)
(* Backtracking, event queues and domains of CPT, for any problem, any      *)
(* number of variables, of values and of worlds.                            *)
(***************************************************************************)
EXTENDS CptKernelProps, FiniteSetTheorems, SequenceTheorems, NaturalsInduction, TLAPS

-----------------------------------------------------------------------------
(* The macros on one event queue.                                           *)

(* The array is a permutation of the variables and NULL, idx is its inverse,
   and NULL stays out of the window: there is always a slot to post in.      *)
Slots(q) == 0 .. q.end

Shaped(q, S) ==
  q \in [elt   : [Slots(q) -> S \cup {NoVar}],
         idx   : [S -> Slots(q)],
         first : Slots(q), last : Slots(q), end : Nat]

Permuted(q, S) ==
  /\ \A v \in S : q.elt[q.idx[v]] = v
  /\ \A p \in Slots(q) : q.elt[p] # NoVar => q.idx[q.elt[p]] = p
  /\ \A p, r \in Slots(q) : q.elt[p] = NoVar /\ q.elt[r] = NoVar => p = r

NullOutside(q) == \E p \in Slots(q) : q.elt[p] = NoVar /\ p \notin Window(q)

QueueOK(q, S) == Shaped(q, S) /\ Permuted(q, S) /\ NullOutside(q)

-----------------------------------------------------------------------------
(* The slots of a window that is not full, one longer, and one shorter.      *)
LEMMA LongerWindow ==
  ASSUME NEW q, NEW n, q.end \in Nat, q.first \in Slots(q), q.last \in Slots(q),
         n.end = q.end, n.first = q.first, n.last = Shift(q, q.last),
         n.last # q.first
  PROVE  Window(n) = Window(q) \cup {q.last} /\ q.last \notin Window(q)
BY DEF Window, InWindow, Shift, Slots

LEMMA ShorterWindow ==
  ASSUME NEW q, NEW n, q.end \in Nat, q.first \in Slots(q), q.last \in Slots(q),
         n.end = q.end, n.last = q.last, n.first = Shift(q, q.first),
         Window(q) # {}
  PROVE  Window(n) = Window(q) \ {q.first} /\ q.first \in Window(q)
BY DEF Window, InWindow, Shift, Slots

LEMMA FullWindow ==
  ASSUME NEW q, q.end \in Nat, q.first \in Slots(q), q.last \in Slots(q),
         Shift(q, q.last) = q.first
  PROVE  Window(q) = Slots(q) \ {q.last}
BY DEF Window, InWindow, Shift, Slots

-----------------------------------------------------------------------------
(* Posting a variable that is not in the queue adds it and nothing else.     *)
LEMMA PostKeeps ==
  ASSUME NEW S, NEW q, QueueOK(q, S), NEW v \in S, v \notin Pending(q), NoVar \notin S
  PROVE  QueueOK(Post(q, v), S) /\ Pending(Post(q, v)) = Pending(q) \cup {v}
<1> DEFINE n == Post(q, v)
           u == q.elt[q.last]
           w == q.idx[v]
<1>1. /\ n.end = q.end /\ n.first = q.first /\ n.last = Shift(q, q.last)
      /\ n.elt = [p \in Slots(q) |->
                    IF p = q.last THEN v ELSE IF p = w THEN u ELSE q.elt[p]]
      /\ n.idx = [x \in S |-> IF x = v THEN q.last ELSE IF x = u THEN w ELSE q.idx[x]]
      /\ Shaped(n, S)
  <2>1. Shaped(q, S)
    BY DEF QueueOK
  <2>2. /\ DOMAIN q.elt = Slots(q) /\ DOMAIN q.idx = S
        /\ w \in Slots(q) /\ u \in S \cup {NoVar}
        /\ Shift(q, q.last) \in Slots(q)
    BY <2>1 DEF Shaped, Slots, Shift
  <2>3. n = [q EXCEPT
              !.elt  = [p \in Slots(q) |->
                         IF p = q.last THEN v ELSE IF p = w THEN u ELSE q.elt[p]],
              !.idx  = [x \in S |-> IF x = v THEN q.last ELSE IF x = u THEN w ELSE q.idx[x]],
              !.last = Shift(q, q.last)]
    BY <2>2 DEF Post
  <2>4. /\ [p \in Slots(q) |-> IF p = q.last THEN v ELSE IF p = w THEN u ELSE q.elt[p]]
              \in [Slots(q) -> S \cup {NoVar}]
        /\ [x \in S |-> IF x = v THEN q.last ELSE IF x = u THEN w ELSE q.idx[x]]
              \in [S -> Slots(q)]
    BY <2>1, <2>2 DEF Shaped
  <2> HIDE DEF n, u, w
  <2>5. /\ n.end = q.end /\ n.first = q.first /\ n.last = Shift(q, q.last)
        /\ n.elt = [p \in Slots(q) |->
                      IF p = q.last THEN v ELSE IF p = w THEN u ELSE q.elt[p]]
        /\ n.idx = [x \in S |-> IF x = v THEN q.last ELSE IF x = u THEN w ELSE q.idx[x]]
    BY <2>1, <2>3 DEF Shaped
  <2>6. Shaped(n, S)
    BY <2>1, <2>2, <2>3, <2>4 DEF Shaped, Slots
  <2>7. QED
    BY <2>5, <2>6
<1>2. Slots(n) = Slots(q) /\ w \in Slots(q) /\ q.elt[w] = v
  BY <1>1 DEF Slots, QueueOK, Shaped, Permuted
<1>3. w \notin Window(q)
  BY <1>2 DEF Pending, QueueOK, Permuted
<1>4. n.last # q.first
  <2>1. SUFFICES ASSUME Shift(q, q.last) = q.first PROVE FALSE
    BY <1>1
  <2>2. Window(q) = Slots(q) \ {q.last}
    BY <2>1, FullWindow DEF QueueOK, Shaped
  <2>3. w = q.last
    BY <1>2, <1>3, <2>2
  <2>4. PICK p \in Slots(q) : q.elt[p] = NoVar /\ p \notin Window(q)
    BY DEF QueueOK, NullOutside
  <2>5. QED
    BY <1>2, <2>2, <2>3, <2>4
<1>5. Window(n) = Window(q) \cup {q.last} /\ q.last \notin Window(q)
  BY <1>1, <1>4, LongerWindow DEF QueueOK, Shaped
<1>6. Permuted(n, S)
  <2>1. \A x \in S : n.elt[n.idx[x]] = x
    BY <1>1, <1>2 DEF QueueOK, Shaped, Permuted
  <2>2. \A p \in Slots(n) : n.elt[p] # NoVar => n.idx[n.elt[p]] = p
    BY <1>1, <1>2 DEF QueueOK, Shaped, Permuted
  <2>3. \A p, r \in Slots(n) : n.elt[p] = NoVar /\ n.elt[r] = NoVar => p = r
    BY <1>1, <1>2 DEF QueueOK, Shaped, Permuted
  <2>4. QED
    BY <2>1, <2>2, <2>3 DEF Permuted
<1>7. NullOutside(n)
  <2>1. PICK p \in Slots(q) : q.elt[p] = NoVar /\ p \notin Window(q)
    BY DEF QueueOK, NullOutside
  <2>2. p # w
    BY <1>2, <2>1
  <2>3. CASE p = q.last
    <3>1. n.elt[w] = NoVar /\ w \notin Window(n)
      BY <1>1, <1>2, <1>3, <1>5, <2>1, <2>2, <2>3
    <3>2. QED
      BY <1>2, <3>1 DEF NullOutside
  <2>4. CASE p # q.last
    <3>1. n.elt[p] = NoVar /\ p \notin Window(n)
      BY <1>1, <1>5, <2>1, <2>2, <2>4
    <3>2. QED
      BY <1>2, <2>1, <3>1 DEF NullOutside
  <2>5. QED
    BY <2>3, <2>4
<1>8. Pending(n) = Pending(q) \cup {v}
  <2>1. \A p \in Window(q) : n.elt[p] = q.elt[p]
    BY <1>1, <1>3, <1>5 DEF Window, Slots
  <2>2. n.elt[q.last] = v
    BY <1>1 DEF QueueOK, Shaped
  <2>3. QED
    BY <1>5, <2>1, <2>2 DEF Pending
<1>9. QED
  BY <1>1, <1>6, <1>7, <1>8 DEF QueueOK

(* The head of a window is a variable, not NULL.                             *)
LEMMA FirstIsPending ==
  ASSUME NEW S, NEW q, QueueOK(q, S), Pending(q) # {}, NoVar \notin S
  PROVE  q.first \in Window(q) /\ First(q) \in Pending(q) /\ First(q) \in S
<1>1. Window(q) # {}
  BY DEF Pending
<1>2. q.first \in Window(q)
  BY <1>1 DEF QueueOK, Shaped, Window, InWindow, Slots
<1>3. q.elt[q.first] # NoVar
  BY <1>2 DEF QueueOK, Permuted, NullOutside, Window, Slots
<1>4. q.elt[q.first] \in S
  BY <1>3 DEF QueueOK, Shaped
<1>5. QED
  BY <1>2, <1>4 DEF First, Pending

(* Taking the head out.                                                      *)
LEMMA PopKeeps ==
  ASSUME NEW S, NEW q, QueueOK(q, S), Pending(q) # {}, NoVar \notin S
  PROVE  QueueOK(Pop(q), S) /\ Pending(Pop(q)) = Pending(q) \ {First(q)}
<1> DEFINE n == Pop(q)
<1>1. /\ n.end = q.end /\ n.last = q.last /\ n.first = Shift(q, q.first)
      /\ n.elt = q.elt /\ n.idx = q.idx /\ Shaped(n, S)
  <2>1. /\ n.end = q.end /\ n.last = q.last /\ n.first = Shift(q, q.first)
        /\ n.elt = q.elt /\ n.idx = q.idx
    BY DEF QueueOK, Shaped, Pop
  <2>2. Shift(q, q.first) \in Slots(q) /\ Slots(n) = Slots(q)
    BY <2>1 DEF QueueOK, Shaped, Slots, Shift
  <2>3. Shaped(n, S)
    BY <2>2 DEF QueueOK, Shaped, Pop
  <2>4. QED
    BY <2>1, <2>3
<1>2. Window(n) = Window(q) \ {q.first} /\ q.first \in Window(q)
  BY <1>1, ShorterWindow, FirstIsPending DEF QueueOK, Shaped
<1>3. Permuted(n, S) /\ NullOutside(n)
  BY <1>1, <1>2 DEF QueueOK, Permuted, NullOutside, Slots
<1>4. \A p \in Window(n) : q.elt[p] # First(q)
  <2>1. SUFFICES ASSUME NEW p \in Window(q), p # q.first, q.elt[p] = q.elt[q.first]
                 PROVE  FALSE
    BY <1>2 DEF First
  <2>2. q.elt[q.first] # NoVar
    BY FirstIsPending DEF First
  <2>3. QED
    BY <1>2, <2>1, <2>2 DEF QueueOK, Permuted, Window, Slots
<1>5. Pending(n) = Pending(q) \ {First(q)}
  BY <1>1, <1>2, <1>4 DEF Pending, First
<1>6. QED
  BY <1>1, <1>3, <1>5 DEF QueueOK

(* Taking a variable out of the middle.                                      *)
LEMMA RemKeeps ==
  ASSUME NEW S, NEW q, QueueOK(q, S), NEW v \in S, v \in Pending(q), NoVar \notin S
  PROVE  QueueOK(Rem(q, v), S) /\ Pending(Rem(q, v)) = Pending(q) \ {v}
<1> DEFINE n == Rem(q, v)
           u == q.elt[q.first]
           w == q.idx[v]
<1>1. u \in S /\ q.first \in Window(q)
  BY FirstIsPending DEF First
<1>2. /\ n.end = q.end /\ n.last = q.last /\ n.first = Shift(q, q.first)
      /\ n.elt = [p \in Slots(q) |->
                    IF p = q.first THEN v ELSE IF p = w THEN u ELSE q.elt[p]]
      /\ n.idx = [x \in S |-> IF x = v THEN q.first ELSE IF x = u THEN w ELSE q.idx[x]]
      /\ Shaped(n, S)
  <2>1. Shaped(q, S)
    BY DEF QueueOK
  <2>2. /\ DOMAIN q.elt = Slots(q) /\ DOMAIN q.idx = S
        /\ w \in Slots(q) /\ Shift(q, q.first) \in Slots(q)
    BY <2>1 DEF Shaped, Slots, Shift
  <2>3. n = [q EXCEPT
              !.elt   = [p \in Slots(q) |->
                          IF p = q.first THEN v ELSE IF p = w THEN u ELSE q.elt[p]],
              !.idx   = [x \in S |->
                          IF x = v THEN q.first ELSE IF x = u THEN w ELSE q.idx[x]],
              !.first = Shift(q, q.first)]
    BY <2>2 DEF Rem
  <2>4. /\ [p \in Slots(q) |-> IF p = q.first THEN v ELSE IF p = w THEN u ELSE q.elt[p]]
              \in [Slots(q) -> S \cup {NoVar}]
        /\ [x \in S |-> IF x = v THEN q.first ELSE IF x = u THEN w ELSE q.idx[x]]
              \in [S -> Slots(q)]
    BY <1>1, <2>1, <2>2 DEF Shaped
  <2> HIDE DEF n, u, w
  <2>5. /\ n.end = q.end /\ n.last = q.last /\ n.first = Shift(q, q.first)
        /\ n.elt = [p \in Slots(q) |->
                      IF p = q.first THEN v ELSE IF p = w THEN u ELSE q.elt[p]]
        /\ n.idx = [x \in S |-> IF x = v THEN q.first ELSE IF x = u THEN w ELSE q.idx[x]]
    BY <2>1, <2>3 DEF Shaped
  <2>6. Shaped(n, S)
    BY <2>1, <2>2, <2>3, <2>4 DEF Shaped, Slots
  <2>7. QED
    BY <2>5, <2>6
<1>3. Slots(n) = Slots(q) /\ w \in Window(q) /\ q.elt[w] = v
  BY <1>2 DEF Slots, Pending, Window, QueueOK, Shaped, Permuted
<1>4. Window(n) = Window(q) \ {q.first}
  BY <1>1, <1>2, ShorterWindow DEF QueueOK, Shaped
<1>5. Permuted(n, S)
  <2>1. \A x \in S : n.elt[n.idx[x]] = x
    BY <1>1, <1>2, <1>3 DEF QueueOK, Shaped, Permuted, Window, Slots
  <2>2. \A p \in Slots(n) : n.elt[p] # NoVar => n.idx[n.elt[p]] = p
    BY <1>1, <1>2, <1>3 DEF QueueOK, Shaped, Permuted, Window
  <2>3. \A p, r \in Slots(n) : n.elt[p] = NoVar /\ n.elt[r] = NoVar => p = r
    BY <1>1, <1>2, <1>3 DEF QueueOK, Shaped, Permuted
  <2>4. QED
    BY <2>1, <2>2, <2>3 DEF Permuted
<1>6. NullOutside(n)
  BY <1>1, <1>2, <1>3, <1>4 DEF QueueOK, NullOutside, Window, Slots
<1>7. Pending(n) = Pending(q) \ {v}
  <2>1. \A p \in Window(n) : n.elt[p] = IF p = w THEN u ELSE q.elt[p]
    BY <1>2, <1>4 DEF Window, Slots
  <2>2. \A p \in Window(n) : n.elt[p] \in Pending(q) /\ n.elt[p] # v
    BY <1>1, <1>3, <1>4, <2>1 DEF Pending, QueueOK, Permuted, Window, Slots
  <2>3. ASSUME NEW x \in Pending(q), x # v
        PROVE  \E p \in Window(n) : n.elt[p] = x
    <3>1. PICK p \in Window(q) : q.elt[p] = x
      BY DEF Pending
    <3>2. CASE p = q.first
      BY <1>1, <1>3, <1>4, <2>1, <2>3, <3>1, <3>2
    <3>3. CASE p # q.first
      BY <1>3, <1>4, <2>1, <2>3, <3>1, <3>3
    <3>4. QED
      BY <3>2, <3>3
  <2>4. QED
    BY <2>2, <2>3 DEF Pending
<1>8. QED
  BY <1>2, <1>5, <1>6, <1>7 DEF QueueOK

(* Emptying a queue leaves nothing in it and all slots where they are.       *)
LEMMA RazKeeps ==
  ASSUME NEW S, NEW q, QueueOK(q, S)
  PROVE  QueueOK(Raz(q), S) /\ Pending(Raz(q)) = {}
BY SMTT(60) DEF QueueOK, Shaped, Permuted, NullOutside, Raz, Pending, Window, InWindow, Slots

(* A queue in which each variable has been registered.                       *)
LEMMA NewQueueOK ==
  ASSUME NEW S, IsFiniteSet(S), NoVar \notin S, NEW q \in Queues(S)
  PROVE  QueueOK(q, S) /\ Pending(q) = {}
<1> DEFINE n == Cardinality(S)
<1>1. n \in Nat
  BY FS_CardinalityType
<1>2. /\ q \in [elt : [0 .. n -> S \cup {NoVar}], idx : [S -> 1 .. n],
               first : {0}, last : {0}, end : {n}]
      /\ q.elt[0] = NoVar /\ \A v \in S : q.elt[q.idx[v]] = v
  BY DEF Queues
<1> HIDE DEF n
<1>3. Shaped(q, S) /\ Slots(q) = 0 .. n /\ Window(q) = {}
  BY <1>1, <1>2 DEF Shaped, Slots, Window, InWindow
<1>4. q.idx \in Surjection(S, 1 .. n)
  <2>1. q.idx \in Injection(S, 1 .. n)
    BY <1>2 DEF Injection, IsInjective
  <2>2. IsFiniteSet(1 .. n) /\ Cardinality(1 .. n) = n
    BY <1>1, FS_Interval
  <2>3. QED
    BY <2>1, <2>2, FS_Injection DEF n
<1>5. \A p \in 1 .. n : \E v \in S : q.idx[v] = p
  BY <1>4 DEF Surjection
<1>6. Permuted(q, S) /\ NullOutside(q)
  BY <1>1, <1>2, <1>3, <1>5 DEF Permuted, NullOutside
<1>7. QED
  BY <1>3, <1>6 DEF QueueOK, Pending

-----------------------------------------------------------------------------
(* Events.                                                                  *)

Kinds == {"removal", "instantiate", "bound"}

Owners(k) == IF k = "bound" THEN MadeBounds ELSE MadeEnums

(* Each queue is a permutation of the variables that may be posted in it,
   and a variable is in the queue that its event field names.               *)
EventInv ==
  /\ made \in Problems
  /\ DOMAIN event = DOMAIN made
  /\ queue = [k \in Kinds |-> queue[k]]
  /\ \A k \in Kinds :
       /\ QueueOK(queue[k], Owners(k))
       /\ Pending(queue[k]) = {v \in DOMAIN made : event[v] = k}

LEMMA OwnersAreVariables ==
  ASSUME made \in Problems
  PROVE  /\ MadeEnums \subseteq DOMAIN made /\ MadeBounds \subseteq DOMAIN made
         /\ NoVar \notin DOMAIN made
         /\ IsFiniteSet(MadeEnums) /\ IsFiniteSet(MadeBounds)
         /\ MadeEnums \cap MadeBounds = {}
  BY KernelAssumption, FS_Subset DEF KernelAssumption, MadeEnums, MadeBounds

LEMMA EventsAtFirst == Init => EventInv
<1> SUFFICES ASSUME Init PROVE EventInv
  OBVIOUS
<1>1. PICK qe \in Queues(MadeEnums), qb \in Queues(MadeBounds) :
        queue = [k \in {"removal", "instantiate", "bound"} |-> IF k = "bound" THEN qb ELSE qe]
  BY DEF Init
<1>2. /\ QueueOK(qe, MadeEnums) /\ Pending(qe) = {}
      /\ QueueOK(qb, MadeBounds) /\ Pending(qb) = {}
  BY OwnersAreVariables, NewQueueOK DEF Init
<1>3. \A k \in Kinds : queue[k] = IF k = "bound" THEN qb ELSE qe
  BY <1>1 DEF Kinds
<1>4. DOMAIN event = DOMAIN made /\ \A v \in DOMAIN made : event[v] = "none"
  BY DEF Init
<1>5. QED
  BY <1>1, <1>2, <1>3, <1>4 DEF EventInv, Owners, Kinds, Init

(* post_..._event.                                                          *)
LEMMA PostEventKeeps ==
  ASSUME EventInv, UNCHANGED made, NEW kind \in Kinds, NEW v \in Owners(kind),
         PostEvent(v, kind)
  PROVE  EventInv'
<1>1. CASE kind = "instantiate" /\ event[v] # "instantiate"
  <2>1. v \in MadeEnums /\ v \in DOMAIN made /\ v \notin MadeBounds /\ NoVar \notin DOMAIN made
    BY <1>1, OwnersAreVariables DEF EventInv, Owners
  <2>2. /\ event' = [event EXCEPT ![v] = "instantiate"]
        /\ queue' = [queue EXCEPT
             !["removal"]     = IF event[v] = "removal" THEN Rem(@, v) ELSE @,
             !["instantiate"] = Post(@, v)]
    BY <1>1 DEF PostEvent, Posted
  <2>3. /\ queue'["bound"] = queue["bound"]
        /\ queue'["instantiate"] = Post(queue["instantiate"], v)
        /\ queue'["removal"] = IF event[v] = "removal" THEN Rem(queue["removal"], v)
                                                       ELSE queue["removal"]
        /\ queue' = [k \in Kinds |-> queue'[k]]
    BY <2>2 DEF EventInv, Kinds
  <2>4. /\ QueueOK(queue["instantiate"], MadeEnums)
        /\ QueueOK(queue["removal"], MadeEnums)
        /\ QueueOK(queue["bound"], MadeBounds)
        /\ NoVar \notin MadeEnums
    BY <2>1, OwnersAreVariables DEF EventInv, Owners, Kinds
  <2>5. v \notin Pending(queue["instantiate"])
    BY <1>1 DEF EventInv, Kinds
  <2>6. /\ QueueOK(queue'["instantiate"], MadeEnums)
        /\ Pending(queue'["instantiate"]) = Pending(queue["instantiate"]) \cup {v}
    BY <2>1, <2>3, <2>4, <2>5, PostKeeps
  <2>7. /\ QueueOK(queue'["removal"], MadeEnums)
        /\ Pending(queue'["removal"]) = Pending(queue["removal"]) \ {v}
    <3>1. CASE event[v] = "removal"
      <4>1. v \in Pending(queue["removal"])
        BY <2>1, <3>1 DEF EventInv, Kinds
      <4>2. QED
        BY <2>1, <2>3, <2>4, <3>1, <4>1, RemKeeps
    <3>2. CASE event[v] # "removal"
      <4>1. v \notin Pending(queue["removal"])
        BY <3>2 DEF EventInv, Kinds
      <4>2. QED
        BY <2>3, <2>4, <3>2, <4>1
    <3>3. QED
      BY <3>1, <3>2
  <2>8. event[v] # "bound"
    <3>1. SUFFICES ASSUME event[v] = "bound" PROVE FALSE
      OBVIOUS
    <3>2. v \in Pending(queue["bound"])
      BY <2>1, <3>1 DEF EventInv, Kinds
    <3>3. PICK p \in Window(queue["bound"]) : queue["bound"].elt[p] = v
      BY <3>2 DEF Pending
    <3>4. v \in MadeBounds \cup {NoVar}
      BY <2>4, <3>3 DEF QueueOK, Shaped, Window, Slots
    <3>5. QED
      BY <2>1, <3>4
  <2>9. /\ DOMAIN event' = DOMAIN made'
        /\ \A x \in DOMAIN made : event'[x] = IF x = v THEN "instantiate" ELSE event[x]
    BY <2>1, <2>2 DEF EventInv
  <2>10. ASSUME NEW k \in Kinds
         PROVE  /\ QueueOK(queue'[k], Owners(k)')
                /\ Pending(queue'[k]) = {x \in DOMAIN made' : event'[x] = k}
    <3>1. Pending(queue[k]) = {x \in DOMAIN made : event[x] = k} /\ Owners(k)' = Owners(k)
      BY DEF EventInv, Owners, MadeBounds, MadeEnums
    <3>2. CASE k = "instantiate"
      BY <2>1, <2>6, <2>9, <3>1, <3>2 DEF Owners
    <3>3. CASE k = "removal"
      BY <2>1, <2>7, <2>9, <3>1, <3>3 DEF Owners
    <3>4. CASE k = "bound"
      BY <2>1, <2>3, <2>4, <2>8, <2>9, <3>1, <3>4 DEF Owners
    <3>5. QED
      BY <3>2, <3>3, <3>4 DEF Kinds
  <2>11. QED
    BY <2>3, <2>9, <2>10 DEF EventInv
<1>2. CASE kind # "instantiate" /\ event[v] = "none"
  <2>1. v \in DOMAIN made /\ NoVar \notin Owners(kind)
    BY OwnersAreVariables DEF EventInv, Owners
  <2>2. /\ event' = [event EXCEPT ![v] = kind]
        /\ queue' = [queue EXCEPT ![kind] = Post(@, v)]
    BY <1>2 DEF PostEvent, Posted
  <2>3. /\ queue' = [k \in Kinds |-> queue'[k]]
        /\ \A k \in Kinds : queue'[k] = IF k = kind THEN Post(queue[k], v) ELSE queue[k]
    BY <2>2 DEF EventInv
  <2>4. v \notin Pending(queue[kind])
    BY <1>2 DEF EventInv, Kinds
  <2>5. /\ QueueOK(Post(queue[kind], v), Owners(kind))
        /\ Pending(Post(queue[kind], v)) = Pending(queue[kind]) \cup {v}
    BY <2>1, <2>4, PostKeeps DEF EventInv
  <2>6. /\ DOMAIN event' = DOMAIN made'
        /\ \A x \in DOMAIN made : event'[x] = IF x = v THEN kind ELSE event[x]
    BY <2>1, <2>2 DEF EventInv
  <2>7. ASSUME NEW k \in Kinds
        PROVE  /\ QueueOK(queue'[k], Owners(k)')
               /\ Pending(queue'[k]) = {x \in DOMAIN made' : event'[x] = k}
    <3>1. /\ QueueOK(queue[k], Owners(k)) /\ Owners(k)' = Owners(k)
          /\ Pending(queue[k]) = {x \in DOMAIN made : event[x] = k}
      BY DEF EventInv, Owners, MadeBounds, MadeEnums
    <3>2. CASE k = kind
      BY <2>1, <2>3, <2>5, <2>6, <3>1, <3>2
    <3>3. CASE k # kind
      BY <1>2, <2>1, <2>3, <2>6, <3>1, <3>3 DEF Kinds
    <3>4. QED
      BY <3>2, <3>3
  <2>8. QED
    BY <2>3, <2>6, <2>7 DEF EventInv
<1>3. CASE /\ ~(kind = "instantiate" /\ event[v] # "instantiate")
           /\ ~(kind # "instantiate" /\ event[v] = "none")
  <2>1. UNCHANGED <<event, queue>>
    BY <1>3 DEF PostEvent, Posted
  <2>2. QED
    BY <2>1 DEF EventInv, Owners, MadeBounds, MadeEnums
<1>4. QED
  BY <1>1, <1>2, <1>3

(* propagate() takes the head of a queue.                                   *)
LEMMA TakeKeeps ==
  ASSUME EventInv, UNCHANGED made, NEW kind \in Kinds, Pending(queue[kind]) # {}, Take(kind)
  PROVE  EventInv'
<1> DEFINE v == First(queue[kind])
<1>1. QueueOK(queue[kind], Owners(kind)) /\ NoVar \notin Owners(kind)
  BY OwnersAreVariables DEF EventInv, Owners
<1>2. /\ v \in Pending(queue[kind]) /\ v \in DOMAIN made /\ event[v] = kind
  BY <1>1, FirstIsPending DEF EventInv
<1>3. /\ QueueOK(Pop(queue[kind]), Owners(kind))
      /\ Pending(Pop(queue[kind])) = Pending(queue[kind]) \ {v}
  BY <1>1, PopKeeps
<1>4. /\ queue' = [k \in Kinds |-> queue'[k]]
      /\ \A k \in Kinds : queue'[k] = IF k = kind THEN Pop(queue[k]) ELSE queue[k]
  BY DEF Take, EventInv
<1>5. /\ DOMAIN event' = DOMAIN made'
      /\ \A x \in DOMAIN made : event'[x] = IF x = v THEN "none" ELSE event[x]
  BY <1>2 DEF Take, EventInv
<1> HIDE DEF v
<1>6. ASSUME NEW k \in Kinds
      PROVE  /\ QueueOK(queue'[k], Owners(k)')
             /\ Pending(queue'[k]) = {x \in DOMAIN made' : event'[x] = k}
  <2>1. /\ QueueOK(queue[k], Owners(k)) /\ Owners(k)' = Owners(k)
        /\ Pending(queue[k]) = {x \in DOMAIN made : event[x] = k} /\ k # "none"
    BY DEF EventInv, Owners, MadeBounds, MadeEnums, Kinds
  <2>2. CASE k = kind
    BY <1>2, <1>3, <1>4, <1>5, <2>1, <2>2
  <2>3. CASE k # kind
    BY <1>2, <1>4, <1>5, <2>1, <2>3
  <2>4. QED
    BY <2>2, <2>3
<1>7. QED
  BY <1>4, <1>5, <1>6 DEF EventInv

(* The end of a backtrack empties the queues.                               *)
LEMMA RazEventsKeeps ==
  ASSUME EventInv, UNCHANGED made, RazEvents
  PROVE  EventInv'
<1>1. /\ queue' = [k \in Kinds |-> queue'[k]]
      /\ \A k \in Kinds : queue'[k] = Raz(queue[k])
  BY DEF RazEvents, EventInv
<1>2. \A k \in Kinds : QueueOK(queue'[k], Owners(k)') /\ Pending(queue'[k]) = {}
  BY <1>1, RazKeeps DEF EventInv, Owners, MadeBounds, MadeEnums
<1>3. \A v \in DOMAIN made, k \in Kinds : event'[v] # k
  <2>1. SUFFICES ASSUME NEW v \in DOMAIN made, NEW k \in Kinds, event'[v] = k
                 PROVE  FALSE
    OBVIOUS
  <2>2. event'[v] = IF \E j \in DOMAIN queue : v \in Pending(queue[j]) THEN "none" ELSE event[v]
    BY DEF RazEvents
  <2>3. event[v] = k /\ \A j \in DOMAIN queue : v \notin Pending(queue[j])
    BY <2>1, <2>2 DEF Kinds
  <2>4. v \in Pending(queue[k]) /\ k \in DOMAIN queue
    BY <2>3 DEF EventInv
  <2>5. QED
    BY <2>3, <2>4
<1>4. DOMAIN event' = DOMAIN made'
  BY DEF RazEvents
<1>5. QED
  BY <1>1, <1>2, <1>3, <1>4 DEF EventInv

LEMMA EventsUnchanged ==
  ASSUME EventInv, UNCHANGED <<made, events>>
  PROVE  EventInv'
  BY DEF EventInv, events, Owners, MadeBounds, MadeEnums

LEMMA EventsStep == EventInv /\ [Next]_vars => EventInv'
<1> SUFFICES ASSUME EventInv, [Next]_vars PROVE EventInv'
  OBVIOUS
<1>1. ASSUME NEW v \in MadeEnums, NEW i \in DOMAIN Dom(v), RemoveVal(v, i)
      PROVE  EventInv'
  <2>1. v \in Owners("removal") /\ v \in Owners("instantiate")
    BY DEF Owners
  <2>2. UNCHANGED made
    BY <1>1 DEF RemoveVal
  <2>3. \/ UNCHANGED events \/ PostEvent(v, "instantiate") \/ PostEvent(v, "removal")
    BY <1>1 DEF RemoveVal, Contradiction
  <2>4. QED
    BY <2>1, <2>2, <2>3, PostEventKeeps, EventsUnchanged DEF Kinds
<1>2. ASSUME NEW v \in MadeEnums, NEW i \in DOMAIN Dom(v), AddVal(v, i)
      PROVE  EventInv'
  BY <1>2, EventsUnchanged DEF AddVal
<1>3. ASSUME NEW v \in MadeEnums, NEW i \in DOMAIN Dom(v), Instantiate(v, i)
      PROVE  EventInv'
  <2>1. v \in Owners("instantiate") /\ UNCHANGED made
    BY <1>3 DEF Owners, Instantiate
  <2>2. \/ UNCHANGED events \/ PostEvent(v, "instantiate")
    BY <1>3 DEF Instantiate, Contradiction
  <2>3. QED
    BY <2>1, <2>2, PostEventKeeps, EventsUnchanged DEF Kinds
<1>4. ASSUME NEW b \in MadeBounds, NEW i \in 0 .. made[b].sup,
             UpdateInf(b, i) \/ UpdateSup(b, i)
      PROVE  EventInv'
  <2>1. b \in Owners("bound") /\ UNCHANGED made
    BY <1>4 DEF Owners, UpdateInf, UpdateSup
  <2>2. \/ UNCHANGED events \/ PostEvent(b, "bound")
    BY <1>4 DEF UpdateInf, UpdateSup, Contradiction
  <2>3. QED
    BY <2>1, <2>2, PostEventKeeps, EventsUnchanged DEF Kinds
<1>5. ASSUME NEW count \in BOOLEAN, NewWorld(count) PROVE EventInv'
  BY <1>5, EventsUnchanged DEF NewWorld
<1>6. CASE Protected \/ SetBacktrackLimit \/ Abandon \/ UndoStore
  BY <1>6, EventsUnchanged DEF Protected, SetBacktrackLimit, Abandon, UndoStore
<1>7. ASSUME NEW w \in 0 .. MaxWorld[made], RestoreWorld(w) PROVE EventInv'
  BY <1>7, EventsUnchanged DEF RestoreWorld
<1>8. CASE PopWorld
  BY <1>8, EventsUnchanged, RazEventsKeeps DEF PopWorld
<1>9. CASE Propagate
  BY <1>9, TakeKeeps DEF Propagate, Kinds
<1>10. CASE UNCHANGED vars
  BY <1>10, EventsUnchanged DEF vars
<1>11. QED
  BY <1>1, <1>2, <1>3, <1>4, <1>5, <1>6, <1>7, <1>8, <1>9, <1>10 DEF Next

LEMMA EventInvGivesEventsKept == EventInv => EventsKept
<1> SUFFICES ASSUME EventInv, NEW k \in DOMAIN queue
             PROVE  /\ \A v \in DOMAIN queue[k].idx : queue[k].elt[queue[k].idx[v]] = v
                    /\ \A p \in Window(queue[k]) : queue[k].elt[p] # NoVar
                    /\ Pending(queue[k]) = {v \in DOMAIN made : event[v] = k}
  BY DEF EventsKept
<1>1. k \in Kinds /\ QueueOK(queue[k], Owners(k))
  BY DEF EventInv
<1>2. DOMAIN queue[k].idx = Owners(k)
  BY <1>1 DEF QueueOK, Shaped
<1>3. QED
  BY <1>1, <1>2 DEF EventInv, QueueOK, Permuted, NullOutside, Window, Slots

(* A variable is in the one queue that its event field names, and the arrays
   of the queues (var.h:184-194) stay permutations, whatever the order of
   the operations and however many variables there are.                     *)
THEOREM EventsAreKept == Spec => []EventsKept
  BY EventsAtFirst, EventsStep, EventInvGivesEventsKept, PTL DEF Spec

-----------------------------------------------------------------------------
(* The trail.                                                               *)

LEMMA LeastNatural ==
  ASSUME NEW S \in SUBSET Nat, S # {}
  PROVE  \E m \in S : \A k \in S : m <= k
<1>1. PICK m \in S : \A k \in S : ~(<<k, m>> \in OpToRel(<, Nat))
  BY NatLessThanWellFounded, WFMin
<1>2. \A k \in S : k < m => <<k, m>> \in OpToRel(<, Nat)
  BY DEF OpToRel
<1>3. \A k \in S : ~(k < m)
  BY <1>1, <1>2, Zenon
<1>4. QED
  <2> HIDE <1>1, <1>2
  <2> QED BY <1>3, SMT

IsSeq(s) == \E S : s \in Seq(S)

Marks == {p \in 1 .. Len(trail) : IsMark(trail[p])}

SavedAt(q, x) == ~IsMark(trail[q]) /\ trail[q].loc = x

(* What undoing the trail down to the mark p will leave in x: the value saved
   by the first store of x after the mark, what x holds if there is none.    *)
Restores(p, x) ==
  \/ /\ mem[x] = trail[p].was[x]
     /\ \A q \in p + 1 .. Len(trail) : ~SavedAt(q, x)
  \/ \E q \in p + 1 .. Len(trail) :
       /\ SavedAt(q, x)
       /\ trail[q].old = trail[p].was[x]
       /\ \A r \in p + 1 .. q - 1 : ~SavedAt(r, x)

(* Marks are numbered by the worlds they open, without a gap up to the current
   one; so below a mark of a world nothing is stored without being saved.    *)
MarksNumbered ==
  /\ \A p \in Marks : trail[p].level \in Int /\ trail[p].level <= world
  /\ \A p \in Marks : (\A q \in Marks : q <= p) => trail[p].level = world
  /\ \A p, q \in Marks : p < q => trail[p].level < trail[q].level
  /\ \A p, q \in Marks :
       p < q /\ (\A r \in Marks : r <= p \/ q <= r) => trail[q].level = trail[p].level + 1

TrailTyped ==
  /\ IsSeq(trail) /\ world \in Int
  /\ mem = [x \in DOMAIN mem |-> mem[x]]
  /\ \A p \in 1 .. Len(trail) : trail[p].mark \in BOOLEAN
  /\ \A p \in Marks : trail[p].was = [x \in DOMAIN mem |-> trail[p].was[x]]

TrailInv ==
  /\ TrailTyped
  /\ MarksNumbered
  /\ \A p \in Marks : trail[p].level > 0 => \A x \in DOMAIN mem : Restores(p, x)

LEMMA TrailAtFirst == Init => TrailInv
<1> SUFFICES ASSUME Init PROVE TrailInv
  OBVIOUS
<1>1. /\ trail = <<>> /\ Len(trail) = 0 /\ world = 0
      /\ mem = [x \in UNION {FieldsOf(v, made[v]) : v \in DOMAIN made} |->
                  NewFields(x[1], made[x[1]])[x]]
  BY DEF Init
<1>2. IsSeq(trail)
  BY <1>1 DEF IsSeq
<1>3. Marks = {}
  BY <1>1 DEF Marks
<1>4. QED
  BY <1>1, <1>2, <1>3 DEF TrailInv, TrailTyped, MarksNumbered

LEMMA TrailUnchanged ==
  ASSUME TrailInv, UNCHANGED <<store, world>>
  PROVE  TrailInv'
  BY DEF TrailInv, TrailTyped, MarksNumbered, Restores, SavedAt, Marks, store

(* The records that a list of stores adds.                                  *)
LEMMA StoreExtends ==
  ASSUME TrailInv, NEW ws, IsSeq(ws), Store(ws), world > 0
  PROVE  /\ IsSeq(trail') /\ Len(trail') = Len(trail) + Len(ws)
         /\ Len(trail) \in Nat /\ Len(ws) \in Nat
         /\ \A p \in 1 .. Len(trail) : trail'[p] = trail[p]
         /\ \A k \in 1 .. Len(ws) : trail'[Len(trail) + k] = Saved(ws[k][1], OldValue(ws, k))
<1> DEFINE new == [k \in DOMAIN ws |-> Saved(ws[k][1], OldValue(ws, k))]
<1>1. PICK S : trail \in Seq(S)
  BY DEF TrailInv, TrailTyped, IsSeq
<1>2. PICK T : ws \in Seq(T)
  BY DEF IsSeq
<1>3. Len(ws) \in Nat /\ DOMAIN ws = 1 .. Len(ws)
  BY <1>2
<1> DEFINE U == S \cup {Saved(ws[k][1], OldValue(ws, k)) : k \in 1 .. Len(ws)}
<1>4. new \in Seq(U) /\ Len(new) = Len(ws)
  <2>1. new \in [1 .. Len(ws) -> U]
    BY <1>3
  <2>2. QED
    BY <1>3, <2>1
<1>5. trail \in Seq(U)
  BY <1>1
<1>6. trail' = trail \o new
  BY DEF Store
<1>7. \A k \in 1 .. Len(ws) : new[k] = Saved(ws[k][1], OldValue(ws, k))
  BY <1>3
<1> HIDE DEF U, new
<1>8. /\ trail' \in Seq(U) /\ Len(trail') = Len(trail) + Len(ws) /\ Len(trail) \in Nat
      /\ \A p \in 1 .. Len(trail) : trail'[p] = trail[p]
      /\ \A k \in 1 .. Len(ws) : trail'[Len(trail) + k] = new[k]
  <2>1. /\ trail \o new \in Seq(U) /\ Len(trail \o new) = Len(trail) + Len(new)
        /\ \A i \in 1 .. Len(trail) + Len(new) :
             (trail \o new)[i] = IF i <= Len(trail) THEN trail[i] ELSE new[i - Len(trail)]
    BY <1>4, <1>5, ConcatProperties
  <2>2. Len(trail) \in Nat
    BY <1>5
  <2>3. \A k \in 1 .. Len(ws) : /\ Len(trail) + k \in 1 .. Len(trail) + Len(ws)
                                /\ ~(Len(trail) + k <= Len(trail))
                                /\ (Len(trail) + k) - Len(trail) = k
    BY <1>3, <2>2
  <2>4. \A k \in 1 .. Len(ws) : trail'[Len(trail) + k] = new[k]
    BY <1>4, <1>6, <2>1, <2>3
  <2>5. \A p \in 1 .. Len(trail) : trail'[p] = trail[p]
    BY <1>3, <1>4, <1>6, <2>1, <2>2
  <2>6. QED
    BY <1>4, <1>6, <2>1, <2>2, <2>4, <2>5
<1>9. QED
  BY <1>3, <1>7, <1>8 DEF IsSeq

LEMMA StoreKeeps ==
  ASSUME TrailInv, NEW ws, IsSeq(ws), Store(ws), UNCHANGED world
  PROVE  TrailInv'
<1>1. /\ mem' = [x \in DOMAIN mem |->
                   IF Writes(ws, x) = {} THEN mem[x] ELSE ws[LatestOf(Writes(ws, x))][2]]
      /\ DOMAIN mem' = DOMAIN mem
      /\ mem' = [x \in DOMAIN mem' |-> mem'[x]]
      /\ world' = world /\ world \in Int
  BY DEF Store, TrailInv, TrailTyped
<1>2. CASE ~(world > 0)
  <2>1. trail' = trail /\ \A p \in Marks : ~(trail[p].level > 0)
    BY <1>1, <1>2 DEF Store, TrailInv, MarksNumbered
  <2>2. QED
    BY <1>1, <2>1 DEF TrailInv, TrailTyped, MarksNumbered, Marks
<1>3. CASE world > 0
  <2> DEFINE n == Len(trail)
             m == Len(ws)
  <2>1. /\ IsSeq(trail') /\ Len(trail') = n + m /\ n \in Nat /\ m \in Nat
        /\ \A p \in 1 .. n : trail'[p] = trail[p]
        /\ \A k \in 1 .. m : trail'[n + k] = Saved(ws[k][1], OldValue(ws, k))
    BY <1>3, StoreExtends
  <2> HIDE DEF n
  <2>2. \A q \in n + 1 .. n + m : q - n \in 1 .. m /\ n + (q - n) = q
    BY <2>1
  <2>3. \A q \in n + 1 .. n + m :
          /\ trail'[q] = Saved(ws[q - n][1], OldValue(ws, q - n))
          /\ trail'[q].mark = FALSE /\ trail'[q].loc = ws[q - n][1]
          /\ trail'[q].old = OldValue(ws, q - n)
    <3>1. SUFFICES ASSUME NEW q \in n + 1 .. n + m
                   PROVE  /\ trail'[q] = Saved(ws[q - n][1], OldValue(ws, q - n))
                          /\ trail'[q].mark = FALSE /\ trail'[q].loc = ws[q - n][1]
                          /\ trail'[q].old = OldValue(ws, q - n)
      OBVIOUS
    <3>2. trail'[n + (q - n)] = Saved(ws[q - n][1], OldValue(ws, q - n))
      BY <2>1, <2>2
    <3>3. trail'[q] = Saved(ws[q - n][1], OldValue(ws, q - n))
      BY <2>2, <3>2
    <3>4. QED
      BY <3>3 DEF Saved
  <2>4. Marks' = Marks
    BY <2>1, <2>3 DEF Marks, IsMark, n
  <2>5. \A p \in Marks : p \in 1 .. n /\ trail'[p] = trail[p]
    BY <2>1 DEF Marks, n
  <2>6. TrailTyped'
    <3>1. \A p \in 1 .. n + m : trail'[p].mark \in BOOLEAN
      <4>1. \A p \in 1 .. n : trail[p].mark \in BOOLEAN
        BY DEF TrailInv, TrailTyped, n
      <4>2. SUFFICES ASSUME NEW p \in 1 .. n + m PROVE trail'[p].mark \in BOOLEAN
        OBVIOUS
      <4>3. CASE p \in 1 .. n
        BY <2>1, <4>1, <4>3
      <4>4. CASE p \notin 1 .. n
        <5>1. p \in n + 1 .. n + m
          BY <2>1, <4>4
        <5>2. QED
          BY <2>3, <5>1
      <4>5. QED
        BY <4>3, <4>4
    <3>2. \A p \in Marks' : trail'[p].was = [x \in DOMAIN mem' |-> trail'[p].was[x]]
      <4>1. SUFFICES ASSUME NEW p \in Marks
                     PROVE  trail'[p].was = [x \in DOMAIN mem |-> trail'[p].was[x]]
        BY <1>1, <2>4
      <4>2. trail'[p].was = trail[p].was
        BY <2>5
      <4>3. QED
        BY <4>2 DEF TrailInv, TrailTyped
    <3>3. IsSeq(trail')
      BY <2>1
    <3>4. QED
      BY <1>1, <2>1, <3>1, <3>2, <3>3 DEF TrailTyped
  <2>7. MarksNumbered'
    BY <1>1, <2>4, <2>5 DEF TrailInv, MarksNumbered
  <2>8. ASSUME NEW p \in Marks, trail[p].level > 0, NEW x \in DOMAIN mem
        PROVE  Restores(p, x)'
    <3>1. Restores(p, x) /\ p \in 1 .. n /\ trail'[p] = trail[p]
      BY <2>5, <2>8 DEF TrailInv
    <3>2. \A q \in 1 .. n : SavedAt(q, x)' <=> SavedAt(q, x)
      BY <2>1 DEF SavedAt, IsMark
    <3>3. \A q \in n + 1 .. n + m : SavedAt(q, x)' <=> ws[q - n][1] = x
      BY <2>3 DEF SavedAt, IsMark
    <3>4. CASE \E q \in p + 1 .. n : /\ SavedAt(q, x)
                                     /\ trail[q].old = trail[p].was[x]
                                     /\ \A r \in p + 1 .. q - 1 : ~SavedAt(r, x)
      <4>1. PICK q \in p + 1 .. n : /\ SavedAt(q, x)
                                    /\ trail[q].old = trail[p].was[x]
                                    /\ \A r \in p + 1 .. q - 1 : ~SavedAt(r, x)
        BY <3>4
      <4>2. q \in p + 1 .. n + m /\ trail'[q] = trail[q]
        BY <2>1, <3>1
      <4>3. SavedAt(q, x)' /\ \A r \in p + 1 .. q - 1 : ~SavedAt(r, x)'
        BY <2>1, <3>1, <3>2, <4>1
      <4>4. QED
        BY <2>1, <3>1, <4>1, <4>2, <4>3 DEF Restores
    <3>5. CASE /\ mem[x] = trail[p].was[x]
               /\ \A q \in p + 1 .. n : ~SavedAt(q, x)
      <4>1. CASE Writes(ws, x) = {}
        <5>1. \A q \in n + 1 .. n + m : ~SavedAt(q, x)'
          <6>1. DOMAIN ws = 1 .. m
            BY DEF IsSeq
          <6>2. QED
            BY <2>2, <3>3, <4>1, <6>1 DEF Writes
        <5>2. \A q \in p + 1 .. n + m : ~SavedAt(q, x)'
          BY <2>1, <3>1, <3>2, <3>5, <5>1
        <5>3. mem'[x] = mem[x]
          BY <1>1, <4>1
        <5>4. QED
          BY <2>1, <3>1, <3>5, <5>2, <5>3 DEF Restores
      <4>2. CASE Writes(ws, x) # {}
        <5>1. DOMAIN ws = 1 .. m
          BY DEF IsSeq
        <5>2. PICK k \in Writes(ws, x) : \A j \in Writes(ws, x) : k <= j
          <6>1. Writes(ws, x) \in SUBSET Nat
            BY <2>1, <5>1 DEF Writes
          <6>2. QED
            BY <4>2, <6>1, LeastNatural
        <5>3. /\ k \in 1 .. m /\ ws[k][1] = x
              /\ \A j \in 1 .. k - 1 : ws[j][1] # x
          BY <2>1, <5>1, <5>2 DEF Writes
        <5>4. OldValue(ws, k) = mem[x]
          BY <5>3 DEF OldValue, Earlier
        <5>5. PICK q \in p + 1 .. n + m : q = n + k
          BY <2>1, <3>1, <5>3
        <5>6. SavedAt(q, x)' /\ trail'[q].old = trail'[p].was[x]
          <6>1. trail'[q] = Saved(ws[k][1], OldValue(ws, k))
            BY <2>1, <5>3, <5>5
          <6>2. QED
            BY <3>1, <3>5, <5>3, <5>4, <6>1 DEF SavedAt, Saved, IsMark
        <5>7. \A r \in p + 1 .. q - 1 : ~SavedAt(r, x)'
          <6>1. SUFFICES ASSUME NEW r \in p + 1 .. q - 1 PROVE ~SavedAt(r, x)'
            OBVIOUS
          <6>2. CASE r \in 1 .. n
            BY <2>1, <3>1, <3>2, <3>5, <6>2
          <6>3. CASE r \notin 1 .. n
            <7>1. r \in n + 1 .. n + m /\ r - n \in 1 .. k - 1
              BY <2>1, <3>1, <5>3, <5>5, <6>3
            <7>2. QED
              BY <3>3, <5>3, <7>1
          <6>4. QED
            BY <6>2, <6>3
        <5>8. QED
          BY <2>1, <5>6, <5>7 DEF Restores
      <4>3. QED
        BY <4>1, <4>2
    <3>6. QED
      BY <3>1, <3>4, <3>5 DEF Restores, n
  <2>9. QED
    BY <1>1, <2>4, <2>5, <2>6, <2>7, <2>8 DEF TrailInv
<1>4. QED
  BY <1>2, <1>3

(* new_world and protected push a mark.                                     *)
LEMMA MarkKeeps ==
  ASSUME TrailInv, UNCHANGED mem, trail' = Append(trail, Mark(world')),
         world' = world + 1 \/ (trail = <<>> /\ world' = world)
  PROVE  TrailInv'
<1> DEFINE n == Len(trail)
<1>1. PICK S : trail \in Seq(S)
  BY DEF TrailInv, TrailTyped, IsSeq
<1> DEFINE r == Mark(world')
           U == S \cup {r}
<1>2. trail \in Seq(U) /\ r \in U
  BY <1>1
<1> HIDE DEF r, U
<1>3. /\ trail' \in Seq(U) /\ Len(trail') = n + 1 /\ n \in Nat
      /\ \A p \in 1 .. n : trail'[p] = trail[p]
      /\ trail'[n + 1] = r
  BY <1>2, AppendProperties DEF r
<1>4. r.mark = TRUE /\ r.was = mem /\ r.level = world'
  BY DEF Mark, r
<1>5. world \in Int /\ world' \in Int /\ mem = [x \in DOMAIN mem |-> mem[x]]
  BY DEF TrailInv, TrailTyped
<1>6. IsSeq(trail')
  BY <1>3 DEF IsSeq
<1> HIDE DEF n
<1>7. Marks' = Marks \cup {n + 1} /\ Marks \subseteq 1 .. n
  BY <1>3, <1>4 DEF Marks, IsMark, n
<1>8. TrailTyped'
  <2>1. \A p \in 1 .. n + 1 : trail'[p].mark \in BOOLEAN
    <3>1. \A p \in 1 .. n : trail[p].mark \in BOOLEAN
      BY DEF TrailInv, TrailTyped, n
    <3>2. \A p \in 1 .. n + 1 : p \in 1 .. n \/ p = n + 1
      BY <1>3
    <3>3. QED
      BY <1>3, <1>4, <3>1, <3>2
  <2>2. ASSUME NEW p \in Marks'
        PROVE  trail'[p].was = [x \in DOMAIN mem |-> trail'[p].was[x]]
    <3>1. CASE p = n + 1
      BY <1>3, <1>4, <1>5, <3>1
    <3>2. CASE p \in Marks
      <4>1. trail'[p] = trail[p]
        BY <1>3, <1>7, <3>2
      <4>2. QED
        BY SMTT(60), <3>2, <4>1 DEF TrailInv, TrailTyped
    <3>3. QED
      BY <1>7, <3>1, <3>2
  <2>3. QED
    BY <1>3, <1>5, <1>6, <2>1, <2>2 DEF TrailTyped
<1>9. MarksNumbered'
  <2>1. \A p \in Marks : /\ p \in 1 .. n /\ trail'[p].level = trail[p].level
                         /\ trail[p].level \in Int /\ trail[p].level <= world
                         /\ world' = world + 1
    BY <1>3, <1>7 DEF TrailInv, MarksNumbered, n
  <2>2. \A p \in Marks : (\A q \in Marks : q <= p) => trail[p].level = world
    BY DEF TrailInv, MarksNumbered
  <2>3. \A p, q \in Marks : p < q => trail[p].level < trail[q].level
    BY DEF TrailInv, MarksNumbered
  <2>4. \A p, q \in Marks :
          p < q /\ (\A t \in Marks : t <= p \/ q <= t) => trail[q].level = trail[p].level + 1
    BY DEF TrailInv, MarksNumbered
  <2>5. trail'[n + 1].level = world' /\ \A p \in Marks : p < n + 1
    BY <1>3, <1>4, <2>1
  <2>6. \A p \in Marks' : trail'[p].level \in Int /\ trail'[p].level <= world'
    <3>1. ASSUME NEW p \in Marks
          PROVE  trail'[p].level \in Int /\ trail'[p].level <= world'
      <4>1. trail'[p].level = trail[p].level /\ world' = world + 1
        BY <2>1
      <4>2. trail[p].level \in Int /\ trail[p].level <= world
        BY <2>1
      <4>3. QED
        BY <1>5, <4>1, <4>2
    <3>2. \A p \in Marks' : p \in Marks \/ p = n + 1
      BY <1>7
    <3>3. world' <= world'
      BY <1>5
    <3>4. QED
      BY <1>5, <2>5, <3>1, <3>2, <3>3
  <2>7. \A p \in Marks' : (\A q \in Marks' : q <= p) => trail'[p].level = world'
    BY <1>3, <1>7, <2>1, <2>5
  <2>8. \A p, q \in Marks' : p < q => trail'[p].level < trail'[q].level
    BY <1>3, <1>5, <1>7, <2>1, <2>3, <2>5
  <2>9. ASSUME NEW p \in Marks', NEW q \in Marks', p < q,
               \A t \in Marks' : t <= p \/ q <= t
        PROVE  trail'[q].level = trail'[p].level + 1
    <3>1. p \in Marks
      BY <1>3, <1>7, <2>1, <2>9
    <3>2. CASE q = n + 1
      <4>1. \A t \in Marks : t <= p
        BY <1>3, <1>7, <2>1, <2>9, <3>2
      <4>2. QED
        BY <2>1, <2>2, <2>5, <3>1, <3>2, <4>1
    <3>3. CASE q \in Marks
      BY ZenonT(120), <1>7, <2>1, <2>4, <2>9, <3>1, <3>3
    <3>4. QED
      BY <1>7, <3>2, <3>3
  <2>10. QED
    BY <2>6, <2>7, <2>8, <2>9 DEF MarksNumbered
<1>10. ASSUME NEW p \in Marks', trail'[p].level > 0, NEW x \in DOMAIN mem'
       PROVE  Restores(p, x)'
  <2>1. CASE p = n + 1
    BY <1>3, <1>4, <2>1 DEF Restores
  <2>2. CASE p \in Marks
    <3>1. p \in 1 .. n /\ trail'[p] = trail[p]
      BY <1>3, <1>7, <2>2
    <3>2. Restores(p, x)
      BY <1>10, <2>2, <3>1 DEF TrailInv
    <3>3. \A q \in 1 .. n : SavedAt(q, x)' <=> SavedAt(q, x)
      BY <1>3 DEF SavedAt, IsMark
    <3>4. \A q \in p + 1 .. n + 1 : SavedAt(q, x)' => q \in 1 .. n /\ SavedAt(q, x)
      BY <1>3, <1>4, <3>1, <3>3 DEF SavedAt, IsMark
    <3>5. CASE /\ mem[x] = trail[p].was[x]
               /\ \A q \in p + 1 .. n : ~SavedAt(q, x)
      BY <1>3, <3>1, <3>3, <3>4, <3>5 DEF Restores
    <3>6. CASE \E q \in p + 1 .. n : /\ SavedAt(q, x)
                                     /\ trail[q].old = trail[p].was[x]
                                     /\ \A t \in p + 1 .. q - 1 : ~SavedAt(t, x)
      <4>1. PICK q \in p + 1 .. n : /\ SavedAt(q, x)
                                    /\ trail[q].old = trail[p].was[x]
                                    /\ \A t \in p + 1 .. q - 1 : ~SavedAt(t, x)
        BY <3>6
      <4>2. SavedAt(q, x)' /\ trail'[q] = trail[q] /\ q \in p + 1 .. n + 1
        BY <1>3, <3>1, <3>3, <4>1
      <4>3. \A t \in p + 1 .. q - 1 : ~SavedAt(t, x)'
        BY <1>3, <3>1, <3>3, <4>1
      <4>4. QED
        BY <1>3, <3>1, <4>1, <4>2, <4>3 DEF Restores
    <3>7. QED
      BY <3>2, <3>5, <3>6 DEF Restores, n
  <2>3. QED
    BY <1>7, <2>1, <2>2
<1>11. QED
  BY <1>8, <1>9, <1>10 DEF TrailInv

(* Both loops of backtrack take the last record.                            *)
LEMMA LastTaken ==
  ASSUME IsSeq(trail), trail # <<>>, trail' = SubSeq(trail, 1, Len(trail) - 1)
  PROVE  /\ IsSeq(trail') /\ Len(trail) \in Nat \ {0} /\ Len(trail') = Len(trail) - 1
         /\ \A p \in 1 .. Len(trail) - 1 : trail'[p] = trail[p]
<1>1. PICK S : trail \in Seq(S)
  BY DEF IsSeq
<1>2. Len(trail) \in Nat \ {0} /\ \A p \in 1 .. Len(trail) : trail[p] \in S
  BY <1>1
<1>3. /\ trail' \in Seq(S) /\ Len(trail') = Len(trail) - 1
      /\ \A p \in 1 .. Len(trail) - 1 : trail'[p] = trail[p]
  <2> DEFINE k == Len(trail) - 1
  <2>1. k \in Int /\ 1 \in Int /\ \A i \in 1 .. k : trail[i] \in S
    BY <1>2
  <2> HIDE DEF k
  <2>2. /\ SubSeq(trail, 1, k) \in Seq(S)
        /\ Len(SubSeq(trail, 1, k)) = IF 1 <= k THEN k - 1 + 1 ELSE 0
        /\ \A i \in 1 .. k - 1 + 1 : SubSeq(trail, 1, k)[i] = trail[1 + i - 1]
    BY <2>1, SubSeqProperties
  <2>3. trail' = SubSeq(trail, 1, k) /\ k + 1 = Len(trail)
    BY <1>2 DEF k
  <2>4. QED
    BY <1>2, <2>1, <2>2, <2>3 DEF k
<1>4. QED
  BY <1>2, <1>3 DEF IsSeq

LEMMA UndoKeeps ==
  ASSUME TrailInv, UndoStore
  PROVE  TrailInv'
<1> DEFINE n == Len(trail) - 1
           r == trail[n + 1]
<1>1. /\ IsSeq(trail') /\ n \in Nat /\ Len(trail) = n + 1 /\ Len(trail') = n
      /\ \A p \in 1 .. n : trail'[p] = trail[p]
  BY LastTaken DEF UndoStore, TrailInv, TrailTyped
<1>2. /\ ~IsMark(r) /\ mem' = [mem EXCEPT ![r.loc] = r.old] /\ UNCHANGED world
  BY <1>1 DEF UndoStore, worlds
<1> HIDE DEF n, r
<1>3. Marks' = Marks /\ Marks \subseteq 1 .. n /\ \A p \in Marks : trail'[p] = trail[p]
  BY <1>1, <1>2 DEF Marks, IsMark, r
<1>4. DOMAIN mem' = DOMAIN mem /\ mem' = [x \in DOMAIN mem' |-> mem'[x]]
  BY <1>2 DEF TrailInv, TrailTyped
<1>5. TrailTyped'
  <2>1. ASSUME NEW p \in Marks
        PROVE  trail'[p].was = [x \in DOMAIN mem |-> trail'[p].was[x]]
    <3>1. trail'[p].was = trail[p].was
      BY <1>3
    <3>2. QED
      BY <3>1 DEF TrailInv, TrailTyped
  <2>2. \A p \in 1 .. n : trail'[p].mark \in BOOLEAN
    BY <1>1 DEF TrailInv, TrailTyped
  <2>3. world' \in Int
    BY <1>2 DEF TrailInv, TrailTyped
  <2>4. QED
    BY <1>1, <1>3, <1>4, <2>1, <2>2, <2>3 DEF TrailTyped
<1>6. MarksNumbered'
  BY <1>2, <1>3 DEF TrailInv, MarksNumbered
<1>7. ASSUME NEW p \in Marks, trail[p].level > 0, NEW x \in DOMAIN mem
      PROVE  Restores(p, x)'
  <2>1. Restores(p, x) /\ p \in 1 .. n /\ trail'[p] = trail[p]
    BY <1>3, <1>7 DEF TrailInv
  <2>2. \A q \in 1 .. n : SavedAt(q, x)' <=> SavedAt(q, x)
    BY <1>1 DEF SavedAt, IsMark
  <2>3. CASE r.loc = x
    <3>1. mem'[x] = r.old
      BY <1>2, <1>7, <2>3 DEF TrailInv, TrailTyped
    <3>2. SavedAt(n + 1, x) /\ n + 1 \in p + 1 .. n + 1
      BY <1>1, <1>2, <2>1, <2>3 DEF SavedAt, r
    <3>3. PICK q \in p + 1 .. n + 1 : /\ SavedAt(q, x)
                                      /\ trail[q].old = trail[p].was[x]
                                      /\ \A t \in p + 1 .. q - 1 : ~SavedAt(t, x)
      BY <1>1, <2>1, <3>2 DEF Restores
    <3>4. CASE q = n + 1
      BY <1>1, <2>1, <2>2, <3>1, <3>3, <3>4 DEF Restores, r
    <3>5. CASE q # n + 1
      <4>1. q \in p + 1 .. n /\ q \in 1 .. n
        BY <1>1, <2>1, <3>3, <3>5
      <4>2. SavedAt(q, x)' /\ trail'[q] = trail[q]
        BY <1>1, <2>2, <3>3, <4>1
      <4>3. \A t \in p + 1 .. q - 1 : ~SavedAt(t, x)'
        BY <1>1, <2>1, <2>2, <3>3, <4>1
      <4>4. QED
        BY <1>1, <2>1, <3>3, <4>1, <4>2, <4>3 DEF Restores
    <3>6. QED
      BY <3>4, <3>5
  <2>4. CASE r.loc # x
    <3>1. mem'[x] = mem[x] /\ ~SavedAt(n + 1, x)
      BY <1>2, <1>7, <2>4 DEF SavedAt, r, TrailInv, TrailTyped
    <3>2. CASE mem[x] = trail[p].was[x] /\ \A q \in p + 1 .. n + 1 : ~SavedAt(q, x)
      BY <1>1, <2>1, <2>2, <3>1, <3>2 DEF Restores
    <3>3. CASE \E q \in p + 1 .. n + 1 : /\ SavedAt(q, x)
                                         /\ trail[q].old = trail[p].was[x]
                                         /\ \A t \in p + 1 .. q - 1 : ~SavedAt(t, x)
      <4>1. PICK q \in p + 1 .. n + 1 : /\ SavedAt(q, x)
                                        /\ trail[q].old = trail[p].was[x]
                                        /\ \A t \in p + 1 .. q - 1 : ~SavedAt(t, x)
        BY <3>3
      <4>2. q \in p + 1 .. n /\ q \in 1 .. n
        BY <1>1, <2>1, <3>1, <4>1
      <4>3. SavedAt(q, x)' /\ trail'[q] = trail[q]
        BY <1>1, <2>2, <4>1, <4>2
      <4>4. \A t \in p + 1 .. q - 1 : ~SavedAt(t, x)'
        BY <1>1, <2>1, <2>2, <4>1, <4>2
      <4>5. QED
        BY <1>1, <2>1, <4>1, <4>2, <4>3, <4>4 DEF Restores
    <3>4. QED
      BY <1>1, <2>1, <3>2, <3>3 DEF Restores
  <2>5. QED
    BY <2>3, <2>4
<1>8. QED
  BY <1>3, <1>4, <1>5, <1>6, <1>7 DEF TrailInv

LEMMA PopKeepsTrail ==
  ASSUME TrailInv, PopWorld
  PROVE  TrailInv'
<1> DEFINE n == Len(trail) - 1
<1>1. /\ IsSeq(trail') /\ n \in Nat /\ Len(trail) = n + 1 /\ Len(trail') = n
      /\ \A p \in 1 .. n : trail'[p] = trail[p]
  BY LastTaken DEF PopWorld, TrailInv, TrailTyped
<1>2. /\ IsMark(trail[n + 1]) /\ world' = world - 1 /\ UNCHANGED mem /\ world \in Int
  BY <1>1 DEF PopWorld, TrailInv, TrailTyped
<1> HIDE DEF n
<1>3. Marks' = Marks \ {n + 1} /\ Marks \subseteq 1 .. n + 1 /\ n + 1 \in Marks
  BY <1>1, <1>2 DEF Marks, IsMark
<1>4. \A p \in Marks' : p \in Marks /\ p \in 1 .. n /\ p < n + 1 /\ trail'[p] = trail[p]
  BY <1>1, <1>3
<1>5. TrailTyped'
  <2>1. ASSUME NEW p \in Marks'
        PROVE  trail'[p].was = [x \in DOMAIN mem |-> trail'[p].was[x]]
    <3>1. p \in Marks /\ trail'[p].was = trail[p].was
      BY <1>4
    <3>2. QED
      BY <3>1 DEF TrailInv, TrailTyped
  <2>2. \A p \in 1 .. n : trail'[p].mark \in BOOLEAN
    BY <1>1 DEF TrailInv, TrailTyped
  <2>3. mem = [x \in DOMAIN mem |-> mem[x]]
    BY DEF TrailInv, TrailTyped
  <2>4. QED
    BY <1>1, <1>2, <2>1, <2>2, <2>3 DEF TrailTyped
<1>6. MarksNumbered'
  <2>1. /\ \A p \in Marks : trail[p].level \in Int /\ trail[p].level <= world
        /\ \A p, q \in Marks : p < q => trail[p].level < trail[q].level
        /\ \A p, q \in Marks :
             p < q /\ (\A t \in Marks : t <= p \/ q <= t) => trail[q].level = trail[p].level + 1
    BY DEF TrailInv, MarksNumbered
  <2>2. trail[n + 1].level = world
    BY <1>1, <1>3 DEF TrailInv, MarksNumbered
  <2>3. ASSUME NEW p \in Marks'
        PROVE  trail'[p].level \in Int /\ trail'[p].level <= world'
    <3>1. trail[p].level \in Int /\ trail[p].level < world /\ trail'[p] = trail[p]
      BY <1>3, <1>4, <2>1, <2>2
    <3>2. QED
      BY <1>2, <3>1
  <2>4. ASSUME NEW p \in Marks', \A q \in Marks' : q <= p
        PROVE  trail'[p].level = world'
    <3>1. \A t \in Marks : t <= p \/ n + 1 <= t
      BY <1>1, <1>3, <2>4
    <3>2. trail[n + 1].level = trail[p].level + 1 /\ trail'[p] = trail[p]
                                                  /\ trail[p].level \in Int
      BY <1>3, <1>4, <2>1, <3>1
    <3>3. QED
      BY <1>2, <2>2, <3>2
  <2>5. \A p, q \in Marks' : p < q => trail'[p].level < trail'[q].level
    BY <1>4, <2>1
  <2>6. ASSUME NEW p \in Marks', NEW q \in Marks', p < q,
               \A t \in Marks' : t <= p \/ q <= t
        PROVE  trail'[q].level = trail'[p].level + 1
    <3>1. p \in Marks /\ q \in Marks /\ q <= n + 1 /\ trail'[p] = trail[p] /\ trail'[q] = trail[q]
      BY <1>1, <1>4
    <3>2. \A t \in Marks : t <= p \/ q <= t
      BY <1>3, <2>6, <3>1
    <3>3. QED
      BY <2>1, <2>6, <3>1, <3>2
  <2>7. QED
    BY <2>3, <2>4, <2>5, <2>6 DEF MarksNumbered
<1>7. ASSUME NEW p \in Marks', trail'[p].level > 0, NEW x \in DOMAIN mem
      PROVE  Restores(p, x)'
  <2>1. Restores(p, x) /\ p \in 1 .. n /\ trail'[p] = trail[p]
    BY <1>4, <1>7 DEF TrailInv
  <2>2. \A q \in 1 .. n : SavedAt(q, x)' <=> SavedAt(q, x)
    BY <1>1 DEF SavedAt, IsMark
  <2>3. ~SavedAt(n + 1, x)
    BY <1>2 DEF SavedAt
  <2>4. CASE mem[x] = trail[p].was[x] /\ \A q \in p + 1 .. n + 1 : ~SavedAt(q, x)
    BY <1>1, <1>2, <2>1, <2>2, <2>4 DEF Restores
  <2>5. CASE \E q \in p + 1 .. n + 1 : /\ SavedAt(q, x)
                                       /\ trail[q].old = trail[p].was[x]
                                       /\ \A t \in p + 1 .. q - 1 : ~SavedAt(t, x)
    <3>1. PICK q \in p + 1 .. n + 1 : /\ SavedAt(q, x)
                                      /\ trail[q].old = trail[p].was[x]
                                      /\ \A t \in p + 1 .. q - 1 : ~SavedAt(t, x)
      BY <2>5
    <3>2. q \in p + 1 .. n /\ q \in 1 .. n
      BY <1>1, <2>1, <2>3, <3>1
    <3>3. SavedAt(q, x)' /\ trail'[q] = trail[q]
      BY <1>1, <2>2, <3>1, <3>2
    <3>4. \A t \in p + 1 .. q - 1 : ~SavedAt(t, x)'
      BY <1>1, <2>1, <2>2, <3>1, <3>2
    <3>5. QED
      BY <1>1, <2>1, <3>1, <3>2, <3>3, <3>4 DEF Restores
  <2>6. QED
    BY <1>1, <2>1, <2>4, <2>5 DEF Restores
<1>8. QED
  BY <1>2, <1>5, <1>6, <1>7 DEF TrailInv

(* The lists of stores that the operations make are sequences.              *)
LEMMA ShortSequences ==
  ASSUME NEW a, NEW b, NEW c, NEW d
  PROVE  /\ IsSeq(<<>>) /\ IsSeq(<<a>>) /\ IsSeq(<<a, b>>)
         /\ IsSeq(<<a, b, c>>) /\ IsSeq(<<a, b, c, d>>)
<1>1. /\ <<>> \in Seq({a}) /\ <<a>> \in Seq({a}) /\ <<a, b>> \in Seq({a, b})
      /\ <<a, b, c>> \in Seq({a, b, c}) /\ <<a, b, c, d>> \in Seq({a, b, c, d})
  OBVIOUS
<1>2. QED
  BY <1>1 DEF IsSeq

LEMMA JoinedSequences ==
  ASSUME NEW s, NEW t, IsSeq(s), IsSeq(t)
  PROVE  IsSeq(s \o t)
<1>1. PICK S, T : s \in Seq(S) /\ t \in Seq(T)
  BY DEF IsSeq
<1>2. s \in Seq(S \cup T) /\ t \in Seq(S \cup T)
  BY <1>1
<1>3. s \o t \in Seq(S \cup T)
  BY <1>2, ConcatProperties
<1>4. QED
  BY <1>3 DEF IsSeq

LEMMA StoresAreSequences ==
  ASSUME NEW v, NEW i
  PROVE  /\ IsSeq(RemovedStores(v, i)) /\ IsSeq(AddedStores(v, i))
         /\ \A a : IsSeq(RemovedStores(v, i) \o <<<<Field(v, "value"), a>>>>)
<1>1. IsSeq(RemovedStores(v, i))
  BY ZenonT(120), ShortSequences, JoinedSequences, Zenon DEF RemovedStores
<1>2. IsSeq(AddedStores(v, i))
  BY ShortSequences, JoinedSequences, Zenon DEF AddedStores
<1>3. QED
  BY <1>1, <1>2, ShortSequences, JoinedSequences

LEMMA TrailStep == TrailInv /\ [Next]_vars => TrailInv'
<1> SUFFICES ASSUME TrailInv, [Next]_vars PROVE TrailInv'
  OBVIOUS
<1> USE DEF worlds
<1>1. ASSUME NEW v, NEW i, RemoveVal(v, i) \/ AddVal(v, i) \/ Instantiate(v, i)
      PROVE  TrailInv'
  <2>1. /\ UNCHANGED world
        /\ \/ UNCHANGED store
           \/ Store(RemovedStores(v, i)) \/ Store(AddedStores(v, i))
           \/ \E a : Store(RemovedStores(v, i) \o <<<<Field(v, "value"), a>>>>)
           \/ Store(<<<<Field(v, "value"), i>>, <<Field(v, "min"), i>>,
                      <<Field(v, "max"), i>>, <<Field(v, "card"), 1>>>>)
    BY <1>1 DEF RemoveVal, AddVal, Instantiate, Contradiction
  <2>2. \/ UNCHANGED <<store, world>>
        \/ \E ws : IsSeq(ws) /\ Store(ws)
    BY <2>1, StoresAreSequences, ShortSequences
  <2>3. QED
    BY <2>1, <2>2, TrailUnchanged, StoreKeeps
<1>2. ASSUME NEW b, NEW i, UpdateInf(b, i) \/ UpdateSup(b, i)
      PROVE  TrailInv'
  <2>1. /\ UNCHANGED world
        /\ \/ UNCHANGED store
           \/ Store(<<<<Field(b, "inf"), i>>>>) \/ Store(<<<<Field(b, "sup"), i>>>>)
    BY <1>2 DEF UpdateInf, UpdateSup, Contradiction
  <2>2. \/ UNCHANGED <<store, world>>
        \/ \E ws : IsSeq(ws) /\ Store(ws)
    BY <2>1, ShortSequences
  <2>3. QED
    BY <2>1, <2>2, TrailUnchanged, StoreKeeps
<1>3. ASSUME NEW count, NewWorld(count) PROVE TrailInv'
  BY <1>3, MarkKeeps DEF NewWorld
<1>4. CASE Protected
  BY <1>4, MarkKeeps DEF Protected
<1>5. CASE SetBacktrackLimit \/ Abandon \/ Propagate
  BY <1>5, TrailUnchanged DEF SetBacktrackLimit, Abandon, Propagate
<1>6. ASSUME NEW w, RestoreWorld(w) PROVE TrailInv'
  BY <1>6, TrailUnchanged DEF RestoreWorld
<1>7. CASE UndoStore
  BY <1>7, UndoKeeps
<1>8. CASE PopWorld
  BY <1>8, PopKeepsTrail
<1>9. CASE UNCHANGED vars
  BY <1>9, TrailUnchanged DEF vars
<1>10. QED
  BY <1>1, <1>2, <1>3, <1>4, <1>5, <1>6, <1>7, <1>8, <1>9 DEF Next

LEMMA TrailInvGivesWorldRestored == TrailInv => WorldRestored
<1> SUFFICES ASSUME TrailInv, trail # <<>>, IsMark(trail[Len(trail)]),
                    trail[Len(trail)].level > 0
             PROVE  mem = trail[Len(trail)].was
  BY DEF WorldRestored
<1> DEFINE n == Len(trail)
<1>1. n \in Nat \ {0}
  BY DEF TrailInv, TrailTyped, IsSeq
<1>2. n \in Marks
  BY <1>1 DEF Marks
<1>3. \A x \in DOMAIN mem : mem[x] = trail[n].was[x]
  BY <1>1, <1>2 DEF TrailInv, Restores
<1>4. /\ mem = [x \in DOMAIN mem |-> mem[x]]
      /\ trail[n].was = [x \in DOMAIN mem |-> trail[n].was[x]]
  BY <1>2 DEF TrailInv, TrailTyped
<1>5. [x \in DOMAIN mem |-> mem[x]] = [x \in DOMAIN mem |-> trail[n].was[x]]
  BY <1>3
<1>6. QED
  BY <1>4, <1>5

(* Backtracking (var.h:132-147) gives back the memory that a world was opened
   on, for any problem and any depth of worlds: the loop restores every field,
   although store() saves it anew each time and the pops run backwards over
   all of them.                                                             *)
THEOREM WorldIsRestored == Spec => []WorldRestored
  BY TrailAtFirst, TrailStep, TrailInvGivesWorldRestored, PTL DEF Spec

-----------------------------------------------------------------------------
(* The domains: values linked over their gaps, and what every operation on *)
(* them has to announce.                                                   *)

(* Values linked in an array d, apart from the variables.                   *)

NoneBetween(S, a, b) == \A c \in S : c <= a \/ b <= c

(* The value before k, as remove_val_variable finds it.                     *)
Before(d, k) == IF d[k - 1] = k THEN k - 2 ELSE d[k - 1]

(* The links lead from each value of S to the next one and back to the one
   before it; what the cells inside a gap hold does not matter.              *)
Chained(d, S, lo, hi) ==
  /\ lo \in S /\ hi \in S
  /\ \A c \in S : lo <= c /\ c <= hi
  /\ \A a, b \in S : a < b /\ NoneBetween(S, a, b) => d[a + 1] = b /\ Before(d, b) = a
  /\ d[hi + 1] > hi

Cells(N) == [0 .. N -> 0 .. Unknown]

Fixpoints(d) == {j \in DOMAIN d : d[j] = j}

LEMMA NextMember ==
  ASSUME NEW S \in SUBSET Nat, NEW a \in S, NEW hi \in S, a < hi
  PROVE  \E b \in S : a < b /\ NoneBetween(S, a, b)
<1> DEFINE T == {c \in S : a < c}
<1>1. PICK b \in T : \A c \in T : b <= c
  <2>1. T \in SUBSET Nat /\ T # {}
    OBVIOUS
  <2>2. QED
    BY <2>1, LeastNatural
<1>2. \A c \in S : c <= a \/ b <= c
  BY <1>1
<1>3. QED
  BY <1>1, <1>2 DEF NoneBetween

LEMMA PreviousMember ==
  ASSUME NEW S \in SUBSET Nat, NEW b \in S, NEW lo \in S, lo < b
  PROVE  \E a \in S : a < b /\ NoneBetween(S, a, b)
<1> DEFINE T == {k \in Nat : \E c \in S : c < b /\ k = b - c}
<1>1. PICK k \in T : \A j \in T : k <= j
  <2>1. b - lo \in T
    OBVIOUS
  <2>2. T \in SUBSET Nat /\ T # {}
    BY <2>1
  <2>3. QED
    BY <2>2, LeastNatural
<1>2. PICK a \in S : a < b /\ k = b - a
  BY <1>1
<1>3. \A c \in S : c <= a \/ b <= c
  <2>1. SUFFICES ASSUME NEW c \in S, c < b PROVE c <= a
    OBVIOUS
  <2>2. b - c \in T
    BY <2>1
  <2>3. k <= b - c
    BY <1>1, <2>2
  <2>4. QED
    BY <1>2, <2>3
<1>4. QED
  BY <1>2, <1>3 DEF NoneBetween

(* The links of a value, at both sides.                                     *)
LEMMA ChainGoesOn ==
  ASSUME NEW N \in Nat, NEW d \in Cells(N), NEW S \in SUBSET (0 .. N - 1),
         NEW lo, NEW hi, Chained(d, S, lo, hi), NEW a \in S
  PROVE  /\ a < hi => d[a + 1] \in S /\ a < d[a + 1] /\ NoneBetween(S, a, d[a + 1])
         /\ lo < a => Before(d, a) \in S /\ Before(d, a) < a /\ NoneBetween(S, Before(d, a), a)
         /\ a = hi => d[a + 1] > hi
         /\ d[a + 1] > a
<1>1. S \in SUBSET Nat /\ lo \in S /\ hi \in S
  BY DEF Chained
<1>2. ASSUME a < hi
      PROVE  d[a + 1] \in S /\ a < d[a + 1] /\ NoneBetween(S, a, d[a + 1])
  <2>1. PICK b \in S : a < b /\ NoneBetween(S, a, b)
    BY <1>1, <1>2, NextMember
  <2>2. d[a + 1] = b
    BY <2>1 DEF Chained
  <2>3. QED
    BY <2>1, <2>2
<1>3. ASSUME lo < a
      PROVE  Before(d, a) \in S /\ Before(d, a) < a /\ NoneBetween(S, Before(d, a), a)
  <2>1. PICK b \in S : b < a /\ NoneBetween(S, b, a)
    BY <1>1, <1>3, PreviousMember
  <2>2. Before(d, a) = b
    BY <2>1 DEF Chained
  <2>3. QED
    BY <2>1, <2>2
<1>4. a = hi => d[a + 1] > hi
  BY DEF Chained
<1>5. a <= hi
  BY DEF Chained
<1>6. d[a + 1] > a
  BY <1>1, <1>2, <1>4, <1>5
<1>7. QED
  BY <1>2, <1>3, <1>4, <1>6

LEMMA FirstRemoved ==
  ASSUME NEW N \in Nat, N < Unknown, NEW d \in Cells(N), NEW e \in Cells(N),
         NEW S \in SUBSET (0 .. N - 1), NEW lo, NEW hi, Chained(d, S, lo, hi), lo < hi,
         \A j \in 0 .. N : e[j] = IF j = lo THEN Unknown ELSE d[j]
  PROVE  Chained(e, S \ {lo}, d[lo + 1], hi)
<1> DEFINE b == d[lo + 1]
           R == S \ {lo}
<1>1. lo \in S /\ hi \in S /\ \A c \in S : lo <= c /\ c <= hi
  BY DEF Chained
<1>2. b \in S /\ lo < b /\ NoneBetween(S, lo, b)
  BY <1>1, ChainGoesOn
<1> HIDE DEF b
<1>3. \A c \in R : b <= c /\ c <= hi
  BY <1>1, <1>2 DEF NoneBetween
<1>4. ASSUME NEW a \in R, NEW c \in R, a < c, NoneBetween(R, a, c)
      PROVE  e[a + 1] = c /\ Before(e, c) = a
  <2>1. NoneBetween(S, a, c)
    BY <1>1, <1>4 DEF NoneBetween
  <2>2. d[a + 1] = c /\ Before(d, c) = a
    BY <1>4, <2>1 DEF Chained
  <2>3. lo < a /\ a + 1 \in 0 .. N /\ c - 1 \in 0 .. N /\ c - 1 # lo /\ a + 1 # lo
    BY <1>1, <1>2, <1>3, <1>4
  <2>4. e[a + 1] = d[a + 1] /\ e[c - 1] = d[c - 1]
    BY <2>3
  <2>5. QED
    BY <2>2, <2>4 DEF Before
<1>5. e[hi + 1] > hi
  <2>1. hi + 1 \in 0 .. N /\ hi + 1 # lo
    BY <1>1
  <2>2. QED
    BY <2>1 DEF Chained
<1>6. b \in R /\ hi \in R
  BY <1>1, <1>2
<1>7. QED
  BY <1>3, <1>4, <1>5, <1>6 DEF Chained, b

LEMMA LastRemoved ==
  ASSUME NEW N \in Nat, N < Unknown, NEW d \in Cells(N), NEW e \in Cells(N),
         NEW S \in SUBSET (0 .. N - 1), NEW lo, NEW hi, Chained(d, S, lo, hi), lo < hi,
         \A j \in 0 .. N : e[j] = IF j = hi THEN Unknown ELSE d[j]
  PROVE  Chained(e, S \ {hi}, lo, Before(d, hi))
<1> DEFINE b == Before(d, hi)
           R == S \ {hi}
<1>1. lo \in S /\ hi \in S /\ \A c \in S : lo <= c /\ c <= hi
  BY DEF Chained
<1>2. b \in S /\ b < hi /\ NoneBetween(S, b, hi)
  BY <1>1, ChainGoesOn
<1> HIDE DEF b
<1>3. \A c \in R : lo <= c /\ c <= b
  BY <1>1, <1>2 DEF NoneBetween
<1>4. ASSUME NEW a \in R, NEW c \in R, a < c, NoneBetween(R, a, c)
      PROVE  e[a + 1] = c /\ Before(e, c) = a
  <2>1. NoneBetween(S, a, c)
    BY <1>1, <1>4 DEF NoneBetween
  <2>2. d[a + 1] = c /\ Before(d, c) = a
    BY <1>4, <2>1 DEF Chained
  <2>3. c < hi /\ a + 1 \in 0 .. N /\ c - 1 \in 0 .. N /\ c - 1 # hi /\ a + 1 # hi
    BY <1>1, <1>2, <1>3, <1>4
  <2>4. e[a + 1] = d[a + 1] /\ e[c - 1] = d[c - 1]
    BY <2>3
  <2>5. QED
    BY <2>2, <2>4 DEF Before
<1>5. e[b + 1] > b
  <2>1. d[b + 1] = hi /\ b + 1 \in 0 .. N
    BY <1>1, <1>2 DEF Chained
  <2>2. e[b + 1] = Unknown \/ e[b + 1] = hi
    BY <2>1
  <2>3. QED
    BY <1>1, <1>2, <2>2 DEF Unknown
<1>6. b \in R /\ lo \in R
  BY <1>1, <1>2
<1>7. QED
  BY <1>3, <1>4, <1>5, <1>6 DEF Chained, b

LEMMA MiddleRemoved ==
  ASSUME NEW N \in Nat, N < Unknown, NEW d \in Cells(N), NEW e \in Cells(N),
         NEW S \in SUBSET (0 .. N - 1), NEW lo, NEW hi, Chained(d, S, lo, hi),
         NEW i \in S, lo < i, i < hi,
         NEW p, p = Before(d, i), NEW s, s = d[i + 1],
         \A j \in 0 .. N :
           e[j] = IF j = p + 1 THEN s
                  ELSE IF j = s - 1 /\ p + 2 # s THEN p
                  ELSE IF j = i /\ p # i - 1 THEN Unknown
                  ELSE d[j]
  PROVE  /\ Chained(e, S \ {i}, lo, hi)
         /\ p \in S /\ s \in S /\ p < i /\ i < s
<1> DEFINE R == S \ {i}
<1>1. lo \in S /\ hi \in S /\ \A c \in S : lo <= c /\ c <= hi
  BY DEF Chained
<1>2. /\ p \in S /\ p < i /\ NoneBetween(S, p, i)
      /\ s \in S /\ i < s /\ NoneBetween(S, i, s)
  BY <1>1, ChainGoesOn
<1>3. \A c \in R : c <= p \/ s <= c
  BY <1>1, <1>2 DEF NoneBetween
<1>4. ASSUME NEW a \in R, NEW c \in R, a < c, NoneBetween(R, a, c)
      PROVE  e[a + 1] = c /\ Before(e, c) = a
  <2>1. CASE a = p
    <3>1. c = s
      BY <1>2, <1>3, <1>4, <2>1 DEF NoneBetween
    <3>2. e[p + 1] = s /\ p + 1 \in 0 .. N /\ s - 1 \in 0 .. N
      BY <1>1, <1>2
    <3>3. CASE p + 2 = s
      <4>1. e[s - 1] = s
        BY <1>2, <3>2, <3>3
      <4>2. Before(e, s) = p
        BY <1>2, <3>3, <4>1 DEF Before
      <4>3. QED
        BY <2>1, <3>1, <3>2, <4>2
    <3>4. CASE p + 2 # s
      <4>1. e[s - 1] = p
        BY <1>2, <3>2, <3>4
      <4>2. Before(e, s) = p
        BY <1>2, <4>1 DEF Before
      <4>3. QED
        BY <2>1, <3>1, <3>2, <4>2
    <3>5. QED
      BY <3>3, <3>4
  <2>2. CASE a # p
    <3>1. c <= p \/ s <= a
      BY <1>2, <1>3, <1>4, <2>2 DEF NoneBetween
    <3>2. NoneBetween(S, a, c)
      BY <1>2, <1>4, <3>1 DEF NoneBetween
    <3>3. d[a + 1] = c /\ Before(d, c) = a
      BY <1>4, <3>2 DEF Chained
    <3>4. /\ a + 1 \in 0 .. N /\ c - 1 \in 0 .. N
          /\ a + 1 # p + 1 /\ a + 1 # s - 1 /\ a + 1 # i
          /\ c - 1 # p + 1 /\ c - 1 # s - 1 /\ c - 1 # i
      BY <1>1, <1>2, <1>4, <2>2, <3>1
    <3>5. e[a + 1] = d[a + 1] /\ e[c - 1] = d[c - 1]
      BY <3>4
    <3>6. QED
      BY <3>3, <3>5 DEF Before
  <2>3. QED
    BY <2>1, <2>2
<1>5. e[hi + 1] > hi
  <2>1. hi + 1 \in 0 .. N /\ hi + 1 # p + 1 /\ hi + 1 # s - 1 /\ hi + 1 # i
    BY <1>1, <1>2
  <2>2. QED
    BY <2>1 DEF Chained
<1>6. QED
  BY SMTT(60), <1>1, <1>2, <1>4, <1>5 DEF Chained

LEMMA LastAdded ==
  ASSUME NEW N \in Nat, N < Unknown, NEW d \in Cells(N), NEW e \in Cells(N),
         NEW S \in SUBSET (0 .. N - 1), NEW lo, NEW hi, Chained(d, S, lo, hi), d[hi] = hi,
         NEW i \in 0 .. N - 1, hi < i, d[i + 1] = Unknown,
         \A j \in 0 .. N :
           e[j] = IF j = hi + 1 /\ hi < i - 1 THEN i
                  ELSE IF j = i - 1 /\ hi < i - 2 THEN hi
                  ELSE IF j = i THEN i
                  ELSE d[j]
  PROVE  Chained(e, S \cup {i}, lo, i)
<1> DEFINE R == S \cup {i}
<1>1. lo \in S /\ hi \in S /\ \A c \in S : lo <= c /\ c <= hi
  BY DEF Chained
<1>2. \A c \in R : lo <= c /\ c <= i
  BY <1>1
<1>3. ASSUME NEW a \in R, NEW c \in R, a < c, NoneBetween(R, a, c)
      PROVE  e[a + 1] = c /\ Before(e, c) = a
  <2>1. CASE c = i
    <3>1. a = hi
      BY <1>1, <1>3, <2>1 DEF NoneBetween
    <3>2. hi + 1 \in 0 .. N /\ i - 1 \in 0 .. N
      BY <1>1
    <3>3. e[hi + 1] = i
      BY <1>1, <3>2
    <3>4. Before(e, i) = hi
      <4>1. CASE hi = i - 1
        BY <1>1, <3>2, <4>1 DEF Before
      <4>2. CASE hi = i - 2
        BY <1>1, <3>2, <4>2 DEF Before
      <4>3. CASE hi < i - 2
        BY <1>1, <3>2, <4>3 DEF Before
      <4>4. QED
        BY <1>1, <4>1, <4>2, <4>3
    <3>5. QED
      BY <2>1, <3>1, <3>3, <3>4
  <2>2. CASE c # i
    <3>1. a \in S /\ c \in S /\ NoneBetween(S, a, c) /\ c <= hi
      BY <1>1, <1>2, <1>3, <2>2 DEF NoneBetween
    <3>2. d[a + 1] = c /\ Before(d, c) = a
      BY <1>3, <3>1 DEF Chained
    <3>3. /\ a + 1 \in 0 .. N /\ c - 1 \in 0 .. N /\ a + 1 <= hi /\ c - 1 < hi
      BY <1>1, <1>3, <3>1
    <3>4. e[a + 1] = d[a + 1] /\ e[c - 1] = d[c - 1]
      BY <1>1, <3>3
    <3>5. QED
      BY <3>2, <3>4 DEF Before
  <2>3. QED
    BY <2>1, <2>2
<1>4. e[i + 1] > i
  <2>1. i + 1 \in 0 .. N
    OBVIOUS
  <2>2. e[i + 1] = Unknown
    BY <1>1, <2>1
  <2>3. QED
    BY <2>2 DEF Unknown
<1>5. QED
  BY <1>1, <1>2, <1>3, <1>4 DEF Chained

(* A loop that starts at a value of the chain, or above all of them, meets
   the values from there on and no other.                                   *)
LEMMA ChainIsWalked ==
  ASSUME NEW N \in Nat, NEW d \in Cells(N), NEW S \in SUBSET (0 .. N - 1),
         NEW lo, NEW hi, Chained(d, S, lo, hi),
         NEW first \in Nat, first \in S \/ first > hi
  PROVE  Reached([i \in 0 .. hi |-> d[i + 1]], hi, first) = {j \in S : first <= j}
<1> DEFINE next == [i \in 0 .. hi |-> d[i + 1]]
           W    == {j \in S : first <= j}
           Closed(C) == /\ C \in SUBSET (0 .. hi)
                        /\ first <= hi => first \in C
                        /\ \A i \in C : next[i] <= hi => next[i] \in C
<1>1. /\ S \in SUBSET Nat /\ S \subseteq 0 .. hi /\ hi \in S /\ hi \in Nat
      /\ \A i \in 0 .. hi : next[i] = d[i + 1]
      /\ W \subseteq S /\ \A j \in S : j \in W <=> first <= j
      /\ d[hi + 1] \in Int /\ d[hi + 1] > hi
  <2>1. hi \in S /\ d[hi + 1] > hi /\ S \subseteq 0 .. hi
    BY DEF Chained
  <2>2. hi + 1 \in 0 .. N
    BY <2>1
  <2>3. d[hi + 1] \in Int
    BY SMTT(60), <2>2 DEF Cells, Unknown
  <2>4. QED
    BY <2>1, <2>3
<1> HIDE DEF next, W
<1>2. Closed(W)
  <2>1. ASSUME NEW i \in W, next[i] <= hi
        PROVE  next[i] \in W
    <3>1. i \in S /\ first <= i /\ i <= hi /\ next[i] = d[i + 1]
      BY <1>1
    <3>2. i # hi
      BY <1>1, <2>1, <3>1
    <3>3. d[i + 1] \in S /\ i < d[i + 1]
      BY <1>1, <3>1, <3>2, ChainGoesOn
    <3>4. i \in Nat /\ d[i + 1] \in Nat
      BY <1>1, <3>1, <3>3
    <3>5. first <= d[i + 1]
      BY <3>1, <3>3, <3>4
    <3>6. QED
      BY <1>1, <3>1, <3>3, <3>5
  <2>2. W \in SUBSET (0 .. hi) /\ (first <= hi => first \in W)
    BY <1>1
  <2>3. QED
    BY <2>1, <2>2
<1>3. ASSUME NEW C, Closed(C)
      PROVE  W \subseteq C
  <2> DEFINE Missed == {j \in W : j \notin C}
  <2>1. SUFFICES ASSUME Missed # {} PROVE FALSE
    OBVIOUS
  <2>2. PICK j \in Missed : \A k \in Missed : j <= k
    <3>1. Missed \in SUBSET Nat
      BY <1>1
    <3>2. QED
      BY <2>1, <3>1, LeastNatural
  <2>3. j \in S /\ first <= j /\ j \notin C /\ j <= hi
    BY <1>1, <2>2
  <2>4. j # first /\ first \in S /\ first < j
    BY <1>1, <1>3, <2>3
  <2>5. PICK a \in S : a < j /\ NoneBetween(S, a, j)
    BY <1>1, <2>3, <2>4, PreviousMember
  <2>6. first <= a /\ d[a + 1] = j
    BY <1>1, <2>3, <2>4, <2>5 DEF NoneBetween, Chained
  <2>7. a \in C
    BY <1>1, <2>2, <2>5, <2>6
  <2>8. next[a] = j
    BY <1>1, <2>5, <2>6
  <2>9. QED
    BY <1>3, <2>3, <2>7, <2>8
<1>4. Reached(next, hi, first) = {i \in 0 .. hi : \A C : Closed(C) => i \in C}
  BY DEF Reached
<1> HIDE DEF Closed
<1>5. W \subseteq 0 .. hi
  BY <1>1
<1>6. Reached(next, hi, first) = W
  BY <1>2, <1>3, <1>4, <1>5
<1>7. QED
  BY <1>6 DEF W, next

-----------------------------------------------------------------------------
(* What a list of stores leaves in a field.                                 *)

Final(ws, x, old) ==
  IF Writes(ws, x) = {} THEN old ELSE ws[LatestOf(Writes(ws, x))][2]

LEMMA GreatestIndex ==
  ASSUME NEW n \in Nat, NEW S \in SUBSET (1 .. n), S # {}
  PROVE  \E m \in S : \A k \in S : k <= m
<1> DEFINE T == {k \in Nat : \E c \in S : k = n - c}
<1>1. PICK k \in T : \A j \in T : k <= j
  <2>1. T \in SUBSET Nat /\ T # {}
    <3>1. PICK c \in S : TRUE
      OBVIOUS
    <3>2. n - c \in T
      BY <3>1
    <3>3. QED
      BY <3>2
  <2>2. QED
    BY <2>1, LeastNatural
<1>2. PICK m \in S : k = n - m
  BY <1>1
<1>3. ASSUME NEW c \in S PROVE c <= m
  <2>1. n - c \in T
    OBVIOUS
  <2>2. k <= n - c
    BY <1>1, <2>1
  <2>3. c \in Nat /\ m \in Nat /\ n \in Nat
    OBVIOUS
  <2> HIDE DEF T
  <2>4. QED
    BY <1>2, <2>2, <2>3
<1>4. QED
  BY <1>3

LEMMA LatestIsGreatest ==
  ASSUME NEW n \in Nat, NEW S \in SUBSET (1 .. n), NEW m \in S, \A k \in S : k <= m
  PROVE  LatestOf(S) = m
<1> DEFINE l == LatestOf(S)
<1>1. l \in S /\ \A k \in S : k <= l
  BY DEF LatestOf
<1> HIDE DEF l
<1>2. l <= m /\ m <= l /\ l \in Int /\ m \in Int
  BY <1>1
<1>3. QED
  BY <1>2 DEF l

LEMMA FinalOfJoin ==
  ASSUME NEW s, NEW t, IsSeq(s), IsSeq(t), NEW x, NEW old
  PROVE  Final(s \o t, x, old) = Final(t, x, Final(s, x, old))
<1> DEFINE n == Len(s)
           m == Len(t)
           u == s \o t
<1>1. /\ n \in Nat /\ m \in Nat /\ DOMAIN s = 1 .. n /\ DOMAIN t = 1 .. m
      /\ DOMAIN u = 1 .. n + m
      /\ \A k \in 1 .. n : u[k] = s[k]
      /\ \A k \in 1 .. m : u[n + k] = t[k]
  <2>1. PICK S, T : s \in Seq(S) /\ t \in Seq(T)
    BY DEF IsSeq
  <2>2. s \in Seq(S \cup T) /\ t \in Seq(S \cup T)
    BY <2>1
  <2>3. /\ u \in Seq(S \cup T) /\ Len(u) = n + m
        /\ \A k \in 1 .. n + m : u[k] = IF k <= n THEN s[k] ELSE t[k - n]
    BY <2>2, ConcatProperties
  <2>4. n \in Nat /\ m \in Nat /\ DOMAIN s = 1 .. n /\ DOMAIN t = 1 .. m /\ DOMAIN u = 1 .. n + m
    BY <2>2, <2>3, LenProperties
  <2> HIDE DEF n, m, u
  <2>5. ASSUME NEW k \in 1 .. m PROVE u[n + k] = t[k]
    <3>1. n + k \in 1 .. n + m /\ ~(n + k <= n) /\ (n + k) - n = k
      BY <2>4
    <3>2. QED
      BY <2>3, <3>1
  <2>6. ASSUME NEW k \in 1 .. n PROVE u[k] = s[k]
    BY <2>3, <2>4
  <2>7. QED
    BY <2>4, <2>5, <2>6
<1> HIDE DEF n, m, u
<1>2. /\ Writes(s, x) = {j \in 1 .. n : s[j][1] = x}
      /\ Writes(t, x) = {j \in 1 .. m : t[j][1] = x}
      /\ Writes(u, x) = {j \in 1 .. n + m : u[j][1] = x}
  BY <1>1 DEF Writes
<1>3. CASE Writes(t, x) # {}
  <2>1. PICK k \in Writes(t, x) : \A j \in Writes(t, x) : j <= k
    BY <1>1, <1>2, <1>3, GreatestIndex
  <2>2. k \in 1 .. m /\ n + k \in Writes(u, x)
    BY <1>1, <1>2, <2>1
  <2>3. ASSUME NEW j \in Writes(u, x) PROVE j <= n + k
    <3>1. CASE j <= n
      BY <1>1, <1>2, <2>2, <3>1
    <3>2. CASE ~(j <= n)
      <4>1. j - n \in 1 .. m /\ j = n + (j - n) /\ u[j][1] = x
        BY <1>1, <1>2, <3>2
      <4>2. u[j] = t[j - n]
        BY <1>1, <4>1
      <4>3. j - n \in Writes(t, x)
        BY <1>2, <4>1, <4>2
      <4>4. QED
        BY <1>1, <2>1, <2>2, <4>1, <4>3
    <3>3. QED
      BY <3>1, <3>2
  <2>4. LatestOf(Writes(u, x)) = n + k
    <3>1. n + m \in Nat /\ Writes(u, x) \in SUBSET (1 .. n + m)
      BY <1>1, <1>2
    <3>2. QED
      BY <2>2, <2>3, <3>1, LatestIsGreatest
  <2>5. LatestOf(Writes(t, x)) = k
    BY <1>1, <1>2, <2>1, LatestIsGreatest
  <2>6. u[n + k] = t[k] /\ Writes(u, x) # {}
    BY <1>1, <2>2
  <2>7. QED
    BY <1>3, <2>4, <2>5, <2>6 DEF Final, u
<1>4. CASE Writes(t, x) = {}
  <2>1. Writes(u, x) = Writes(s, x)
    <3>1. ASSUME NEW j \in Writes(u, x) PROVE j \in Writes(s, x)
      <4>1. CASE j <= n
        BY <1>1, <1>2, <4>1
      <4>2. CASE ~(j <= n)
        <5>1. j - n \in 1 .. m /\ j = n + (j - n) /\ u[j][1] = x
          BY <1>1, <1>2, <4>2
        <5>2. u[j] = t[j - n]
          BY <1>1, <5>1
        <5>3. QED
          BY <1>2, <1>4, <5>1, <5>2
      <4>3. QED
        BY <4>1, <4>2
    <3>2. Writes(s, x) \subseteq Writes(u, x)
      BY <1>1, <1>2
    <3>3. QED
      BY <3>1, <3>2
  <2>2. ASSUME Writes(s, x) # {}
        PROVE  u[LatestOf(Writes(s, x))] = s[LatestOf(Writes(s, x))]
    <3>1. PICK k \in Writes(s, x) : \A j \in Writes(s, x) : j <= k
      BY <1>1, <1>2, <2>2, GreatestIndex
    <3>2. LatestOf(Writes(s, x)) = k
      BY <1>1, <1>2, <3>1, LatestIsGreatest
    <3>3. QED
      BY <1>1, <1>2, <3>2
  <2>3. QED
    BY <1>4, <2>1, <2>2 DEF Final, u
<1>5. QED
  BY <1>3, <1>4

LEMMA FinalIs ==
  ASSUME NEW n \in Nat, NEW ws, DOMAIN ws = 1 .. n, NEW x, NEW old
  PROVE  /\ \A k \in 1 .. n :
              ws[k][1] = x /\ (\A j \in k + 1 .. n : ws[j][1] # x) => Final(ws, x, old) = ws[k][2]
         /\ (\A k \in 1 .. n : ws[k][1] # x) => Final(ws, x, old) = old
<1>1. Writes(ws, x) = {j \in 1 .. n : ws[j][1] = x}
  BY DEF Writes
<1>2. ASSUME NEW k \in 1 .. n, ws[k][1] = x, \A j \in k + 1 .. n : ws[j][1] # x
      PROVE  Final(ws, x, old) = ws[k][2]
  <2>1. k \in Writes(ws, x) /\ Writes(ws, x) \in SUBSET (1 .. n)
    BY <1>1, <1>2
  <2>2. \A j \in Writes(ws, x) : j <= k
    BY <1>1, <1>2
  <2>3. LatestOf(Writes(ws, x)) = k
    BY <2>1, <2>2, LatestIsGreatest
  <2>4. QED
    BY <2>1, <2>3 DEF Final
<1>3. ASSUME \A k \in 1 .. n : ws[k][1] # x
      PROVE  Final(ws, x, old) = old
  BY <1>1, <1>3 DEF Final
<1>4. QED
  BY <1>2, <1>3

LEMMA FinalOfNone ==
  ASSUME NEW x, NEW old
  PROVE  Final(<<>>, x, old) = old
<1>1. Writes(<<>>, x) = {}
  BY DEF Writes
<1>2. QED
  BY <1>1 DEF Final

LEMMA FinalOfOne ==
  ASSUME NEW x, NEW old, NEW y1, NEW n1
  PROVE  Final(<<<<y1, n1>>>>, x, old) =
           IF x = y1 THEN n1 ELSE old
<1> DEFINE ws == <<<<y1, n1>>>>
<1>1. /\ DOMAIN ws = 1 .. 1
      /\ ws[1][1] = y1 /\ ws[1][2] = n1
  OBVIOUS
<1> HIDE DEF ws
<1>2. PICK n \in Nat : n = 1
  OBVIOUS
<1>3. DOMAIN ws = 1 .. n
  BY <1>1, <1>2
<1>4. /\ \A k \in 1 .. n : ws[k][1] = x /\ (\A j \in k + 1 .. n : ws[j][1] # x)
                       => Final(ws, x, old) = ws[k][2]
      /\ (\A k \in 1 .. n : ws[k][1] # x) => Final(ws, x, old) = old
  BY <1>3, FinalIs
<1>5. Final(ws, x, old) =
        IF x = y1 THEN n1 ELSE old
  BY <1>1, <1>2, <1>4
<1>6. QED
  BY <1>5 DEF ws

LEMMA FinalOfTwo ==
  ASSUME NEW x, NEW old, NEW y1, NEW n1, NEW y2, NEW n2
  PROVE  Final(<<<<y1, n1>>, <<y2, n2>>>>, x, old) =
           IF x = y2 THEN n2 ELSE IF x = y1 THEN n1 ELSE old
<1> DEFINE ws == <<<<y1, n1>>, <<y2, n2>>>>
<1>1. /\ DOMAIN ws = 1 .. 2
      /\ ws[1][1] = y1 /\ ws[1][2] = n1
      /\ ws[2][1] = y2 /\ ws[2][2] = n2
  OBVIOUS
<1> HIDE DEF ws
<1>2. PICK n \in Nat : n = 2
  OBVIOUS
<1>3. DOMAIN ws = 1 .. n
  BY <1>1, <1>2
<1>4. /\ \A k \in 1 .. n : ws[k][1] = x /\ (\A j \in k + 1 .. n : ws[j][1] # x)
                       => Final(ws, x, old) = ws[k][2]
      /\ (\A k \in 1 .. n : ws[k][1] # x) => Final(ws, x, old) = old
  BY <1>3, FinalIs
<1>5. Final(ws, x, old) =
        IF x = y2 THEN n2 ELSE IF x = y1 THEN n1 ELSE old
  BY <1>1, <1>2, <1>4
<1>6. QED
  BY <1>5 DEF ws

LEMMA FinalOfThree ==
  ASSUME NEW x, NEW old, NEW y1, NEW n1, NEW y2, NEW n2, NEW y3, NEW n3
  PROVE  Final(<<<<y1, n1>>, <<y2, n2>>, <<y3, n3>>>>, x, old) =
           IF x = y3 THEN n3 ELSE IF x = y2 THEN n2 ELSE IF x = y1 THEN n1 ELSE old
<1> DEFINE ws == <<<<y1, n1>>, <<y2, n2>>, <<y3, n3>>>>
<1>1. /\ DOMAIN ws = 1 .. 3
      /\ ws[1][1] = y1 /\ ws[1][2] = n1
      /\ ws[2][1] = y2 /\ ws[2][2] = n2
      /\ ws[3][1] = y3 /\ ws[3][2] = n3
  OBVIOUS
<1> HIDE DEF ws
<1>2. PICK n \in Nat : n = 3
  OBVIOUS
<1>3. DOMAIN ws = 1 .. n
  BY <1>1, <1>2
<1>4. /\ \A k \in 1 .. n : ws[k][1] = x /\ (\A j \in k + 1 .. n : ws[j][1] # x)
                       => Final(ws, x, old) = ws[k][2]
      /\ (\A k \in 1 .. n : ws[k][1] # x) => Final(ws, x, old) = old
  BY <1>3, FinalIs
<1>5. Final(ws, x, old) =
        IF x = y3 THEN n3 ELSE IF x = y2 THEN n2 ELSE IF x = y1 THEN n1 ELSE old
  BY <1>1, <1>2, <1>4
<1>6. QED
  BY <1>5 DEF ws

LEMMA FinalOfFour ==
  ASSUME NEW x, NEW old, NEW y1, NEW n1, NEW y2, NEW n2, NEW y3, NEW n3, NEW y4, NEW n4
  PROVE  Final(<<<<y1, n1>>, <<y2, n2>>, <<y3, n3>>, <<y4, n4>>>>, x, old) =
           IF x = y4 THEN n4 ELSE IF x = y3 THEN n3
             ELSE IF x = y2 THEN n2 ELSE IF x = y1 THEN n1 ELSE old
<1> DEFINE ws == <<<<y1, n1>>, <<y2, n2>>, <<y3, n3>>, <<y4, n4>>>>
<1>1. /\ DOMAIN ws = 1 .. 4
      /\ ws[1][1] = y1 /\ ws[1][2] = n1
      /\ ws[2][1] = y2 /\ ws[2][2] = n2
      /\ ws[3][1] = y3 /\ ws[3][2] = n3
      /\ ws[4][1] = y4 /\ ws[4][2] = n4
  OBVIOUS
<1> HIDE DEF ws
<1>2. PICK n \in Nat : n = 4
  OBVIOUS
<1>3. DOMAIN ws = 1 .. n
  BY <1>1, <1>2
<1>4. /\ \A k \in 1 .. n : ws[k][1] = x /\ (\A j \in k + 1 .. n : ws[j][1] # x)
                       => Final(ws, x, old) = ws[k][2]
      /\ (\A k \in 1 .. n : ws[k][1] # x) => Final(ws, x, old) = old
  BY <1>3, FinalIs
<1>5. Final(ws, x, old) =
        IF x = y4 THEN n4 ELSE IF x = y3 THEN n3
          ELSE IF x = y2 THEN n2 ELSE IF x = y1 THEN n1 ELSE old
  BY <1>1, <1>2, <1>4
<1>6. QED
  BY <1>5 DEF ws

LEMMA StoreLeaves ==
  ASSUME NEW ws, Store(ws)
  PROVE  /\ DOMAIN mem' = DOMAIN mem
         /\ \A x \in DOMAIN mem : mem'[x] = Final(ws, x, mem[x])
  BY DEF Store, Final

LEMMA RemovedLeaves ==
  ASSUME NEW v, NEW i, NEW x, NEW old,
         NEW p, p = Before(Dom(v), i), NEW s, s = Dom(v)[i + 1],
         NEW c, c = mem[Field(v, "card")] - 1,
         NEW lo, lo = mem[Field(v, "min")], NEW hi, hi = mem[Field(v, "max")]
  PROVE  /\ i = lo =>
              Final(RemovedStores(v, i), x, old) =
                IF x = Bucket(v, i) THEN Unknown
                ELSE IF x = Field(v, "min") THEN s
                ELSE IF x = Field(v, "card") THEN c ELSE old
         /\ i # lo /\ i = hi =>
              Final(RemovedStores(v, i), x, old) =
                IF x = Bucket(v, i) THEN Unknown
                ELSE IF x = Field(v, "max") THEN p
                ELSE IF x = Field(v, "card") THEN c ELSE old
         /\ i # lo /\ i # hi =>
              Final(RemovedStores(v, i), x, old) =
                IF x = Bucket(v, p + 1) THEN s
                ELSE IF x = Bucket(v, s - 1) /\ p + 2 # s THEN p
                ELSE IF x = Bucket(v, i) /\ p # i - 1 THEN Unknown
                ELSE IF x = Field(v, "card") THEN c ELSE old
<1> DEFINE first == <<<<Field(v, "card"), c>>>>
           low   == <<<<Field(v, "min"), s>>, <<Bucket(v, i), Unknown>>>>
           high  == <<<<Field(v, "max"), p>>, <<Bucket(v, i), Unknown>>>>
           own   == IF p # i - 1 THEN <<<<Bucket(v, i), Unknown>>>> ELSE <<>>
           right == IF p + 2 # s THEN <<<<Bucket(v, s - 1), p>>>> ELSE <<>>
           left  == <<<<Bucket(v, p + 1), s>>>>
<1>1. RemovedStores(v, i) =
        first \o (IF i = lo THEN low ELSE IF i = hi THEN high ELSE (own \o right) \o left)
  BY Zenon DEF RemovedStores, Before
<1>2. /\ IsSeq(first) /\ IsSeq(low) /\ IsSeq(high) /\ IsSeq(own) /\ IsSeq(right) /\ IsSeq(left)
      /\ IsSeq(own \o right) /\ IsSeq((own \o right) \o left)
  BY ShortSequences, JoinedSequences, Zenon
<1>3. ASSUME NEW o
      PROVE  /\ Final(first, x, o) = IF x = Field(v, "card") THEN c ELSE o
             /\ Final(low, x, o) = IF x = Bucket(v, i) THEN Unknown
                                   ELSE IF x = Field(v, "min") THEN s ELSE o
             /\ Final(high, x, o) = IF x = Bucket(v, i) THEN Unknown
                                    ELSE IF x = Field(v, "max") THEN p ELSE o
             /\ Final(own, x, o) = IF x = Bucket(v, i) /\ p # i - 1 THEN Unknown ELSE o
             /\ Final(right, x, o) = IF x = Bucket(v, s - 1) /\ p + 2 # s THEN p ELSE o
             /\ Final(left, x, o) = IF x = Bucket(v, p + 1) THEN s ELSE o
  <2>1. Final(own, x, o) = IF x = Bucket(v, i) /\ p # i - 1 THEN Unknown ELSE o
    BY FinalOfNone, FinalOfOne
  <2>2. Final(right, x, o) = IF x = Bucket(v, s - 1) /\ p + 2 # s THEN p ELSE o
    BY FinalOfNone, FinalOfOne
  <2>3. Final(low, x, o) = IF x = Bucket(v, i) THEN Unknown
                           ELSE IF x = Field(v, "min") THEN s ELSE o
    BY FinalOfTwo
  <2>4. Final(high, x, o) = IF x = Bucket(v, i) THEN Unknown
                            ELSE IF x = Field(v, "max") THEN p ELSE o
    BY FinalOfTwo
  <2>5. QED
    BY <2>1, <2>2, <2>3, <2>4, FinalOfOne
<1> HIDE DEF first, low, high, own, right, left
<1>4. i = lo => Final(RemovedStores(v, i), x, old) = Final(low, x, Final(first, x, old))
  BY <1>1, <1>2, FinalOfJoin
<1>5. i # lo /\ i = hi => Final(RemovedStores(v, i), x, old) = Final(high, x, Final(first, x, old))
  BY <1>1, <1>2, FinalOfJoin
<1>6. i # lo /\ i # hi =>
        Final(RemovedStores(v, i), x, old) =
          Final(left, x, Final(right, x, Final(own, x, Final(first, x, old))))
  <2>1. SUFFICES ASSUME i # lo /\ i # hi
                 PROVE  Final(RemovedStores(v, i), x, old) =
                          Final(left, x, Final(right, x, Final(own, x, Final(first, x, old))))
    OBVIOUS
  <2>2. Final(RemovedStores(v, i), x, old) = Final((own \o right) \o left, x, Final(first, x, old))
    BY <1>1, <1>2, <2>1, FinalOfJoin
  <2>3. \A o : Final((own \o right) \o left, x, o) = Final(left, x, Final(own \o right, x, o))
    BY <1>2, FinalOfJoin
  <2>4. \A o : Final(own \o right, x, o) = Final(right, x, Final(own, x, o))
    BY <1>2, FinalOfJoin
  <2>5. QED
    BY <2>2, <2>3, <2>4
<1>7. QED
  BY <1>3, <1>4, <1>5, <1>6

LEMMA ValueLeft ==
  ASSUME NEW v, NEW i, NEW x, NEW old, NEW a
  PROVE  Final(RemovedStores(v, i) \o <<<<Field(v, "value"), a>>>>, x, old) =
           IF x = Field(v, "value") THEN a ELSE Final(RemovedStores(v, i), x, old)
<1> DEFINE last == <<<<Field(v, "value"), a>>>>
<1>1. IsSeq(last) /\ IsSeq(RemovedStores(v, i))
  BY ShortSequences, StoresAreSequences
<1>2. \A o : Final(last, x, o) = IF x = Field(v, "value") THEN a ELSE o
  BY FinalOfOne
<1> HIDE DEF last
<1>3. Final(RemovedStores(v, i) \o last, x, old) = Final(last, x, Final(RemovedStores(v, i), x, old))
  BY <1>1, FinalOfJoin
<1>4. QED
  BY <1>2, <1>3 DEF last

LEMMA AddedLeaves ==
  ASSUME NEW v, NEW i, NEW x, NEW old,
         NEW c, c = mem[Field(v, "card")] + 1, NEW hi, hi = mem[Field(v, "max")]
  PROVE  Final(AddedStores(v, i), x, old) =
           IF x = Field(v, "producers_nb") THEN i + 1
           ELSE IF x = Field(v, "value") /\ Known(v) THEN Unknown
           ELSE IF x = Bucket(v, hi + 1) /\ hi < i - 1 THEN i
           ELSE IF x = Bucket(v, i - 1) /\ hi < i - 2 THEN hi
           ELSE IF x = Field(v, "card") THEN c
           ELSE IF x = Field(v, "max") THEN i
           ELSE IF x = Bucket(v, i) THEN i ELSE old
<1> DEFINE first == <<<<Bucket(v, i), i>>, <<Field(v, "max"), i>>, <<Field(v, "card"), c>>>>
           right == IF hi < i - 2 THEN <<<<Bucket(v, i - 1), hi>>>> ELSE <<>>
           left  == IF hi < i - 1 THEN <<<<Bucket(v, hi + 1), i>>>> ELSE <<>>
           value == IF Known(v) THEN <<<<Field(v, "value"), Unknown>>>> ELSE <<>>
           last  == <<<<Field(v, "producers_nb"), i + 1>>>>
<1>1. AddedStores(v, i) = (((first \o right) \o left) \o value) \o last
  BY Zenon DEF AddedStores
<1>2. /\ IsSeq(first) /\ IsSeq(right) /\ IsSeq(left) /\ IsSeq(value) /\ IsSeq(last)
      /\ IsSeq(first \o right) /\ IsSeq((first \o right) \o left)
      /\ IsSeq(((first \o right) \o left) \o value)
  BY ShortSequences, JoinedSequences, Zenon
<1>3. ASSUME NEW o
      PROVE  /\ Final(first, x, o) = IF x = Field(v, "card") THEN c
                                     ELSE IF x = Field(v, "max") THEN i
                                     ELSE IF x = Bucket(v, i) THEN i ELSE o
             /\ Final(right, x, o) = IF x = Bucket(v, i - 1) /\ hi < i - 2 THEN hi ELSE o
             /\ Final(left, x, o) = IF x = Bucket(v, hi + 1) /\ hi < i - 1 THEN i ELSE o
             /\ Final(value, x, o) = IF x = Field(v, "value") /\ Known(v) THEN Unknown ELSE o
             /\ Final(last, x, o) = IF x = Field(v, "producers_nb") THEN i + 1 ELSE o
  <2>1. Final(right, x, o) = IF x = Bucket(v, i - 1) /\ hi < i - 2 THEN hi ELSE o
    BY FinalOfNone, FinalOfOne
  <2>2. Final(left, x, o) = IF x = Bucket(v, hi + 1) /\ hi < i - 1 THEN i ELSE o
    BY FinalOfNone, FinalOfOne
  <2>3. Final(value, x, o) = IF x = Field(v, "value") /\ Known(v) THEN Unknown ELSE o
    BY FinalOfNone, FinalOfOne
  <2>4. QED
    BY <2>1, <2>2, <2>3, FinalOfOne, FinalOfThree
<1> HIDE DEF first, right, left, value, last
<1>4. Final(AddedStores(v, i), x, old) =
        Final(last, x, Final(value, x, Final(left, x, Final(right, x, Final(first, x, old)))))
  <2>1. Final(AddedStores(v, i), x, old) =
          Final(last, x, Final(((first \o right) \o left) \o value, x, old))
    BY <1>1, <1>2, FinalOfJoin
  <2>2. Final(((first \o right) \o left) \o value, x, old) =
          Final(value, x, Final((first \o right) \o left, x, old))
    BY <1>2, FinalOfJoin
  <2>3. Final((first \o right) \o left, x, old) = Final(left, x, Final(first \o right, x, old))
    BY <1>2, FinalOfJoin
  <2>4. Final(first \o right, x, old) = Final(right, x, Final(first, x, old))
    BY <1>2, FinalOfJoin
  <2>5. QED
    BY <2>1, <2>2, <2>3, <2>4
<1>5. QED
  BY <1>3, <1>4

-----------------------------------------------------------------------------
(* The domain of v in a memory m.                                           *)

Room(v)     == made[v].n + made[v].sup
Array(m, v) == [i \in 0 .. Room(v) |-> m[Bucket(v, i)]]

Values(m, v) ==
  IF m[Field(v, "value")] # Unknown
    THEN {m[Field(v, "value")]}
    ELSE Fixpoints(Array(m, v))

Linked(m, v) ==
  /\ Array(m, v) \in Cells(Room(v))
  /\ m[Field(v, "producers_nb")] \in 1 .. Room(v)
  /\ Values(m, v) \subseteq 0 .. m[Field(v, "producers_nb")] - 1
  /\ Chained(Array(m, v), Values(m, v), m[Field(v, "min")], m[Field(v, "max")])
  /\ \A j \in m[Field(v, "producers_nb")] .. Room(v) : m[Bucket(v, j)] = Unknown
  /\ Values(m, v) \subseteq Fixpoints(Array(m, v))
  /\ m[Field(v, "card")] = Cardinality(Values(m, v))
  /\ m[Field(v, "min")] = m[Field(v, "max")] => m[Field(v, "value")] # Unknown

ShapeInv ==
  /\ made \in Problems
  /\ DOMAIN mem = UNION {FieldsOf(v, made[v]) : v \in DOMAIN made}

EnumNames == {"min", "max", "card", "value", "producers_nb"}

LEMMA FieldsThere ==
  ASSUME ShapeInv, NEW v \in MadeEnums
  PROVE  /\ Room(v) \in Nat /\ Room(v) < Unknown /\ made[v].n \in Nat \ {0}
         /\ made[v].sup \in Nat
         /\ \A f \in EnumNames : Field(v, f) \in DOMAIN mem
         /\ \A j \in 0 .. Room(v) : Bucket(v, j) \in DOMAIN mem
<1>1. v \in Enums /\ v \in DOMAIN made
  BY DEF MadeEnums
<1>2. /\ made \in [DOMAIN made -> [n : Nat \ {0}, sup : Nat]]
      /\ made[v].n + made[v].sup < Unknown
  BY <1>1, KernelAssumption DEF ShapeInv, KernelAssumption
<1>3. made[v].n \in Nat \ {0} /\ made[v].sup \in Nat
  BY <1>1, <1>2
<1>4. FieldsOf(v, made[v]) \subseteq DOMAIN mem
  BY <1>1 DEF ShapeInv
<1>5. FieldsOf(v, made[v]) = {Field(v, f) : f \in EnumNames} \cup {Bucket(v, j) : j \in 0 .. Room(v)}
  BY <1>1 DEF FieldsOf, EnumNames, Room
<1>6. QED
  BY <1>2, <1>3, <1>4, <1>5 DEF Room

(* Another variable's domain is not touched.                                *)
LEMMA LinkedSame ==
  ASSUME NEW m, NEW k, NEW v,
         \A f \in EnumNames : m[Field(v, f)] = k[Field(v, f)],
         \A j \in 0 .. Room(v) : m[Bucket(v, j)] = k[Bucket(v, j)],
         Linked(m, v)
  PROVE  Linked(k, v) /\ Values(k, v) = Values(m, v)
<1>1. Array(m, v) = Array(k, v)
  BY DEF Array
<1>2. /\ m[Field(v, "min")] = k[Field(v, "min")] /\ m[Field(v, "max")] = k[Field(v, "max")]
      /\ m[Field(v, "card")] = k[Field(v, "card")] /\ m[Field(v, "value")] = k[Field(v, "value")]
      /\ m[Field(v, "producers_nb")] = k[Field(v, "producers_nb")]
  BY DEF EnumNames
<1>3. Values(k, v) = Values(m, v)
  BY <1>1, <1>2 DEF Values
<1>4. \A j \in m[Field(v, "producers_nb")] .. Room(v) : k[Bucket(v, j)] = Unknown
  <2>1. m[Field(v, "producers_nb")] \in 1 .. Room(v)
    BY DEF Linked
  <2>2. ASSUME NEW j \in m[Field(v, "producers_nb")] .. Room(v)
        PROVE  k[Bucket(v, j)] = Unknown
    <3>1. j \in 0 .. Room(v)
      BY <2>1
    <3>2. QED
      BY <3>1 DEF Linked
  <2>3. QED
    BY <2>2
<1>5. QED
  BY <1>1, <1>2, <1>3, <1>4 DEF Linked

(* What there is to know of the domain of a variable.                       *)
LEMMA LinkedFacts ==
  ASSUME ShapeInv, NEW v \in MadeEnums, Linked(mem, v)
  PROVE  /\ Dom(v) = Array(mem, v) /\ Dom(v) \in Cells(Room(v)) /\ DOMAIN Dom(v) = 0 .. Room(v)
         /\ \A j \in 0 .. Room(v) : Dom(v)[j] = mem[Bucket(v, j)]
         /\ Values(mem, v) \in SUBSET (0 .. Room(v) - 1)
         /\ Chained(Dom(v), Values(mem, v), mem[Field(v, "min")], mem[Field(v, "max")])
         /\ mem[Field(v, "min")] \in Values(mem, v) /\ mem[Field(v, "max")] \in Values(mem, v)
         /\ \A j \in Values(mem, v) :
              mem[Field(v, "min")] <= j /\ j <= mem[Field(v, "max")] /\ Dom(v)[j] = j
         /\ Known(v) => Values(mem, v) = {mem[Field(v, "value")]}
                        /\ mem[Field(v, "min")] = mem[Field(v, "max")]
         /\ ~Known(v) => /\ mem[Field(v, "value")] = Unknown
                         /\ Values(mem, v) = {j \in 0 .. Room(v) : Dom(v)[j] = j}
                         /\ mem[Field(v, "min")] < mem[Field(v, "max")]
         /\ Values(mem, v) = {j \in 0 .. Room(v) : CanProduce(v, j)}
<1>1. /\ Dom(v) = Array(mem, v) /\ Dom(v) \in Cells(Room(v)) /\ DOMAIN Dom(v) = 0 .. Room(v)
      /\ \A j \in 0 .. Room(v) : Dom(v)[j] = mem[Bucket(v, j)]
  BY DEF Dom, Array, Room, Linked
<1>2. Room(v) \in Nat /\ Room(v) < Unknown
  BY FieldsThere
<1>3. Values(mem, v) \in SUBSET (0 .. Room(v) - 1)
  <2>1. mem[Field(v, "producers_nb")] \in 1 .. Room(v)
    BY DEF Linked
  <2>2. Values(mem, v) \subseteq 0 .. mem[Field(v, "producers_nb")] - 1
    BY DEF Linked
  <2>3. QED
    BY <1>2, <2>1, <2>2
<1>4. /\ Chained(Dom(v), Values(mem, v), mem[Field(v, "min")], mem[Field(v, "max")])
      /\ \A j \in Values(mem, v) : Dom(v)[j] = j
  BY <1>1 DEF Linked, Fixpoints
<1>5. /\ mem[Field(v, "min")] \in Values(mem, v) /\ mem[Field(v, "max")] \in Values(mem, v)
      /\ \A j \in Values(mem, v) : mem[Field(v, "min")] <= j /\ j <= mem[Field(v, "max")]
  BY <1>4 DEF Chained
<1>6. ASSUME Known(v)
      PROVE  Values(mem, v) = {mem[Field(v, "value")]} /\ mem[Field(v, "min")] = mem[Field(v, "max")]
  BY <1>5, <1>6 DEF Known, Values
<1>7. ASSUME ~Known(v)
      PROVE  /\ mem[Field(v, "value")] = Unknown
             /\ Values(mem, v) = {j \in 0 .. Room(v) : Dom(v)[j] = j}
             /\ mem[Field(v, "min")] < mem[Field(v, "max")]
  <2>1. mem[Field(v, "value")] = Unknown
    BY <1>7 DEF Known
  <2>2. Values(mem, v) = {j \in 0 .. Room(v) : Dom(v)[j] = j}
    BY <1>1, <2>1 DEF Values, Fixpoints
  <2>3. mem[Field(v, "min")] # mem[Field(v, "max")]
    BY <2>1 DEF Linked
  <2>4. mem[Field(v, "min")] \in Nat /\ mem[Field(v, "max")] \in Nat
        /\ mem[Field(v, "min")] <= mem[Field(v, "max")]
    BY <1>3, <1>5
  <2>5. QED
    BY <2>1, <2>2, <2>3, <2>4
<1>8. Values(mem, v) = {j \in 0 .. Room(v) : CanProduce(v, j)}
  <2>1. CASE Known(v)
    <3>1. mem[Field(v, "value")] \in 0 .. Room(v)
      BY <1>2, <1>3, <1>6, <2>1
    <3>2. QED
      BY <1>6, <2>1, <3>1 DEF CanProduce
  <2>2. CASE ~Known(v)
    <3>1. \A j \in 0 .. Room(v) : j # Unknown
      BY <1>2 DEF Unknown
    <3>2. \A j \in 0 .. Room(v) : CanProduce(v, j) <=> mem[Bucket(v, j)] = j
      BY <1>7, <2>2, <3>1 DEF CanProduce
    <3>3. QED
      BY <1>1, <1>7, <2>2, <3>2
  <2>3. QED
    BY <2>1, <2>2
<1>9. QED
  BY <1>1, <1>3, <1>4, <1>5, <1>6, <1>7, <1>8

(* A list of stores into one variable that leads from one linked domain to
   another.                                                                 *)
Touches(v) == \A x \in DOMAIN mem : x[1] # v => mem'[x] = mem[x]

LEMMA CellsAfter ==
  ASSUME ShapeInv, NEW v \in MadeEnums,
         \A j \in 0 .. Room(v) : mem'[Bucket(v, j)] \in 0 .. Unknown
  PROVE  /\ Array(mem', v) \in Cells(Room(v)) /\ DOMAIN Array(mem', v) = 0 .. Room(v)
         /\ \A j \in 0 .. Room(v) : Array(mem', v)[j] = mem'[Bucket(v, j)]
  BY DEF Array, Cells

LEMMA FewerValues ==
  ASSUME NEW N \in Nat, NEW S \in SUBSET (0 .. N), NEW i
  PROVE  /\ i \in S => Cardinality(S \ {i}) = Cardinality(S) - 1
         /\ i \notin S => Cardinality(S \cup {i}) = Cardinality(S) + 1
         /\ Cardinality(S) \in Nat
<1>1. IsFiniteSet(0 .. N)
  BY FS_Interval
<1>2. IsFiniteSet(S)
  BY <1>1, FS_Subset
<1>3. QED
  BY <1>2, FS_RemoveElement, FS_AddElement, FS_CardinalityType

(* remove_val_variable takes out one value; it fixes the variable when one is
   left; and the loop that was at the value goes on from its bucket.         *)
LEMMA RemoveKeeps ==
  ASSUME ShapeInv, NEW v \in MadeEnums, Linked(mem, v), NEW i \in Values(mem, v),
         mem[Field(v, "min")] # mem[Field(v, "max")],
         \/ LeftAlone(v, i) = {} /\ Store(RemovedStores(v, i))
         \/ \E a \in LeftAlone(v, i) :
              Store(RemovedStores(v, i) \o <<<<Field(v, "value"), a>>>>)
  PROVE  /\ Linked(mem', v) /\ Values(mem', v) = Values(mem, v) \ {i}
         /\ mem'[Field(v, "value")] # Unknown <=> LeftAlone(v, i) # {}
         /\ mem'[Bucket(v, i + 1)] \in Nat
         /\ mem'[Bucket(v, i + 1)] \in Values(mem', v)
              \/ mem'[Bucket(v, i + 1)] > mem'[Field(v, "max")]
         /\ \A j \in Values(mem', v) : j > i => mem'[Bucket(v, i + 1)] <= j
         /\ Touches(v)
<1> DEFINE N  == Room(v)
           d  == Dom(v)
           e  == Array(mem', v)
           S  == Values(mem, v)
           lo == mem[Field(v, "min")]
           hi == mem[Field(v, "max")]
           c  == mem[Field(v, "card")] - 1
           pn == mem[Field(v, "producers_nb")]
           p  == Before(d, i)
           s  == d[i + 1]
           w  == mem'[Field(v, "value")]
<1>1. /\ N \in Nat /\ N < Unknown
      /\ \A f \in EnumNames : Field(v, f) \in DOMAIN mem
      /\ \A j \in 0 .. N : Bucket(v, j) \in DOMAIN mem
  BY FieldsThere
<1>2. /\ d = Array(mem, v) /\ d \in Cells(N) /\ \A j \in 0 .. N : d[j] = mem[Bucket(v, j)]
      /\ S \in SUBSET (0 .. N - 1) /\ Chained(d, S, lo, hi) /\ lo \in S /\ hi \in S
      /\ \A j \in S : lo <= j /\ j <= hi /\ d[j] = j
  BY LinkedFacts
<1>3. ~Known(v) /\ mem[Field(v, "value")] = Unknown /\ lo < hi /\ S = {j \in 0 .. N : d[j] = j}
  BY LinkedFacts
<1>4. /\ pn \in 1 .. N /\ S \subseteq 0 .. pn - 1
      /\ \A j \in pn .. N : d[j] = Unknown
      /\ c = Cardinality(S) - 1
  <2>1. /\ pn \in 1 .. N /\ S \subseteq 0 .. pn - 1
        /\ \A j \in pn .. N : mem[Bucket(v, j)] = Unknown
        /\ mem[Field(v, "card")] = Cardinality(S)
    BY DEF Linked
  <2>2. Cardinality(S) \in Nat
    <3>1. S \in SUBSET (0 .. N)
      BY <1>1, <1>2
    <3>2. QED
      BY <1>1, <3>1, FewerValues
  <2>3. \A j \in pn .. N : j \in 0 .. N
    BY <2>1
  <2>4. QED
    BY <1>2, <2>1, <2>2, <2>3
<1>5. /\ i \in 0 .. N - 1 /\ lo \in 0 .. N - 1 /\ hi \in 0 .. N - 1 /\ i \in S
      /\ c = Cardinality(S \ {i})
  <2>1. S \in SUBSET (0 .. N)
    BY <1>1, <1>2
  <2>2. i \in S
    OBVIOUS
  <2>3. Cardinality(S \ {i}) = Cardinality(S) - 1 /\ Cardinality(S) \in Nat
    BY <1>1, <2>1, <2>2, FewerValues
  <2>4. QED
    BY <1>2, <1>4, <2>2, <2>3
<1>6. /\ i # lo => p \in S /\ p < i /\ NoneBetween(S, p, i)
      /\ i # hi => s \in S /\ i < s /\ NoneBetween(S, i, s)
      /\ s > i /\ s \in 0 .. Unknown
  <2>1. lo <= i /\ i <= hi
    BY <1>2
  <2>2. i + 1 \in 0 .. N
    BY <1>1, <1>5
  <2>3. s \in 0 .. Unknown
    BY <1>2, <2>2 DEF Cells
  <2>4. s > i
    BY <1>1, <1>2, ChainGoesOn
  <2>5. i # lo => p \in S /\ p < i /\ NoneBetween(S, p, i)
    BY <1>1, <1>2, <1>5, <2>1, ChainGoesOn
  <2>6. i # hi => s \in S /\ i < s /\ NoneBetween(S, i, s)
    BY <1>1, <1>2, <1>5, <2>1, ChainGoesOn
  <2>7. QED
    BY <2>3, <2>4, <2>5, <2>6
<1>7. /\ i = lo => LeftAlone(v, i) = IF s = hi THEN {s} ELSE {}
      /\ i # lo /\ i = hi => LeftAlone(v, i) = IF p = lo THEN {p} ELSE {}
      /\ i # lo /\ i # hi => LeftAlone(v, i) = {}
  BY DEF LeftAlone, Before
<1>8. PICK a : /\ LeftAlone(v, i) # {} => a \in LeftAlone(v, i)
               /\ Store(IF LeftAlone(v, i) = {} THEN RemovedStores(v, i)
                        ELSE RemovedStores(v, i) \o <<<<Field(v, "value"), a>>>>)
  OBVIOUS
<1>9. ASSUME NEW x \in DOMAIN mem
      PROVE  mem'[x] =
               IF x = Field(v, "value") /\ LeftAlone(v, i) # {} THEN a
               ELSE Final(RemovedStores(v, i), x, mem[x])
  <2>1. mem'[x] = Final(IF LeftAlone(v, i) = {} THEN RemovedStores(v, i)
                        ELSE RemovedStores(v, i) \o <<<<Field(v, "value"), a>>>>, x, mem[x])
    BY <1>8, StoreLeaves
  <2>2. Final(RemovedStores(v, i) \o <<<<Field(v, "value"), a>>>>, x, mem[x]) =
          IF x = Field(v, "value") THEN a ELSE Final(RemovedStores(v, i), x, mem[x])
    BY ValueLeft
  <2>3. QED
    BY <2>1, <2>2
<1> HIDE DEF N, d, e, S, lo, hi, c, pn, p, s, w
<1>10. ASSUME NEW x
       PROVE  Final(RemovedStores(v, i), x, mem[x]) =
                IF i = lo
                  THEN IF x = Bucket(v, i) THEN Unknown
                       ELSE IF x = Field(v, "min") THEN s
                       ELSE IF x = Field(v, "card") THEN c ELSE mem[x]
                ELSE IF i = hi
                  THEN IF x = Bucket(v, i) THEN Unknown
                       ELSE IF x = Field(v, "max") THEN p
                       ELSE IF x = Field(v, "card") THEN c ELSE mem[x]
                  ELSE IF x = Bucket(v, p + 1) THEN s
                       ELSE IF x = Bucket(v, s - 1) /\ p + 2 # s THEN p
                       ELSE IF x = Bucket(v, i) /\ p # i - 1 THEN Unknown
                       ELSE IF x = Field(v, "card") THEN c ELSE mem[x]
  BY RemovedLeaves DEF d, lo, hi, c, p, s
<1>11. /\ \A f, g \in EnumNames : Field(v, f) = Field(v, g) <=> f = g
       /\ \A f \in EnumNames : \A j : Field(v, f) # Bucket(v, j)
       /\ \A j, k : Bucket(v, j) = Bucket(v, k) <=> j = k
       /\ \A f : Field(v, f)[1] = v
       /\ \A j : Bucket(v, j)[1] = v
       /\ "min" \in EnumNames /\ "max" \in EnumNames /\ "card" \in EnumNames
       /\ "value" \in EnumNames /\ "producers_nb" \in EnumNames
  BY DEF EnumNames, Field, Bucket
<1>12. /\ mem'[Field(v, "min")] = IF i = lo THEN s ELSE lo
       /\ mem'[Field(v, "max")] = IF i # lo /\ i = hi THEN p ELSE hi
       /\ mem'[Field(v, "card")] = c
       /\ mem'[Field(v, "producers_nb")] = pn
       /\ w = IF LeftAlone(v, i) # {} THEN a ELSE Unknown
  BY <1>1, <1>3, <1>9, <1>10, <1>11 DEF lo, hi, pn, w
<1>13. ASSUME NEW j \in 0 .. N
       PROVE  mem'[Bucket(v, j)] =
                IF i = lo \/ i = hi THEN IF j = i THEN Unknown ELSE d[j]
                ELSE IF j = p + 1 THEN s
                ELSE IF j = s - 1 /\ p + 2 # s THEN p
                ELSE IF j = i /\ p # i - 1 THEN Unknown ELSE d[j]
  BY <1>1, <1>2, <1>9, <1>10, <1>11
<1>14. Touches(v)
  <2>1. ASSUME NEW x \in DOMAIN mem, x[1] # v PROVE mem'[x] = mem[x]
    <3>1. \A f : x # Field(v, f) /\ \A j : x # Bucket(v, j)
      BY <1>11, <2>1
    <3>2. QED
      BY <1>9, <1>10, <3>1
  <2>2. QED
    BY <2>1 DEF Touches
<1> DEFINE R   == S \ {i}
           low == IF i = lo THEN s ELSE lo
           top == IF i # lo /\ i = hi THEN p ELSE hi
<1>15. ASSUME NEW j \in 0 .. N PROVE mem'[Bucket(v, j)] \in 0 .. Unknown
  <2>1. d[j] \in 0 .. Unknown
    BY <1>2 DEF Cells
  <2>2. Unknown \in 0 .. Unknown /\ \A k \in 0 .. N - 1 : k \in 0 .. Unknown
    BY <1>1 DEF Unknown
  <2>3. i # lo => p \in 0 .. Unknown
    BY <1>2, <1>6, <2>2
  <2>4. QED
    BY <1>6, <1>13, <2>1, <2>2, <2>3
<1> DEFINE InRange == /\ S \subseteq Nat /\ S \subseteq 0 .. N /\ R \subseteq S
                      /\ \A j \in S : j \in Nat /\ j # Unknown
<1>inRange. InRange
  <2>1. S \in SUBSET (0 .. N - 1) /\ N \in Nat /\ N < Unknown
    BY <1>1, <1>2
  <2>2. QED
    BY <2>1 DEF Unknown
<1>16. e \in Cells(N) /\ \A j \in 0 .. N : e[j] = mem'[Bucket(v, j)]
  BY <1>15, CellsAfter DEF N, e
<1>17. Chained(e, R, low, top)
  <2>1. CASE i = lo
    <3>1. \A j \in 0 .. N : e[j] = IF j = lo THEN Unknown ELSE d[j]
      BY <1>13, <1>16, <2>1
    <3>2. Chained(e, S \ {lo}, d[lo + 1], hi)
      BY ZenonT(120), <1>1, <1>2, <1>3, <1>16, <3>1, FirstRemoved
    <3>3. QED
      BY <2>1, <3>2 DEF s
  <2>2. CASE i # lo /\ i = hi
    <3>1. \A j \in 0 .. N : e[j] = IF j = hi THEN Unknown ELSE d[j]
      BY <1>13, <1>16, <2>2
    <3>2. Chained(e, S \ {hi}, lo, Before(d, hi))
      BY <1>1, <1>2, <1>3, <1>16, <3>1, LastRemoved
    <3>3. QED
      BY <2>2, <3>2 DEF p
  <2>3. CASE i # lo /\ i # hi
    <3>1. \A j \in 0 .. N :
            e[j] = IF j = p + 1 THEN s
                   ELSE IF j = s - 1 /\ p + 2 # s THEN p
                   ELSE IF j = i /\ p # i - 1 THEN Unknown
                   ELSE d[j]
      BY <1>13, <1>16, <2>3
    <3>2. lo < i /\ i < hi
      BY <1>2, <1>5, <2>3
    <3>3. p = Before(d, i) /\ s = d[i + 1]
      BY DEF p, s
    <3>4. Chained(e, S \ {i}, lo, hi)
      BY <1>1, <1>2, <1>5, <1>16, <3>1, <3>2, <3>3, MiddleRemoved
    <3>5. QED
      BY <2>3, <3>4
  <2>4. QED
    BY <2>1, <2>2, <2>3
<1>18. /\ low \in R /\ top \in R /\ \A j \in R : low <= j /\ j <= top
  BY <1>17 DEF Chained
<1>19. ASSUME NEW j \in 0 .. N PROVE e[j] = j <=> j \in R
  <2>1. j # Unknown /\ (j \in S <=> d[j] = j)
    BY <1>1, <1>3 DEF Unknown
  <2>2. CASE i = lo \/ i = hi
    <3>1. e[j] = IF j = i THEN Unknown ELSE d[j]
      BY <1>13, <1>16, <2>2
    <3>2. QED
      BY <2>1, <3>1
  <2>3. CASE ~(i = lo \/ i = hi)
    <3>1. /\ p \in S /\ p < i /\ NoneBetween(S, p, i)
          /\ s \in S /\ i < s /\ NoneBetween(S, i, s)
          /\ p \in Nat /\ i \in Nat /\ s \in Nat
      <4>1. /\ p \in S /\ p < i /\ NoneBetween(S, p, i)
            /\ s \in S /\ i < s /\ NoneBetween(S, i, s)
        BY <1>6, <2>3
      <4>2. S \subseteq Nat
        BY <1>1, <1>2
      <4>3. QED
        BY <1>5, <4>1, <4>2
    <3>2. e[j] = IF j = p + 1 THEN s
                 ELSE IF j = s - 1 /\ p + 2 # s THEN p
                 ELSE IF j = i /\ p # i - 1 THEN Unknown ELSE d[j]
      BY <1>13, <1>16, <2>3
    <3>3. CASE j = p + 1 \/ (j = s - 1 /\ p + 2 # s) \/ j = i
      <4>1. e[j] # j
        BY <2>1, <3>1, <3>2, <3>3
      <4>2. j \notin R
        BY <3>1, <3>3 DEF NoneBetween
      <4>3. QED
        BY <4>1, <4>2
    <3>4. CASE ~(j = p + 1 \/ (j = s - 1 /\ p + 2 # s) \/ j = i)
      BY <2>1, <3>2, <3>4
    <3>5. QED
      BY <3>3, <3>4
  <2>4. QED
    BY <2>2, <2>3
<1>20. LeftAlone(v, i) # {} => w = low /\ low = top
  <2>1. LeftAlone(v, i) # {} => w = a /\ a \in LeftAlone(v, i)
    BY <1>8, <1>12
  <2>2. CASE i = lo
    <3>1. i # hi
      BY <1>3, <1>5, <2>2
    <3>2. LeftAlone(v, i) = IF s = hi THEN {s} ELSE {}
      BY <1>7, <2>2 DEF lo, s, hi, d
    <3>3. QED
      BY <2>1, <2>2, <3>1, <3>2
  <2>3. CASE i # lo /\ i = hi
    <3>1. LeftAlone(v, i) = IF p = lo THEN {p} ELSE {}
      BY <1>7, <2>3 DEF lo, p, hi, d
    <3>2. QED
      BY <2>1, <2>3, <3>1
  <2>4. CASE i # lo /\ i # hi
    <3>1. LeftAlone(v, i) = {}
      BY <1>7, <2>4 DEF lo, hi
    <3>2. QED
      BY <2>1, <3>1
  <2>5. QED
    BY <2>2, <2>3, <2>4
<1>21. low = top => LeftAlone(v, i) # {} /\ w # Unknown
  <2>1. SUFFICES ASSUME low = top PROVE LeftAlone(v, i) # {} /\ w # Unknown
    OBVIOUS
  <2>2. LeftAlone(v, i) # {}
    <3>1. CASE i = lo
      <4>1. LeftAlone(v, i) = IF s = hi THEN {s} ELSE {}
        BY <1>7, <3>1 DEF lo, s, hi, d
      <4>2. QED
        BY <2>1, <3>1, <4>1
    <3>2. CASE i # lo /\ i = hi
      <4>1. LeftAlone(v, i) = IF p = lo THEN {p} ELSE {}
        BY <1>7, <3>2 DEF lo, p, hi, d
      <4>2. QED
        BY <2>1, <3>2, <4>1
    <3>3. CASE i # lo /\ i # hi
      BY <1>3, <1>5, <2>1, <3>3
    <3>4. QED
      BY <3>1, <3>2, <3>3
  <2>3. a \in {low}
    <3>1. CASE i = lo
      <4>1. LeftAlone(v, i) = IF s = hi THEN {s} ELSE {}
        BY <1>7, <3>1 DEF lo, s, hi, d
      <4>2. QED
        BY <1>8, <2>2, <3>1, <4>1
    <3>2. CASE i # lo
      <4>1. i = hi
        BY <1>3, <1>5, <2>1, <3>2
      <4>2. LeftAlone(v, i) = IF p = lo THEN {p} ELSE {}
        BY <1>7, <3>2, <4>1 DEF lo, p, hi, d
      <4>3. QED
        BY <1>8, <2>2, <3>2, <4>2
    <3>3. QED
      BY <3>1, <3>2
  <2>4. low # Unknown
    BY <1>inRange, <1>18
  <2>5. QED
    BY <1>12, <2>2, <2>3, <2>4
<1>22. Values(mem', v) = R
  <2>1. CASE w = Unknown
    <3>1. Values(mem', v) = {j \in 0 .. N : e[j] = j}
      <4>1. Values(mem', v) = Fixpoints(e) /\ DOMAIN e = 0 .. N
        BY <2>1 DEF Values, w, e, Array, N
      <4>2. QED
        BY <4>1 DEF Fixpoints
    <3>2. R \subseteq 0 .. N
      BY <1>inRange
    <3>3. QED
      BY <1>19, <3>1, <3>2
  <2>2. CASE w # Unknown
    <3>1. w = low /\ low = top
      BY <1>12, <1>20, <2>2
    <3>2. R = {low}
      <4>1. R \subseteq Nat /\ low \in R
        BY <1>inRange, <1>18
      <4>2. \A j \in R : j = low
        BY <1>18, <3>1, <4>1
      <4>3. QED
        BY <4>1, <4>2
    <3>3. QED
      BY <2>2, <3>1, <3>2 DEF Values, w
  <2>3. QED
    BY <2>1, <2>2
<1>23. Linked(mem', v)
  <2>1. mem'[Field(v, "min")] = low /\ mem'[Field(v, "max")] = top
    BY <1>12
  <2>2. \A j \in pn .. N : mem'[Bucket(v, j)] = Unknown
    <3>1. SUFFICES ASSUME NEW j \in pn .. N PROVE mem'[Bucket(v, j)] = Unknown
      OBVIOUS
    <3>2. j \in 0 .. N /\ d[j] = Unknown /\ \A k \in S : k < j
      BY <1>1, <1>4
    <3>3. CASE i = lo \/ i = hi
      BY <1>13, <3>2, <3>3
    <3>4. CASE ~(i = lo \/ i = hi)
      <4>1. p \in S /\ p < i /\ s \in S /\ i < s /\ S \subseteq Nat
        BY <1>1, <1>2, <1>6, <3>4
      <4>2. j # p + 1 /\ j # s - 1 /\ j # i
        BY <1>5, <3>2, <4>1
      <4>3. QED
        BY <1>13, <3>2, <3>4, <4>2
    <3>5. QED
      BY <3>3, <3>4
  <2>3. R \subseteq Fixpoints(e)
    <3>1. DOMAIN e = 0 .. N /\ R \subseteq 0 .. N
      BY <1>inRange DEF e, Array, N
    <3>2. QED
      BY <1>19, <3>1 DEF Fixpoints
  <2>4. R \subseteq 0 .. pn - 1
    BY <1>4
  <2>5. /\ Array(mem', v) = e /\ Room(v) = N /\ mem'[Field(v, "value")] = w
    BY DEF e, N, w
  <2>6. QED
    BY <1>4, <1>5, <1>12, <1>16, <1>17, <1>21, <1>22, <2>1, <2>2, <2>3, <2>4, <2>5 DEF Linked
<1>24. w # Unknown <=> LeftAlone(v, i) # {}
  BY <1>12, <1>20, <1>21
<1>25. i + 1 \in 0 .. N /\ mem'[Bucket(v, i + 1)] = e[i + 1] /\ e[i + 1] \in Nat
  <2>1. i + 1 \in 0 .. N
    BY <1>1, <1>5
  <2>2. e[i + 1] \in 0 .. Unknown
    BY <1>16, <2>1 DEF Cells
  <2>3. QED
    BY <1>16, <2>1, <2>2
<1>26. /\ e[i + 1] \in R \/ e[i + 1] > top
       /\ \A j \in R : j > i => e[i + 1] <= j
  <2>1. CASE i = lo
    <3>1. e[i + 1] = s /\ i # hi
      BY <1>3, <1>5, <1>13, <1>16, <1>25, <2>1 DEF s
    <3>2. s \in R /\ \A j \in R : s <= j
      BY <1>18, <2>1
    <3>3. QED
      BY <3>1, <3>2
  <2>2. CASE i # lo /\ i = hi
    <3>1. e[i + 1] = s /\ s > i
      BY <1>5, <1>6, <1>13, <1>16, <1>25, <2>2 DEF s
    <3>2. \A j \in R : j <= i
      BY <1>2, <2>2
    <3>3. top \in R /\ top \in Nat /\ R \subseteq Nat /\ s \in Nat
      <4>1. R \subseteq Nat
        BY <1>inRange
      <4>2. s \in Nat
        BY <1>6 DEF Unknown
      <4>3. top \in R
        BY <1>18
      <4>4. QED
        BY <4>1, <4>2, <4>3
    <3>4. QED
      BY <1>5, <2>2, <3>1, <3>2, <3>3
  <2>3. CASE i # lo /\ i # hi
    <3>1. /\ p \in S /\ p < i /\ NoneBetween(S, p, i)
          /\ s \in S /\ i < s /\ NoneBetween(S, i, s)
          /\ S \subseteq Nat
      BY <1>1, <1>2, <1>6, <2>3
    <3>2. e[i + 1] = s \/ e[i + 1] = p
      <4>1. e[i + 1] = IF i + 1 = p + 1 THEN s
                       ELSE IF i + 1 = s - 1 /\ p + 2 # s THEN p
                       ELSE IF i + 1 = i /\ p # i - 1 THEN Unknown ELSE d[i + 1]
        BY <1>13, <1>16, <1>25, <2>3
      <4>2. QED
        BY <1>5, <3>1, <4>1 DEF s
    <3>3. p \in R /\ s \in R /\ \A j \in R : j > i => s <= j
      BY <1>5, <3>1 DEF NoneBetween
    <3>4. QED
      BY <1>5, <3>1, <3>2, <3>3
  <2>4. QED
    BY <2>1, <2>2, <2>3
<1>27. QED
  BY <1>12, <1>14, <1>22, <1>23, <1>24, <1>25, <1>26 DEF w, S

(* add_val_variable puts a new greatest value at the end.                   *)
LEMMA AddKeeps ==
  ASSUME ShapeInv, NEW v \in MadeEnums, Linked(mem, v),
         NEW i, i = mem[Field(v, "producers_nb")], i < Room(v),
         Known(v) => \A j \in DOMAIN Dom(v) : Dom(v)[j] = j => j = mem[Field(v, "value")],
         Store(AddedStores(v, i))
  PROVE  Linked(mem', v) /\ Values(mem', v) = Values(mem, v) \cup {i} /\ Touches(v)
<1> DEFINE N  == Room(v)
           d  == Dom(v)
           e  == Array(mem', v)
           S  == Values(mem, v)
           lo == mem[Field(v, "min")]
           hi == mem[Field(v, "max")]
           c  == mem[Field(v, "card")] + 1
           R  == S \cup {i}
<1>1. /\ N \in Nat /\ N < Unknown
      /\ \A f \in EnumNames : Field(v, f) \in DOMAIN mem
      /\ \A j \in 0 .. N : Bucket(v, j) \in DOMAIN mem
  BY FieldsThere
<1>2. /\ d = Array(mem, v) /\ d \in Cells(N) /\ \A j \in 0 .. N : d[j] = mem[Bucket(v, j)]
      /\ DOMAIN d = 0 .. N
      /\ S \in SUBSET (0 .. N - 1) /\ Chained(d, S, lo, hi) /\ lo \in S /\ hi \in S
      /\ \A j \in S : lo <= j /\ j <= hi /\ d[j] = j
  BY LinkedFacts
<1>3. S = {j \in 0 .. N : d[j] = j}
  <2>1. Known(v) => S = {mem[Field(v, "value")]}
    BY LinkedFacts
  <2>2. ~Known(v) => S = {j \in 0 .. N : d[j] = j}
    BY LinkedFacts
  <2>3. S \subseteq 0 .. N
    BY <1>1, <1>2
  <2>4. Known(v) => \A j \in 0 .. N : d[j] = j => j = mem[Field(v, "value")]
    BY <1>2
  <2>5. QED
    BY <1>2, <2>1, <2>2, <2>3, <2>4
<1>4. /\ i \in 1 .. N - 1 /\ S \subseteq 0 .. i - 1
      /\ \A j \in i .. N : d[j] = Unknown
      /\ c = Cardinality(S) + 1
  <2>1. /\ i \in 1 .. N /\ S \subseteq 0 .. i - 1
        /\ \A j \in i .. N : mem[Bucket(v, j)] = Unknown
        /\ mem[Field(v, "card")] = Cardinality(S)
    BY DEF Linked
  <2>2. \A j \in i .. N : j \in 0 .. N
    BY <2>1
  <2>3. i < N
    OBVIOUS
  <2>4. QED
    BY <1>1, <1>2, <2>1, <2>2, <2>3
<1> HIDE DEF N, d, e, S, lo, hi, c
<1>5. ASSUME NEW x \in DOMAIN mem
      PROVE  mem'[x] =
               IF x = Field(v, "producers_nb") THEN i + 1
               ELSE IF x = Field(v, "value") /\ Known(v) THEN Unknown
               ELSE IF x = Bucket(v, hi + 1) /\ hi < i - 1 THEN i
               ELSE IF x = Bucket(v, i - 1) /\ hi < i - 2 THEN hi
               ELSE IF x = Field(v, "card") THEN c
               ELSE IF x = Field(v, "max") THEN i
               ELSE IF x = Bucket(v, i) THEN i ELSE mem[x]
  <2>1. mem'[x] = Final(AddedStores(v, i), x, mem[x])
    BY StoreLeaves
  <2>2. QED
    BY <2>1, AddedLeaves DEF hi, c
<1>6. /\ \A f, g \in EnumNames : Field(v, f) = Field(v, g) <=> f = g
      /\ \A f \in EnumNames : \A j : Field(v, f) # Bucket(v, j)
      /\ \A j, k : Bucket(v, j) = Bucket(v, k) <=> j = k
      /\ \A f : Field(v, f)[1] = v
      /\ \A j : Bucket(v, j)[1] = v
      /\ "min" \in EnumNames /\ "max" \in EnumNames /\ "card" \in EnumNames
      /\ "value" \in EnumNames /\ "producers_nb" \in EnumNames
  BY DEF EnumNames, Field, Bucket
<1>7. /\ mem'[Field(v, "min")] = lo
      /\ mem'[Field(v, "max")] = i
      /\ mem'[Field(v, "card")] = c
      /\ mem'[Field(v, "producers_nb")] = i + 1
      /\ mem'[Field(v, "value")] = Unknown
  BY <1>1, <1>5, <1>6 DEF lo, Known
<1>8. ASSUME NEW j \in 0 .. N
      PROVE  mem'[Bucket(v, j)] =
               IF j = hi + 1 /\ hi < i - 1 THEN i
               ELSE IF j = i - 1 /\ hi < i - 2 THEN hi
               ELSE IF j = i THEN i ELSE d[j]
  <2>1. Bucket(v, j) \in DOMAIN mem /\ d[j] = mem[Bucket(v, j)]
    BY <1>1, <1>2
  <2>2. \A f \in EnumNames : Bucket(v, j) # Field(v, f)
    BY <1>6
  <2>3. \A k : Bucket(v, j) = Bucket(v, k) <=> j = k
    BY <1>6
  <2>4. mem'[Bucket(v, j)] =
          IF Bucket(v, j) = Bucket(v, hi + 1) /\ hi < i - 1 THEN i
          ELSE IF Bucket(v, j) = Bucket(v, i - 1) /\ hi < i - 2 THEN hi
          ELSE IF Bucket(v, j) = Bucket(v, i) THEN i ELSE mem[Bucket(v, j)]
    BY <1>5, <1>6, <2>1, <2>2
  <2>5. QED
    BY <2>1, <2>3, <2>4
<1>9. Touches(v)
  <2>1. ASSUME NEW x \in DOMAIN mem, x[1] # v PROVE mem'[x] = mem[x]
    <3>1. \A f : x # Field(v, f) /\ \A j : x # Bucket(v, j)
      BY <1>6, <2>1
    <3>2. QED
      BY <1>5, <3>1
  <2>2. QED
    BY <2>1 DEF Touches
<1>10. hi \in 0 .. i - 1 /\ hi \in S /\ i \in Nat /\ d[hi] = hi
  BY <1>2, <1>4
<1>11. e \in Cells(N) /\ \A j \in 0 .. N : e[j] = mem'[Bucket(v, j)]
  <2>1. ASSUME NEW j \in 0 .. N PROVE mem'[Bucket(v, j)] \in 0 .. Unknown
    <3>1. d[j] \in 0 .. Unknown
      BY <1>2 DEF Cells
    <3>2. i \in 0 .. Unknown /\ hi \in 0 .. Unknown
      <4>1. hi \in Nat /\ hi < i /\ i \in Nat
        BY <1>10
      <4>2. N \in Nat /\ N < Unknown /\ Unknown \in Nat /\ i < N
        BY <1>1, <1>4 DEF Unknown
      <4>3. i <= Unknown /\ hi <= Unknown
        BY <4>1, <4>2
      <4>4. QED
        BY <4>1, <4>2, <4>3
    <3>3. QED
      BY <1>8, <3>1, <3>2
  <2>2. QED
    BY <2>1, CellsAfter DEF N, e
<1>12. Chained(e, R, lo, i)
  <2>1. \A j \in 0 .. N :
          e[j] = IF j = hi + 1 /\ hi < i - 1 THEN i
                 ELSE IF j = i - 1 /\ hi < i - 2 THEN hi
                 ELSE IF j = i THEN i ELSE d[j]
    BY <1>8, <1>11
  <2>2. i \in 0 .. N - 1 /\ hi < i /\ d[i + 1] = Unknown
    BY <1>1, <1>4, <1>10
  <2>3. /\ N \in Nat /\ N < Unknown /\ d \in Cells(N) /\ e \in Cells(N)
        /\ S \in SUBSET (0 .. N - 1) /\ Chained(d, S, lo, hi) /\ d[hi] = hi
    BY <1>1, <1>2, <1>10, <1>11
  <2>4. QED
    BY <2>1, <2>2, <2>3, LastAdded
<1>13. ASSUME NEW j \in 0 .. N PROVE e[j] = j <=> j \in R
  <2>1. j \in S <=> d[j] = j
    BY <1>3
  <2>2. \A k \in S : k \in Nat /\ k <= hi
    BY <1>2
  <2>3. j \in Nat /\ hi \in Nat /\ hi < i
    BY <1>10
  <2>4. e[j] = IF j = hi + 1 /\ hi < i - 1 THEN i
               ELSE IF j = i - 1 /\ hi < i - 2 THEN hi
               ELSE IF j = i THEN i ELSE d[j]
    BY <1>8, <1>11
  <2>5. CASE j <= hi
    BY <1>10, <2>1, <2>3, <2>4, <2>5
  <2>6. CASE j > hi
    <3>1. j \notin S
      BY <2>2, <2>3, <2>6
    <3>2. QED
      BY <1>10, <2>1, <2>3, <2>4, <2>6, <3>1
  <2>7. QED
    BY <2>3, <2>5, <2>6
<1>14. R \subseteq 0 .. N /\ R \subseteq 0 .. (i + 1) - 1
  <2>1. i \in Nat /\ i < N /\ S \subseteq 0 .. i - 1 /\ N \in Nat
    BY <1>1, <1>4
  <2>2. \A j \in R : j \in 0 .. i
    BY <2>1
  <2>3. 0 .. i \subseteq 0 .. N /\ 0 .. i = 0 .. (i + 1) - 1
    BY <2>1
  <2>4. QED
    BY <2>2, <2>3
<1>15. DOMAIN e = 0 .. N /\ Fixpoints(e) = R
  <2>1. DOMAIN e = 0 .. N
    BY DEF e, Array, N
  <2>2. QED
    BY <1>13, <1>14, <2>1 DEF Fixpoints
<1>16. Values(mem', v) = R
  BY <1>7, <1>15 DEF Values, e
<1>17. c = Cardinality(R)
  <2>1. S \in SUBSET (0 .. N) /\ i \notin S
    BY <1>1, <1>4
  <2>2. QED
    BY <1>1, <1>4, <2>1, FewerValues
<1>18. Linked(mem', v)
  <2>1. i + 1 \in 1 .. N
    BY <1>1, <1>4
  <2>2. \A j \in i + 1 .. N : mem'[Bucket(v, j)] = Unknown
    <3>1. SUFFICES ASSUME NEW j \in i + 1 .. N PROVE mem'[Bucket(v, j)] = Unknown
      OBVIOUS
    <3>2. j \in 0 .. N /\ d[j] = Unknown /\ j > i /\ j # hi + 1
      BY <1>1, <1>4, <1>10
    <3>3. QED
      BY <1>4, <1>8, <3>2
  <2>3. lo # i
    BY <1>2, <1>4
  <2>4. Array(mem', v) = e /\ Room(v) = N
    BY DEF e, N
  <2>5. QED
    BY <1>7, <1>11, <1>12, <1>14, <1>15, <1>16, <1>17, <2>1, <2>2, <2>3, <2>4 DEF Linked
<1>19. QED
  BY <1>9, <1>16, <1>18 DEF S

(* instantiate_variable leaves one value, and the array as it is.           *)
LEMMA InstantiateKeeps ==
  ASSUME ShapeInv, NEW v \in MadeEnums, Linked(mem, v), ~Known(v),
         NEW i \in DOMAIN Dom(v), Dom(v)[i] = i,
         Store(<<<<Field(v, "value"), i>>, <<Field(v, "min"), i>>,
                 <<Field(v, "max"), i>>, <<Field(v, "card"), 1>>>>)
  PROVE  /\ Linked(mem', v) /\ Values(mem', v) = {i} /\ i \in Values(mem, v)
         /\ mem'[Field(v, "value")] # Unknown /\ Touches(v)
         /\ \E j \in Values(mem, v) : j # i
<1> DEFINE N  == Room(v)
           d  == Dom(v)
           S  == Values(mem, v)
           lo == mem[Field(v, "min")]
           hi == mem[Field(v, "max")]
<1>1. /\ N \in Nat /\ N < Unknown
      /\ \A f \in EnumNames : Field(v, f) \in DOMAIN mem
      /\ \A j \in 0 .. N : Bucket(v, j) \in DOMAIN mem
  BY FieldsThere
<1>2. /\ d = Array(mem, v) /\ d \in Cells(N) /\ \A j \in 0 .. N : d[j] = mem[Bucket(v, j)]
      /\ DOMAIN d = 0 .. N
      /\ S \in SUBSET (0 .. N - 1) /\ Chained(d, S, lo, hi) /\ lo \in S /\ hi \in S
      /\ S = {j \in 0 .. N : d[j] = j} /\ lo < hi
  BY LinkedFacts
<1>3. /\ \A f, g \in EnumNames : Field(v, f) = Field(v, g) <=> f = g
      /\ \A f \in EnumNames : \A j : Field(v, f) # Bucket(v, j)
      /\ \A f : Field(v, f)[1] = v
      /\ \A j : Bucket(v, j)[1] = v
      /\ "min" \in EnumNames /\ "max" \in EnumNames /\ "card" \in EnumNames
      /\ "value" \in EnumNames /\ "producers_nb" \in EnumNames
  BY DEF EnumNames, Field, Bucket
<1>4. i \in S /\ i \in 0 .. N - 1 /\ d[i] = i
  BY <1>2
<1>5. \E j \in S : j # i
  <2>1. lo # hi
    BY <1>2
  <2>2. QED
    BY <1>2, <2>1
<1>6. d[i + 1] > i
  BY <1>1, <1>2, <1>4, ChainGoesOn
<1>7. ASSUME NEW x \in DOMAIN mem
      PROVE  mem'[x] = IF x = Field(v, "card") THEN 1
                       ELSE IF x = Field(v, "max") THEN i
                       ELSE IF x = Field(v, "min") THEN i
                       ELSE IF x = Field(v, "value") THEN i ELSE mem[x]
  <2>1. mem'[x] = Final(<<<<Field(v, "value"), i>>, <<Field(v, "min"), i>>,
                          <<Field(v, "max"), i>>, <<Field(v, "card"), 1>>>>, x, mem[x])
    BY StoreLeaves
  <2>2. QED
    BY <2>1, FinalOfFour
<1>8. /\ mem'[Field(v, "min")] = i /\ mem'[Field(v, "max")] = i
      /\ mem'[Field(v, "card")] = 1 /\ mem'[Field(v, "value")] = i
      /\ mem'[Field(v, "producers_nb")] = mem[Field(v, "producers_nb")]
  BY <1>1, <1>3, <1>7
<1>9. \A j \in 0 .. N : mem'[Bucket(v, j)] = mem[Bucket(v, j)]
  BY <1>1, <1>3, <1>7
<1>10. Array(mem', v) = d
  BY <1>2, <1>9 DEF Array
<1>11. Touches(v)
  <2>1. ASSUME NEW x \in DOMAIN mem, x[1] # v PROVE mem'[x] = mem[x]
    <3>1. \A f : x # Field(v, f)
      BY <1>3, <2>1
    <3>2. QED
      BY <1>7, <3>1
  <2>2. QED
    BY <2>1 DEF Touches
<1>12. i # Unknown
  BY <1>1, <1>4 DEF Unknown
<1>13. Values(mem', v) = {i}
  BY <1>8, <1>12 DEF Values
<1>14. Chained(d, {i}, i, i)
  <2>1. i \in Nat
    BY <1>4
  <2>2. QED
    BY <1>6, <2>1 DEF Chained
<1>15. Cardinality({i}) = 1
  BY FS_Singleton
<1>16. Linked(mem', v)
  <2>1. /\ mem[Field(v, "producers_nb")] \in 1 .. N
        /\ S \subseteq 0 .. mem[Field(v, "producers_nb")] - 1
        /\ \A j \in mem[Field(v, "producers_nb")] .. N : mem[Bucket(v, j)] = Unknown
    BY DEF Linked
  <2>2. \A j \in mem[Field(v, "producers_nb")] .. N : mem'[Bucket(v, j)] = Unknown
    <3>1. \A j \in mem[Field(v, "producers_nb")] .. N : j \in 0 .. N
      BY <2>1
    <3>2. QED
      BY <1>9, <2>1, <3>1
  <2>3. {i} \subseteq 0 .. mem[Field(v, "producers_nb")] - 1
    BY <1>4, <2>1
  <2>4. {i} \subseteq Fixpoints(d)
    BY <1>2, <1>4 DEF Fixpoints
  <2>5. QED
    BY <1>2, <1>8, <1>10, <1>12, <1>13, <1>14, <1>15, <2>1, <2>2, <2>3, <2>4 DEF Linked
<1>17. QED
  BY <1>4, <1>5, <1>8, <1>11, <1>12, <1>13, <1>16

DomainInv ==
  /\ ShapeInv
  /\ Idle => \A v \in MadeEnums : Linked(mem, v)
  /\ \A p \in Marks : \A v \in MadeEnums : Linked(trail[p].was, v)

LEMMA LinkedAtFirst == Init => DomainInv
<1> SUFFICES ASSUME Init PROVE DomainInv
  OBVIOUS
<1> DEFINE Names == UNION {FieldsOf(v, made[v]) : v \in DOMAIN made}
<1>1. /\ made \in Problems /\ DOMAIN mem = Names
      /\ \A x \in Names : mem[x] = NewFields(x[1], made[x[1]])[x]
  BY DEF Init
<1>2. ShapeInv
  BY <1>1 DEF ShapeInv
<1>3. Marks = {}
  BY DEF Init, Marks
<1>4. ASSUME NEW v \in MadeEnums PROVE Linked(mem, v)
  <2> DEFINE N == Room(v)
             n == made[v].n
             d == Array(mem, v)
  <2>1. /\ N \in Nat /\ N < Unknown /\ n \in Nat \ {0} /\ made[v].sup \in Nat
        /\ N = n + made[v].sup
        /\ \A f \in EnumNames : Field(v, f) \in Names
        /\ \A j \in 0 .. N : Bucket(v, j) \in Names
    BY <1>1, <1>2, FieldsThere DEF Room
  <2>2. v \in Enums /\ v \in DOMAIN made
    BY DEF MadeEnums
  <2>3. /\ \A f \in EnumNames : Field(v, f)[1] = v /\ Field(v, f)[2] = f
        /\ \A j \in 0 .. N : Bucket(v, j)[1] = v /\ Bucket(v, j)[2] = "bucket" /\ Bucket(v, j)[3] = j
        /\ \A f \in EnumNames : Field(v, f) \in FieldsOf(v, made[v])
        /\ \A j \in 0 .. N : Bucket(v, j) \in FieldsOf(v, made[v])
    BY <2>2 DEF Field, Bucket, FieldsOf, EnumNames, Room
  <2>4. ASSUME NEW x \in FieldsOf(v, made[v]), x \in Names, x[1] = v
        PROVE  mem[x] = CASE x[2] = "min"    -> 0
                          [] x[2] = "max"    -> n - 1
                          [] x[2] \in {"card", "producers_nb"} -> n
                          [] x[2] = "value"  -> IF n = 1 THEN 0 ELSE Unknown
                          [] x[2] = "bucket" -> IF x[3] < n THEN x[3] ELSE Unknown
    BY <1>1, <2>2, <2>4 DEF NewFields, EnumFields
  <2>5. /\ mem[Field(v, "min")] = 0 /\ mem[Field(v, "max")] = n - 1
        /\ mem[Field(v, "card")] = n /\ mem[Field(v, "producers_nb")] = n
        /\ mem[Field(v, "value")] = IF n = 1 THEN 0 ELSE Unknown
    <3>1. /\ "min" \in EnumNames /\ "max" \in EnumNames /\ "card" \in EnumNames
          /\ "value" \in EnumNames /\ "producers_nb" \in EnumNames
      BY DEF EnumNames
    <3>2. QED
      BY <2>1, <2>3, <2>4, <3>1
  <2>6. \A j \in 0 .. N : mem[Bucket(v, j)] = IF j < n THEN j ELSE Unknown
    BY <2>1, <2>3, <2>4
  <2> HIDE DEF N, n
  <2>7. n \in 1 .. N /\ N \in Nat /\ N < Unknown
    BY <2>1
  <2>8. /\ d \in Cells(N) /\ DOMAIN d = 0 .. N
        /\ \A j \in 0 .. N : d[j] = IF j < n THEN j ELSE Unknown
    <3>1. \A j \in 0 .. N : mem[Bucket(v, j)] \in 0 .. Unknown
      BY SMTT(60), <2>6, <2>7 DEF Unknown
    <3>2. QED
      BY <2>6, <3>1 DEF Array, Cells, N
  <2> HIDE DEF d
  <2>9. Fixpoints(d) = 0 .. n - 1
    <3>1. ASSUME NEW j \in 0 .. N PROVE d[j] = j <=> j \in 0 .. n - 1
      BY <2>7, <2>8 DEF Unknown
    <3>2. 0 .. n - 1 \subseteq 0 .. N
      BY <2>7
    <3>3. QED
      BY <2>8, <3>1, <3>2 DEF Fixpoints
  <2>10. Values(mem, v) = 0 .. n - 1
    <3>1. CASE n = 1
      <4>1. mem[Field(v, "value")] = 0 /\ 0 # Unknown
        BY <2>5, <3>1 DEF Unknown
      <4>2. {0} = 0 .. n - 1
        BY <3>1
      <4>3. QED
        BY <4>1, <4>2 DEF Values
    <3>2. CASE n # 1
      BY <2>5, <2>9, <3>2 DEF Values, d
    <3>3. QED
      BY <3>1, <3>2
  <2>11. Chained(d, 0 .. n - 1, 0, n - 1)
    <3>1. ASSUME NEW a \in 0 .. n - 1, NEW b \in 0 .. n - 1, a < b, NoneBetween(0 .. n - 1, a, b)
          PROVE  d[a + 1] = b /\ Before(d, b) = a
      <4>1. b = a + 1
        <5>1. a + 1 \in 0 .. n - 1
          BY <2>7, <3>1
        <5>2. a + 1 <= a \/ b <= a + 1
          BY <3>1, <5>1 DEF NoneBetween
        <5>3. QED
          BY <3>1, <5>2
      <4>2. a \in 0 .. N /\ b \in 0 .. N /\ a < n /\ b < n
        BY <2>7
      <4>3. d[b] = b /\ d[b - 1] = b - 1
        BY <2>8, <4>1, <4>2
      <4>4. QED
        BY <4>1, <4>3 DEF Before
    <3>2. d[(n - 1) + 1] > n - 1
      <4>1. (n - 1) + 1 = n /\ n \in 0 .. N
        BY <2>7
      <4>2. d[n] = Unknown
        BY <2>7, <2>8, <4>1
      <4>3. QED
        BY <2>7, <4>1, <4>2 DEF Unknown
    <3>3. 0 \in 0 .. n - 1 /\ n - 1 \in 0 .. n - 1 /\ \A c \in 0 .. n - 1 : 0 <= c /\ c <= n - 1
      BY <2>7
    <3>4. QED
      BY <3>1, <3>2, <3>3 DEF Chained
  <2>12. Cardinality(0 .. n - 1) = n
    <3>1. 0 \in Int /\ n - 1 \in Int
      BY <2>7
    <3>2. Cardinality(0 .. n - 1) = IF 0 > n - 1 THEN 0 ELSE (n - 1) - 0 + 1
      BY <3>1, FS_Interval
    <3>3. QED
      BY <2>7, <3>2
  <2>13. \A j \in n .. N : mem[Bucket(v, j)] = Unknown
    BY <2>6, <2>7
  <2>14. 0 = n - 1 => mem[Field(v, "value")] # Unknown
    BY <2>5, <2>7 DEF Unknown
  <2>15. /\ Array(mem, v) = d /\ Room(v) = N
    BY DEF d, N
  <2>16. QED
    BY <2>5, <2>7, <2>8, <2>9, <2>10, <2>11, <2>12, <2>13, <2>14, <2>15 DEF Linked
<1>5. QED
  BY <1>2, <1>3, <1>4 DEF DomainInv

(* A step that leaves the fields of v as they are.                          *)
LEMMA OthersKeep ==
  ASSUME ShapeInv, NEW v \in MadeEnums, NEW u, u # v, Touches(u), Linked(mem, v)
  PROVE  Linked(mem', v) /\ Values(mem', v) = Values(mem, v)
<1>1. /\ \A f \in EnumNames : Field(v, f) \in DOMAIN mem
      /\ \A j \in 0 .. Room(v) : Bucket(v, j) \in DOMAIN mem
  BY FieldsThere
<1>2. (\A f : Field(v, f)[1] = v) /\ \A j : Bucket(v, j)[1] = v
  BY DEF Field, Bucket
<1>3. /\ \A f \in EnumNames : mem[Field(v, f)] = mem'[Field(v, f)]
      /\ \A j \in 0 .. Room(v) : mem[Bucket(v, j)] = mem'[Bucket(v, j)]
  BY <1>1, <1>2 DEF Touches
<1>4. QED
  BY <1>3, LinkedSame

(* The lists of stores that the operations make from a linked memory.       *)
LEMMA StoresKeep ==
  ASSUME ShapeInv, Idle, \A v \in MadeEnums : Linked(mem, v),
         NEW v \in MadeEnums, NEW i \in DOMAIN Dom(v),
         RemoveVal(v, i) \/ AddVal(v, i) \/ Instantiate(v, i)
  PROVE  /\ \A u \in MadeEnums : Linked(mem', u)
         /\ Touches(v) /\ DOMAIN mem' = DOMAIN mem
<1>1. Linked(mem, v)
  OBVIOUS
<1>2. DOMAIN Dom(v) = 0 .. Room(v) /\ Values(mem, v) = {j \in 0 .. Room(v) : CanProduce(v, j)}
  BY <1>1, LinkedFacts
<1>3. UNCHANGED mem => /\ \A u \in MadeEnums : Linked(mem', u)
                       /\ Touches(v) /\ DOMAIN mem' = DOMAIN mem
  BY DEF Touches
<1>4. ASSUME NEW ws, Store(ws)
      PROVE  DOMAIN mem' = DOMAIN mem
  BY <1>4, StoreLeaves
<1>5. Linked(mem', v) /\ Touches(v) /\ DOMAIN mem' = DOMAIN mem
  <2>1. CASE RemoveVal(v, i)
    <3>1. i \in Values(mem, v)
      BY <1>2, <2>1 DEF RemoveVal
    <3>2. CASE mem[Field(v, "min")] = mem[Field(v, "max")]
      BY <1>3, <2>1, <3>2 DEF RemoveVal, Contradiction, store
    <3>3. CASE mem[Field(v, "min")] # mem[Field(v, "max")]
      <4>1. \/ LeftAlone(v, i) = {} /\ Store(RemovedStores(v, i))
            \/ \E a \in LeftAlone(v, i) :
                 Store(RemovedStores(v, i) \o <<<<Field(v, "value"), a>>>>)
        BY <2>1, <3>3 DEF RemoveVal
      <4>2. Linked(mem', v) /\ Touches(v)
        BY <1>1, <3>1, <3>3, <4>1, RemoveKeeps
      <4>3. QED
        BY <1>4, <4>1, <4>2
    <3>4. QED
      BY <3>2, <3>3
  <2>2. CASE AddVal(v, i)
    <3>1. /\ i = mem[Field(v, "producers_nb")] /\ i < Room(v)
          /\ Known(v) => \A j \in DOMAIN Dom(v) : Dom(v)[j] = j => j = mem[Field(v, "value")]
          /\ Store(AddedStores(v, i))
      BY <2>2 DEF AddVal, Room
    <3>2. QED
      BY <1>1, <1>4, <3>1, AddKeeps
  <2>3. CASE Instantiate(v, i)
    <3>1. CASE Dom(v)[i] # i
      BY <1>3, <2>3, <3>1 DEF Instantiate, Contradiction, store
    <3>2. CASE Dom(v)[i] = i
      <4>1. /\ ~Known(v)
            /\ Store(<<<<Field(v, "value"), i>>, <<Field(v, "min"), i>>,
                       <<Field(v, "max"), i>>, <<Field(v, "card"), 1>>>>)
        BY <2>3, <3>2 DEF Instantiate
      <4>2. QED
        BY <1>1, <1>4, <3>2, <4>1, InstantiateKeeps
    <3>3. QED
      BY <3>1, <3>2
  <2>4. QED
    BY <2>1, <2>2, <2>3
<1>6. \A u \in MadeEnums : Linked(mem', u)
  BY <1>5, OthersKeep
<1>7. QED
  BY <1>5, <1>6

LEMMA BoundsKeep ==
  ASSUME ShapeInv, Idle, \A v \in MadeEnums : Linked(mem, v),
         NEW b \in MadeBounds, NEW i, UpdateInf(b, i) \/ UpdateSup(b, i)
  PROVE  /\ \A v \in MadeEnums : Linked(mem', v)
         /\ Touches(b) /\ DOMAIN mem' = DOMAIN mem
<1>1. \/ UNCHANGED mem
      \/ \E f : Store(<<<<Field(b, f), i>>>>)
  BY DEF UpdateInf, UpdateSup, Contradiction, store
<1>2. Touches(b) /\ DOMAIN mem' = DOMAIN mem
  <2>1. CASE UNCHANGED mem
    BY <2>1 DEF Touches
  <2>2. ASSUME NEW f, Store(<<<<Field(b, f), i>>>>)
        PROVE  Touches(b) /\ DOMAIN mem' = DOMAIN mem
    <3>1. ASSUME NEW x \in DOMAIN mem, x[1] # b PROVE mem'[x] = mem[x]
      <4>1. x # Field(b, f)
        BY <3>1 DEF Field
      <4>2. mem'[x] = Final(<<<<Field(b, f), i>>>>, x, mem[x])
        BY <2>2, StoreLeaves
      <4>3. QED
        BY <4>1, <4>2, FinalOfOne
    <3>2. DOMAIN mem' = DOMAIN mem
      BY <2>2, StoreLeaves
    <3>3. QED
      BY <3>1, <3>2 DEF Touches
  <2>3. QED
    BY <1>1, <2>1, <2>2
<1>3. \A v \in MadeEnums : v # b
  BY KernelAssumption DEF KernelAssumption, MadeEnums, MadeBounds
<1>4. QED
  BY <1>2, <1>3, OthersKeep

LEMMA OldMarks ==
  ASSUME DomainInv, \A p \in Marks' : p \in Marks /\ trail'[p] = trail[p]
  PROVE  \A p \in Marks' : \A v \in MadeEnums : Linked(trail'[p].was, v)
<1>1. \A p \in Marks : \A v \in MadeEnums : Linked(trail[p].was, v)
  BY DEF DomainInv
<1>2. QED
  BY <1>1

LEMMA DomainInvFollows ==
  ASSUME DomainInv, UNCHANGED made, DOMAIN mem' = DOMAIN mem,
         Idle' => \A v \in MadeEnums : Linked(mem', v),
         \A p \in Marks' : \A v \in MadeEnums : Linked(trail'[p].was, v)
  PROVE  DomainInv'
<1>1. ShapeInv'
  BY DEF DomainInv, ShapeInv, FieldsOf
<1>2. MadeEnums' = MadeEnums
  BY DEF MadeEnums
<1>3. ASSUME NEW v, Linked(mem', v) PROVE Linked(mem, v)'
  <2>1. Room(v)' = Room(v) /\ Array(mem, v)' = Array(mem', v)
    BY DEF Room, Array
  <2>2. Values(mem, v)' = Values(mem', v)
    BY <2>1 DEF Values
  <2>3. QED
    BY <1>3, <2>1, <2>2 DEF Linked
<1>4. ASSUME NEW v, NEW p, Linked(trail'[p].was, v) PROVE Linked(trail[p].was, v)'
  <2> DEFINE m == trail[p].was
  <2>1. Room(v)' = Room(v) /\ Array(m, v)' = Array(trail'[p].was, v)
    BY DEF Room, Array
  <2>2. Values(m, v)' = Values(trail'[p].was, v)
    BY <2>1 DEF Values
  <2>3. QED
    BY <1>4, <2>1, <2>2 DEF Linked
<1>5. Idle' => \A v \in MadeEnums' : Linked(mem, v)'
  BY <1>2, <1>3
<1>6. \A p \in Marks' : \A v \in MadeEnums' : Linked(trail[p].was, v)'
  BY <1>2, <1>4
<1>7. QED
  BY <1>1, <1>5, <1>6 DEF DomainInv

(* Stores add no mark.                                                      *)
LEMMA StoreMarks ==
  ASSUME TrailInv, NEW ws, IsSeq(ws), Store(ws)
  PROVE  \A p \in Marks' : p \in Marks /\ trail'[p] = trail[p]
<1>1. CASE ~(world > 0)
  <2>1. trail' = trail
    BY <1>1 DEF Store
  <2>2. QED
    BY <2>1 DEF Marks
<1>2. CASE world > 0
  <2>1. /\ Len(trail') = Len(trail) + Len(ws) /\ Len(trail) \in Nat /\ Len(ws) \in Nat
        /\ \A p \in 1 .. Len(trail) : trail'[p] = trail[p]
        /\ \A k \in 1 .. Len(ws) : trail'[Len(trail) + k] = Saved(ws[k][1], OldValue(ws, k))
    BY <1>2, StoreExtends
  <2> DEFINE n == Len(trail)
             m == Len(ws)
  <2> HIDE DEF n, m
  <2>2. ASSUME NEW p \in Marks' PROVE p \in Marks /\ trail'[p] = trail[p]
    <3>1. p \in 1 .. n + m /\ IsMark(trail'[p])
      BY <2>1 DEF Marks, IsMark, n, m
    <3>2. n \in Nat /\ m \in Nat
      BY <2>1 DEF n, m
    <3>3. CASE p \in 1 .. n
      BY <2>1, <3>1, <3>3 DEF Marks, n
    <3>4. CASE p \notin 1 .. n
      <4>1. p - n \in 1 .. m /\ n + (p - n) = p
        BY <3>1, <3>2, <3>4
      <4>2. trail'[p] = Saved(ws[p - n][1], OldValue(ws, p - n))
        BY <2>1, <4>1 DEF n, m
      <4>3. ~IsMark(trail'[p])
        BY <4>2 DEF IsMark, Saved
      <4>4. QED
        BY <3>1, <4>3
    <3>5. QED
      BY <3>3, <3>4
  <2>3. QED
    BY <2>2
<1>3. QED
  BY <1>1, <1>2

LEMMA DomainStep == TrailInv /\ DomainInv /\ [Next]_vars => DomainInv'
<1> SUFFICES ASSUME TrailInv, DomainInv, [Next]_vars PROVE DomainInv'
  OBVIOUS
<1> USE DEF worlds, store
<1>1. UNCHANGED trail => \A p \in Marks' : p \in Marks /\ trail'[p] = trail[p]
  BY DEF Marks
<1>2. ASSUME UNCHANGED <<made, mem, trail>>, Idle' => Idle
      PROVE  DomainInv'
  BY <1>1, <1>2, OldMarks, DomainInvFollows DEF DomainInv
<1>3. ASSUME NEW v \in MadeEnums, NEW i \in DOMAIN Dom(v),
             RemoveVal(v, i) \/ AddVal(v, i) \/ Instantiate(v, i)
      PROVE  DomainInv'
  <2>1. Idle /\ UNCHANGED made
    BY <1>3 DEF RemoveVal, AddVal, Instantiate
  <2>2. (\A u \in MadeEnums : Linked(mem', u)) /\ DOMAIN mem' = DOMAIN mem
    BY <1>3, <2>1, StoresKeep DEF DomainInv
  <2>3. \/ UNCHANGED trail
        \/ Store(RemovedStores(v, i)) \/ Store(AddedStores(v, i))
        \/ \E a : Store(RemovedStores(v, i) \o <<<<Field(v, "value"), a>>>>)
        \/ Store(<<<<Field(v, "value"), i>>, <<Field(v, "min"), i>>,
                   <<Field(v, "max"), i>>, <<Field(v, "card"), 1>>>>)
    BY <1>3 DEF RemoveVal, AddVal, Instantiate, Contradiction
  <2>4. UNCHANGED trail \/ \E ws : IsSeq(ws) /\ Store(ws)
    BY <2>3, StoresAreSequences, ShortSequences
  <2>5. \A p \in Marks' : p \in Marks /\ trail'[p] = trail[p]
    BY <1>1, <2>4, StoreMarks
  <2>6. QED
    BY <2>1, <2>2, <2>5, OldMarks, DomainInvFollows
<1>4. ASSUME NEW b \in MadeBounds, NEW i, UpdateInf(b, i) \/ UpdateSup(b, i)
      PROVE  DomainInv'
  <2>1. Idle /\ UNCHANGED made
    BY <1>4 DEF UpdateInf, UpdateSup
  <2>2. (\A u \in MadeEnums : Linked(mem', u)) /\ DOMAIN mem' = DOMAIN mem
    BY <1>4, <2>1, BoundsKeep DEF DomainInv
  <2>3. \/ UNCHANGED trail
        \/ Store(<<<<Field(b, "inf"), i>>>>) \/ Store(<<<<Field(b, "sup"), i>>>>)
    BY <1>4 DEF UpdateInf, UpdateSup, Contradiction
  <2>4. UNCHANGED trail \/ \E ws : IsSeq(ws) /\ Store(ws)
    BY <2>3, ShortSequences
  <2>5. \A p \in Marks' : p \in Marks /\ trail'[p] = trail[p]
    BY <1>1, <2>4, StoreMarks
  <2>6. QED
    BY <2>1, <2>2, <2>5, OldMarks, DomainInvFollows
<1>5. ASSUME Idle, UNCHANGED <<made, mem>>, NEW level, trail' = Append(trail, Mark(level))
      PROVE  DomainInv'
  <2>1. PICK S : trail \in Seq(S)
    BY DEF TrailInv, TrailTyped, IsSeq
  <2> DEFINE r == Mark(level)
             U == S \cup {r}
             n == Len(trail)
  <2>2. trail \in Seq(U) /\ r \in U
    BY <2>1
  <2> HIDE DEF r, U
  <2>3. /\ Len(trail') = n + 1 /\ n \in Nat
        /\ \A p \in 1 .. n : trail'[p] = trail[p]
        /\ trail'[n + 1] = r
    BY <1>5, <2>2, AppendProperties DEF r
  <2>4. r.was = mem
    BY DEF Mark, r
  <2> HIDE DEF n
  <2>5. ASSUME NEW p \in Marks', NEW v \in MadeEnums PROVE Linked(trail'[p].was, v)
    <3>1. p \in 1 .. n + 1 /\ IsMark(trail'[p])
      BY <2>3 DEF Marks, IsMark
    <3>2. CASE p = n + 1
      <4>1. Linked(mem, v)
        BY <1>5 DEF DomainInv
      <4>2. QED
        BY <2>3, <2>4, <3>2, <4>1
    <3>3. CASE p # n + 1
      <4>1. p \in 1 .. n
        BY <2>3, <3>1, <3>3
      <4>2. p \in Marks /\ trail'[p] = trail[p]
        BY <2>3, <3>1, <4>1 DEF Marks, IsMark, n
      <4>3. Linked(trail[p].was, v)
        BY <4>2 DEF DomainInv
      <4>4. QED
        BY <4>2, <4>3
    <3>4. QED
      BY <3>2, <3>3
  <2>6. QED
    BY <1>5, <2>5, DomainInvFollows DEF DomainInv
<1>6. ASSUME unwind.on, trail # <<>>, trail' = SubSeq(trail, 1, Len(trail) - 1)
      PROVE  \A p \in Marks' : p \in Marks /\ trail'[p] = trail[p]
  <2> DEFINE n == Len(trail) - 1
  <2>1. /\ n \in Nat /\ Len(trail) = n + 1 /\ Len(trail') = n
        /\ \A p \in 1 .. n : trail'[p] = trail[p]
    BY <1>6, LastTaken DEF TrailInv, TrailTyped
  <2> HIDE DEF n
  <2>2. QED
    BY <2>1 DEF Marks, IsMark
<1>7. CASE UndoStore
  <2>1. /\ unwind.on /\ unwind' = unwind /\ UNCHANGED made /\ trail # <<>>
        /\ trail' = SubSeq(trail, 1, Len(trail) - 1)
        /\ DOMAIN mem' = DOMAIN mem
    BY <1>7 DEF UndoStore
  <2>2. ~Idle'
    BY <2>1 DEF Idle
  <2>3. QED
    BY <1>6, <2>1, <2>2, OldMarks, DomainInvFollows
<1>8. CASE PopWorld
  <2>1. /\ unwind.on /\ UNCHANGED <<made, mem>> /\ trail # <<>>
        /\ IsMark(trail[Len(trail)]) /\ world' = world - 1
        /\ trail' = SubSeq(trail, 1, Len(trail) - 1)
    BY <1>8 DEF PopWorld
  <2>2. ASSUME Idle', NEW v \in MadeEnums PROVE Linked(mem, v)
    <3> DEFINE n == Len(trail)
    <3>1. n \in Marks /\ \A q \in Marks : q <= n
      BY <2>1, LastTaken DEF TrailInv, TrailTyped, Marks
    <3>2. trail[n].level = world /\ world \in Int
      BY <3>1 DEF TrailInv, MarksNumbered, TrailTyped
    <3>3. world > 0
      BY <2>1, <2>2, <3>2 DEF Idle
    <3>4. mem = trail[n].was
      BY <2>1, <3>2, <3>3, TrailInvGivesWorldRestored DEF WorldRestored
    <3>5. Linked(trail[n].was, v)
      BY <3>1 DEF DomainInv
    <3>6. QED
      BY <3>4, <3>5
  <2>3. QED
    BY <1>6, <2>1, <2>2, OldMarks, DomainInvFollows
<1>9. ASSUME NEW count, NewWorld(count) PROVE DomainInv'
  BY <1>5, <1>9 DEF NewWorld
<1>10. CASE Protected
  BY <1>5, <1>10 DEF Protected
<1>11. CASE SetBacktrackLimit \/ Abandon \/ Propagate
  BY <1>2, <1>11 DEF SetBacktrackLimit, Abandon, Propagate, Idle
<1>12. ASSUME NEW w, RestoreWorld(w) PROVE DomainInv'
  BY <1>2, <1>12 DEF RestoreWorld, Idle
<1>13. CASE UNCHANGED vars
  BY <1>2, <1>13 DEF vars, Idle
<1>14. QED
  BY <1>3, <1>4, <1>7, <1>8, <1>9, <1>10, <1>11, <1>12, <1>13 DEF Next

-----------------------------------------------------------------------------
(* What the properties say.                                                 *)

LEMMA WalkIsValues ==
  ASSUME ShapeInv, NEW v \in MadeEnums, NEW m, Linked(m, v),
         NEW first \in Nat, first \in Values(m, v) \/ first > m[Field(v, "max")]
  PROVE  /\ Reached([i \in 0 .. m[Field(v, "max")] |-> m[Bucket(v, i + 1)]],
                    m[Field(v, "max")], first)
              = {j \in Values(m, v) : first <= j}
         /\ m[Field(v, "min")] \in Nat /\ m[Field(v, "min")] \in Values(m, v)
         /\ {j \in Values(m, v) : m[Field(v, "min")] <= j} = Values(m, v)
<1> DEFINE N  == Room(v)
           d  == Array(m, v)
           S  == Values(m, v)
           lo == m[Field(v, "min")]
           hi == m[Field(v, "max")]
<1>1. N \in Nat
  BY FieldsThere
<1>2. d \in Cells(N) /\ Chained(d, S, lo, hi) /\ \A j \in 0 .. N : d[j] = m[Bucket(v, j)]
  BY DEF Linked, Array
<1>3. S \in SUBSET (0 .. N - 1)
  <2>1. m[Field(v, "producers_nb")] \in 1 .. N /\ S \subseteq 0 .. m[Field(v, "producers_nb")] - 1
    BY DEF Linked
  <2>2. QED
    BY <1>1, <2>1
<1> HIDE DEF N, d, S, lo, hi
<1>4. lo \in S /\ hi \in S /\ \A j \in S : lo <= j /\ j <= hi
  BY <1>2 DEF Chained
<1>5. [i \in 0 .. hi |-> m[Bucket(v, i + 1)]] = [i \in 0 .. hi |-> d[i + 1]]
  <2>1. hi \in 0 .. N - 1
    BY <1>3, <1>4
  <2>2. \A i \in 0 .. hi : i + 1 \in 0 .. N
    BY <1>1, <2>1
  <2>3. QED
    BY <1>2, <2>2
<1>6. Reached([i \in 0 .. hi |-> d[i + 1]], hi, first) = {j \in S : first <= j}
  BY <1>1, <1>2, <1>3, ChainIsWalked DEF S, hi
<1>7. lo \in Nat
  BY <1>3, <1>4
<1>8. QED
  BY <1>4, <1>5, <1>6, <1>7 DEF S, lo, hi

LEMMA WalkMeetsValues ==
  ASSUME ShapeInv, NEW v \in MadeEnums
  PROVE  /\ Linked(mem, v) => Walk(v) = Values(mem, v)
         /\ Linked(mem', v) => Walk(v)' = Values(mem', v)
<1>1. ASSUME Linked(mem, v) PROVE Walk(v) = Values(mem, v)
  <2>1. mem[Field(v, "min")] \in Nat /\ mem[Field(v, "min")] \in Values(mem, v)
    <3>1. Values(mem, v) \in SUBSET (0 .. Room(v) - 1) /\ mem[Field(v, "min")] \in Values(mem, v)
      BY <1>1, LinkedFacts
    <3>2. QED
      BY <3>1
  <2>2. QED
    BY <1>1, <2>1, WalkIsValues DEF Walk, WalkFrom, Onward
<1>2. ASSUME Linked(mem', v) PROVE Walk(v)' = Values(mem', v)
  <2>1. mem'[Field(v, "min")] \in Nat /\ mem'[Field(v, "min")] \in Values(mem', v)
    <3>1. mem'[Field(v, "min")] \in Values(mem', v)
      BY <1>2 DEF Linked, Chained
    <3>2. /\ Values(mem', v) \subseteq 0 .. mem'[Field(v, "producers_nb")] - 1
      BY <1>2 DEF Linked
    <3>3. QED
      BY <3>1, <3>2
  <2>2. QED
    BY <1>2, <2>1, WalkIsValues DEF Walk, WalkFrom, Onward
<1>3. QED
  BY <1>1, <1>2

LEMMA DomainInvGivesLinked == DomainInv => DomainLinked
<1> SUFFICES ASSUME DomainInv, Idle, NEW v \in MadeEnums
             PROVE  /\ Walk(v) = {i \in DOMAIN Dom(v) : CanProduce(v, i)}
                    /\ \A i \in Walk(v) : Onward(v, i) > i
                    /\ mem[Field(v, "card")] = Cardinality(Walk(v))
                    /\ Known(v) <=> mem[Field(v, "card")] = 1
  BY DEF DomainLinked
<1> DEFINE S == Values(mem, v)
           N == Room(v)
           c == mem[Field(v, "card")]
           lo == mem[Field(v, "min")]
           hi == mem[Field(v, "max")]
<1>1. ShapeInv /\ Linked(mem, v)
  BY DEF DomainInv
<1>2. Walk(v) = S
  BY <1>1, WalkMeetsValues
<1>3. /\ DOMAIN Dom(v) = 0 .. N /\ \A j \in 0 .. N : Dom(v)[j] = mem[Bucket(v, j)]
      /\ S = {j \in 0 .. N : CanProduce(v, j)}
      /\ S \in SUBSET (0 .. N - 1) /\ Dom(v) \in Cells(N) /\ Chained(Dom(v), S, lo, hi)
      /\ lo \in S /\ hi \in S
      /\ Known(v) => S = {mem[Field(v, "value")]}
      /\ ~Known(v) => lo < hi
  BY <1>1, LinkedFacts
<1>4. N \in Nat
  BY <1>1, FieldsThere
<1>5. c = Cardinality(S)
  BY <1>1 DEF Linked
<1> HIDE DEF S, N, c, lo, hi
<1>6. ASSUME NEW i \in S PROVE Onward(v, i) > i
  <2>1. Dom(v)[i + 1] > i
    BY <1>3, <1>4, ChainGoesOn
  <2>2. i + 1 \in 0 .. N
    BY <1>3, <1>4
  <2>3. QED
    BY <1>3, <2>1, <2>2 DEF Onward
<1>7. Known(v) <=> c = 1
  <2>1. Known(v) => c = 1
    BY <1>3, <1>5, FS_Singleton
  <2>2. IsFiniteSet(S)
    <3>1. IsFiniteSet(0 .. N - 1)
      BY <1>4, FS_Interval
    <3>2. QED
      BY <1>3, <3>1, FS_Subset
  <2>3. ASSUME c = 1, ~Known(v) PROVE FALSE
    <3>1. PICK x : S = {x}
      BY <1>5, <2>2, <2>3, FS_Singleton
    <3>2. lo = hi /\ lo \in Int
      BY <1>3, <3>1
    <3>3. QED
      BY <1>3, <2>3, <3>2
  <2>4. QED
    BY <2>1, <2>3
<1>8. QED
  BY <1>2, <1>3, <1>5, <1>6, <1>7 DEF c

(* The step that takes one value out of a domain.                           *)
LEMMA OneTakenOut ==
  ASSUME DomainInv, Idle, NEW u \in MadeEnums, NEW k \in DOMAIN Dom(u),
         RemoveVal(u, k) \/ AddVal(u, k) \/ Instantiate(u, k), mem' # mem,
         NEW v \in MadeEnums, NEW i \in Values(mem, v), Values(mem', v) = Values(mem, v) \ {i}
  PROVE  /\ mem'[Bucket(v, i + 1)] \in Nat
         /\ mem'[Bucket(v, i + 1)] \in Values(mem', v)
              \/ mem'[Bucket(v, i + 1)] > mem'[Field(v, "max")]
         /\ \A j \in Values(mem', v) : j > i => mem'[Bucket(v, i + 1)] <= j
<1>1. ShapeInv /\ (\A w \in MadeEnums : Linked(mem, w)) /\ Linked(mem, v)
  BY DEF DomainInv
<1>2. Touches(u)
  BY <1>1, StoresKeep
<1>3. u = v
  <2>1. SUFFICES ASSUME u # v PROVE FALSE
    OBVIOUS
  <2>2. Values(mem', v) = Values(mem, v)
    BY <1>1, <1>2, <2>1, OthersKeep
  <2>3. QED
    BY <2>2
<1>4. CASE RemoveVal(v, k)
  <2>1. k \in Values(mem, v)
    <3>1. DOMAIN Dom(v) = 0 .. Room(v) /\ Values(mem, v) = {j \in 0 .. Room(v) : CanProduce(v, j)}
      BY <1>1, LinkedFacts
    <3>2. QED
      BY <1>3, <1>4, <3>1 DEF RemoveVal
  <2>2. mem[Field(v, "min")] # mem[Field(v, "max")]
    BY <1>4 DEF RemoveVal, Contradiction, store
  <2>3. \/ LeftAlone(v, k) = {} /\ Store(RemovedStores(v, k))
        \/ \E a \in LeftAlone(v, k) :
             Store(RemovedStores(v, k) \o <<<<Field(v, "value"), a>>>>)
    BY <1>4, <2>2 DEF RemoveVal
  <2>4. /\ Values(mem', v) = Values(mem, v) \ {k}
        /\ mem'[Bucket(v, k + 1)] \in Nat
        /\ mem'[Bucket(v, k + 1)] \in Values(mem', v)
             \/ mem'[Bucket(v, k + 1)] > mem'[Field(v, "max")]
        /\ \A j \in Values(mem', v) : j > k => mem'[Bucket(v, k + 1)] <= j
    BY <1>1, <2>1, <2>2, <2>3, RemoveKeeps
  <2>5. k = i
    BY <2>1, <2>4
  <2>6. QED
    BY <2>4, <2>5
<1>5. CASE AddVal(v, k)
  <2>1. /\ k = mem[Field(v, "producers_nb")] /\ k < Room(v)
        /\ Known(v) => \A j \in DOMAIN Dom(v) : Dom(v)[j] = j => j = mem[Field(v, "value")]
        /\ Store(AddedStores(v, k))
    BY <1>5 DEF AddVal, Room
  <2>2. Values(mem', v) = Values(mem, v) \cup {k}
    BY <1>1, <2>1, AddKeeps
  <2>3. QED
    BY <2>2
<1>6. CASE Instantiate(v, k)
  <2> DEFINE N == Room(v)
             d == Dom(v)
             S == Values(mem, v)
             lo == mem[Field(v, "min")]
             hi == mem[Field(v, "max")]
  <2>1. d[k] = k
    BY <1>3, <1>6 DEF Instantiate, Contradiction, store
  <2>2. /\ ~Known(v)
        /\ Store(<<<<Field(v, "value"), k>>, <<Field(v, "min"), k>>,
                   <<Field(v, "max"), k>>, <<Field(v, "card"), 1>>>>)
    BY <1>3, <1>6, <2>1 DEF Instantiate
  <2>3. Values(mem', v) = {k} /\ k \in S
    BY <1>1, <1>3, <2>1, <2>2, InstantiateKeeps
  <2>4. S = {k, i} /\ k # i
    BY <2>3
  <2>5. /\ N \in Nat /\ N < Unknown
        /\ \A j \in 0 .. N : Bucket(v, j) \in DOMAIN mem
        /\ Field(v, "max") \in DOMAIN mem
    BY <1>1, FieldsThere DEF EnumNames
  <2>6. /\ d \in Cells(N) /\ \A j \in 0 .. N : d[j] = mem[Bucket(v, j)]
        /\ S \in SUBSET (0 .. N - 1) /\ Chained(d, S, lo, hi)
        /\ lo \in S /\ hi \in S /\ \A j \in S : lo <= j /\ j <= hi
    BY <1>1, LinkedFacts
  <2> HIDE DEF N, d, S, lo, hi
  <2>7. ASSUME NEW x \in DOMAIN mem
        PROVE  mem'[x] = IF x = Field(v, "card") THEN 1
                         ELSE IF x = Field(v, "max") THEN k
                         ELSE IF x = Field(v, "min") THEN k
                         ELSE IF x = Field(v, "value") THEN k ELSE mem[x]
    <3>1. mem'[x] = Final(<<<<Field(v, "value"), k>>, <<Field(v, "min"), k>>,
                            <<Field(v, "max"), k>>, <<Field(v, "card"), 1>>>>, x, mem[x])
      BY <2>2, StoreLeaves
    <3>2. QED
      BY <3>1, FinalOfFour
  <2>8. i \in S /\ i \in 0 .. N - 1 /\ k \in 0 .. N - 1 /\ i + 1 \in 0 .. N
    BY <2>4, <2>5, <2>6
  <2>9. mem'[Bucket(v, i + 1)] = d[i + 1] /\ mem'[Field(v, "max")] = k
    <3>1. /\ \A f \in EnumNames : Field(v, f) # Bucket(v, i + 1)
          /\ Field(v, "card") # Field(v, "max")
          /\ {"card", "max", "min", "value"} \subseteq EnumNames
      BY DEF EnumNames, Field, Bucket
    <3>2. QED
      BY <2>5, <2>6, <2>7, <2>8, <3>1
  <2>10. d[i + 1] \in Nat
    <3>1. d[i + 1] \in 0 .. Unknown
      BY <2>6, <2>8 DEF Cells
    <3>2. QED
      BY <3>1
  <2>11. /\ i < hi => d[i + 1] \in S /\ i < d[i + 1]
         /\ i = hi => d[i + 1] > hi
    BY <2>5, <2>6, <2>8, ChainGoesOn
  <2>12. d[i + 1] = k \/ (d[i + 1] > k /\ k < i)
    <3>1. CASE i = hi
      BY <2>4, <2>6, <2>8, <2>10, <2>11, <3>1
    <3>2. CASE i # hi
      BY <2>4, <2>6, <2>8, <2>11, <3>2
    <3>3. QED
      BY <3>1, <3>2
  <2>13. QED
    BY <2>3, <2>8, <2>9, <2>10, <2>12
<1>7. QED
  BY <1>3, <1>4, <1>5, <1>6

LEMMA LoopStep ==
  ASSUME DomainInv, [Next]_vars, Idle, ~unwind'.on, mem' # mem,
         NEW v \in MadeEnums, NEW i \in Walk(v), Walk(v)' = Walk(v) \ {i}
  PROVE  LET met == WalkFrom(v, mem[Bucket(v, i + 1)])'
         IN met \subseteq Walk(v)' /\ \A j \in Walk(v)' : j > i => j \in met
<1> DEFINE first == mem'[Bucket(v, i + 1)]
<1>1. ShapeInv /\ (\A w \in MadeEnums : Linked(mem, w)) /\ Linked(mem, v)
  BY DEF DomainInv
<1>2. Walk(v) = Values(mem, v)
  BY <1>1, WalkMeetsValues
<1>3. \/ \E u \in MadeEnums : \E k \in DOMAIN Dom(u) :
           RemoveVal(u, k) \/ AddVal(u, k) \/ Instantiate(u, k)
      \/ \E b \in MadeBounds : \E k \in 0 .. made[b].sup : UpdateInf(b, k) \/ UpdateSup(b, k)
  <2>1. /\ \A count : ~NewWorld(count)
        /\ ~Protected /\ ~SetBacktrackLimit /\ ~Abandon /\ ~UndoStore /\ ~PopWorld /\ ~Propagate
        /\ \A w : ~RestoreWorld(w)
        /\ ~UNCHANGED vars
    BY DEF NewWorld, Protected, SetBacktrackLimit, Abandon, UndoStore, PopWorld, Propagate,
           RestoreWorld, vars, store, Idle
  <2>2. QED
    BY <2>1 DEF Next
<1>4. CASE \E b \in MadeBounds : \E k \in 0 .. made[b].sup : UpdateInf(b, k) \/ UpdateSup(b, k)
  <2>1. PICK b \in MadeBounds : \E k \in 0 .. made[b].sup : UpdateInf(b, k) \/ UpdateSup(b, k)
    BY <1>4
  <2>2. Touches(b) /\ b # v
    BY <1>1, <2>1, BoundsKeep, KernelAssumption DEF KernelAssumption, MadeEnums, MadeBounds
  <2>3. Linked(mem', v) /\ Values(mem', v) = Values(mem, v)
    BY <1>1, <2>2, OthersKeep
  <2>4. Walk(v)' = Walk(v)
    BY <1>1, <1>2, <2>3, WalkMeetsValues
  <2>5. QED
    BY <2>4
<1>5. ASSUME NEW u \in MadeEnums, NEW k \in DOMAIN Dom(u),
             RemoveVal(u, k) \/ AddVal(u, k) \/ Instantiate(u, k)
      PROVE  LET met == WalkFrom(v, mem[Bucket(v, i + 1)])'
             IN met \subseteq Walk(v)' /\ \A j \in Walk(v)' : j > i => j \in met
  <2>1. Linked(mem', v)
    BY <1>1, <1>5, StoresKeep
  <2>2. Walk(v)' = Values(mem', v)
    BY <1>1, <2>1, WalkMeetsValues
  <2>3. /\ first \in Nat
        /\ first \in Values(mem', v) \/ first > mem'[Field(v, "max")]
        /\ \A j \in Values(mem', v) : j > i => first <= j
    BY <1>2, <1>5, <2>2, OneTakenOut
  <2>4. WalkFrom(v, mem[Bucket(v, i + 1)])' = {j \in Values(mem', v) : first <= j}
    BY <1>1, <2>1, <2>3, WalkIsValues DEF WalkFrom, Onward
  <2>5. QED
    BY <2>2, <2>3, <2>4
<1>6. QED
  BY <1>3, <1>4, <1>5

(* What PostEvent leaves in the event field.                                *)
LEMMA PostLeaves ==
  ASSUME EventInv, NEW v \in DOMAIN made, NEW kind, PostEvent(v, kind), kind # "none"
  PROVE  /\ event'[v] # "none"
         /\ kind = "instantiate" => event'[v] = "instantiate"
         /\ kind # "instantiate" /\ event'[v] = "instantiate" => event[v] = "instantiate"
<1>1. v \in DOMAIN event
  BY DEF EventInv
<1>2. \/ /\ kind = "instantiate" /\ event[v] # "instantiate"
         /\ event' = [event EXCEPT ![v] = "instantiate"]
      \/ kind # "instantiate" /\ event[v] = "none" /\ event' = [event EXCEPT ![v] = kind]
      \/ /\ ~(kind = "instantiate" /\ event[v] # "instantiate")
         /\ ~(kind # "instantiate" /\ event[v] = "none")
         /\ event' = event
  BY DEF PostEvent, Posted
<1>3. QED
  BY <1>1, <1>2

LEMMA ContentOfOthers ==
  ASSUME NEW u, NEW v, u # v, Touches(u), DOMAIN mem' = DOMAIN mem
  PROVE  ContentOf(v)' = ContentOf(v)
<1>1. \A x \in {y \in DOMAIN mem : y[1] = v} : mem'[x] = mem[x]
  BY DEF Touches
<1>2. QED
  BY <1>1 DEF ContentOf

LEMMA AnnounceStep ==
  ASSUME EventInv, DomainInv, [Next]_vars, NEW v \in DOMAIN made,
         Idle, ContentOf(v)' # ContentOf(v)
  PROVE  \/ v \in Enums /\ \E i \in DOMAIN Dom(v) : AddVal(v, i)
         \/ /\ event'[v] # "none"
            /\ v \in Enums =>
                 /\ Known(v)' => event'[v] = "instantiate"
                 /\ event'[v] = "instantiate" => Known(v)' \/ event[v] = "instantiate"
<1> DEFINE Goal ==
             \/ v \in Enums /\ \E i \in DOMAIN Dom(v) : AddVal(v, i)
             \/ /\ event'[v] # "none"
                /\ v \in Enums =>
                     /\ Known(v)' => event'[v] = "instantiate"
                     /\ event'[v] = "instantiate" => Known(v)' \/ event[v] = "instantiate"
<1>1. ShapeInv /\ \A w \in MadeEnums : Linked(mem, w)
  BY DEF DomainInv
<1>2. mem' # mem
  BY DEF ContentOf
<1>3. \/ \E u \in MadeEnums : \E k \in DOMAIN Dom(u) :
           RemoveVal(u, k) \/ AddVal(u, k) \/ Instantiate(u, k)
      \/ \E b \in MadeBounds : \E k \in 0 .. made[b].sup : UpdateInf(b, k) \/ UpdateSup(b, k)
  <2>1. /\ \A count : ~NewWorld(count)
        /\ ~Protected /\ ~SetBacktrackLimit /\ ~Abandon /\ ~UndoStore /\ ~PopWorld /\ ~Propagate
        /\ \A w : ~RestoreWorld(w)
        /\ ~UNCHANGED vars
    BY <1>2 DEF NewWorld, Protected, SetBacktrackLimit, Abandon, UndoStore, PopWorld, Propagate,
           RestoreWorld, vars, store, Idle
  <2>2. QED
    BY <2>1 DEF Next
<1>4. ASSUME NEW b \in MadeBounds, NEW k, UpdateInf(b, k) \/ UpdateSup(b, k)
      PROVE  Goal
  <2>1. Touches(b) /\ DOMAIN mem' = DOMAIN mem
    BY <1>1, <1>4, BoundsKeep
  <2>2. b = v /\ v \notin Enums
    BY <2>1, ContentOfOthers, KernelAssumption DEF KernelAssumption, MadeBounds
  <2>3. PostEvent(v, "bound")
    BY <1>2, <1>4, <2>2 DEF UpdateInf, UpdateSup, Contradiction, store
  <2>4. QED
    BY <2>2, <2>3, PostLeaves
<1>5. ASSUME NEW u \in MadeEnums, NEW k \in DOMAIN Dom(u),
             RemoveVal(u, k) \/ AddVal(u, k) \/ Instantiate(u, k)
      PROVE  Goal
  <2>1. Touches(u) /\ DOMAIN mem' = DOMAIN mem
    BY <1>1, <1>5, StoresKeep
  <2>2. u = v /\ v \in Enums /\ v \in MadeEnums /\ Linked(mem, v)
    BY <1>1, <2>1, ContentOfOthers DEF MadeEnums
  <2>3. Known(v)' <=> mem'[Field(v, "value")] # Unknown
    BY DEF Known
  <2>4. CASE RemoveVal(v, k)
    <3>1. k \in Values(mem, v)
      <4>1. DOMAIN Dom(v) = 0 .. Room(v) /\ Values(mem, v) = {j \in 0 .. Room(v) : CanProduce(v, j)}
        BY <1>1, <2>2, LinkedFacts
      <4>2. QED
        BY <2>2, <2>4, <4>1 DEF RemoveVal
    <3>2. mem[Field(v, "min")] # mem[Field(v, "max")]
      BY <1>2, <2>4 DEF RemoveVal, Contradiction, store
    <3>3. \/ LeftAlone(v, k) = {} /\ Store(RemovedStores(v, k))
          \/ \E a \in LeftAlone(v, k) :
               Store(RemovedStores(v, k) \o <<<<Field(v, "value"), a>>>>)
      BY <2>4, <3>2 DEF RemoveVal
    <3>4. mem'[Field(v, "value")] # Unknown <=> LeftAlone(v, k) # {}
      BY <1>1, <2>2, <3>1, <3>2, <3>3, RemoveKeeps
    <3>5. \/ LeftAlone(v, k) # {} /\ PostEvent(v, "instantiate")
          \/ LeftAlone(v, k) = {} /\ PostEvent(v, "removal")
      BY <2>4, <3>2 DEF RemoveVal
    <3>6. QED
      BY <2>3, <3>4, <3>5, PostLeaves
  <2>5. CASE AddVal(v, k)
    BY <2>2, <2>5
  <2>6. CASE Instantiate(v, k)
    <3>1. Dom(v)[k] = k
      BY <1>2, <2>6 DEF Instantiate, Contradiction, store
    <3>2. /\ ~Known(v)
          /\ Store(<<<<Field(v, "value"), k>>, <<Field(v, "min"), k>>,
                     <<Field(v, "max"), k>>, <<Field(v, "card"), 1>>>>)
          /\ PostEvent(v, "instantiate")
      BY <2>6, <3>1 DEF Instantiate
    <3>3. mem'[Field(v, "value")] # Unknown
      BY <1>1, <2>2, <3>1, <3>2, InstantiateKeeps
    <3>4. QED
      BY <2>3, <3>2, <3>3, PostLeaves
  <2>7. QED
    BY <1>5, <2>2, <2>4, <2>5, <2>6
<1>6. QED
  BY <1>3, <1>4, <1>5

(* The producers of a causal (propagations.h, var.cpp:210-330): however values
   are taken out, added and restored, and however many there are, the loop over
   the buckets meets the values that can_produce accepts, upwards, card counts
   them, and a variable is known exactly when one is left.                   *)
THEOREM DomainsAreLinked == Spec => []DomainLinked
<1>1. Init => TrailInv /\ DomainInv
  BY TrailAtFirst, LinkedAtFirst
<1>2. TrailInv /\ DomainInv /\ [Next]_vars => (TrailInv /\ DomainInv)'
  BY TrailStep, DomainStep
<1>3. QED
  BY <1>1, <1>2, DomainInvGivesLinked, PTL DEF Spec

(* The loop that takes out the value it is at goes on over all values above. *)
THEOREM LoopsGoOn == Spec => LoopGoesOn
<1>1. Init => TrailInv /\ DomainInv
  BY TrailAtFirst, LinkedAtFirst
<1>2. TrailInv /\ DomainInv /\ [Next]_vars => (TrailInv /\ DomainInv)'
  BY TrailStep, DomainStep
<1>3. DomainInv /\ [Next]_vars =>
        [Idle /\ ~unwind'.on /\ mem' # mem =>
           \A v \in MadeEnums :
             LET now   == Walk(v)
                 after == Walk(v)'
             IN \A i \in now :
                  after = now \ {i} =>
                    LET met == WalkFrom(v, mem[Bucket(v, i + 1)])'
                    IN met \subseteq after /\ \A j \in after : j > i => j \in met]_vars
  BY LoopStep
<1>4. QED
  BY <1>1, <1>2, <1>3, PTL DEF Spec, LoopGoesOn

(* What is taken off a domain is announced in the queue that says it.        *)
THEOREM ChangesAreAnnounced == Spec => ChangesAnnounced
<1>1. Init => EventInv /\ TrailInv /\ DomainInv
  BY EventsAtFirst, TrailAtFirst, LinkedAtFirst
<1>2. EventInv /\ TrailInv /\ DomainInv /\ [Next]_vars => (EventInv /\ TrailInv /\ DomainInv)'
  BY EventsStep, TrailStep, DomainStep
<1>3. EventInv /\ DomainInv /\ [Next]_vars =>
        [\A v \in DOMAIN made :
           (Idle /\ ContentOf(v)' # ContentOf(v)) =>
             \/ v \in Enums /\ \E i \in DOMAIN Dom(v) : AddVal(v, i)
             \/ /\ event'[v] # "none"
                /\ v \in Enums =>
                     /\ Known(v)' => event'[v] = "instantiate"
                     /\ event'[v] = "instantiate" => Known(v)' \/ event[v] = "instantiate"]_vars
  BY AnnounceStep
<1>4. QED
  BY <1>1, <1>2, <1>3, PTL DEF Spec, ChangesAnnounced

=============================================================================
