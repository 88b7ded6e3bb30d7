---------------------------- MODULE DaeRunProof ----------------------------
(***************************************************************************)
(* Theorems about DaeRun, for every size of the population, every number   *)
(* of searches and generations, and every choice of outcomes.              *)
(***************************************************************************)
EXTENDS DaeRun, FiniteSetTheorems, TLAPS

USE RunAssumption

Individuals ==
  [valid : BOOLEAN, feasible : BOOLEAN, makespan : Nat, fitness : Nat, limit : Nat]

Labels == {"counted", "emptied", "leave", "first", "ready", "replace", "restart"}
Between == Labels \cup {"estimate", "raise", "main", "breed", "end_run"}

(* How many individuals are evaluated for what follows.                     *)
SizeFor(label) ==
  IF label = "replace" THEN Offsprings
  ELSE IF label \in {"emptied", "ready"} THEN 1 ELSE PopSize

TypeOK ==
  /\ pc \in Between \cup {"evaluating", "finished", "aborted"}
  /\ pop \in [1 .. PopSize -> Individuals]
  /\ \/ then \in Labels
     \/ then = "" /\ batch = <<>> /\ pc \in {"estimate", "main"}
  /\ then \in Labels => batch \in [1 .. SizeFor(then) -> Individuals]
  /\ left \subseteq DOMAIN batch
  /\ job \in [Threads -> [stage : {"idle", "solving", "better", "dump"}, at : Nat]]
  /\ dumper \in [best : Nat, count : Nat]
  /\ seen \subseteq Outcomes \X BOOLEAN
  /\ b_max_in \in Nat /\ b_max_fixed \in Nat /\ goodguys \in Nat /\ found \in BOOLEAN
  /\ best_makespan \in Nat /\ dump_file_count \in Nat
  /\ best \in Individuals
  /\ gens \in Nat /\ run \in Nat /\ bred \in Nat

(* A thread works on a place it has taken, and nobody works between two
   evaluations.                                                             *)
Shape ==
  /\ \A t \in Threads : job[t].stage # "idle" => job[t].at \in DOMAIN batch \ left
  /\ pc \in Between => \A t \in Threads : job[t].stage = "idle"
  /\ pc \in Labels => then = pc

TypeInv == TypeOK /\ Shape

-----------------------------------------------------------------------------
LEMMA EmptyDomain == DOMAIN <<>> = {}
  <1>1. <<>> \in Seq(Nat) /\ Len(<<>>) = 0
    OBVIOUS
  <1> QED
    BY <1>1

LEMMA FreshTyped ==
  /\ Fresh \in Individuals /\ ~Fresh.feasible
  /\ FreshPop \in [1 .. PopSize -> Individuals]
  /\ <<Fresh>> \in [1 .. 1 -> Individuals]
  <1>1. Fresh \in Individuals /\ ~Fresh.feasible
    BY DEF Fresh, Individuals
  <1>2. FreshPop \in [1 .. PopSize -> Individuals]
    BY <1>1 DEF FreshPop
  <1>3. <<Fresh>> \in [1 .. 1 -> Individuals]
    <2>1. <<Fresh>> = [i \in 1 .. 1 |-> Fresh]
      OBVIOUS
    <2> QED
      BY <1>1, <2>1
  <1> QED
    BY <1>1, <1>2, <1>3

LEMMA IndividualTyped ==
  ASSUME NEW o \in Outcomes, NEW l \in Nat
  PROVE  Individual(o, l) \in Individuals
  BY DEF Individual, Individuals

LEMMA BatchTyped ==
  ASSUME TypeOK
  PROVE  \A i \in DOMAIN batch : batch[i] \in Individuals /\ i \in Nat
  <1>1. CASE then = ""
    <2>1. batch = <<>>
      BY <1>1 DEF TypeOK, Labels
    <2> QED
      BY <2>1, EmptyDomain
  <1>2. CASE then \in Labels
    <2>1. batch \in [1 .. SizeFor(then) -> Individuals]
      BY <1>2 DEF TypeOK
    <2>2. \A i \in 1 .. SizeFor(then) : i \in Nat
      BY DEF SizeFor
    <2> QED
      BY <2>1, <2>2
  <1> QED
    BY <1>1, <1>2 DEF TypeOK

LEMMA ChampionTyped ==
  ASSUME NEW p, NEW n \in Nat, p \in [1 .. n -> Individuals], NEW x \in Champions(p)
  PROVE  x \in Individuals
  BY DEF Champions, ToSet

LEMMA ReplacedTyped ==
  ASSUME NEW p, p \in [1 .. PopSize -> Individuals],
         NEW o, o \in [1 .. Offsprings -> Individuals],
         NEW next \in Replaced(p, o)
  PROVE  next \in [1 .. PopSize -> Individuals]
  <1>1. PICK sorted \in Truncated(o), x \in Champions(p) :
          next = IF Fitter(x, sorted[1]) THEN [sorted EXCEPT ![PopSize] = x] ELSE sorted
    BY DEF Replaced
  <1>2. sorted \in [1 .. PopSize -> Individuals]
    BY DEF Truncated
  <1>3. x \in Individuals
    BY ChampionTyped
  <1> QED
    BY <1>1, <1>2, <1>3

LEMMA BatchedTyped ==
  ASSUME TypeInv, NEW label \in Labels,
         NEW p, p \in [1 .. SizeFor(label) -> Individuals], Apply(p, label),
         job' = job, \A t \in Threads : job[t].stage = "idle"
  PROVE  /\ pc' = "evaluating" /\ then' = label
         /\ batch' \in [1 .. SizeFor(then') -> Individuals]
         /\ left' \subseteq DOMAIN batch'
         /\ Shape'
  BY DEF Apply, Shape, Labels, Between

LEMMA SizesKnown ==
  /\ \A l \in {"counted", "leave", "first", "restart"} : SizeFor(l) = PopSize
  /\ \A l \in {"emptied", "ready"} : SizeFor(l) = 1
  /\ SizeFor("replace") = Offsprings
  BY DEF SizeFor

LEMMA InitTyped == Init => TypeInv
  <1> SUFFICES ASSUME Init PROVE TypeInv
    OBVIOUS
  <1>1. Shape
    BY DEF Init, Shape, Idle, Labels, Between
  <1>2. TypeOK
    BY FreshTyped DEF Init, TypeOK, Idle, Labels, Between
  <1> QED
    BY <1>1, <1>2 DEF TypeInv

LEMMA TakeTyped ==
  ASSUME TypeInv, NEW t \in Threads, Take(t)
  PROVE  TypeInv'
  <1>1. PICK i \in left :
          /\ left' = left \ {i}
          /\ job' = IF batch[i].valid THEN job
                    ELSE [job EXCEPT ![t] = [stage |-> "solving", at |-> i]]
    BY DEF Take
  <1>2. i \in DOMAIN batch /\ i \in Nat
    BY BatchTyped DEF TypeInv, TypeOK
  <1>3. TypeOK'
    BY <1>1, <1>2 DEF TypeInv, TypeOK, Take, estimate, handed, engine
  <1>4. Shape'
    BY <1>1, <1>2 DEF TypeInv, TypeOK, Shape, Take, Between, Labels
  <1> QED
    BY <1>3, <1>4 DEF TypeInv

LEMMA SolveTyped ==
  ASSUME TypeInv, NEW t \in Threads, Solve(t)
  PROVE  TypeInv'
  <1>1. PICK o \in Outcomes :
          /\ batch' = [batch EXCEPT ![job[t].at] = Individual(o, b_max_in)]
          /\ seen' = IF o.feasible THEN seen \cup {<<o, then \in {"emptied", "ready"}>>} ELSE seen
          /\ job' = [job EXCEPT ![t] = IF BetterPlan(Individual(o, b_max_in))
                                       THEN [@ EXCEPT !.stage = "better"] ELSE Idle]
    BY DEF Solve
  <1>2. Individual(o, b_max_in) \in Individuals
    BY IndividualTyped DEF TypeInv, TypeOK
  <1>3. job[t].at \in DOMAIN batch
    BY DEF TypeInv, Shape, Solve
  <1>4. DOMAIN batch' = DOMAIN batch
    BY <1>1
  <1>5. then \in Labels
    <2>1. pc \notin Between
      BY DEF Solve, TypeInv, Shape
    <2> QED
      BY <2>1 DEF TypeInv, TypeOK
  <1>6. batch' \in [1 .. SizeFor(then) -> Individuals]
    BY <1>1, <1>2, <1>3, <1>5 DEF TypeInv, TypeOK
  <1>7. job' \in [Threads -> [stage : {"idle", "solving", "better", "dump"}, at : Nat]]
    BY ZenonT(120), <1>1 DEF TypeInv, TypeOK, Idle
  <1>8. seen' \subseteq Outcomes \X BOOLEAN
    <2>1. (then \in {"emptied", "ready"}) \in BOOLEAN
      OBVIOUS
    <2>2. <<o, then \in {"emptied", "ready"}>> \in Outcomes \X BOOLEAN
      BY <2>1
    <2>3. seen \subseteq Outcomes \X BOOLEAN
      BY DEF TypeInv, TypeOK
    <2> QED
      BY <1>1, <2>2, <2>3
  <1>9. TypeOK'
    BY <1>4, <1>5, <1>6, <1>7, <1>8 DEF TypeInv, TypeOK, Solve, estimate, handed, engine
  <1>10. Shape'
    <2>1. \A u \in Threads : job'[u].stage # "idle" => job[u].stage # "idle" /\ job'[u].at = job[u].at
      <3> SUFFICES ASSUME NEW u \in Threads, job'[u].stage # "idle"
                   PROVE  job[u].stage # "idle" /\ job'[u].at = job[u].at
        OBVIOUS
      <3>1. CASE u # t
        BY <1>1, <3>1 DEF TypeInv, TypeOK
      <3>2. CASE u = t /\ BetterPlan(Individual(o, b_max_in))
        <4>1. job[t] \in [stage : {"idle", "solving", "better", "dump"}, at : Nat]
          BY DEF TypeInv, TypeOK
        <4>2. job'[t] = [job[t] EXCEPT !.stage = "better"]
          BY <1>1, <3>2 DEF TypeInv, TypeOK
        <4> QED
          BY <3>2, <4>1, <4>2 DEF Solve
      <3>3. CASE u = t /\ ~BetterPlan(Individual(o, b_max_in))
        BY <1>1, <3>3 DEF TypeInv, TypeOK, Solve, Idle
      <3> QED
        BY <3>1, <3>2, <3>3
    <2> QED
      BY <1>4, <2>1 DEF TypeInv, Shape, Solve
  <1> QED
    BY <1>9, <1>10 DEF TypeInv

LEMMA RememberTyped ==
  ASSUME TypeInv, NEW t \in Threads, Remember(t)
  PROVE  TypeInv'
  <1>1. batch[job[t].at].makespan \in Nat
    BY BatchTyped DEF TypeInv, Shape, Remember, Individuals
  <1>2. TypeOK'
    BY ZenonT(120), <1>1 DEF TypeInv, TypeOK, Remember, estimate, handed, engine
  <1>3. Shape'
    BY ZenonT(120) DEF TypeInv, TypeOK, Shape, Remember
  <1> QED
    BY <1>2, <1>3 DEF TypeInv

LEMMA DumpTyped ==
  ASSUME TypeInv, NEW t \in Threads, Dump(t)
  PROVE  TypeInv'
  <1>1. TypeOK'
    <2>1. job' \in [Threads -> [stage : {"idle", "solving", "better", "dump"}, at : Nat]]
      BY DEF TypeInv, TypeOK, Dump, Idle
    <2>2. dumper' \in [best : Nat, count : Nat]
      <3>1. dumper' = [dumper EXCEPT !.count = dumper.count + 1]
        BY DEF Dump
      <3>2. dumper \in [best : Nat, count : Nat]
        BY DEF TypeInv, TypeOK
      <3> QED
        BY <3>1, <3>2
    <2> QED
      BY <2>1, <2>2 DEF TypeInv, TypeOK, Dump, estimate, handed, engine
  <1>2. Shape'
    BY DEF TypeInv, TypeOK, Shape, Dump, Idle
  <1> QED
    BY <1>1, <1>2 DEF TypeInv

LEMMA NobodyWorks ==
  ASSUME TypeInv, pc \in Between
  PROVE  /\ \A t \in Threads : job[t].stage = "idle"
         /\ pc \in Labels => /\ then = pc
                             /\ batch \in [1 .. SizeFor(pc) -> Individuals]
  BY DEF TypeInv, TypeOK, Shape, Labels

LEMMA AppliedTyped ==
  ASSUME TypeInv, Applied
  PROVE  TypeInv'
  <1>1. then \in Labels
    BY DEF TypeInv, TypeOK, Applied, Between, Labels
  <1>2. \A t \in Threads : job[t].stage = "idle"
    BY DEF Applied, Idle
  <1>3. TypeOK'
    BY <1>1 DEF TypeInv, TypeOK, Applied, working, estimate, handed, engine, Between
  <1>4. Shape'
    BY <1>1, <1>2 DEF TypeInv, Shape, Applied, working, Labels
  <1> QED
    BY <1>3, <1>4 DEF TypeInv

LEMMA TimeOutTyped ==
  ASSUME TypeInv, NEW t \in Threads, TimeOut(t)
  PROVE  TypeInv'
  <1>1. pc' \in {"finished", "aborted"}
    BY DEF TimeOut
  <1>2. then \in Labels
    BY DEF TimeOut, Labels
  <1>3. TypeOK'
    BY <1>1, <1>2 DEF TypeInv, TypeOK, TimeOut, working, estimate, handed, engine
  <1>4. Shape'
    BY <1>1 DEF TypeInv, Shape, TimeOut, working, Labels, Between
  <1> QED
    BY <1>3, <1>4 DEF TypeInv

LEMMA TryLimitTyped ==
  ASSUME TypeInv, TryLimit
  PROVE  TypeInv'
  <1>1. /\ Shape' /\ pc' = "evaluating" /\ then' = "counted" /\ left' \subseteq DOMAIN batch'
        /\ batch' \in [1 .. SizeFor(then') -> Individuals]
    BY NobodyWorks, SizesKnown, BatchedTyped DEF TypeInv, TypeOK, TryLimit, Between, Labels
  <1>2. TypeOK'
    BY <1>1 DEF TypeInv, TypeOK, TryLimit, NewDumper, estimate, handed, engine, Labels
  <1> QED
    BY <1>1, <1>2 DEF TypeInv

LEMMA LeaveLoopTyped ==
  ASSUME TypeInv, LeaveLoop
  PROVE  TypeInv'
  <1>1. /\ Shape' /\ pc' = "evaluating" /\ then' = "leave" /\ left' \subseteq DOMAIN batch'
        /\ batch' \in [1 .. SizeFor(then') -> Individuals]
    BY NobodyWorks, SizesKnown, BatchedTyped DEF TypeInv, TypeOK, LeaveLoop, Between, Labels
  <1>2. TypeOK'
    BY <1>1 DEF TypeInv, TypeOK, LeaveLoop, NewDumper, estimate, handed, engine, Labels
  <1> QED
    BY <1>1, <1>2 DEF TypeInv

LEMMA MainTyped ==
  ASSUME TypeInv, Main
  PROVE  TypeInv'
  <1>1. /\ Shape' /\ pc' = "evaluating" /\ then' = "first" /\ left' \subseteq DOMAIN batch'
        /\ batch' \in [1 .. SizeFor(then') -> Individuals]
    BY NobodyWorks, SizesKnown, BatchedTyped DEF TypeInv, TypeOK, Main, Between, Labels
  <1>2. TypeOK'
    BY <1>1 DEF TypeInv, TypeOK, Main, NewDumper, handed, engine, Labels
  <1> QED
    BY <1>1, <1>2 DEF TypeInv

LEMMA CountTyped ==
  ASSUME TypeInv, Count
  PROVE  TypeInv'
  <1>1. batch \in [1 .. PopSize -> Individuals] /\ pop' \in [1 .. PopSize -> Individuals]
    BY NobodyWorks, SizesKnown, FreshTyped DEF Count, Between, Labels
  <1>2. goodguys' \in Nat
    <2>1. IsFiniteSet(1 .. PopSize)
      BY FS_Interval
    <2>2. IsFiniteSet({i \in DOMAIN batch : batch[i].feasible})
      BY <1>1, <2>1, FS_Subset
    <2> QED
      BY <2>2, FS_CardinalityType DEF Count, Feasibles
  <1>3. /\ Shape' /\ left' \subseteq DOMAIN batch' /\ then' \in Labels
        /\ batch' \in [1 .. SizeFor(then') -> Individuals]
        /\ pc' \in Between \cup {"evaluating"}
    <2>1. CASE Apply(<<Fresh>>, "emptied")
      BY <2>1, NobodyWorks, SizesKnown, BatchedTyped, FreshTyped DEF Count, Between, Labels
    <2>2. CASE pc' = "raise" /\ UNCHANGED <<batch, left, then>>
      BY <2>2, NobodyWorks DEF TypeInv, TypeOK, Shape, Count, Between, Labels
    <2> QED
      BY <2>1, <2>2 DEF Count
  <1>4. TypeOK'
    BY <1>1, <1>2, <1>3 DEF TypeInv, TypeOK, Count, handed, engine
  <1> QED
    BY <1>3, <1>4 DEF TypeInv

LEMMA EmptiedTyped ==
  ASSUME TypeInv, Emptied
  PROVE  TypeInv'
  <1>1. batch \in [1 .. 1 -> Individuals] /\ then = "emptied"
    BY NobodyWorks, SizesKnown DEF Emptied, Between, Labels
  <1>2. found' \in BOOLEAN
    BY <1>1 DEF Emptied, Individuals
  <1>3. TypeOK'
    BY <1>1, <1>2 DEF TypeInv, TypeOK, Emptied, working, handed, engine, Between, Labels
  <1>4. Shape'
    BY <1>1 DEF TypeInv, Shape, Emptied, working, Between, Labels
  <1> QED
    BY <1>3, <1>4 DEF TypeInv

LEMMA RaiseTyped ==
  ASSUME TypeInv, Raise
  PROVE  TypeInv'
  <1>1. b_max_in' \in Nat
    <2>1. b_max_in' = b_max_in * Coef /\ b_max_in \in Nat
      BY DEF TypeInv, TypeOK, Raise, NextLimit
    <2> QED
      BY <2>1
  <1>2. TypeOK'
    BY <1>1 DEF TypeInv, TypeOK, Raise, HandBack, working, engine, Between
  <1>3. Shape'
    BY DEF TypeInv, Shape, Raise, working, Between, Labels
  <1> QED
    BY <1>2, <1>3 DEF TypeInv

LEMMA LeaveTyped ==
  ASSUME TypeInv, Leave
  PROVE  TypeInv'
  <1>1. batch \in [1 .. PopSize -> Individuals] /\ then = "leave"
    BY NobodyWorks, SizesKnown DEF Leave, Between, Labels
  <1>2. TypeOK'
    BY <1>1 DEF TypeInv, TypeOK, Leave, Estimated, HandBack, working, engine, Between
  <1>3. Shape'
    BY DEF TypeInv, Shape, Leave, working, Between, Labels
  <1> QED
    BY <1>2, <1>3 DEF TypeInv

LEMMA FirstTyped ==
  ASSUME TypeInv, First
  PROVE  TypeInv'
  <1>1. batch \in [1 .. PopSize -> Individuals]
    BY NobodyWorks, SizesKnown DEF First, Between, Labels
  <1>2. best' \in Individuals
    BY <1>1, ChampionTyped DEF First
  <1>3. /\ Shape' /\ pc' = "evaluating" /\ then' = "ready" /\ left' \subseteq DOMAIN batch'
        /\ batch' \in [1 .. SizeFor(then') -> Individuals]
    BY NobodyWorks, SizesKnown, BatchedTyped, FreshTyped DEF First, Between, Labels
  <1>4. TypeOK'
    BY <1>1, <1>2, <1>3 DEF TypeInv, TypeOK, First, estimate, handed, Labels
  <1> QED
    BY <1>3, <1>4 DEF TypeInv

LEMMA ReadyTyped ==
  ASSUME TypeInv, Ready
  PROVE  TypeInv'
  <1>1. then = "ready"
    BY NobodyWorks DEF Ready, Between, Labels
  <1>2. TypeOK'
    BY <1>1 DEF TypeInv, TypeOK, Ready, working, estimate, handed, engine, Between
  <1>3. Shape'
    BY DEF TypeInv, Shape, Ready, working, Between, Labels
  <1> QED
    BY <1>2, <1>3 DEF TypeInv

LEMMA BreedTyped ==
  ASSUME TypeInv, Breed
  PROVE  TypeInv'
  <1>1. PICK offspring \in [1 .. Offsprings -> ToSet(pop) \cup {Fresh}] :
          Apply(offspring, "replace")
    BY DEF Breed
  <1>2. offspring \in [1 .. Offsprings -> Individuals]
    <2>1. ToSet(pop) \cup {Fresh} \subseteq Individuals
      <3>1. pop \in [1 .. PopSize -> Individuals]
        BY DEF TypeInv, TypeOK
      <3> QED
        BY <3>1, FreshTyped DEF ToSet
    <2> QED
      BY <2>1
  <1>3. /\ Shape' /\ pc' = "evaluating" /\ then' = "replace" /\ left' \subseteq DOMAIN batch'
        /\ batch' \in [1 .. SizeFor(then') -> Individuals]
    BY <1>1, <1>2, NobodyWorks, SizesKnown, BatchedTyped DEF Breed, Between, Labels
  <1>4. TypeOK'
    BY <1>3 DEF TypeInv, TypeOK, Breed, estimate, handed, engine, Labels
  <1> QED
    BY <1>3, <1>4 DEF TypeInv

LEMMA ReplaceTyped ==
  ASSUME TypeInv, Replace
  PROVE  TypeInv'
  <1>1. batch \in [1 .. Offsprings -> Individuals] /\ then = "replace"
    BY NobodyWorks, SizesKnown DEF Replace, Between, Labels
  <1>2. pop' \in [1 .. PopSize -> Individuals]
    BY <1>1, ReplacedTyped DEF TypeInv, TypeOK, Replace
  <1>3. TypeOK'
    BY <1>1, <1>2 DEF TypeInv, TypeOK, Replace, working, estimate, handed, Between
  <1>4. Shape'
    BY DEF TypeInv, Shape, Replace, working, Between, Labels
  <1> QED
    BY <1>3, <1>4 DEF TypeInv

LEMMA EndRunTyped ==
  ASSUME TypeInv, EndRun
  PROVE  TypeInv'
  <1>1. best' \in Individuals
    <2>1. PICK x \in Champions(pop) : best' = IF Fitter(x, best) THEN x ELSE best
      BY DEF EndRun
    <2>2. pop \in [1 .. PopSize -> Individuals] /\ best \in Individuals
      BY DEF TypeInv, TypeOK
    <2>3. x \in Individuals
      BY <2>2, ChampionTyped
    <2> QED
      BY <2>1, <2>2, <2>3
  <1>2. /\ Shape' /\ left' \subseteq DOMAIN batch' /\ pop' \in [1 .. PopSize -> Individuals]
        /\ pc' \in {"evaluating", "finished"} /\ then' \in Labels
        /\ batch' \in [1 .. SizeFor(then') -> Individuals]
    <2>1. CASE pc' = "finished" /\ UNCHANGED <<pop, batch, left, then>>
      <3>1. then \in Labels /\ pc = "end_run"
        BY DEF TypeInv, TypeOK, EndRun
      <3>2. Shape'
        BY <2>1, <3>1 DEF TypeInv, Shape, EndRun, Between, Labels
      <3> QED
        BY <2>1, <3>1, <3>2 DEF TypeInv, TypeOK
    <2>2. CASE pop' = FreshPop /\ Apply(FreshPop, "restart")
      BY <2>2, NobodyWorks, SizesKnown, BatchedTyped, FreshTyped DEF EndRun, Between, Labels
    <2> QED
      BY <2>1, <2>2 DEF EndRun
  <1>3. TypeOK'
    <2>1. /\ UNCHANGED <<job, dumper, seen, gens, bred>> /\ run' = run + 1
          /\ UNCHANGED <<b_max_in, b_max_fixed, goodguys, found, best_makespan, dump_file_count>>
      BY DEF EndRun, estimate, handed
    <2>2. TypeOK
      BY DEF TypeInv
    <2>3. run' \in Nat
      <3>1. run \in Nat
        BY <2>2, Zenon DEF TypeOK
      <3> QED
        BY <2>1, <3>1
    <2>4. pc' \in Between \cup {"evaluating", "finished", "aborted"}
      BY <1>2
    <2> QED
      BY <1>1, <1>2, <2>1, <2>2, <2>3, <2>4, Zenon DEF TypeOK
  <1> QED
    BY <1>2, <1>3 DEF TypeInv

LEMMA RestartTyped ==
  ASSUME TypeInv, Restart
  PROVE  TypeInv'
  <1>1. batch \in [1 .. PopSize -> Individuals] /\ then = "restart"
    BY NobodyWorks, SizesKnown DEF Restart, Between, Labels
  <1>2. TypeOK'
    BY <1>1 DEF TypeInv, TypeOK, Restart, ResetGens, working, estimate, handed, Between
  <1>3. Shape'
    BY DEF TypeInv, Shape, Restart, working, Between, Labels
  <1> QED
    BY <1>2, <1>3 DEF TypeInv

LEMMA StutterTyped ==
  ASSUME TypeInv, UNCHANGED vars
  PROVE  TypeInv'
  <1>1. TypeOK'
    BY DEF TypeInv, TypeOK, vars, working, estimate, handed, engine
  <1>2. Shape'
    BY DEF TypeInv, Shape, vars, working
  <1> QED
    BY <1>1, <1>2 DEF TypeInv

LEMMA StepTyped == TypeInv /\ [Next]_vars => TypeInv'
  BY TakeTyped, SolveTyped, RememberTyped, DumpTyped, AppliedTyped, TimeOutTyped,
     TryLimitTyped, LeaveLoopTyped, MainTyped, CountTyped, EmptiedTyped, RaiseTyped,
     LeaveTyped, FirstTyped, ReadyTyped, BreedTyped, ReplaceTyped, EndRunTyped,
     RestartTyped, StutterTyped, Zenon DEF Next, Step, Over

LEMMA TypeInvKept == Spec => []TypeInv
  BY InitTyped, StepTyped, PTL DEF Spec

-----------------------------------------------------------------------------
(* The generations of a search.                                             *)

Starting ==
  \/ pc \in {"estimate", "counted", "emptied", "raise", "leave", "main", "first", "ready"}
  \/ pc = "evaluating" /\ then \in {"counted", "emptied", "leave", "first", "ready"}

Breeding ==
  \/ pc \in {"breed", "replace"}
  \/ pc = "evaluating" /\ then = "replace"

(* The counter of the continuators and that of the search agree while the
   search breeds, and the search goes on only below gen-max.                *)
GensAgree ==
  /\ Starting => gens = 0 /\ bred = 0
  /\ Breeding => gens = bred /\ (gens = 0 \/ gens < MaxGens)
  /\ RunsFull

LEMMA EvaluationKeepsGens ==
  ASSUME GensAgree, UNCHANGED <<pc, then, gens, bred>>
  PROVE  GensAgree'
  BY DEF GensAgree, Starting, Breeding, RunsFull

LEMMA GensStep == TypeInv /\ GensAgree /\ [Next]_vars => GensAgree'
  <1> SUFFICES ASSUME TypeInv, GensAgree, [Next]_vars PROVE GensAgree'
    OBVIOUS
  <1> USE DEF GensAgree, Starting, Breeding, RunsFull
  <1>1. ASSUME NEW t \in Threads, Take(t) \/ Solve(t) \/ Remember(t) \/ Dump(t)
        PROVE  GensAgree'
    <2>1. UNCHANGED <<pc, then, gens, bred>>
      BY <1>1 DEF Take, Solve, Remember, Dump, engine
    <2> QED
      BY <2>1, EvaluationKeepsGens
  <1>2. CASE Applied
    <2>1. UNCHANGED <<then, gens, bred>> /\ pc' = then /\ then \in Labels
      BY <1>2 DEF Applied, working, engine, TypeInv, TypeOK
    <2> QED
      BY <1>2, <2>1 DEF Applied, Labels
  <1>3. ASSUME NEW t \in Threads, TimeOut(t) PROVE GensAgree'
    BY <1>3 DEF TimeOut
  <1>4. CASE TryLimit
    BY <1>4 DEF TryLimit, Apply, engine
  <1>5. CASE Count
    BY <1>5 DEF Count, Apply, engine
  <1>6. CASE Emptied
    BY <1>6 DEF Emptied, engine
  <1>7. CASE Raise
    BY <1>7 DEF Raise, engine
  <1>8. CASE LeaveLoop
    BY <1>8 DEF LeaveLoop, Apply, engine
  <1>9. CASE Leave
    BY <1>9 DEF Leave, engine
  <1>10. CASE Main
    BY <1>10 DEF Main, Apply, engine
  <1>11. CASE First
    BY <1>11 DEF First, Apply
  <1>12. CASE Ready
    BY <1>12 DEF Ready, engine
  <1>13. CASE Breed
    BY <1>13 DEF Breed, Apply, engine
  <1>14. CASE Replace
    <2>1. gens = bred /\ (gens = 0 \/ gens < MaxGens) /\ gens \in Nat
      BY <1>14 DEF Replace, TypeInv, TypeOK
    <2> QED
      BY <1>14, <2>1 DEF Replace
  <1>15. CASE EndRun
    BY <1>15 DEF EndRun, Apply
  <1>16. CASE Restart
    BY <1>16 DEF Restart, ResetGens
  <1>17. CASE UNCHANGED vars
    BY <1>17, EvaluationKeepsGens DEF vars, working, engine
  <1> QED
    BY <1>1, <1>2, <1>3, <1>4, <1>5, <1>6, <1>7, <1>8, <1>9, <1>10, <1>11, <1>12, <1>13,
       <1>14, <1>15, <1>16, <1>17, Zenon DEF Next, Step, Over

(* A search breeds gen-max generations, or more than gen-min when it stops by
   itself, and a search that follows another has as many: the counters of
   the continuators are reset with the population (main, the loop of runs). *)
THEOREM RunsAreFull == Spec => []RunsFull
  <1>1. Init => GensAgree
    BY DEF Init, GensAgree, Starting, Breeding, RunsFull
  <1>2. GensAgree => RunsFull
    BY DEF GensAgree
  <1> QED
    BY <1>1, <1>2, TypeInvKept, GensStep, PTL DEF Spec

-----------------------------------------------------------------------------
(* The plan files, when one thread evaluates.                               *)

(* The makespan in the last file, above every makespan if there is none.    *)
LastFile == IF dumper.count = 1 THEN Worst ELSE files[dumper.count - 1]
Work(t) == batch[job[t].at].makespan

Numbered ==
  /\ dumper.count >= 1
  /\ DOMAIN files = 1 .. dumper.count - 1
  /\ \A i \in DOMAIN files : files[i] \in Nat /\ files[i] < Worst
  /\ \A i, j \in DOMAIN files : i < j => files[j] < files[i]

(* Nothing found so far is better than m.                                   *)
LeastSeen(m) == \A x \in seen : m <= x[1].makespan

(* The evaluator's _best is the makespan of the last file, but between the
   assignment and the dump.                                                 *)
FileOf(t) ==
  /\ job[t].stage \in {"idle", "solving"} =>
       dumper.best = LastFile /\ LeastSeen(dumper.best)
  /\ job[t].stage = "better" =>
       dumper.best = LastFile /\ Work(t) < dumper.best /\ LeastSeen(Work(t))
  /\ job[t].stage = "dump" =>
       dumper.best = Work(t) /\ Work(t) < LastFile /\ LeastSeen(dumper.best)

Handed ==
  pc \in {"estimate", "main"} =>
    best_makespan = dumper.best /\ dump_file_count = dumper.count

FilesBest == Numbered /\ Handed /\ \A t \in Threads : FileOf(t)

LEMMA InitFiles == Init => FilesBest
  <1> SUFFICES ASSUME Init PROVE FilesBest
    OBVIOUS
  <1>1. DOMAIN files = {}
    <2>1. files = <<>>
      BY DEF Init
    <2> QED
      BY <2>1, EmptyDomain
  <1>2. dumper.count = 1 /\ dumper.best = Worst
    BY DEF Init
  <1>3. Numbered
    BY <1>1, <1>2 DEF Numbered
  <1>4. Handed
    BY DEF Init, Handed
  <1>5. \A t \in Threads : FileOf(t)
    BY <1>2 DEF Init, Idle, FileOf, LastFile, LeastSeen
  <1> QED
    BY <1>3, <1>4, <1>5 DEF FilesBest

(* What has no part in the dumps keeps FilesBest.                           *)
LEMMA FilesUntouched ==
  ASSUME FilesBest, UNCHANGED <<job, files, seen>>, dumper' = dumper, Handed',
         batch' = batch \/ \A t \in Threads : job[t].stage = "idle"
  PROVE  FilesBest'
  <1>1. Numbered'
    BY DEF FilesBest, Numbered
  <1>2. ASSUME NEW t \in Threads PROVE FileOf(t)'
    BY DEF FilesBest, FileOf, LastFile, LeastSeen, Work
  <1> QED
    BY <1>1, <1>2 DEF FilesBest

LEMMA SolveFiles ==
  ASSUME TypeInv, FilesBest, NEW t \in Threads, Threads = {t}, Solve(t)
  PROVE  FilesBest'
  <1>1. PICK o \in Outcomes :
          /\ batch' = [batch EXCEPT ![job[t].at] = Individual(o, b_max_in)]
          /\ seen' = IF o.feasible THEN seen \cup {<<o, then \in {"emptied", "ready"}>>} ELSE seen
          /\ job' = [job EXCEPT ![t] = IF BetterPlan(Individual(o, b_max_in))
                                       THEN [@ EXCEPT !.stage = "better"] ELSE Idle]
    BY DEF Solve
  <1>2. UNCHANGED <<dumper, files, pc, handed>>
    BY DEF Solve
  <1>3. /\ job[t] \in [stage : {"idle", "solving", "better", "dump"}, at : Nat]
        /\ job \in [Threads -> [stage : {"idle", "solving", "better", "dump"}, at : Nat]]
        /\ job[t].stage = "solving"
    BY DEF TypeInv, TypeOK, Solve
  <1>4. dumper.best = LastFile /\ LeastSeen(dumper.best) /\ dumper.best \in Nat
    BY <1>3 DEF FilesBest, FileOf, TypeInv, TypeOK
  <1>5. o.makespan \in Nat /\ o.feasible \in BOOLEAN
    OBVIOUS
  <1>6. \A x \in seen : x[1].makespan \in Nat
    BY ZenonT(120) DEF TypeInv, TypeOK
  <1>7. \A x \in seen' : x \in seen \/ (o.feasible /\ x[1] = o)
    <2>1. \A b : <<o, b>>[1] = o
      OBVIOUS
    <2>2. \A x \in seen' : x \in seen \/ (o.feasible /\ x = <<o, then \in {"emptied", "ready"}>>)
      BY <1>1, Zenon
    <2> QED
      BY <2>1, <2>2, Zenon
  <1>8. FileOf(t)'
    <2>1. CASE BetterPlan(Individual(o, b_max_in))
      <3>1. job'[t] = [job[t] EXCEPT !.stage = "better"]
        BY <1>1, <1>3, <2>1
      <3>2. job'[t].stage = "better" /\ job'[t].at = job[t].at
        BY <1>3, <3>1
      <3>3. job[t].at \in DOMAIN batch
        BY <1>3 DEF TypeInv, Shape
      <3>4. batch'[job[t].at] = Individual(o, b_max_in)
        BY <1>1, <3>3
      <3>5. Work(t)' = o.makespan
        BY <3>2, <3>4 DEF Work, Individual
      <3>6. o.makespan < dumper.best
        BY <2>1 DEF BetterPlan, Individual
      <3>7. LeastSeen(o.makespan)'
        BY <1>4, <1>5, <1>6, <1>7, <3>6 DEF LeastSeen
      <3> QED
        BY <1>2, <1>4, <3>2, <3>5, <3>6, <3>7 DEF FileOf, LastFile, LeastSeen
    <2>2. CASE ~BetterPlan(Individual(o, b_max_in))
      <3>1. job'[t].stage = "idle"
        BY <1>1, <1>3, <2>2 DEF Idle
      <3>2. o.feasible => dumper.best <= o.makespan
        BY <1>4, <1>5, <2>2 DEF BetterPlan, Individual
      <3>3. LeastSeen(dumper.best)'
        BY <1>2, <1>4, <1>7, <3>2 DEF LeastSeen
      <3> QED
        BY <1>2, <1>4, <3>1, <3>3 DEF FileOf, LastFile
    <2> QED
      BY <2>1, <2>2
  <1>9. Numbered' /\ Handed'
    BY <1>2 DEF FilesBest, Numbered, Handed, handed
  <1> QED
    BY <1>8, <1>9 DEF FilesBest

LEMMA RememberFiles ==
  ASSUME TypeInv, FilesBest, NEW t \in Threads, Threads = {t}, Remember(t)
  PROVE  FilesBest'
  <1>1. /\ job[t].stage = "better"
        /\ dumper' = [dumper EXCEPT !.best = Work(t)]
        /\ job' = [job EXCEPT ![t].stage = "dump"]
        /\ UNCHANGED <<batch, files, seen, pc>>
    BY DEF Remember, Work
  <1>2. /\ job \in [Threads -> [stage : {"idle", "solving", "better", "dump"}, at : Nat]]
        /\ dumper \in [best : Nat, count : Nat]
    BY DEF TypeInv, TypeOK
  <1>3. job'[t].stage = "dump" /\ job'[t].at = job[t].at
    BY <1>1, <1>2
  <1>4. dumper'.best = Work(t) /\ dumper'.count = dumper.count
    BY <1>1, <1>2
  <1>5. Work(t)' = Work(t) /\ LastFile' = LastFile
    BY <1>1, <1>3, <1>4 DEF Work, LastFile
  <1>6. LeastSeen(Work(t)) /\ Work(t) < LastFile
    BY <1>1 DEF FilesBest, FileOf
  <1>7. FileOf(t)'
    BY <1>1, <1>3, <1>4, <1>5, <1>6 DEF FileOf, LeastSeen
  <1>8. Numbered'
    BY <1>1, <1>4 DEF FilesBest, Numbered
  <1>9. Handed'
    BY <1>1 DEF Handed, TypeInv, Shape, Between
  <1> QED
    BY <1>7, <1>8, <1>9 DEF FilesBest

LEMMA DumpFiles ==
  ASSUME TypeInv, FilesBest, NEW t \in Threads, Threads = {t}, Dump(t)
  PROVE  FilesBest'
  <1> DEFINE c == dumper.count
  <1>1. /\ job[t].stage = "dump"
        /\ files' = [n \in DOMAIN files \cup {c} |-> IF n = c THEN Work(t) ELSE files[n]]
        /\ dumper' = [dumper EXCEPT !.count = c + 1]
        /\ job' = [job EXCEPT ![t] = Idle]
        /\ UNCHANGED <<batch, seen, pc>>
    BY DEF Dump, Work
  <1>2. /\ job \in [Threads -> [stage : {"idle", "solving", "better", "dump"}, at : Nat]]
        /\ dumper \in [best : Nat, count : Nat]
    BY DEF TypeInv, TypeOK
  <1>3. job'[t].stage = "idle"
    BY <1>1, <1>2 DEF Idle
  <1>4. dumper'.best = dumper.best /\ dumper'.count = c + 1 /\ c \in Nat /\ c >= 1
    BY <1>1, <1>2 DEF FilesBest, Numbered
  <1>5. dumper.best = Work(t) /\ Work(t) < LastFile /\ LeastSeen(dumper.best)
    BY <1>1 DEF FilesBest, FileOf
  <1>6. Work(t) \in Nat
    BY <1>2, <1>5
  <1>7. DOMAIN files = 1 .. c - 1
    BY DEF FilesBest, Numbered
  <1>8. /\ DOMAIN files' = 1 .. c
        /\ files'[c] = Work(t)
        /\ \A i \in 1 .. c - 1 : files'[i] = files[i]
    BY SMTT(60), <1>1, <1>4, <1>7
  <1>9. \A i \in 1 .. c - 1 : files[i] \in Nat /\ files[i] < Worst /\ Work(t) < files[i]
    <2>1. \A i \in 1 .. c - 1 : files[i] \in Nat /\ files[i] < Worst
      BY <1>7 DEF FilesBest, Numbered
    <2>2. ASSUME NEW i \in 1 .. c - 1 PROVE Work(t) < files[i]
      <3>1. c # 1 /\ LastFile = files[c - 1] /\ c - 1 \in 1 .. c - 1
        BY <1>4, <2>2 DEF LastFile
      <3>2. i = c - 1 \/ files[c - 1] < files[i]
        BY SMTT(60), <1>4, <1>7, <3>1 DEF FilesBest, Numbered
      <3> QED
        BY <1>5, <1>6, <2>1, <3>1, <3>2
    <2> QED
      BY <2>1, <2>2
  <1>10. Work(t) < Worst
    <2>1. CASE c = 1
      BY <1>5, <2>1 DEF LastFile
    <2>2. CASE c # 1
      BY <1>4, <1>6, <1>9, <2>2
    <2> QED
      BY <2>1, <2>2
  <1>11. Numbered'
    <2>1. dumper'.count >= 1 /\ DOMAIN files' = 1 .. dumper'.count - 1
      BY <1>4, <1>8
    <2>2. \A i \in 1 .. c : files'[i] \in Nat /\ files'[i] < Worst
      BY <1>4, <1>6, <1>8, <1>9, <1>10
    <2>3. ASSUME NEW i \in 1 .. c, NEW j \in 1 .. c, i < j PROVE files'[j] < files'[i]
      <3>1. CASE j = c
        BY SMTT(60), <1>4, <1>8, <1>9, <2>3, <3>1
      <3>2. CASE j # c
        <4>1. i \in 1 .. c - 1 /\ j \in 1 .. c - 1
          BY <1>4, <2>3, <3>2
        <4>2. files[j] < files[i]
          BY <1>7, <2>3, <4>1 DEF FilesBest, Numbered
        <4> QED
          BY <1>8, <4>1, <4>2
      <3> QED
        BY <3>1, <3>2
    <2> QED
      BY <1>8, <2>1, <2>2, <2>3 DEF Numbered
  <1>12. FileOf(t)'
    <2>1. LastFile' = Work(t)
      BY <1>4, <1>8 DEF LastFile
    <2> QED
      BY <1>1, <1>3, <1>4, <1>5, <2>1 DEF FileOf, LeastSeen
  <1>13. Handed'
    BY <1>1 DEF Handed, TypeInv, Shape, Between
  <1> QED
    BY <1>11, <1>12, <1>13 DEF FilesBest

LEMMA FilesStep ==
  ASSUME NEW t0 \in Threads, Threads = {t0}
  PROVE  TypeInv /\ FilesBest /\ [Next]_vars => FilesBest'
  <1> SUFFICES ASSUME TypeInv, FilesBest, [Next]_vars PROVE FilesBest'
    OBVIOUS
  <1>1. ASSUME NEW t \in Threads, Take(t) PROVE FilesBest'
    <2>1. UNCHANGED <<pc, batch, dumper, files, seen, handed>>
      BY <1>1 DEF Take
    <2>2. PICK i \in left :
            job' = IF batch[i].valid THEN job
                   ELSE [job EXCEPT ![t] = [stage |-> "solving", at |-> i]]
      BY <1>1 DEF Take
    <2>3. job[t].stage = "idle" /\ job'[t].stage \in {"idle", "solving"}
      BY <1>1, <2>2 DEF Take, TypeInv, TypeOK
    <2>4. Numbered' /\ Handed' /\ FileOf(t)'
      BY <2>1, <2>3 DEF FilesBest, Numbered, Handed, handed, FileOf, LastFile, LeastSeen
    <2> QED
      BY <2>4 DEF FilesBest
  <1>2. ASSUME NEW t \in Threads, Solve(t) PROVE FilesBest'
    BY <1>2, SolveFiles
  <1>3. ASSUME NEW t \in Threads, Remember(t) PROVE FilesBest'
    BY <1>3, RememberFiles
  <1>4. ASSUME NEW t \in Threads, Dump(t) PROVE FilesBest'
    BY <1>4, DumpFiles
  <1>5. CASE Applied
    <2>1. pc' = then /\ UNCHANGED <<batch, job, dumper, files, seen, handed>> /\ then \in Labels
      BY <1>5 DEF Applied, working, TypeInv, TypeOK
    <2> QED
      BY <2>1, FilesUntouched DEF Handed, Labels
  <1>6. ASSUME NEW t \in Threads, TimeOut(t) PROVE FilesBest'
    BY <1>6, FilesUntouched DEF TimeOut, working, Handed
  <1>7. ASSUME pc \in {"estimate", "main"}, UNCHANGED <<job, files, seen>>, NewDumper,
               pc' = "evaluating"
        PROVE  FilesBest'
    <2>1. dumper' = dumper
      BY <1>7 DEF NewDumper, FilesBest, Handed, TypeInv, TypeOK
    <2> QED
      BY <1>7, <2>1, FilesUntouched, NobodyWorks DEF Handed, Between
  <1>8. CASE TryLimit \/ LeaveLoop \/ Main
    BY <1>7, <1>8 DEF TryLimit, LeaveLoop, Main, Apply
  <1>9. ASSUME pc \in Between, UNCHANGED <<job, dumper, files, seen>>,
               pc' \notin {"estimate", "main"} \/ HandBack
        PROVE  FilesBest'
    BY <1>9, FilesUntouched, NobodyWorks DEF Handed, HandBack
  <1>10. CASE Count \/ Emptied \/ Raise \/ Leave
    BY <1>9, <1>10 DEF Count, Emptied, Raise, Leave, Apply, working, Between, Labels
  <1>11. CASE First \/ Ready \/ Breed \/ Replace \/ EndRun \/ Restart
    BY <1>9, <1>11 DEF First, Ready, Breed, Replace, EndRun, Restart, Apply, working, Between,
       Labels
  <1>12. CASE UNCHANGED vars
    BY <1>12, FilesUntouched DEF vars, working, handed, FilesBest, Handed
  <1> QED
    BY <1>1, <1>2, <1>3, <1>4, <1>5, <1>6, <1>8, <1>10, <1>11, <1>12, Zenon DEF Next, Step, Over

(* With one thread, the plan files get better with their numbers and the last
   is the best plan found so far, over all the evaluators that main and the
   estimation create one after the other (evalBestMakespanPlanDump).  Two
   threads may both dump.                                                   *)
THEOREM FilesGetBetter ==
  ASSUME NEW t \in Threads, Threads = {t}
  PROVE  Spec => []LastFileIsBest
  <1>1. TypeInv /\ FilesBest /\ [Next]_vars => FilesBest'
    BY FilesStep
  <1>2. TypeInv /\ FilesBest => LastFileIsBest
    <2> SUFFICES ASSUME TypeInv, FilesBest, Quiet
                 PROVE  /\ DOMAIN files = 1 .. dumper.count - 1
                        /\ \A i, j \in DOMAIN files : i < j => files[j] < files[i]
                        /\ \A x \in seen : files # <<>> /\ files[dumper.count - 1] <= x[1].makespan
      BY DEF LastFileIsBest
    <2>1. dumper.best = LastFile /\ LeastSeen(dumper.best)
      BY DEF FilesBest, FileOf, Quiet
    <2>2. ASSUME NEW x \in seen
          PROVE  files # <<>> /\ files[dumper.count - 1] <= x[1].makespan
      <3>1. x[1].makespan \in Nat /\ x[1].makespan < Worst /\ LastFile <= x[1].makespan
        BY <2>1 DEF TypeInv, TypeOK, LeastSeen
      <3>2. dumper.count # 1
        BY <3>1 DEF LastFile
      <3>3. dumper.count \in Nat /\ dumper.count >= 1 /\ DOMAIN files = 1 .. dumper.count - 1
        BY DEF TypeInv, TypeOK, FilesBest, Numbered
      <3>4. 1 \in DOMAIN files
        BY <3>2, <3>3
      <3> QED
        BY <3>1, <3>2, <3>4, EmptyDomain DEF LastFile
    <2> QED
      BY <2>2 DEF FilesBest, Numbered
  <1> QED
    BY <1>1, <1>2, InitFiles, TypeInvKept, PTL DEF Spec

-----------------------------------------------------------------------------
(* The estimation of b_max.                                                 *)

LEMMA UptoFinite ==
  ASSUME NEW n \in Nat, NEW p, DOMAIN p = 1 .. n, NEW l
  PROVE  /\ IsFiniteSet({i \in DOMAIN p : p[i].feasible /\ p[i].limit <= l})
         /\ Upto(p, l) \in Nat
  <1>1. IsFiniteSet(DOMAIN p)
    BY FS_Interval
  <1>2. {i \in DOMAIN p : p[i].feasible /\ p[i].limit <= l} \subseteq DOMAIN p
    OBVIOUS
  <1> QED
    BY <1>1, <1>2, FS_Subset, FS_CardinalityType DEF Upto

LEMMA UptoMonotone ==
  ASSUME NEW n \in Nat, NEW p, DOMAIN p = 1 .. n, NEW q, DOMAIN q = 1 .. n, NEW l, NEW m,
         \A i \in 1 .. n : q[i].feasible /\ q[i].limit <= m => p[i].feasible /\ p[i].limit <= l
  PROVE  Upto(q, m) <= Upto(p, l) /\ Upto(q, m) \in Nat /\ Upto(p, l) \in Nat
  <1> DEFINE Q == {i \in DOMAIN q : q[i].feasible /\ q[i].limit <= m}
             P == {i \in DOMAIN p : p[i].feasible /\ p[i].limit <= l}
  <1>1. Q \subseteq P
    OBVIOUS
  <1>2. IsFiniteSet(P)
    <2>1. IsFiniteSet(DOMAIN p) /\ P \subseteq DOMAIN p
      BY FS_Interval
    <2> HIDE DEF P
    <2> QED
      BY <2>1, FS_Subset
  <1>3. Cardinality(Q) <= Cardinality(P)
    <2> HIDE DEF P, Q
    <2> QED
      BY <1>1, <1>2, FS_Subset
  <1>4. Upto(q, m) \in Nat /\ Upto(p, l) \in Nat
    <2>1. \A k, r : DOMAIN r = 1 .. n => Upto(r, k) \in Nat
      BY UptoFinite
    <2> QED
      BY <2>1
  <1> QED
    BY <1>3, <1>4 DEF Upto

LEMMA UptoZero ==
  ASSUME NEW p, \A i \in DOMAIN p : ~(p[i].feasible /\ p[i].limit <= 0)
  PROVE  Upto(p, 0) = 0
  <1>1. {i \in DOMAIN p : p[i].feasible /\ p[i].limit <= 0} = {}
    OBVIOUS
  <1> QED
    BY <1>1, FS_EmptySet DEF Upto

LEMMA CoefArithmetic ==
  /\ \A a \in Nat : (a * Coef) \div Coef = a
  /\ \A a \in Nat : a >= 1 => /\ a \div Coef < a /\ a \div Coef \in Nat
                              /\ a < a * Coef /\ a * Coef \in Nat
  /\ 1 \div Coef = 0
  OBVIOUS

(* The feasible individuals of p were found under limits from 1 to l, and
   there are too few of them under the limits before l.                     *)
Limited(p, l) == \A i \in DOMAIN p : p[i].feasible => p[i].limit >= 1 /\ p[i].limit <= l
Few(p, l) == Limited(p, l) /\ Upto(p, l \div Coef) < GoodMin

(* The last limit that was tried and the next one.                          *)
Tried ==
  /\ b_max_fixed >= 1 /\ b_max_in = b_max_fixed * Coef
  /\ Upto(pop, b_max_fixed \div Coef) < GoodMin

EstimateInv ==
  /\ pc = "estimate" =>
       \/ b_max_fixed = 0 /\ b_max_in = 1 /\ pop = FreshPop /\ goodguys = 0
       \/ Tried /\ Limited(pop, b_max_fixed) /\ goodguys = Upto(pop, b_max_fixed)
  /\ pc = "counted" \/ (pc = "evaluating" /\ then = "counted") =>
       b_max_in >= 1 /\ Few(batch, b_max_in)
  /\ pc \in {"emptied", "raise"} \/ (pc = "evaluating" /\ then = "emptied") =>
       b_max_in >= 1 /\ Few(pop, b_max_in) /\ goodguys = Upto(pop, b_max_in)
  /\ (pc = "leave" \/ (pc = "evaluating" /\ then = "leave")) /\ b_max_in > 1 =>
       /\ b_max_fixed >= 1 /\ b_max_in = b_max_fixed * Coef
       /\ Upto(batch, b_max_fixed) >= GoodMin \/ b_max_in >= BMaxInit
       /\ Upto(batch, b_max_fixed \div Coef) < GoodMin
  /\ EstimateJustified

(* No feasible individual is evaluated again, and no two threads evaluate
   the same.                                                                *)
AllValid(p) == \A i \in DOMAIN p : p[i].feasible => p[i].valid

Sharing ==
  /\ AllValid(batch) /\ AllValid(pop)
  /\ \A t \in Threads : job[t].stage = "solving" => ~batch[job[t].at].feasible
  /\ \A t, u \in Threads :
       t # u /\ job[t].stage # "idle" /\ job[u].stage # "idle" => job[t].at # job[u].at

LEMMA ReplacedFrom ==
  ASSUME NEW p, NEW o, DOMAIN o = 1 .. Offsprings, NEW next \in Replaced(p, o)
  PROVE  /\ DOMAIN next = 1 .. PopSize
         /\ \A i \in 1 .. PopSize : next[i] \in ToSet(p) \cup ToSet(o)
  <1>1. PICK sorted \in Truncated(o), x \in Champions(p) :
          next = IF Fitter(x, sorted[1]) THEN [sorted EXCEPT ![PopSize] = x] ELSE sorted
    BY DEF Replaced
  <1>2. PICK k \in [1 .. PopSize -> DOMAIN o] : sorted = [i \in 1 .. PopSize |-> o[k[i]]]
    BY DEF Truncated
  <1>3. x \in ToSet(p)
    BY DEF Champions
  <1>4. \A i \in 1 .. PopSize : sorted[i] \in ToSet(o)
    BY <1>2 DEF ToSet
  <1> QED
    BY <1>1, <1>2, <1>3, <1>4

LEMMA FreshShares ==
  /\ AllValid(FreshPop) /\ AllValid(<<Fresh>>)
  <1>1. \A i \in DOMAIN <<Fresh>> : <<Fresh>>[i] = Fresh
    OBVIOUS
  <1> QED
    BY <1>1 DEF AllValid, Fresh, FreshPop

LEMMA InitShares == Init => Sharing
  <1> SUFFICES ASSUME Init PROVE Sharing
    OBVIOUS
  <1>1. DOMAIN batch = {}
    BY EmptyDomain DEF Init
  <1> QED
    BY <1>1, FreshShares DEF Init, Sharing, AllValid, Idle

(* Between two evaluations only the populations matter.                     *)
LEMMA SharesBetween ==
  ASSUME TypeInv, pc \in Between, job' = job, AllValid(batch'), AllValid(pop')
  PROVE  Sharing'
  BY NobodyWorks DEF Sharing, AllValid

LEMMA TakeShares ==
  ASSUME TypeInv, Sharing, NEW t \in Threads, Take(t)
  PROVE  Sharing'
  <1>1. PICK i \in left :
          job' = IF batch[i].valid THEN job
                 ELSE [job EXCEPT ![t] = [stage |-> "solving", at |-> i]]
    BY DEF Take
  <1>2. UNCHANGED <<batch, pop>> /\ job[t].stage = "idle"
    BY DEF Take
  <1>3. CASE batch[i].valid
    BY <1>1, <1>2, <1>3 DEF Sharing, AllValid
  <1>4. CASE ~batch[i].valid
    <2>1. job \in [Threads -> [stage : {"idle", "solving", "better", "dump"}, at : Nat]]
      BY DEF TypeInv, TypeOK
    <2>2. job'[t].stage = "solving" /\ job'[t].at = i /\ \A u \in Threads \ {t} : job'[u] = job[u]
      BY <1>1, <1>4, <2>1
    <2>3. i \in DOMAIN batch
      BY DEF TypeInv, TypeOK
    <2>4. ~batch[i].feasible
      BY <1>4, <2>3 DEF Sharing, AllValid
    <2>5. \A u \in Threads \ {t} : job[u].stage # "idle" => job[u].at # i
      BY DEF TypeInv, Shape
    <2>6. \A u \in Threads : job'[u].stage = "solving" => ~batch'[job'[u].at].feasible
      BY <1>2, <2>2, <2>4 DEF Sharing
    <2>7. \A u, w \in Threads :
            u # w /\ job'[u].stage # "idle" /\ job'[w].stage # "idle" => job'[u].at # job'[w].at
      BY <2>2, <2>5 DEF Sharing
    <2> QED
      BY <1>2, <2>6, <2>7 DEF Sharing, AllValid
  <1> QED
    BY <1>3, <1>4

(* A step of a thread that goes on with its place, or leaves it.            *)
LEMMA WorkShares ==
  ASSUME TypeInv, Sharing, NEW t \in Threads, job[t].stage # "idle",
         \A u \in Threads \ {t} : job'[u] = job[u],
         job'[t].stage # "solving",
         job'[t].stage # "idle" => job'[t].at = job[t].at,
         \A i \in DOMAIN batch \ {job[t].at} : batch'[i] = batch[i],
         AllValid(batch'), pop' = pop
  PROVE  Sharing'
  <1>1. \A u \in Threads \ {t} : job[u].stage # "idle" =>
          job[u].at \in DOMAIN batch \ {job[t].at}
    BY DEF Sharing, TypeInv, Shape
  <1>2. \A u \in Threads : job'[u].stage = "solving" => ~batch'[job'[u].at].feasible
    <2> SUFFICES ASSUME NEW u \in Threads, job'[u].stage = "solving"
                 PROVE  ~batch'[job'[u].at].feasible
      OBVIOUS
    <2>1. u # t /\ job'[u] = job[u] /\ job[u].stage = "solving"
      OBVIOUS
    <2>2. job[u].at \in DOMAIN batch \ {job[t].at} /\ ~batch[job[u].at].feasible
      BY <1>1, <2>1 DEF Sharing
    <2> QED
      BY <2>1, <2>2
  <1>3. \A u, w \in Threads :
          u # w /\ job'[u].stage # "idle" /\ job'[w].stage # "idle" => job'[u].at # job'[w].at
    BY DEF Sharing
  <1> QED
    BY <1>2, <1>3 DEF Sharing, AllValid

LEMMA SolveShares ==
  ASSUME TypeInv, Sharing, NEW t \in Threads, Solve(t)
  PROVE  Sharing'
  <1>1. PICK o \in Outcomes :
          /\ batch' = [batch EXCEPT ![job[t].at] = Individual(o, b_max_in)]
          /\ job' = [job EXCEPT ![t] = IF BetterPlan(Individual(o, b_max_in))
                                       THEN [@ EXCEPT !.stage = "better"] ELSE Idle]
    BY DEF Solve
  <1>2. job[t] \in [stage : {"idle", "solving", "better", "dump"}, at : Nat] /\ job[t].stage = "solving"
    BY DEF TypeInv, TypeOK, Solve
  <1>3. job \in [Threads -> [stage : {"idle", "solving", "better", "dump"}, at : Nat]]
    BY DEF TypeInv, TypeOK
  <1>4. \A u \in Threads \ {t} : job'[u] = job[u]
    BY <1>1, <1>3
  <1>5. job'[t].stage # "solving" /\ (job'[t].stage # "idle" => job'[t].at = job[t].at)
    <2>1. CASE BetterPlan(Individual(o, b_max_in))
      <3>1. job'[t] = [job[t] EXCEPT !.stage = "better"]
        BY <1>1, <1>3, <2>1
      <3> QED
        BY <1>2, <3>1
    <2>2. CASE ~BetterPlan(Individual(o, b_max_in))
      BY <1>1, <1>3, <2>2 DEF Idle
    <2> QED
      BY <2>1, <2>2
  <1>6. /\ \A i \in DOMAIN batch \ {job[t].at} : batch'[i] = batch[i]
        /\ AllValid(batch')
    <2>1. Individual(o, b_max_in).valid
      BY DEF Individual
    <2>2. DOMAIN batch' = DOMAIN batch /\ \A i \in DOMAIN batch :
            batch'[i] = IF i = job[t].at THEN Individual(o, b_max_in) ELSE batch[i]
      BY <1>1
    <2> QED
      BY <2>1, <2>2 DEF Sharing, AllValid
  <1>7. pop' = pop
    BY DEF Solve
  <1> QED
    BY <1>2, <1>4, <1>5, <1>6, <1>7, WorkShares

LEMMA FinishShares ==
  ASSUME TypeInv, Sharing, NEW t \in Threads, Remember(t) \/ Dump(t)
  PROVE  Sharing'
  <1>1. job \in [Threads -> [stage : {"idle", "solving", "better", "dump"}, at : Nat]]
    BY DEF TypeInv, TypeOK
  <1>2. job[t].stage # "idle" /\ UNCHANGED <<batch, pop>>
    BY DEF Remember, Dump
  <1>3. /\ \A u \in Threads \ {t} : job'[u] = job[u]
        /\ job'[t].stage # "solving" /\ (job'[t].stage # "idle" => job'[t].at = job[t].at)
    <2>1. CASE job' = [job EXCEPT ![t].stage = "dump"]
      BY <1>1, <2>1
    <2>2. CASE job' = [job EXCEPT ![t] = Idle]
      BY <1>1, <2>2 DEF Idle
    <2> QED
      BY <2>1, <2>2 DEF Remember, Dump
  <1>4. AllValid(batch')
    BY <1>2 DEF Sharing, AllValid
  <1> QED
    BY <1>2, <1>3, <1>4, WorkShares

LEMMA BatchShares ==
  ASSUME TypeInv, Sharing
  PROVE  /\ AllValid(pop) /\ AllValid(batch)
         /\ \A x \in ToSet(pop) \cup ToSet(batch) \cup {Fresh} : x.feasible => x.valid
  BY DEF Sharing, AllValid, ToSet, Fresh

LEMMA SharingStep == TypeInv /\ Sharing /\ [Next]_vars => Sharing'
  <1> SUFFICES ASSUME TypeInv, Sharing, [Next]_vars PROVE Sharing'
    OBVIOUS
  <1>1. ASSUME NEW t \in Threads, Take(t) \/ Solve(t) \/ Remember(t) \/ Dump(t)
        PROVE  Sharing'
    BY <1>1, TakeShares, SolveShares, FinishShares
  <1>2. ASSUME UNCHANGED <<job, batch, pop>> PROVE Sharing'
    BY <1>2 DEF Sharing, AllValid
  <1>3. CASE Applied \/ Emptied \/ Raise \/ Ready \/ \E t \in Threads : TimeOut(t)
    BY <1>2, <1>3 DEF Applied, Emptied, Raise, Ready, TimeOut, working
  <1>4. CASE TryLimit \/ LeaveLoop \/ Main
    BY <1>4, SharesBetween, BatchShares DEF TryLimit, LeaveLoop, Main, Apply, Between, Labels
  <1>5. CASE Count
    <2>1. AllValid(pop')
      BY <1>5, BatchShares DEF Count, AllValid, Fresh
    <2>2. AllValid(batch')
      BY <1>5, BatchShares, FreshShares DEF Count, Apply
    <2> QED
      BY <1>5, <2>1, <2>2, SharesBetween DEF Count, Between, Labels
  <1>6. CASE Leave
    BY <1>6, SharesBetween, BatchShares DEF Leave, working, Between, Labels
  <1>7. CASE First
    BY <1>7, SharesBetween, BatchShares, FreshShares DEF First, Apply, Between, Labels
  <1>8. CASE Breed
    <2>1. PICK offspring \in [1 .. Offsprings -> ToSet(pop) \cup {Fresh}] :
            batch' = offspring
      BY <1>8 DEF Breed, Apply
    <2>2. AllValid(offspring)
      BY BatchShares DEF AllValid
    <2> QED
      BY <1>8, <2>1, <2>2, SharesBetween, BatchShares DEF Breed, Between
  <1>9. CASE Replace
    <2>1. DOMAIN batch = 1 .. Offsprings
      BY <1>9, NobodyWorks, SizesKnown DEF Replace, Between, Labels
    <2>2. AllValid(pop')
      BY <1>9, <2>1, ReplacedFrom, BatchShares DEF Replace, AllValid
    <2> QED
      BY <1>9, <2>2, SharesBetween, BatchShares DEF Replace, working, Between, Labels
  <1>10. CASE EndRun
    <2>1. AllValid(pop') /\ AllValid(batch')
      BY <1>10, BatchShares, FreshShares DEF EndRun, Apply
    <2> QED
      BY <1>10, <2>1, SharesBetween DEF EndRun, Between
  <1>11. CASE Restart
    BY <1>11, SharesBetween, BatchShares DEF Restart, working, Between, Labels
  <1>12. CASE UNCHANGED vars
    BY <1>2, <1>12 DEF vars, working
  <1> QED
    BY <1>1, <1>3, <1>4, <1>5, <1>6, <1>7, <1>8, <1>9, <1>10, <1>11, <1>12, Zenon
       DEF Next, Step, Over

LEMMA InitEstimate == Init => EstimateInv
  <1> SUFFICES ASSUME Init PROVE EstimateInv
    OBVIOUS
  <1>1. /\ pc \in {"estimate", "main"} /\ (pc = "estimate" => b_max_fixed = 0)
        /\ b_max_in = 1 /\ goodguys = 0 /\ pop = FreshPop
    BY DEF Init
  <1> QED
    BY <1>1 DEF EstimateInv, EstimateJustified

(* A step that leaves the estimation alone.                                 *)
LEMMA EstimateUntouched ==
  ASSUME EstimateInv, UNCHANGED <<pc, then, pop, batch, estimate>>
  PROVE  EstimateInv'
  BY DEF EstimateInv, EstimateJustified, Tried, Few, Limited, Upto, estimate

(* The estimation is over.                                                  *)
LEMMA EstimateOver ==
  ASSUME pc' \in {"finished", "aborted", "breed", "replace", "end_run", "restart", "first", "ready"}
           \/ (pc' = "evaluating" /\ then' \in {"first", "ready", "replace", "restart"})
  PROVE  EstimateInv'
  BY DEF EstimateInv, EstimateJustified

LEMMA SolveEstimate ==
  ASSUME TypeInv, Sharing, EstimateInv, NEW t \in Threads, Solve(t)
  PROVE  EstimateInv'
  <1> DEFINE at == job[t].at
  <1>1. PICK o \in Outcomes : batch' = [batch EXCEPT ![at] = Individual(o, b_max_in)]
    BY DEF Solve
  <1>2. UNCHANGED <<pc, then, pop, b_max_in, b_max_fixed, goodguys>>
    BY DEF Solve, estimate
  <1>3. at \in DOMAIN batch /\ ~batch[at].feasible
    BY DEF Solve, TypeInv, Shape, Sharing
  <1>4. PICK n \in Nat : DOMAIN batch = 1 .. n
    <2>1. CASE then = ""
      BY <1>3, <2>1, EmptyDomain DEF TypeInv, TypeOK, Labels
    <2>2. CASE then \in Labels
      <3>1. SizeFor(then) \in Nat
        BY DEF SizeFor
      <3>2. DOMAIN batch = 1 .. SizeFor(then)
        BY <2>2 DEF TypeInv, TypeOK
      <3> QED
        BY <3>1, <3>2
    <2> QED
      BY <2>1, <2>2 DEF TypeInv, TypeOK
  <1>5. /\ DOMAIN batch' = 1 .. n
        /\ batch'[at].limit = b_max_in
        /\ \A i \in 1 .. n : i # at => batch'[i] = batch[i]
    BY <1>1, <1>3, <1>4 DEF Individual
  <1>6. b_max_in \in Nat /\ b_max_fixed \in Nat
    BY DEF TypeInv, TypeOK
  <1>7. ASSUME NEW l \in Nat, l < b_max_in
        PROVE  Upto(batch', l) = Upto(batch, l)
    <2>1. \A i \in 1 .. n : batch'[i].feasible /\ batch'[i].limit <= l <=>
                           batch[i].feasible /\ batch[i].limit <= l
      BY SMTT(60), <1>3, <1>5, <1>6, <1>7
    <2>2. Upto(batch', l) <= Upto(batch, l) /\ Upto(batch', l) \in Nat /\ Upto(batch, l) \in Nat
      BY <1>4, <1>5, <2>1, UptoMonotone
    <2>3. Upto(batch, l) <= Upto(batch', l)
      BY <1>4, <1>5, <2>1, UptoMonotone
    <2> QED
      BY <2>2, <2>3
  <1>8. ASSUME pc = "evaluating", then = "counted"
        PROVE  b_max_in >= 1 /\ Few(batch', b_max_in)
    <2>1. b_max_in >= 1 /\ Few(batch, b_max_in)
      BY <1>8 DEF EstimateInv
    <2>2. Limited(batch', b_max_in)
      BY SMTT(60), <1>4, <1>5, <1>6, <2>1 DEF Few, Limited
    <2>3. b_max_in \div Coef \in Nat /\ b_max_in \div Coef < b_max_in
      BY <1>6, <2>1, CoefArithmetic
    <2> QED
      BY <1>7, <2>1, <2>2, <2>3 DEF Few
  <1>9. ASSUME pc = "evaluating", then = "leave", b_max_in > 1
        PROVE  /\ b_max_fixed >= 1 /\ b_max_in = b_max_fixed * Coef
               /\ Upto(batch', b_max_fixed) >= GoodMin \/ b_max_in >= BMaxInit
               /\ Upto(batch', b_max_fixed \div Coef) < GoodMin
    <2>1. /\ b_max_fixed >= 1 /\ b_max_in = b_max_fixed * Coef
          /\ Upto(batch, b_max_fixed) >= GoodMin \/ b_max_in >= BMaxInit
          /\ Upto(batch, b_max_fixed \div Coef) < GoodMin
      BY <1>9 DEF EstimateInv
    <2>2. /\ b_max_fixed < b_max_in
          /\ b_max_fixed \div Coef \in Nat /\ b_max_fixed \div Coef < b_max_in
      <3>1. /\ b_max_fixed \div Coef \in Nat /\ b_max_fixed \div Coef < b_max_fixed
            /\ b_max_fixed < b_max_fixed * Coef
        BY <1>6, <2>1, CoefArithmetic
      <3> QED
        BY <1>6, <2>1, <3>1
    <2>3. Upto(batch', b_max_fixed) = Upto(batch, b_max_fixed)
      BY <1>6, <1>7, <2>2
    <2>4. Upto(batch', b_max_fixed \div Coef) = Upto(batch, b_max_fixed \div Coef)
      BY <1>7, <2>2
    <2> QED
      BY <2>1, <2>3, <2>4
  <1>10. pc \in {"evaluating", "finished", "aborted"}
    BY DEF Solve, TypeInv, TypeOK, Shape
  <1> QED
    BY <1>2, <1>8, <1>9, <1>10 DEF EstimateInv, EstimateJustified, Few, Limited, Upto

LEMMA TryLimitEstimate ==
  ASSUME TypeInv, EstimateInv, TryLimit
  PROVE  EstimateInv'
  <1>1. /\ pc = "estimate" /\ goodguys < GoodMin
        /\ pc' = "evaluating" /\ then' = "counted" /\ batch' = pop
        /\ UNCHANGED <<b_max_in, b_max_fixed>>
    BY DEF TryLimit, Apply, estimate
  <1>2. DOMAIN pop = 1 .. PopSize /\ b_max_fixed \in Nat
    BY DEF TypeInv, TypeOK
  <1>3. b_max_in >= 1 /\ Few(pop, b_max_in)
    <2>1. CASE b_max_fixed = 0 /\ b_max_in = 1 /\ pop = FreshPop /\ goodguys = 0
      <3>1. \A i \in DOMAIN pop : ~pop[i].feasible
        BY <2>1 DEF FreshPop, Fresh
      <3>2. Upto(pop, 0) = 0
        BY <3>1, UptoZero
      <3> QED
        BY <1>1, <2>1, <3>1, <3>2, CoefArithmetic DEF Few, Limited
    <2>2. CASE Tried /\ Limited(pop, b_max_fixed) /\ goodguys = Upto(pop, b_max_fixed)
      <3>1. b_max_in \div Coef = b_max_fixed /\ b_max_fixed < b_max_in /\ b_max_in \in Nat
        BY <1>2, <2>2, CoefArithmetic DEF Tried
      <3>2. Limited(pop, b_max_in)
        <4>1. \A i \in DOMAIN pop : pop[i].limit \in Nat
          BY DEF TypeInv, TypeOK, Individuals
        <4> QED
          BY <1>2, <2>2, <3>1, <4>1 DEF Limited
      <3> QED
        BY <1>1, <1>2, <2>2, <3>1, <3>2 DEF Few, Tried
    <2> QED
      BY <1>1, <2>1, <2>2 DEF EstimateInv
  <1> QED
    BY <1>1, <1>3 DEF EstimateInv, EstimateJustified, Few, Limited, Upto

LEMMA CountEstimate ==
  ASSUME TypeInv, EstimateInv, Count
  PROVE  EstimateInv'
  <1>1. batch \in [1 .. PopSize -> Individuals]
    BY NobodyWorks, SizesKnown DEF Count, Between, Labels
  <1>2. /\ DOMAIN pop' = 1 .. PopSize
        /\ \A i \in 1 .. PopSize : pop'[i] = IF batch[i].feasible THEN batch[i] ELSE Fresh
        /\ goodguys' = Feasibles(batch) /\ b_max_in' = b_max_in
    BY <1>1 DEF Count
  <1>3. b_max_in >= 1 /\ Few(batch, b_max_in) /\ b_max_in \in Nat
    BY DEF Count, EstimateInv, TypeInv, TypeOK
  <1>4. ~Fresh.feasible
    BY DEF Fresh
  <1>5. Limited(pop', b_max_in)
    BY <1>1, <1>2, <1>3, <1>4 DEF Few, Limited
  <1>6. ASSUME NEW l PROVE Upto(pop', l) = Upto(batch, l)
    <2>1. \A i \in 1 .. PopSize : pop'[i].feasible /\ pop'[i].limit <= l <=>
                                 batch[i].feasible /\ batch[i].limit <= l
      BY <1>2, <1>4
    <2>2. Upto(pop', l) <= Upto(batch, l) /\ Upto(pop', l) \in Nat /\ Upto(batch, l) \in Nat
      BY <1>1, <1>2, <2>1, UptoMonotone
    <2>3. Upto(batch, l) <= Upto(pop', l)
      BY <1>1, <1>2, <2>1, UptoMonotone
    <2> QED
      BY <2>2, <2>3
  <1>7. Feasibles(batch) = Upto(batch, b_max_in)
    <2>1. {i \in DOMAIN batch : batch[i].feasible}
            = {i \in DOMAIN batch : batch[i].feasible /\ batch[i].limit <= b_max_in}
      BY <1>3 DEF Few, Limited
    <2> QED
      BY <2>1 DEF Feasibles, Upto
  <1>8. b_max_in >= 1 /\ Few(pop', b_max_in) /\ goodguys' = Upto(pop', b_max_in)
    BY <1>2, <1>3, <1>5, <1>6, <1>7 DEF Few
  <1>9. pc' = "raise" \/ (pc' = "evaluating" /\ then' = "emptied")
    BY DEF Count, Apply
  <1> QED
    BY <1>2, <1>8, <1>9 DEF EstimateInv, EstimateJustified, Few, Limited, Upto

LEMMA RaiseEstimate ==
  ASSUME TypeInv, EstimateInv, Raise
  PROVE  EstimateInv'
  <1>1. /\ pc = "raise" /\ pc' = "estimate" /\ UNCHANGED <<pop, goodguys>>
        /\ b_max_fixed' = b_max_in /\ b_max_in' = b_max_in * Coef
    BY DEF Raise, NextLimit
  <1>2. b_max_in >= 1 /\ Few(pop, b_max_in) /\ goodguys = Upto(pop, b_max_in)
    BY <1>1 DEF EstimateInv
  <1> QED
    BY <1>1, <1>2 DEF EstimateInv, EstimateJustified, Tried, Few, Limited, Upto

LEMMA LeaveLoopEstimate ==
  ASSUME TypeInv, EstimateInv, LeaveLoop
  PROVE  EstimateInv'
  <1>1. /\ pc = "estimate" /\ ~(goodguys < GoodMin /\ b_max_in < BMaxInit)
        /\ pc' = "evaluating" /\ then' = "leave" /\ batch' = pop
        /\ UNCHANGED <<b_max_in, b_max_fixed>>
    BY DEF LeaveLoop, Apply, estimate
  <1>2. b_max_in > 1 => Tried /\ goodguys = Upto(pop, b_max_fixed)
    BY <1>1 DEF EstimateInv
  <1>3. goodguys >= GoodMin \/ b_max_in >= BMaxInit
    <2>1. goodguys \in Nat /\ b_max_in \in Nat
      BY DEF TypeInv, TypeOK
    <2> QED
      BY <1>1, <2>1
  <1> QED
    BY <1>1, <1>2, <1>3 DEF EstimateInv, EstimateJustified, Tried, Upto

LEMMA LeaveEstimate ==
  ASSUME TypeInv, EstimateInv, Leave
  PROVE  EstimateInv'
  <1>1. /\ pc = "leave" /\ pc' = "main" /\ pop' = batch
        /\ UNCHANGED <<b_max_in, b_max_fixed>>
    BY DEF Leave, Estimated
  <1>2. b_max_in > 1 =>
          /\ b_max_fixed >= 1 /\ b_max_in = b_max_fixed * Coef
          /\ Upto(batch, b_max_fixed) >= GoodMin \/ b_max_in >= BMaxInit
          /\ Upto(batch, b_max_fixed \div Coef) < GoodMin
    BY <1>1 DEF EstimateInv
  <1> QED
    BY <1>1, <1>2 DEF EstimateInv, EstimateJustified, Upto

LEMMA EstimateStep == TypeInv /\ Sharing /\ EstimateInv /\ [Next]_vars => EstimateInv'
  <1> SUFFICES ASSUME TypeInv, Sharing, EstimateInv, [Next]_vars PROVE EstimateInv'
    OBVIOUS
  <1>1. ASSUME NEW t \in Threads, Take(t) \/ Remember(t) \/ Dump(t) PROVE EstimateInv'
    BY <1>1, EstimateUntouched DEF Take, Remember, Dump
  <1>2. ASSUME NEW t \in Threads, Solve(t) PROVE EstimateInv'
    BY <1>2, SolveEstimate
  <1>3. CASE Applied
    <2>1. /\ pc = "evaluating" /\ pc' = then /\ then \in Labels
          /\ UNCHANGED <<then, pop, batch, estimate>>
      BY <1>3 DEF Applied, working, TypeInv, TypeOK
    <2> QED
      BY <2>1 DEF EstimateInv, EstimateJustified, Few, Limited, Upto, estimate, Labels
  <1>4. ASSUME NEW t \in Threads, TimeOut(t) PROVE EstimateInv'
    BY <1>4, EstimateOver DEF TimeOut
  <1>5. CASE TryLimit
    BY <1>5, TryLimitEstimate
  <1>6. CASE Count
    BY <1>6, CountEstimate
  <1>7. CASE Emptied
    <2>1. pc = "emptied" /\ pc' = "raise" /\ UNCHANGED <<pop, b_max_in, b_max_fixed, goodguys>>
      BY <1>7 DEF Emptied
    <2> QED
      BY <2>1 DEF EstimateInv, EstimateJustified, Few, Limited, Upto
  <1>8. CASE Raise
    BY <1>8, RaiseEstimate
  <1>9. CASE LeaveLoop
    BY <1>9, LeaveLoopEstimate
  <1>10. CASE Leave
    BY <1>10, LeaveEstimate
  <1>11. CASE Main \/ First \/ Ready \/ Breed \/ Replace \/ EndRun \/ Restart
    BY <1>11, EstimateOver DEF Main, First, Ready, Breed, Replace, EndRun, Restart, Apply
  <1>12. CASE UNCHANGED vars
    BY <1>12, EstimateUntouched DEF vars, working
  <1> QED
    BY <1>1, <1>2, <1>3, <1>4, <1>5, <1>6, <1>7, <1>8, <1>9, <1>10, <1>11, <1>12, Zenon
       DEF Next, Step, Over

(* The estimate of b_max is a limit under which enough of the first population
   is feasible, or the last below bmax-init, and under the one before it too
   few are (estimate_bmax_incremental): though b_max_in has moved on when the
   loop ends, and the rest is evaluated with it, by any number of threads.  *)
THEOREM EstimateIsJustified == Spec => []EstimateJustified
  <1>1. Init => Sharing /\ EstimateInv
    BY InitShares, InitEstimate
  <1>2. TypeInv /\ Sharing /\ EstimateInv /\ [Next]_vars => Sharing' /\ EstimateInv'
    BY SharingStep, EstimateStep
  <1>3. EstimateInv => EstimateJustified
    BY DEF EstimateInv
  <1> QED
    BY <1>1, <1>2, <1>3, TypeInvKept, PTL DEF Spec

-----------------------------------------------------------------------------
(* The best decomposition.                                                  *)

(* x is at least as fit as a feasible outcome o.                            *)
AsFit(x, o) == x.feasible /\ x.fitness <= o.fitness

(* Is the population being evaluated, or evaluated and still in batch?      *)
At(labels) == pc \in labels \/ (pc = "evaluating" /\ then \in labels)

(* The individuals among which the best so far has to be.                   *)
Holders ==
  (IF At({"estimate", "counted", "emptied", "raise", "leave", "main", "first"})
   THEN {} ELSE {best})
  \cup (IF At({"counted", "leave", "first", "restart"}) THEN {} ELSE ToSet(pop))
  \cup (IF At({"counted", "leave", "first", "restart", "replace"}) THEN ToSet(batch) ELSE {})

Stopped == pc \in {"finished", "aborted"}

(* While the run goes on nothing that was seen is lost, and it goes on only
   below runs-max.                                                          *)
BestInv ==
  /\ ~Stopped => \A s \in seen : s[2] \/ \E x \in Holders : AsFit(x, s[1])
  /\ ~Stopped => MaxRuns = 0 \/ run = 1 \/ run < MaxRuns
  /\ Completed => \A t \in Threads : job[t].stage = "idle"
  /\ BestKept

LEMMA FitterOrder ==
  ASSUME NEW x \in Individuals, NEW y \in Individuals, NEW z \in Individuals
  PROVE  /\ ~Fitter(x, x)
         /\ ~Fitter(y, x) /\ ~Fitter(z, y) => ~Fitter(z, x)
         /\ Fitter(x, y) => ~Fitter(y, x)
         /\ \A o \in Outcomes : AsFit(y, o) /\ ~Fitter(y, x) => AsFit(x, o)
  BY DEF Fitter, Individuals, AsFit

(* The next generation has an individual at least as fit as all its parents
   and all the offspring.                                                   *)
LEMMA ReplacedFit ==
  ASSUME NEW p \in [1 .. PopSize -> Individuals],
         NEW o \in [1 .. Offsprings -> Individuals],
         NEW next \in Replaced(p, o)
  PROVE  \E z \in ToSet(next) :
           z \in Individuals /\ \A y \in ToSet(p) \cup ToSet(o) : ~Fitter(y, z)
  <1>1. PICK sorted \in Truncated(o), x \in Champions(p) :
          next = IF Fitter(x, sorted[1]) THEN [sorted EXCEPT ![PopSize] = x] ELSE sorted
    BY DEF Replaced
  <1>2. PICK k \in [1 .. PopSize -> DOMAIN o] :
          /\ sorted = [i \in 1 .. PopSize |-> o[k[i]]]
          /\ \A i, j \in 1 .. PopSize : i < j => k[i] # k[j] /\ ~Fitter(o[k[j]], o[k[i]])
          /\ \A h \in DOMAIN o \ Range(k) : ~Fitter(o[h], o[k[PopSize]])
    BY DEF Truncated
  <1>3. 1 \in 1 .. PopSize /\ PopSize \in 1 .. PopSize
    OBVIOUS
  <1>4. x \in ToSet(p) /\ x \in Individuals /\ \A y \in ToSet(p) : ~Fitter(y, x)
    BY ChampionTyped DEF Champions
  <1>5. sorted[1] \in Individuals /\ sorted \in [1 .. PopSize -> Individuals]
    BY <1>2, <1>3
  <1>6. ToSet(p) \subseteq Individuals /\ ToSet(o) \subseteq Individuals
    BY DEF ToSet
  <1>7. \A y \in ToSet(o) : ~Fitter(y, sorted[1])
    <2> SUFFICES ASSUME NEW h \in DOMAIN o PROVE ~Fitter(o[h], sorted[1])
      BY DEF ToSet
    <2>1. ASSUME NEW j \in 1 .. PopSize PROVE ~Fitter(sorted[j], sorted[1])
      <3>1. CASE j = 1
        BY <1>5, <3>1, FitterOrder
      <3>2. CASE j # 1
        BY <1>2, <1>3, <3>2
      <3> QED
        BY <3>1, <3>2
    <2>2. CASE h \in Range(k)
      <3>1. PICK j \in 1 .. PopSize : h = k[j]
        BY <2>2 DEF Range
      <3> QED
        BY <1>2, <2>1, <3>1
    <2>3. CASE h \notin Range(k)
      <3>1. ~Fitter(o[h], sorted[PopSize])
        BY <1>2, <1>3, <2>3
      <3>2. ~Fitter(sorted[PopSize], sorted[1])
        BY <1>3, <2>1
      <3>3. o[h] \in Individuals /\ sorted[PopSize] \in Individuals
        BY <1>3, <1>5
      <3> QED
        BY <1>5, <3>1, <3>2, <3>3, FitterOrder
    <2> QED
      BY <2>2, <2>3
  <1>8. CASE Fitter(x, sorted[1])
    <2>1. next = [sorted EXCEPT ![PopSize] = x]
      BY <1>1, <1>8
    <2>2. x \in ToSet(next)
      BY <1>3, <1>5, <2>1 DEF ToSet
    <2>3. \A y \in ToSet(o) : ~Fitter(y, x)
      BY <1>4, <1>5, <1>6, <1>7, <1>8, FitterOrder
    <2> QED
      BY <1>4, <2>2, <2>3
  <1>9. CASE ~Fitter(x, sorted[1])
    <2>1. sorted[1] \in ToSet(next)
      BY <1>1, <1>3, <1>5, <1>9 DEF ToSet
    <2>2. \A y \in ToSet(p) : ~Fitter(y, sorted[1])
      BY <1>4, <1>5, <1>6, <1>9, FitterOrder
    <2> QED
      BY <1>5, <1>7, <2>1, <2>2
  <1> QED
    BY <1>8, <1>9

LEMMA HoldersTyped ==
  TypeInv => /\ Holders \subseteq Individuals
             /\ \A s \in seen : s[1] \in Outcomes
  <1> SUFFICES ASSUME TypeInv
               PROVE  /\ Holders \subseteq Individuals
                      /\ \A s \in seen : s[1] \in Outcomes
    OBVIOUS
  <1>1. ToSet(batch) \subseteq Individuals
    BY BatchTyped DEF TypeInv, ToSet
  <1>2. ToSet(pop) \subseteq Individuals
    <2>1. pop \in [1 .. PopSize -> Individuals]
      BY DEF TypeInv, TypeOK
    <2> QED
      BY <2>1 DEF ToSet
  <1>3. best \in Individuals /\ seen \subseteq Outcomes \X BOOLEAN
    BY DEF TypeInv, TypeOK
  <1> QED
    BY <1>1, <1>2, <1>3 DEF Holders, At

(* Every feasible holder has a holder at least as fit after the step.       *)
Kept == \A x \in Holders : x.feasible => \E z \in Holders' : ~Fitter(x, z)

LEMMA KeptHolds ==
  ASSUME TypeInv, TypeInv', BestInv, ~Stopped, seen' = seen, Kept
  PROVE  \A s \in seen' : s[2] \/ \E x \in Holders' : AsFit(x, s[1])
  <1> SUFFICES ASSUME NEW s \in seen, ~s[2] PROVE \E x \in Holders' : AsFit(x, s[1])
    OBVIOUS
  <1>1. PICK x \in Holders : AsFit(x, s[1])
    BY DEF BestInv
  <1>2. PICK z \in Holders' : ~Fitter(x, z)
    BY <1>1 DEF Kept, AsFit
  <1>3. x \in Individuals /\ z \in Individuals /\ s[1] \in Outcomes
    <2>1. TypeInv' => (Holders \subseteq Individuals)'
      BY HoldersTyped, PTL
    <2> QED
      BY <2>1, HoldersTyped
  <1>4. AsFit(z, s[1])
    BY <1>1, <1>2, <1>3, FitterOrder
  <1> QED
    BY <1>4

(* A step that sees nothing and keeps the fittest holders.                  *)
LEMMA BestGoesOn ==
  ASSUME TypeInv, TypeInv', BestInv, ~Stopped, ~Stopped', UNCHANGED <<seen, run>>, Kept
  PROVE  BestInv'
  <1>1. \A s \in seen' : s[2] \/ \E x \in Holders' : AsFit(x, s[1])
    BY KeptHolds
  <1>2. ~Completed'
    BY DEF Stopped, Completed
  <1> QED
    BY <1>1, <1>2 DEF BestInv, BestKept

LEMMA InitBest == Init => BestInv
  BY DEF Init, BestInv, BestKept, Stopped, Completed

LEMMA SolveBest ==
  ASSUME TypeInv, TypeInv', Sharing, BestInv, NEW t \in Threads, Solve(t)
  PROVE  BestInv'
  <1>1. PICK o \in Outcomes :
          /\ batch' = [batch EXCEPT ![job[t].at] = Individual(o, b_max_in)]
          /\ seen' = IF o.feasible THEN seen \cup {<<o, then \in {"emptied", "ready"}>>} ELSE seen
    BY DEF Solve
  <1>2. /\ UNCHANGED <<pc, then, pop, best, run>>
        /\ job[t].stage # "idle"
    BY DEF Solve, engine
  <1>3. job[t].at \in DOMAIN batch /\ ~batch[job[t].at].feasible
    BY DEF Solve, TypeInv, Shape, Sharing
  <1>4. ~Completed /\ ~Completed'
    BY <1>2 DEF BestInv, Completed
  <1>5. ASSUME NEW x \in Holders, x.feasible PROVE x \in Holders'
    <2>1. CASE x \in ToSet(batch)
      <3>1. PICK i \in DOMAIN batch : x = batch[i]
        BY <2>1 DEF ToSet
      <3>2. i # job[t].at
        BY <1>3, <1>5, <3>1
      <3>3. x \in ToSet(batch')
        BY <1>1, <3>1, <3>2 DEF ToSet
      <3> QED
        BY <1>2, <3>3 DEF Holders, At
    <2>2. CASE x \notin ToSet(batch)
      BY <1>2, <2>2 DEF Holders, At
    <2> QED
      BY <2>1, <2>2
  <1>6. ASSUME ~Stopped, NEW s \in seen', ~s[2]
        PROVE  \E x \in Holders' : AsFit(x, s[1])
    <2>1. CASE s \in seen
      BY <1>5, <1>6, <2>1 DEF BestInv, AsFit
    <2>2. CASE s \notin seen
      <3>1. o.feasible /\ s = <<o, then \in {"emptied", "ready"}>>
        BY <1>1, <1>6, <2>2
      <3>2. s[1] = o /\ s[2] = (then \in {"emptied", "ready"})
        BY <3>1
      <3>3. pc = "evaluating" /\ then \in {"counted", "leave", "first", "replace", "restart"}
        BY <1>2, <1>6, <3>2 DEF Stopped, TypeInv, TypeOK, Shape, Labels, Between
      <3>4. Individual(o, b_max_in) \in ToSet(batch')
        BY <1>1, <1>3 DEF ToSet
      <3>5. Individual(o, b_max_in) \in Holders'
        BY <1>2, <3>3, <3>4 DEF Holders, At
      <3>6. AsFit(Individual(o, b_max_in), o)
        BY <3>1 DEF AsFit, Individual
      <3> QED
        BY <3>2, <3>5, <3>6
    <2> QED
      BY <2>1, <2>2
  <1> QED
    BY <1>2, <1>4, <1>6 DEF BestInv, BestKept, Stopped

(* Populations and the best are in the hands of the next step.              *)
LEMMA HoldersKept ==
  ASSUME TypeInv, Holders \subseteq Holders'
  PROVE  Kept
  BY HoldersTyped, FitterOrder DEF Kept

LEMMA EndRunBest ==
  ASSUME TypeInv, TypeInv', BestInv, EndRun
  PROVE  BestInv'
  <1>1. PICK x \in Champions(pop) : best' = IF Fitter(x, best) THEN x ELSE best
    BY DEF EndRun
  <1>2. /\ pc = "end_run" /\ run' = run + 1 /\ UNCHANGED <<job, seen>>
        /\ \/ MaxRuns # 0 /\ run' >= MaxRuns /\ pc' = "finished"
           \/ ~(MaxRuns # 0 /\ run' >= MaxRuns) /\ pc' = "evaluating"
    BY DEF EndRun, Apply
  <1>3. best \in Individuals /\ pop \in [1 .. PopSize -> Individuals] /\ run \in Nat
    BY DEF TypeInv, TypeOK
  <1>4. x \in Individuals /\ ToSet(pop) \subseteq Individuals
    BY SMTT(60), <1>3, ChampionTyped DEF ToSet
  <1>5. \A y \in Holders : ~Fitter(y, best')
    <2>1. Holders = {best} \cup ToSet(pop)
      BY <1>2 DEF Holders, At
    <2>2. ~Fitter(best, best') /\ ~Fitter(x, best') /\ best' \in Individuals
      BY <1>1, <1>3, <1>4, FitterOrder
    <2>3. \A y \in ToSet(pop) : ~Fitter(y, x)
      BY DEF Champions
    <2>4. \A y \in ToSet(pop) : ~Fitter(y, best')
      BY <1>4, <2>2, <2>3, FitterOrder
    <2> QED
      BY <2>1, <2>2, <2>4
  <1>6. ~Stopped
    BY <1>2 DEF Stopped
  <1>7. \A s \in seen : s[2] \/ AsFit(best', s[1])
    <2> SUFFICES ASSUME NEW s \in seen, ~s[2] PROVE AsFit(best', s[1])
      OBVIOUS
    <2>1. PICK y \in Holders : AsFit(y, s[1])
      BY <1>6 DEF BestInv
    <2>2. y \in Individuals /\ s[1] \in Outcomes /\ best' \in Individuals
      BY <1>1, <1>3, <1>4, HoldersTyped
    <2> QED
      BY <1>5, <2>1, <2>2, FitterOrder
  <1>8. best' \in Holders'
    <2>1. pc' = "finished" \/ (pc' = "evaluating" /\ then' = "restart")
      BY DEF EndRun, Apply
    <2> QED
      BY <2>1 DEF Holders, At
  <1>9. \A u \in Threads : job'[u].stage = "idle"
    BY <1>2, NobodyWorks DEF Between
  <1>10. ~Stopped' => MaxRuns = 0 \/ run' = 1 \/ run' < MaxRuns
    BY <1>2, <1>3 DEF Stopped
  <1>11. \A s \in seen' : s[2] \/ AsFit(best', s[1])
    BY <1>2, <1>7
  <1> QED
    BY <1>8, <1>9, <1>10, <1>11 DEF BestInv, BestKept, AsFit

LEMMA BestStep == TypeInv /\ TypeInv' /\ Sharing /\ BestInv /\ [Next]_vars => BestInv'
  <1> SUFFICES ASSUME TypeInv, TypeInv', Sharing, BestInv, [Next]_vars PROVE BestInv'
    OBVIOUS
  <1>1. ASSUME UNCHANGED <<pc, then, pop, batch, best, seen, run>>,
               Completed => \A t \in Threads : job'[t].stage = "idle"
        PROVE  BestInv'
    BY <1>1 DEF BestInv, BestKept, Holders, At, Stopped, Completed, AsFit
  <1>2. ASSUME NEW t \in Threads, Take(t) \/ Remember(t) \/ Dump(t) PROVE BestInv'
    <2>1. ~Completed
      BY <1>2 DEF Take, Remember, Dump, BestInv, Completed
    <2> QED
      BY <1>1, <1>2, <2>1 DEF Take, Remember, Dump, engine
  <1>3. ASSUME NEW t \in Threads, Solve(t) PROVE BestInv'
    BY <1>3, SolveBest
  <1>4. CASE Applied
    <2>1. /\ pc = "evaluating" /\ pc' = then /\ then \in Labels
          /\ UNCHANGED <<then, pop, batch, best, seen, run>>
      BY <1>4 DEF Applied, working, engine, TypeInv, TypeOK
    <2>2. Holders \subseteq Holders'
      BY <2>1 DEF Holders, At
    <2> QED
      BY <2>1, <2>2, HoldersKept, BestGoesOn DEF Stopped, Labels
  <1>5. ASSUME NEW t \in Threads, TimeOut(t) PROVE BestInv'
    <2>1. Stopped' /\ run' = run /\ ~Stopped
      BY <1>5 DEF TimeOut, Stopped, engine
    <2>2. ~Completed'
      <3>1. run \in Nat
        BY DEF TypeInv, TypeOK
      <3>2. MaxRuns = 0 \/ run = 1 \/ run < MaxRuns
        BY <2>1 DEF BestInv
      <3> QED
        BY <2>1, <3>1, <3>2 DEF Completed
    <2> QED
      BY <2>1, <2>2 DEF BestInv, BestKept
  <1>6. CASE TryLimit \/ LeaveLoop \/ Main
    <2>1. Holders \subseteq Holders'
      BY <1>6 DEF TryLimit, LeaveLoop, Main, Apply, engine, Holders, At
    <2> QED
      BY <1>6, <2>1, HoldersKept, BestGoesOn
         DEF TryLimit, LeaveLoop, Main, Apply, engine, Stopped
  <1>7. CASE Count
    <2>1. /\ pc = "counted" /\ pc' \in {"evaluating", "raise"} /\ UNCHANGED <<seen, run, best>>
          /\ pop' = [i \in DOMAIN batch |-> IF batch[i].feasible THEN batch[i] ELSE Fresh]
      BY <1>7 DEF Count, Apply, engine
    <2>2. \A x \in ToSet(batch) : x.feasible => x \in ToSet(pop')
      BY <2>1 DEF ToSet
    <2>3. ASSUME NEW x \in Holders, x.feasible PROVE \E z \in Holders' : ~Fitter(x, z)
      <3>1. x \in Individuals /\ ~Fitter(x, x)
        BY HoldersTyped, FitterOrder
      <3>2. x \in ToSet(batch)
        BY <2>1 DEF Holders, At
      <3>3. pc' = "raise" \/ (pc' = "evaluating" /\ then' = "emptied")
        BY <1>7 DEF Count, Apply
      <3>4. x \in Holders'
        BY <2>1, <2>2, <2>3, <3>2, <3>3 DEF Holders, At
      <3> QED
        BY <3>1, <3>4
    <2> QED
      BY <2>1, <2>3, BestGoesOn DEF Kept, Stopped
  <1>8. CASE Emptied \/ Raise \/ Ready
    <2>1. Holders \subseteq Holders'
      BY <1>8 DEF Emptied, Raise, Ready, engine, Holders, At
    <2> QED
      BY <1>8, <2>1, HoldersKept, BestGoesOn
         DEF Emptied, Raise, Ready, working, engine, Stopped
  <1>9. CASE Leave
    <2>1. Holders \subseteq Holders'
      BY <1>9 DEF Leave, engine, Holders, At
    <2> QED
      BY <1>9, <2>1, HoldersKept, BestGoesOn DEF Leave, working, engine, Stopped
  <1>10. CASE First
    <2>1. best' \in Champions(batch) /\ pop' = batch
      BY <1>10 DEF First
    <2>2. Kept
      <3>1. /\ pc = "first" /\ pc' = "evaluating" /\ then' = "ready"
        BY <1>10 DEF First, Apply
      <3>2. Holders = ToSet(batch) /\ best' \in Holders'
        BY <3>1 DEF Holders, At
      <3>3. \A x \in ToSet(batch) : ~Fitter(x, best')
        BY <2>1 DEF Champions
      <3> QED
        BY <3>2, <3>3 DEF Kept
    <2> QED
      BY <1>10, <2>2, BestGoesOn DEF First, Apply, Stopped
  <1>11. CASE Breed
    <2>1. Holders \subseteq Holders'
      BY <1>11 DEF Breed, Apply, engine, Holders, At
    <2> QED
      BY <1>11, <2>1, HoldersKept, BestGoesOn DEF Breed, Apply, engine, Stopped
  <1>12. CASE Replace
    <2>1. batch \in [1 .. Offsprings -> Individuals] /\ pop \in [1 .. PopSize -> Individuals]
      BY <1>12, NobodyWorks, SizesKnown DEF Replace, Between, Labels, TypeInv, TypeOK
    <2>2. PICK z \in ToSet(pop') :
            z \in Individuals /\ \A y \in ToSet(pop) \cup ToSet(batch) : ~Fitter(y, z)
      BY <1>12, <2>1, ReplacedFit DEF Replace
    <2>3. /\ pc = "replace" /\ pc' \in {"breed", "end_run"} /\ UNCHANGED <<best, run, seen>>
      BY <1>12 DEF Replace, working
    <2>4. Kept
      BY <2>2, <2>3, HoldersTyped, FitterOrder DEF Kept, Holders, At
    <2> QED
      BY <2>3, <2>4, BestGoesOn DEF Stopped
  <1>13. CASE EndRun
    BY <1>13, EndRunBest
  <1>14. CASE Restart
    <2>1. Holders \subseteq Holders'
      BY <1>14 DEF Restart, Holders, At
    <2> QED
      BY <1>14, <2>1, HoldersKept, BestGoesOn DEF Restart, working, Stopped
  <1>15. CASE UNCHANGED vars
    BY <1>1, <1>15 DEF vars, working, engine, BestInv
  <1> QED
    BY <1>2, <1>3, <1>4, <1>5, <1>6, <1>7, <1>8, <1>9, <1>10, <1>11, <1>12, <1>13, <1>14,
       <1>15, Zenon DEF Next, Step, Over

(* When all the searches have ended, the decomposition that main kept is at
   least as fit as every one that was in a population, of any search: the
   replacement carries the best parent over, and main compares the best of
   each search with the best before.                                        *)
THEOREM BestIsKept == Spec => []BestKept
  <1>1. Init => Sharing /\ BestInv
    BY InitShares, InitBest
  <1>2. TypeInv /\ TypeInv' /\ Sharing /\ BestInv /\ [Next]_vars => Sharing' /\ BestInv'
    BY SharingStep, BestStep
  <1>3. BestInv => BestKept
    BY DEF BestInv
  <1> QED
    BY <1>1, <1>2, <1>3, TypeInvKept, PTL DEF Spec
=============================================================================
