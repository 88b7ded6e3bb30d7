------------------------------- MODULE DaeRun -------------------------------
(***************************************************************************)
(* The whole run of Descarwin, mono-objective and without MPI (dae.cpp):   *)
(* the incremental estimation of b_max (do/make_init_dae.h), the runs of   *)
(* the evolutionary engine, and the plan files that the evaluator writes   *)
(* on the way (utils/evalBestPlanDump.h).  What an evaluation finds is     *)
(* data: DaeEval models it.  eoPopLoopEval shares the individuals of a     *)
(* population among the threads of OpenMP.                                 *)
(***************************************************************************)
EXTENDS Integers, Sequences, SequencesExt

CONSTANTS
  Threads,     (* one thread, or those of OpenMP                            *)
  PopSize,     (* popSize                                                   *)
  Offsprings,  (* offsprings                                                *)
  Outcomes,    (* what an evaluation may find: [feasible, makespan, fitness] *)
  Worst,       (* INT_MAX, above every makespan                             *)
  GoodMin,     (* goodguys_min: bmax-ratio of popSize                       *)
  Fixed,       (* values of bmax-fixed: 0 asks for the estimation           *)
  BMaxInit,    (* bmax-init                                                 *)
  Coef,        (* bmax-increase-coef                                        *)
  MinGens,     (* gen-min                                                   *)
  MaxGens,     (* gen-max                                                   *)
  MaxRuns,     (* runs-max, 0 for no end                                    *)
  Timed        (* is there a max-seconds?                                   *)

ASSUME RunAssumption ==
  /\ Threads # {}
  /\ PopSize \in Nat \ {0} /\ Offsprings \in Nat /\ Offsprings >= PopSize
  /\ Outcomes \subseteq [feasible : BOOLEAN, makespan : Nat, fitness : Nat]
  /\ Worst \in Nat /\ \A x \in Outcomes : x.makespan < Worst
  /\ GoodMin \in Nat
  /\ Fixed \subseteq Nat /\ BMaxInit \in Nat /\ Coef \in Nat /\ Coef >= 2
  /\ MinGens \in Nat /\ MaxGens \in Nat /\ MaxRuns \in Nat
  /\ Timed \in BOOLEAN

VARIABLES
  pc, pop,
  batch,           \* the individuals eval_pop is applied to
  left,            \* places of batch no thread has taken yet
  then,            \* what follows the evaluation of batch
  job,             \* of each thread: the place it works on and where it is
  dumper,          \* _best and _file_count of the evaluator in use
  files,           \* number of a plan file -> makespan of the plan in it
  b_max_in, b_max_fixed, goodguys, found,     \* estimate_bmax_incremental
  best_makespan, dump_file_count,             \* handed from evaluator to evaluator
  best,            \* best decomposition of all the runs
  gens,            \* generations the continuators have counted
  run,
  bred,            \* generations of this run
  seen             \* feasible outcomes, and whether of the empty decomposition

estimate == <<b_max_in, b_max_fixed, goodguys, found>>
handed   == <<best_makespan, dump_file_count>>
engine   == <<best, gens, run, bred>>
working  == <<batch, left, then, job, dumper, files, seen>>
vars == <<pc, pop, working, estimate, handed, engine>>

Fresh == [valid |-> FALSE, feasible |-> FALSE, makespan |-> 0, fitness |-> 0, limit |-> 0]
Individual(o, limit) ==
  [valid |-> TRUE, feasible |-> o.feasible, makespan |-> o.makespan,
   fitness |-> o.fitness, limit |-> limit]
FreshPop == [i \in 1 .. PopSize |-> Fresh]
Idle == [stage |-> "idle", at |-> 0]

(* The order on fitnesses: feasible before not, then the lower value.       *)
Fitter(x, y) ==
  \/ x.feasible /\ ~y.feasible
  \/ x.feasible = y.feasible /\ x.fitness < y.fitness

(* Which of several equally fit individuals comes out is for the library.   *)
Champions(p) == {x \in ToSet(p) : \A y \in ToSet(p) : ~Fitter(y, x)}
Feasibles(p) == Cardinality({i \in DOMAIN p : p[i].feasible})

-----------------------------------------------------------------------------
Init ==
  /\ b_max_fixed \in Fixed
  /\ pc = IF b_max_fixed = 0 THEN "estimate" ELSE "main"
  /\ pop = FreshPop
  /\ batch = <<>> /\ left = {} /\ then = "" /\ job = [t \in Threads |-> Idle]
  /\ b_max_in = 1 /\ goodguys = 0 /\ found = FALSE
  /\ best_makespan = Worst /\ dump_file_count = 1
  /\ dumper = [best |-> Worst, count |-> 1] /\ files = <<>>
  /\ best = Fresh /\ gens = 0 /\ run = 1 /\ bred = 0
  /\ seen = {}

-----------------------------------------------------------------------------
(* Evaluation of a population, and what evalBestMakespanPlanDump does after *)
(* each individual.                                                         *)

Apply(p, label) ==
  /\ batch' = p /\ left' = DOMAIN p /\ then' = label
  /\ pc' = "evaluating"

NewDumper == dumper' = [best |-> best_makespan, count |-> dump_file_count]

(* A valid individual is left as it is.                                     *)
Take(t) ==
  /\ pc = "evaluating" /\ job[t].stage = "idle"
  /\ \E i \in left :
       /\ left' = left \ {i}
       /\ job' = IF batch[i].valid THEN job
                 ELSE [job EXCEPT ![t] = [stage |-> "solving", at |-> i]]
  /\ UNCHANGED <<pc, pop, batch, then, dumper, files, seen, estimate, handed, engine>>

AnyPlan(x) == x.feasible                              \* mutant of BetterPlan
BetterPlan(x) == x.feasible /\ x.makespan < dumper.best

(* The embedded evaluator, and the test of the makespan.                    *)
Solve(t) ==
  /\ job[t].stage = "solving"
  /\ \E o \in Outcomes :
       LET x == Individual(o, b_max_in)
       IN /\ batch' = [batch EXCEPT ![job[t].at] = x]
          /\ seen' = IF o.feasible THEN seen \cup {<<o, then \in {"emptied", "ready"}>>} ELSE seen
          /\ job' = [job EXCEPT ![t] = IF BetterPlan(x) THEN [@ EXCEPT !.stage = "better"] ELSE Idle]
  /\ UNCHANGED <<pc, pop, left, then, dumper, files, estimate, handed, engine>>

(* The critical section is the assignment alone.                            *)
Remember(t) ==
  /\ job[t].stage = "better"
  /\ dumper' = [dumper EXCEPT !.best = batch[job[t].at].makespan]
  /\ job' = [job EXCEPT ![t].stage = "dump"]
  /\ UNCHANGED <<pc, pop, batch, left, then, files, seen, estimate, handed, engine>>

(* dump writes the plan; two dumps at the same time are left out.           *)
Dump(t) ==
  /\ job[t].stage = "dump"
  /\ files' = [n \in DOMAIN files \cup {dumper.count} |->
                 IF n = dumper.count THEN batch[job[t].at].makespan ELSE files[n]]
  /\ dumper' = [dumper EXCEPT !.count = @ + 1]
  /\ job' = [job EXCEPT ![t] = Idle]
  /\ UNCHANGED <<pc, pop, batch, left, then, seen, estimate, handed, engine>>

Applied ==
  /\ pc = "evaluating" /\ left = {} /\ \A t \in Threads : job[t] = Idle
  /\ pc' = then
  /\ UNCHANGED <<pop, working, estimate, handed, engine>>

(* eoEvalUserTimeThrowException, which the estimation does not use.  Only
   the loop of the runs catches it.                                         *)
TimeOut(t) ==
  /\ Timed /\ pc = "evaluating" /\ job[t].stage = "idle"
  /\ \E i \in left : ~batch[i].valid
  /\ then \in {"first", "ready", "replace", "restart"}
  /\ pc' = IF then \in {"replace", "restart"} THEN "finished" ELSE "aborted"
  /\ UNCHANGED <<pop, working, estimate, handed, engine>>

-----------------------------------------------------------------------------
(* estimate_bmax_incremental.                                               *)

TryLimit ==
  /\ pc = "estimate" /\ goodguys < GoodMin /\ b_max_in < BMaxInit
  /\ NewDumper /\ Apply(pop, "counted")
  /\ UNCHANGED <<pop, job, files, seen, estimate, handed, engine>>

(* The unfeasible individuals will be evaluated again; without a feasible
   one, the empty decomposition is tried.                                   *)
Count ==
  /\ pc = "counted"
  /\ pop' = [i \in DOMAIN batch |-> IF batch[i].feasible THEN batch[i] ELSE Fresh]
  /\ goodguys' = Feasibles(batch)
  /\ IF goodguys' = 0 /\ ~found
     THEN Apply(<<Fresh>>, "emptied")
     ELSE pc' = "raise" /\ UNCHANGED <<batch, left, then>>
  /\ UNCHANGED <<job, dumper, files, seen, b_max_in, b_max_fixed, found, handed, engine>>

Emptied ==
  /\ pc = "emptied"
  /\ found' = batch[1].feasible
  /\ pc' = "raise"
  /\ UNCHANGED <<pop, working, b_max_in, b_max_fixed, goodguys, handed, engine>>

HandBack ==
  /\ best_makespan' = dumper.best
  /\ dump_file_count' = dumper.count

SameLimit == b_max_in                                    \* mutant of NextLimit
NextLimit == b_max_in * Coef

Raise ==
  /\ pc = "raise"
  /\ HandBack
  /\ b_max_fixed' = b_max_in
  /\ b_max_in' = NextLimit
  /\ pc' = "estimate"
  /\ UNCHANGED <<pop, working, goodguys, found, engine>>

(* What is still invalid is evaluated with the last limit reached.          *)
LeaveLoop ==
  /\ pc = "estimate" /\ ~(goodguys < GoodMin /\ b_max_in < BMaxInit)
  /\ NewDumper /\ Apply(pop, "leave")
  /\ UNCHANGED <<pop, job, files, seen, estimate, handed, engine>>

LastTried == b_max_in                                    \* mutant of Estimated
Estimated == b_max_fixed

(* main: b_max_in is the estimate.                                          *)
Leave ==
  /\ pc = "leave"
  /\ pop' = batch
  /\ HandBack
  /\ b_max_fixed' = Estimated
  /\ pc' = "main"
  /\ UNCHANGED <<working, b_max_in, goodguys, found, engine>>

-----------------------------------------------------------------------------
(* main, with eoEasyEA.                                                     *)

Main ==
  /\ pc = "main"
  /\ b_max_in' = b_max_fixed
  /\ NewDumper /\ Apply(pop, "first")
  /\ UNCHANGED <<pop, job, files, seen, b_max_fixed, goodguys, found, handed, engine>>

(* The best of the initial population, then the empty decomposition.        *)
First ==
  /\ pc = "first"
  /\ pop' = batch
  /\ best' \in Champions(batch)
  /\ Apply(<<Fresh>>, "ready")
  /\ UNCHANGED <<job, dumper, files, seen, estimate, handed, gens, run, bred>>

Ready ==
  /\ pc = "ready"
  /\ pc' = "breed"
  /\ UNCHANGED <<pop, working, estimate, handed, engine>>

(* The variation leaves an individual alone or invalidates it.              *)
Breed ==
  /\ pc = "breed"
  /\ \E offspring \in [1 .. Offsprings -> ToSet(pop) \cup {Fresh}] : Apply(offspring, "replace")
  /\ UNCHANGED <<pop, job, dumper, files, seen, estimate, handed, engine>>

(* The fittest of p in their order, of which there are PopSize.             *)
Truncated(p) ==
  {[i \in 1 .. PopSize |-> p[kept[i]]] : kept \in
     {k \in [1 .. PopSize -> DOMAIN p] :
        /\ \A i, j \in 1 .. PopSize : i < j => k[i] # k[j] /\ ~Fitter(p[k[j]], p[k[i]])
        /\ \A o \in DOMAIN p \ Range(k) : ~Fitter(p[o], p[k[PopSize]])}}

CommaOnly(parents, offspring) == Truncated(offspring)    \* mutant of Replaced

(* The best offspring; if they are all worse than the best parent, it takes
   the place of the worst of them.                                          *)
Replaced(parents, offspring) ==
  {IF Fitter(x, next[1]) THEN [next EXCEPT ![PopSize] = x] ELSE next :
     next \in Truncated(offspring), x \in Champions(parents)}

(* The continuators: after MinGens the one on the fitness may stop.         *)
Replace ==
  /\ pc = "replace"
  /\ pop' \in Replaced(pop, batch)
  /\ gens' = gens + 1 /\ bred' = bred + 1
  /\ \/ gens' < MaxGens /\ pc' = "breed"
     \/ gens' >= MaxGens /\ pc' = "end_run"
     \/ gens' > MinGens /\ pc' = "end_run"
  /\ UNCHANGED <<working, estimate, handed, best, run>>

(* The best of the runs is kept; another run starts from a new population.  *)
EndRun ==
  /\ pc = "end_run"
  /\ \E x \in Champions(pop) : best' = IF Fitter(x, best) THEN x ELSE best
  /\ run' = run + 1
  /\ IF MaxRuns # 0 /\ run' >= MaxRuns
     THEN pc' = "finished" /\ UNCHANGED <<pop, batch, left, then>>
     ELSE pop' = FreshPop /\ Apply(FreshPop, "restart")
  /\ UNCHANGED <<job, dumper, files, seen, estimate, handed, gens, bred>>

KeepsCounting == gens                                  \* mutant of ResetGens
ResetGens == 0

Restart ==
  /\ pc = "restart"
  /\ pop' = batch
  /\ gens' = ResetGens /\ bred' = 0
  /\ pc' = "breed"
  /\ UNCHANGED <<working, estimate, handed, best, run>>

Over == pc \in {"finished", "aborted"} /\ UNCHANGED vars

Step ==
  \/ \E t \in Threads : Take(t) \/ Solve(t) \/ Remember(t) \/ Dump(t)
  \/ Applied
  \/ TryLimit \/ Count \/ Emptied \/ Raise \/ LeaveLoop \/ Leave
  \/ Main \/ First \/ Ready \/ Breed \/ Replace \/ EndRun \/ Restart

Next == Step \/ (\E t \in Threads : TimeOut(t)) \/ Over

Spec     == Init /\ [][Next]_vars
FairSpec == Spec /\ WF_vars(Step)

-----------------------------------------------------------------------------
(* Properties.                                                              *)

Quiet == \A t \in Threads : job[t].stage \in {"idle", "solving"}

(* The plan files get better with their numbers, through all the evaluators
   of a run, none is overwritten, and the last is the best plan found so far,
   whenever the search is cut: the file is all a release build leaves.      *)
LastFileIsBest ==
  Quiet =>
    /\ DOMAIN files = 1 .. dumper.count - 1
    /\ \A i, j \in DOMAIN files : i < j => files[j] < files[i]
    /\ \A x \in seen : files # <<>> /\ files[dumper.count - 1] <= x[1].makespan

(* All the searches have ended by themselves.                               *)
Completed == pc = "finished" /\ MaxRuns # 0 /\ run > 1 /\ run >= MaxRuns

(* The decomposition kept over the runs is at least as fit as every one that
   was in a population, though a generation forgets its parents; this is of
   runs that were not cut by the time limit.                                *)
BestKept ==
  Completed =>
    \A x \in seen : x[2] \/ (best.feasible /\ best.fitness <= x[1].fitness)

Upto(p, l) == Cardinality({i \in DOMAIN p : p[i].feasible /\ p[i].limit <= l})

(* The estimate is the least limit tried under which enough individuals were
   feasible, or the last one below bmax-init (b_max_in leaves 1 only there). *)
EstimateJustified ==
  pc = "main" /\ b_max_in > 1 =>
    /\ Upto(pop, b_max_fixed) >= GoodMin \/ b_max_fixed * Coef >= BMaxInit
    /\ Upto(pop, b_max_fixed \div Coef) < GoodMin

(* Every run has its generations, one if gen-max is 0: the counters start
   again with it.                                                           *)
RunsFull ==
  pc = "end_run" =>
    bred > MinGens \/ bred = (IF MaxGens = 0 THEN 1 ELSE MaxGens)

(* The estimation ends, and so do the runs.                                 *)
Terminates == <>(pc \in {"finished", "aborted"})

=============================================================================
