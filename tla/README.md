# A verification of Descarwin in TLA+

Descarwin finds plans for temporal PDDL problems by cutting them up.  An
evolutionary algorithm (Descarwin proper, `dae/`) evolves *decompositions*,
sequences of intermediate goals; an embedded planner (YAHSP, in
`cpt-yahsp/src/`) is called for one goal after the other, each from where the
last left off; the partial plans are compressed into one.  The same directory
holds CPT, an optimal constraint-based planner that shares the front end.

The modules here model the three searches of YAHSP (sequential, threads,
processes), the heuristic memo, the variation and evaluation of decompositions
with the run around them, and CPT from the grounded actions to the plan; TLC
checks them on small instances.  TLAPS proves, for any problem, any number of threads or
processes and any options, but for the hypotheses section 4 names: that the multi-threaded
and the distributed search implement one abstract graph search, that this
search is sound and complete, the safety of their counters, bounds, rounds and
plans, that of the run of Descarwin, and that of the memory of CPT; that the steps of plans lead
where they should, from the dates of one node to the plan compressed for a decomposition,
and that they do so in the order of the plan unless steps of length zero tie.  All paths
below are relative to the root of the repository.

## 1. The parts of the system

| Part | Code | State | Modules |
|---|---|---|---|
| multi-threaded search | `cpt-yahsp/src/yahsp-mt.cpp` | open and closed list per team, shared counters, bound, stop flag | `YahspMT`, `YahspMTProps`, `GraphSearch`; proofs `YahspMTProof`, `GraphSearchProof` |
| distributed search | `yahsp-mpi.cpp` | lists per process, caches, batches under way, rounds, best offers | `YahspMPI`, `YahspMPIProps`, `GraphSearch`; proofs `YahspMPIProof` |
| sequential search | `yahsp-seq.cpp` | the same for one thread; current state and solution between calls | `YahspSeq`, `YahspSeqProps`, `Planner`; proofs `YahspSeqProof` |
| states, nodes, heuristic | `yahsp-common.cpp` | arrays of costs, relaxed plan | `Strips`, `YahspSeq`, `HeuristicMemo`; proofs `StripsProof` |
| memo of heuristic values | `yahsp-dae.cpp` | state -> costs, shared by the threads | `HeuristicMemo`, `YahspSeq` |
| variation | `dae/src/variation`, `initialization` | a decomposition | `Variation` |
| evaluation | `dae/src/evaluation/yahsp.h` | decomposition, its subplans, plan, counters, fitness | `DaeEval`; proofs `DaeEvalProof` |
| run | `dae/dae.cpp`, `dae/src/do`, `utils/evalBestPlanDump.h` | population, b_max, best of the runs, plan files | `DaeRun`; proofs `DaeRunProof` |
| CPT variables and worlds | `var.h`, `var.cpp` | domains, trail, event queues | `EventQueue`, `CptKernel`, `CptKernelProps`; proofs `CptKernelProof` |
| preparation of a problem | `problem.cpp`, `max_atom.cpp`, `preprocess.cpp` | actions and fluents kept, mutexes, distances | `CptProblem`, `CptPropagation` |
| CPT rules | `propagations.cpp`, `scheduling.cpp` | dates, supports, precedences, actions in the plan | `CptPropagation` |
| CPT search | `solve.cpp`, `branching.cpp` | worlds, bounds of the dichotomy, limits, plan | `CptSearch`, `CptSearchProps` |

Section 6 says what is not modelled, and why.

### How they interact

    dae.cpp ---- estimates b_max, evaluates a population, breeds, replaces
       |  eval(decomposition)                         [DaeRun]
       v
    evalBestMakespanPlanDump -- writes plan files      [DaeRun]
       |
       v
    daeYahspEval::solve -- one planner call per goal   [DaeEval, Variation]
       |  cpt_search(goals, node limit)                 [Planner: what is promised]
       v
    yahsp_main -- best first search with lookahead      [YahspSeq | YahspMT]
       |  compute_h1
       v
    heuristic memo, h1 sweeps                          [HeuristicMemo, Strips]

    cpt_main -- create_problem, first propagation, dichotomy  [CptProblem, CptSearch]
       |  propagate, contradiction                      [CptPropagation]
       v
    variables, trail of worlds, event queues            [CptKernel, EventQueue]

Everything goes through calls, shared memory and, between the processes of the
MPI build, messages.  The planner's *current state*
lives between calls: a solved goal moves it, a failed one leaves it.  What the
evaluation hands back, subplans and counters, steers the next variation.
Under OpenMP either the search itself is parallel (`dae-mt`, `yahsp-mt`) or
the population is evaluated by several threads.

### What is hard in it

- *Interleaving.*  Lists are locked one operation at a time; between a pop and
  `working_threads++` a thread is invisible to the exit test; limits and bounds
  are tested outside the section that changes them; the memo is searched and
  filled in two critical sections; the strategy flags are globals.
- *State that outlives its use.*  The memo survives calls and changes of
  strategy; the number of subplans of an older evaluation tells an operator
  where to mutate; continuators survive a run; evaluators hand over their best
  makespan and file number by reference.
- *Termination.*  The exit of a team of threads, the worklist of h1, the
  exchange sort of a relaxed plan, the repair loop, the raise of b_max.
- *Messages.*  Batches of nodes, empty messages that call to a round of
  collectives, and the collection of a plan share channels and buffers; a round
  waits for every process.
- *Mutual recursion and longjmp.*  The rules of CPT call each other while they
  loop over lists that the callee prunes, and leave from any depth to an earlier
  world, whose memory comes back word by word while the events are dropped.
- *Boundaries.*  The node limit in three places, an array sized by the relaxed
  plan that repairs lengthen, goals without atoms, dates without a key.

PROJECT.json lists each hazard at its line with the property that covers it.

## 2. Modules

**Strips** is the planning problem: fluents, actions with preconditions,
effects, duration and cost; h1 as the costs that sweeps over the actions come down to under
each of the strategies (`length`, `cost`, `makespan_max`, `makespan_add`);
plans with dates, the order `action_must_precede` puts on them and the
compression of consecutive plans, with the makespan that becomes the cost under action
costs; and the references `StatesFrom` (what actions lead to),
`Attainable` (what could hold if nothing were deleted) and `LeadsTo` (what a plan is worth:
see *Steps of length zero* in section 3).  It has no variables.

**Planner** is the abstract specification of a planner call: asked for goals
with a node limit it answers with a plan that leads from the current state to
the goals, and moves there, or says there is none and stays; that answer is
a proof unless the limit was reached.  `DaeEval` is built on it and `YahspSeq`
implements it, so that the evaluation is checked against every planner that
keeps the promise.

**YahspSeq** is `yahsp_main` of the sequential build with `compute_node`,
`compute_h1` (value from the memo or the fixpoint), `extract_relaxed_plan`, the
exchange sort one sweep at a time, `apply_relaxed_plan` with repairs, both
lists, and the ends of a call.  `Evaluate` is the part of `compute_node` up to
the relaxed plan, `Extract`..`OpenInsert` what follows, `ApplyNext`, `Repair` and
`Lookahead` the application of the relaxed plan, `Null`, `Pop`, `TryAction` and
`Expanded` the loop of `yahsp_plan`.  `SetStrategy`, `Reset`, `Call` and `Refuse`
are what Descarwin does between calls.  (A failed allocation ends the program: the
`check_allocation` of `yahsp-dae.h`, which would flush the memo, is not what the
allocation macros of `cpt.h` call.)

**YahspMT** is the OpenMP build.  The planning problem is data (applicable
actions, heuristic value and lookahead of each state): the threads are the
subject.  One step is one lock region, critical section or atomic update, and a
shared value read outside of one is read in a step of its own: so the two reads of the
exit test are `ExitCount` and `ExitList`, since its critical section protects neither value.  `pc` names the
place of a thread in `compute_node` (`closing` to `lookahead`), in `yahsp_plan`
(`loop` to `exit_list`) and in the end of `yahsp_main` (`merge`, `flush`).
**GraphSearch** is what a team of threads has to do: visit every state that is
reachable, each once, unless the search is cut.  `Visit` takes a pending state
and makes its sons pending; `Cut` forgets pending states, and a search that was cut may
also come back to sons of a state it has visited: a process whose bound
makes it forget a state does not keep another from closing the same state later
and trying what follows from it.  **YahspMTProps** holds the properties and
the refinement mapping.  What *cuts* a search is spelt out there (`IsCut`): the
stop flag, a solution, a bound below `MAXTIME`, or a closed node
whose date, or that of its lookahead, is beyond `MAXTIME` itself
(`TooLate`): the test of the bound drops such a node although no plan was found.

**YahspMPI** is the MPI build with one thread per process: a cache per
destination that becomes a batch, reception, the rounds with their reductions, the
collection of the elected plan from the memory of its owners, the timer.  A batch
is read one node at a time (`ReadNode`), because computing a node may send others.
Plans are sequential there, where a makespan is a sum of durations: for parallel plans this build keeps the id
of an action in a step (`yahsp-common.cpp:510`) whose pointer the computation of dates
follows (`:498`).  The duplicated search (`-Y`) is left out.
**YahspMPIProps** maps all processes together on GraphSearch: what is pending is
what the caches, the channels, the buffers, the open lists and the expansions
under way still hold.  `Calls` counts the rounds a process was called to and has
not left.

**HeuristicMemo** is `compute_h1` action by action, with the four writes of a
strategy change, the memo and threads that share both.

**Variation** has the operators on decompositions as relations (what each of
them may produce from what it was given, whatever is drawn); **DaeEval** makes
them actions and composes them with `Planner` to evaluate what they produce.  The mate
of a crossover is any decomposition that lived the same life (`Mates`, which the theorems
leave open); `CrossSecond` is the decomposition in the other role, where the library
invalidates it though the crossover changes only the first.

**DaeRun** is `main`: incremental estimation of b_max, evaluation of populations
by threads, the dump of each better plan, generations, restarts, time limit.
What an evaluation finds is drawn from a set of outcomes.  Its library,
ParadisEO, is not in the repository; the definitions that stand for it are
marked external in PROJECT.json and follow how `dae.cpp` uses it.  Which of several
equally fit individuals is the best, and how ties fall when a population is cut
to its size, is left open (`Champions`, `Truncated`, `Replaced` are sets).

**EventQueue** is one queue of `var.h`, an array that is a permutation of the
variables with a window of pending ones.  **CptKernel** composes three of them with
the variables (a domain linked through its own array), the trail and the worlds, and
lets the operations of `var.h` and `var.cpp` come in any order.

**CptProblem** has the passes of `create_problem` as operators on a record of what is
built: reachability, relevance, useless actions, h1, deletes in effect and mutexes
by their worklists, distances.  It also has the numbers of `max_atom.cpp`.
**CptPropagation** has the rules, as operators on the record `S` of all the structures
of the search.  The rules call each other, so they share one recursive operator,
`Call`; a contradiction is a flag that every rule respects at once, as the longjmp
does.  **CptSearch** is the control of a call of CPT, an action for each pass of
the preparation, each event that is propagated, each world that is opened or left.
A world is a copy of `S`: that going back gives back exactly the memory the world
was opened on is `WorldIsRestored` of the kernel, and what it does not give back,
the events, is `Restored`.  **CptSearchProps** compares with all the canonical plans of the problem,
enumerated from the definition of a plan.

The modules `MC...` give the instances, and their `.cfg` files the runs.

## 3. What is checked

| Run | Instance | Shows |
|---|---|---|
| `mt_race` | 3 threads, one team, limit 5 of 8 states | a popped node has one owner; the shortest plan returned is kept; the limit is passed by at most threads - 1 |
| `mt_anytime` | 2 teams, anytime mode, random threads | the exit counter counts exactly the threads at work; the bound only goes down |
| `mt_lost` | 3 threads, no plan, with fairness | every team implements `GraphSearch`; "no plan" is a proof; all threads leave |
| `mt_flush` | 2 threads of one team | *violation*: the final flush frees a closed node twice |
| `mpi_search` | 3 processes, 4 settings: two goals anytime or timed, a state closed twice, no goal | the processes together implement `GraphSearch`; rounds match; the plan of an elected solution is whole; bounds only go down; every node sent is tried; a solution is given |
| `seq_calls` | a key for a door or a chest, two actions of length zero, three that spoil each other, 2 calls, limits 4 and 30, strategies | paths execute in the order plans are printed; no state is lost; the lookahead stays in its allocation; `YahspSeq` implements `Planner`; calls return, or sort a circle for ever |
| `memo_race` | 2 threads, each strategy, one state shared, one dead end | whatever mixture of strategies ends up in the memo, applicable actions, goal test and dead end test are right; the sweeps end |
| `dae_post` | two or three goals, all operators, two rounds, any planner, two actions of length zero | goals stay consistent, dates usable, subplans belong to the goals, the plan reaches the goal and no two of its steps are in each other's way |
| `dae_main` | 2 individuals, 2 limits, 2 searches, time limit | files get better and the last is the best plan found; the estimate is the least limit that suffices; the fittest is kept; runs are complete; the run ends |
| `dae_dump` | 2 threads evaluate a population | *violation*: two threads both dump, the files no longer get better |
| `cpt_kernel` | 4 sets of variables, up to 2 worlds | domains stay linked, events stay in their queues, no change goes unannounced, loops over producers go on, backtracking gives the memory back |
| `cpt_search` | 12 problems under 8 command lines | mutexes and deletes in effect are true; a plan that is kept executes, the bounds enclose the optimum, the answer is optimal or there is no plan; every call answers |

### Bounds

- *States and actions.*  5 to 8 states and up to 6 actions.  The shapes are
  chosen for the case each property is about: two ways to one state, a dead
  end, a longer and a shorter plan, a goal no action reaches, cycles back to the
  root, a relaxed plan whose order matters.
- `Limit` is one below or far above the number of evaluations a search needs, so
  that it is hit in one run and never in another.
- `Calls = 2`: what is left over from one call can only harm a later one.
- `Rounds = 2`, `LMax = 3`, `Horizon = 2`: an operator works on what another
  one left after an evaluation; decompositions at, below and above the maximal
  length; goals need up to two actions.
- `PostMates` has a decomposition as it is drawn and one with a goal added, of a date that
  occurs twice: a crossover may give more goals than `LMax`.
- `BIn = 1`, `BLast = 2`: the least limits, so that failures are frequent.
- `PopSize = Offsprings = 2`, `MaxGens = 2`, `MinGens = 1`, `MaxRuns = 3`,
  `BMaxInit = 4`: two estimates and two whole searches, each of which may be
  short or full; elitism needs a best and a worst.
- `Runs = 1` in HeuristicMemo: one computation per thread is enough for the race.
- `CacheMax = 2` and eight states over three processes: a batch of one, a batch of
  two new states, a node that only the flush of an idle process sends, and
  a state that two processes close, the second after the search was cut.
- The kernel has a support with 5 values, so that a gap merges with a gap on both
  sides, one that two clones add values to, two that mix in the queues, and nested worlds.
- The problems of `cpt_search` have one to five actions besides start and end over
  five fluents.  Between them, and over the choices, every action of `CptSearch` fires: threats,
  open supports and mutex pairs to decide, several bounds, backtracks, restarts,
  interrupted searches, contradictions of the first propagation and of a
  bound, problems refused by each of the two prunings.  `MaxMakespan = 6` (`-m`) is above every
  optimum and low enough for problems without a plan; `MaxBacktracks = 2` and
  `FirstLimit = 1` are reached; `Unlimited` and `MaxTime` never are.

### Fairness

Weak fairness of each thread's next step (`YahspMT`, `HeuristicMemo`): a step
is a lock region or an atomic update, a lock is free between steps (the critical
section of the exit test has two, and waits for nothing in between), so a thread
that can go on stays able to; OpenMP threads are scheduled by the system.
Weak fairness of the program's step for the sequential modules; calls,
strategy changes and the time limit are never forced.  In `YahspMPI`
a process's own steps and the collectives are weakly fair, receptions strongly
fair: a message that arrives stays until it is probed for, but a process may be
in a round in between.  `CptSearch` is one thread, which goes on until it has
answered: `Continues` says so without ENABLED, which would run the rules without
the cache of TLC, and the check of deadlocks shows the premise, that it always can.
In `seq_calls` fairness does not end every call.  Where three actions of equal cost
spoil each other in a circle, `cmp_actions` (`yahsp-common.cpp:263`) wants each behind another and the
exchange sort of `cpt.h:125` never finds an order it keeps: the instance has such a circle, `Returns`
says that a call comes back or comes to one (`InCircle`), and that there it stays; `CirclesNeverEnd` proves
the latter.

Deadlocks are checked but where the modelled part really stops: the
sequential, memo, evaluation and kernel modules end when their calls, rounds or
operations are used up.

### Findings

1. `mt_flush`: `yahsp_main` flushes inside the parallel region, every thread the
   lists of its team without a lock (`yahsp-mt.cpp`, end of `yahsp_main`).
2. `dae_dump`: in `evalBestMakespanPlanDump` the critical section covers only the
   assignment of `_best`; `evalBestFitnessPlanDump` in the same file is right.

PROJECT.json quotes the lines that say otherwise.  Observations that have no
violated run of their own:

- a call that has to sort a circle never returns, as said under *Fairness*; `seq_calls`
  shows it and no line of the repository says that calls return;
- `runs-max = 2` makes one search (`dae.cpp:712`), where the help says "if x>1: will do
  <x> multi-start" (`dae.cpp:127-128`);
- the memo is keyed by the state alone although its values depend on the strategy;
- `goodguys_min` truncates to 0 for small populations, the estimation reads its penalty from the option of the weight
  (`make_init_dae.h:220`);
- without `-m` the bound of an
  unsolvable problem is raised for ever; with `-x` a bound whose search was
  interrupted is reported as refused;
- a contradiction of the first propagation leaves `global_mutex_sets` and
  `complete_qualprec` raised, and lowers the number of the world below the initial
  one (`protected` does not raise it, `backtrack` lowers it): harmless as the
  program ends there;
- a restart drops the events that wait in the world of the bound: the answers
  stay right in `cpt_search`, but the run starts with less pruning;
- the MPI build computes the dates of parallel plans through a pointer that holds an id
  (`yahsp-common.cpp:498`, `:510`);
- `compute_bad_supporters` never executes an action without a precondition; and
  `compute_distance_boosting` may put more than `actions_nb` actions in `inter`,
  since producers are added to it after the consumers without a test.

### Steps of length zero

An action may have length zero: `instantiation.cpp:311` gives 0 where an operator has no
duration, `:310` evaluates any `:duration`, and `pddl_load.cpp:193` wants them.  Two such steps,
one of which must precede the other, get the same date, and `precedes_in_plan`
(`yahsp-common.cpp:606`) then orders them by their ids.  If the consumer has the smaller id it is listed
before its producer, and the plan does not execute in the order it is written.
`TiesInOrder` of `Strips` says that this does not happen: under `opt.sequential`
it cannot, since no two steps share a date; otherwise ids must agree with
`action_must_precede` on the actions of length zero.  `TiesMatter` of `MCDaeEval`, which TLC
evaluates, is the smallest plan that goes wrong where they do not.  What is claimed of the order of a
plan is therefore claimed under `TiesInOrder`, in the properties and in the theorems
(`PathsExecute`, `SubplansFollow`, `PlanSound`, and `LeadsTo` in `Planner`); without
it the steps of a plan still lead where the node is, in some order.

## 4. What is proved

Each theorem holds for every value of the constants that satisfies the named
assumptions of its module: data of the right types, at least one thread or process.  A
hypothesis beyond them is part of the statement and is named here.

### The abstract search

`GraphSearchProof`, from `GraphAssumption` (the sons of a state are states):

| Theorem | Statement |
|---|---|
| `SearchSound` | `GraphAssumption => (Spec => [](TypeOK /\ Sound))` |
| `SearchComplete` | `GraphAssumption => (Spec => []Complete)` |
| `VisitedOnce` | what is visited stays so, is never pending again, and was pending |

`Reach` is the least set closed under sons; as long as nothing cut the search, `visited`
and `pending` together are closed under them, so an empty `pending` leaves a closed set.

### Threads

`YahspMTProof`, of `YahspMT`, from `TeamsAssumption`,
`ProblemAssumption` and `OptionAssumption` (no more teams than threads):

| Theorem | Statement |
|---|---|
| `TypeCorrect` | `Spec => []TypeOK /\ []Shape` |
| `WorkingCounted` | `Spec => []WorkingCount` |
| `LimitHeld` | `Spec => []LimitOvershoot` |
| `BoundImproves` | `Spec => BoundOnlyImproves` |
| `ShortestIsKept` | `Spec => []ShortestKept` |
| `NodesHeldOnce` | `Strategy <= 1 => (Spec => []HeldOnce)` |
| `TeamsSearch` | `Strategy = 0 => (Spec => TeamSearches)` |
| `NoPlanProved` | `Strategy = 0 => (Spec => []NoPlanIsProof)` |

`TypeOK` is not inductive: `Derive` needs a node, and that the
node is not `Nil` depends on where the thread is.  `Shape` says how the local
variables go with the place (a thread inside `compute_node` has a node to
compute, one that holds a popped node is in an expansion, one in the root phase
has not passed the barrier), and the two together are inductive.  `WorkingCount`
adds `SamePhase`, that all threads are on the same side of the barrier: so nobody
is busy when the counter is set to 0 inside the parallel region.
`LimitOvershoot` is strengthened to `CountedBound`, which adds to `evaluated` the
threads between the test of the limit and the increment: to enter that place a
thread has to see room, and each increment is paid for by leaving it.
`ShortestKept` is inductive given the types: a thread counts only once it has
merged, and a merge never replaces a plan by a longer one.

The hypotheses on the strategy are those of `open_list_cmp`.  Above 1 the order
of the open list depends on the thread that asks, so that a removal may take out another
node than the one that was chosen, and `HeldOnce` is lost; under 1 nodes of one rank
are equal and the tree drops the second, which is a state lost without a cut.  0 is the default.
The invariant is in three parts.  `Control`, under any strategy: ids of closed nodes differ, only
interior nodes are opened, a thread leaves the loop because there is nothing
to do or the search is cut, the flush comes after all have left.  `Placed`, up to
strategy 1: a closed node is in the hands of one thread that computes it, in the open
list, or in the hands of one that expands it.  `Covered`, under strategy 0: unless the
search is cut, every son of a visited state is visited or pending, the lookahead
of an open node has been tried or is being tried, and a goal that was closed is being
looked at.  Every step of a thread is then a `Visit`, a `Cut` or a stutter of
`GraphSearch` for its team and a stutter for the other teams.  `NoPlanProved` adds that a team whose
threads have all found nothing left has an empty open list (`EmptyAtEnd`): the exit
test reads the counter and then the list in two steps, and `working_threads` is
raised after the pop, so this is where an interleaving could have made it false.
`NoPlanIsProof` excepts a node beyond `MAXTIME` (`TooLate`): such a node is dropped
by the test of the bound although there is no plan, and the answer is then no proof.

### Processes

`YahspMPIProof`, of `YahspMPI`, from `ProcsAssumption`,
`ParametersAssumption` and `SettingsAssumption`: any number of processes,
any owner of each state, any size of the caches, any problem with sequential plans.

| Theorem | Statement |
|---|---|
| `RoundsAlwaysMatch` | `Spec => []RoundsMatch` |
| `BoundsImprove` | `Spec => BoundsOnlyImprove` |
| `PlansAreGathered` | `Spec => []PlansGathered` |
| `ProcsImplementSearch` | `Spec => ProcsSearch` |

The invariant `Inv` is inductive as a whole.  `Matched`: the empty messages that wait for
a process, plus one if it is in the round already, are as many for every process.  They are
counted through all channels as a finite set of places, which a send to everybody and the
receipt of one change by one.  `BoundKnown`: a bound is that of the last round, or the makespan of the
process's own solution, so that the election never raises it.  `Numbered` and
`NodesDerived`: the parent of a node, wherever the node is, stands in the closed list of
its owner under the id the node carries, one step of the problem earlier; ids are unique and closed
lists only grow, so a pointer into another process's memory stays
right.  `PathShape` and `GivenShape`: what the master has collected is the end of a plan, and the
plans given before are longer than the bound of the rounds.

`ProcsSearch` adds `Control` (nodes under way have not been computed, what made a round
stop the search will make the next one stop it, a bound of the rounds comes
with a solution), `LookTried` and `Explored`, as for the threads.  The lemmas say of each
action what it does to the nodes under way, and a step is then a `Visit`, a `Cut` or a stutter.

This proof corrected the specification.  `Cut` once only dropped pending
states, and the step of a process that closes a state another has closed already, after a
bound made the first forget its sons, did not fit: the proof failed there, TLC found a graph where it
happens, and the setting `Twice` keeps that graph.  A second gap, in both
mappings, was a node beyond `MAXTIME` that is dropped without a cut.

### Plans and the sequential search

`YahspSeqProof`, of `YahspSeq`, from `StripsAssumption` and `SeqAssumption`: any
problem, with any durations, queries, strategies and number of calls.  (`"broken" \notin Fluent`, in the
first, only keeps the name of the state that a failed plan leads to from being a fluent.)

| Theorem | Statement |
|---|---|
| `StepsAlwaysFit` | `Spec => []StepsFit` |
| `CirclesNeverEnd` | `Spec => StaysInCircle` |
| `PathsAlwaysExecute` | `Spec => []PathsExecute`: the path of a node leads to its state, in the order of the plan if `TiesInOrder` |
| `PlansAreRight` | a call that returns a plan is a `Found` step of `Planner`: its steps lead to the goals, in the order of the plan if `TiesInOrder` |
| `NothingIsLost` | `DeadEndsRight => (Spec /\ []InTime => []NothingLost)` |
| `CallsAreAnswered` | `DeadEndsRight => (Spec /\ []InTime => AnswersCalls)` |

`StepsFit` counts: while the lookahead is built, the node has taken as many actions as
entries of the relaxed plan are cleared (`OwnCounted`).  A repair replaces an entry
that is not cleared, so it lengthens nothing, though the action it puts back is applied too.

`PathsExecute` needs an argument about every order of dates, which `StripsProof` has.
A path is built by appending actions; the plan is its steps sorted by date.  A step
that is put at its place among the sorted ones goes past steps that end later than
it starts, and by `action_must_precede` none of those touches what it needs, adds or
deletes: it commutes with them, so the sorted plan leads where the appended one leads
(`Scheduled`, `InsertedSet`, `EndedIsEarlier`).
It may also go past a step that ends when it starts, if both have length zero: that is where
`TiesInOrder` is needed, and only there.  Without it what is proved is that the sorted plan has the steps of
the path, each once (`Lists`), so that some order of them executes (`LeadsTo`).
`PathInv` carries that through the search for every node the search holds; what it adds is that actions still to be tried can
be applied, and that nobody holds a node when the state of the call may change.

A circle stays because its actions stay in the relaxed plan, which the sort only permutes: the
sweep that ends the sort would have found nothing to exchange, but of the circle's actions the
first in the list spoils one that stands behind it, and should follow it (`SweepInv`, `CircleMoves`).

For the answers the theorems need to know what h1 computes.  Half of it is proved: the
costs of a state are zero for its own fluents and no other, through every sweep and every
aggregation, so the goal test is exact (`H1Given`, `CostZero`), under values of
another strategy from the memo too.  The folds of the model are recursive functions on sets, and a
finite set of sets has a least one, which stands for the induction (`DrawingUnique`, `DrawingStays`).
The other half is the condition `DeadEndsRight`: costs that are not finite mean that the goals are
out of reach even if nothing is deleted.  The code does not guarantee it for all data, since
`COST` adds without a test and a sum that comes to `MAXTIME` reads as a dead end; TLC evaluates it on the
instance (`HeuristicRight` of `MCYahspSeq`).  `InTime` says that no node reaches `MAXTIME`,
where the first bound of the search would cut it off.  A plan that is returned leads to the goals
without either (`PlansAreRight`); they are for the answer that there is none.

`NothingIsLost` says of each closed state that there is no hope (`Hopeless`), or that it is in the open list or
on its way there (`Held`), or that each son is known or among the actions still to be tried
(`Tried`); what the lookahead does in between only makes more states known.  When the open list is empty,
the closed states and the hopeless ones are a set that no action leads out of and that nowhere has the
goals, so `StatesFrom` is inside it (`Exhausted`): that is the proof that a
`NO_PLAN` below the limit stands for.

### Decompositions

`DaeEvalProof`, of `DaeEval`, from `StripsAssumption`, `VariationAssumption` (what
holds at the start has date 0) and `EvalAssumption` (the goal does not
hold at the start, limits and weights are positive):

| Theorem | Statement |
|---|---|
| `GoalsStayConsistent` | `Spec => []GoalsConsistent` |
| `DatesStayUsable` | `Spec => []DatesUsable` |
| `SubplansKeepFollowing` | `Spec => []SubplansFollow`, which is about the order of plans and supposes `TiesInOrder` |
| `PlanStaysSound` | `Spec => []PlanSound`: steps do not disturb each other, for any durations; the plan reaches the goal in its order if `TiesInOrder` |

The first two say of every operator that it makes usable goals of usable goals
(`Usable`), whatever it draws; the interesting ones are the crossover, which needs
that places counted by `Kept` exist, and `ChangeAddAtom`, whose second draw uses a list
made before the first.  `IInv` adds how far an evaluation is: no more subplans than
goals and one (`Progress`), which is what keeps `last_reached` a place in the goals.
`Following`, which is invariant if `TiesInOrder` (`Follows`), says where the planner stands:
where the subplans lead, or where the answer that is not yet recorded leads.
`Planned` says of the plans that wait for the compression
that they are the subplans of the decomposition, and that their steps, put together so far, are
`Compacted`: sorted they lead where they lead one after the other if `TiesInOrder`, and of two of which one
threatens the other the earlier ends before the later starts.

This proof refuted what the property said before.  Its last clause claimed that the
compressed plan takes no longer than the subplans one after the other, and TLC
agreed on the instance.  It is false: when a subplan adds, late in its plan order, a fluent that
another of its steps needs and has from elsewhere, the compression lets the consumer wait for the
producer that is first in the order, redundant or not.  With `x` (duration 2) that needs `k`
and `y` (duration 1) that adds `k` besides the goal, from a state that has `k`, the
subplan has both at date 0 and takes 2, its compression takes 3.  Nothing in the code promises
otherwise; what it does promise, that the steps do not disturb each other, is the clause now.

### The run of Descarwin

`DaeRunProof`, of `DaeRun`, from `RunAssumption` (at least as many offspring as the
population has places, which the truncation needs; an increase coefficient of at least
2; makespans below `INT_MAX`):

| Theorem | Statement |
|---|---|
| `RunsAreFull` | `Spec => []RunsFull` |
| `FilesGetBetter` | one thread: `Spec => []LastFileIsBest` |
| `EstimateIsJustified` | `Spec => []EstimateJustified` |
| `BestIsKept` | `Spec => []BestKept` |

With two threads `LastFileIsBest` is false, as `dae_dump` shows.  All four rest on `TypeInv` (types,
and nobody works between two evaluations).  `GensAgree`: the continuators and the search
count the same generations.  `FilesBest`: the last file is `_best` of the
evaluator in use, between a comparison and a dump the plan at hand is better than
the last file, and what is handed to the next evaluator is what the last one has.  `Sharing`: a
feasible individual is valid, so nobody evaluates it again, and two threads work on different ones.
`EstimateInv` follows the loop of the estimation: how many are feasible under
the last limit and under the one before.  `BestInv` names, for each place in the run, where the fittest so
far must be (`Holders`: the best of the runs, the population, the batch), because a generation forgets its parents.

### The memory of CPT

`CptKernelProof`, of `CptKernel`, from
`KernelAssumption` (finite sets of variables, `NoVar` not one of them; a support has
at least one value, and with those added later fewer than `VAL_UNKNOWN`, which
`create_enum_variable` insists on):

| Theorem | Statement |
|---|---|
| `EventsAreKept` | `Spec => []EventsKept` |
| `WorldIsRestored` | `Spec => []WorldRestored` |
| `DomainsAreLinked` | `Spec => []DomainLinked` |
| `LoopsGoOn` | `Spec => LoopGoesOn` |
| `ChangesAreAnnounced` | `Spec => ChangesAnnounced` |

`EventInv` says of each queue that its array and the positions kept in the variables
are inverse permutations, and that the window holds exactly the variables whose
event field names the queue.  The four operations preserve the first part whatever
the window (the window of a circular array grows and
shrinks at its ends); post and removal exchange two places, which is why a
variable can leave from the middle.  `TrailInv` says what undoing the trail down to a mark will leave in each word: the value
saved by the first store of that word after the mark, or what it holds if there is none;
and that this is what it held when the world was opened, which the mark keeps as a ghost.
With the marks numbered by their worlds it is inductive: a store saves the old
word before it changes it, and undoing one store takes away the last one.

`DomainInv` says of the values of a support that they form a chain (`Chained`): the bucket after
a value holds the next one, the bucket before it leads back to the one before (`Before`, which is how
`remove_val_variable` reads it), the bucket after the last one holds something greater, and those
from `producers_nb` on are unknown.  What the cells inside a gap hold does not
matter, except that none of them names itself, as a value does: so they may keep what
older removals left there.  The chain is not inductive while a
world is being left, where the words come back one at a time: the invariant asks for it when no
unwinding is under way, and of the memory noted at each mark, and `WorldIsRestored`
carries it back from there.  The lemmas come in three layers: chains in an array without
variables (the first, the last and a middle value removed, a last one added, what a walk
meets: the least closed set, so that no recursion is needed); what a list of stores
leaves in a field (`Final`), which is that of its last store there; and the operations.

The attempt at `ChangesAnnounced` corrected it.  The property once said that a change leaves
"instantiate" in the event field exactly when one value is left: with two values added by clones while an
instantiation is still in the queue, and one of them removed again, it is left there too.  That takes
room for two clones of a support, which `cpt_kernel` did not have and has now.

### Only model-checked

- Liveness (`Terminates`, `Returns`, `AllTried`, `SolutionsGiven`, `Finishes`) is out
  of the prover's reach.
- `EntriesSafe` and `ConclusionsRight` are about the worklist of h1 under writes of the strategy by
  others; `DeadEndsRight`, which two theorems suppose, is evaluated by TLC.
- `MutexesSound` and `AnswerRight` are about rules that call each other, a recursive operator.
- The counterexamples of `mt_flush` and `dae_dump` concern the properties that the code breaks.

## 5. Abstractions to know of

- Time values and costs are integers without a width; `MaxTime` stands for the
  largest.  `COST` adds without a test for overflow.
- The sequential search and the evaluation have no activity constraints, so
  `node_action_schedule` never refuses.
- `compute_h1` of the sequential search is the fixpoint, that of `HeuristicMemo` the
  worklist, under writes of the strategy by others.
- `action_must_precede` asks `amutex` too, which Descarwin turns on; under yahsp no fluent has
  e-deleters (`problem.cpp:345`), and `amutex` says no more than the threats that are asked for anyway.
- A read of freed memory has no state to go to: where two threads could free or
  read the same memory the property says that it does not happen, or the model
  leaves that path out and says so at the component.
- Two dumps at the same time into one stream are left out of `DaeRun`: the
  wrong file appears already when they come one after the other.

- CPT is modelled without clones (`-c`), so a plan uses an action once and the
  reference has the same plans; for the whole problem, as `cpt_main` asks; with the default dichotomy.  Weights and random numbers
  only guide choices, which are free in the model.
- The numbering of actions and fluents is kept when some are dropped; a loop over
  actions or fluents goes through them in the order of their numbers, a loop over the actives in the order
  they became so.  Producers of a fluent are taken in the order of numbers too, as in the code
  without clones.

## 6. Not modelled

- *Grounding* (`instantiation.cpp`) and the *PDDL reader*: their product is the
  data of `Strips` and `CptProblem`; h2, landmarks, PDDL 2.1 chains and
  activity constraints change that data or prune it further.
- *CPT*: clones, shaving, task intervals, local mutex sets, resources, sequential
  planning, the other strategies of branching and dichotomies.
- *GDSL* and ParadisEO, vendored or external: modelled by what the code uses of them.
- *Parallel evaluation and multi-start*, whose failures are decided in the external job
  framework; the *multi-objective engine*, likewise.
- *Options, traces, formats, statistics, tools, applications, scripts*: input
  and output, or other programs.

## 7. What could follow

1. Clones in CptPropagation, with `add_val_variable` as in CptKernel, and a reference
   that may repeat actions.
2. h2 in CptProblem, against its definition, and the strategies that branch on supports or mutexes
   first.
3. Proofs: what h1 computes, for `ConclusionsRight` and `EntriesSafe`.
4. Multi-start and parallel evaluation, with the job framework as an external
   module.
