---------------------------- MODULE YahspMTProof ----------------------------
(***************************************************************************)
(* Theorems about the multi-threaded search, for every problem, number of  *)
(* threads and teams, and option: its counters, limits and bound, the      *)
(* threads of a team as GraphSearch promises, and the answer that there is *)
(* no plan as a proof.                                                     *)
(***************************************************************************)
EXTENDS YahspMTProps, TLAPS, FiniteSetTheorems

-----------------------------------------------------------------------------
(* Every thread belongs to a team.                                         *)
LEMMA TeamOfType == \A t \in Threads : TeamOf(t) \in TeamIds
  BY TeamsAssumption DEF TeamOf, TeamIds, Threads

(* The bound of a thread is one of the cells of best_makespan.             *)
LEMMA CellType == \A t \in Threads : Cell(t) \in Threads
  BY TeamsAssumption DEF Cell, Threads

(* A node derived from a node is a node.                                   *)
LEMMA DeriveType ==
  ASSUME NEW n \in Node, NEW to \in State, NEW dur \in Nat, NEW steps \in Nat
  PROVE  Derive(n, to, dur, steps) \in Node
  BY DEF Derive, Node

(* The node that closed_list_insert numbers is a node.                     *)
LEMMA NumberedType ==
  ASSUME NEW n \in Node, NEW C, IsFiniteSet(C)
  PROVE  [n EXCEPT !.id = Cardinality(C)] \in Node
  <1>1. Cardinality(C) \in Nat
    BY FS_CardinalityType
  <1>2. QED
    BY <1>1 DEF Node

(* The son that an applicable action, or the lookahead, gives.             *)
LEMMA SonType ==
  ASSUME NEW n \in Node
  PROVE  /\ \A i \in 1 .. Len(Acts[n.state]) :
              Derive(n, Acts[n.state][i].to, Acts[n.state][i].dur, 1) \in Node
         /\ LET l == Look[n.state] IN Derive(n, l.to, l.dur, l.steps) \in Node
  <1>1. n.state \in State
    BY DEF Node
  <1>2. ASSUME NEW i \in 1 .. Len(Acts[n.state])
        PROVE  /\ Acts[n.state][i].to \in State
               /\ Acts[n.state][i].dur \in Nat
    <2>1. Acts[n.state] \in Seq(Action)
      BY <1>1, ProblemAssumption
    <2>2. Acts[n.state][i] \in Action
      BY <2>1
    <2>3. QED
      BY <2>2 DEF Action
  <1>3. /\ Look[n.state].to \in State
        /\ Look[n.state].dur \in Nat
        /\ Look[n.state].steps \in Nat
    BY <1>1, ProblemAssumption
  <1>4. QED
    BY <1>2, <1>3, DeriveType

-----------------------------------------------------------------------------
(* Types and the shape of the local variables hold initially.              *)
LEMMA InitShape == Init => TypeOK /\ Shape
  <1> SUFFICES ASSUME Init PROVE TypeOK /\ Shape
    OBVIOUS
  <1>1. ThreadTypes
    BY DEF Init, ThreadTypes, Locations
  <1>2. ListTypes
    BY DEF Init, ListTypes
  <1>3. CounterTypes
    BY ProblemAssumption DEF Init, CounterTypes
  <1>4. FlagTypes
    BY DEF Init, FlagTypes
  <1>5. MemoryTypes
    BY DEF Init, MemoryTypes
  <1>6. Shape
    BY FS_EmptySet, OptionAssumption DEF Init, Shape, ThreadShape, Holding, Computing
  <1>7. QED
    BY <1>1, <1>2, <1>3, <1>4, <1>5, <1>6 DEF TypeOK

(* How a thread's step changes its local variables.                        *)
LEMMA ThreadTypesStep ==
  ASSUME TypeOK, Shape, NEW t \in Threads, ThreadStep(t)
  PROVE  ThreadTypes'
  <1> USE DEF Goto, Return, ThreadTypes, TypeOK, Locations
  <1>1. CASE Begin(t)
    <2>1. RootNode \in Node
      BY ProblemAssumption DEF RootNode, Node
    <2>2. QED
      BY <1>1, <2>1 DEF Begin
  <1>2. CASE CloseInsert(t)
    <2>1. [cur[t] EXCEPT !.id = Cardinality(closed[TeamOf(t)])] \in Node
      BY <1>2, TeamOfType, NumberedType DEF CloseInsert, Shape, ThreadShape, Computing
    <2>2. QED
      BY <1>2, <2>1 DEF CloseInsert
  <1>3. CASE Lookahead(t)
    <2>1. cur[t] \in Node
      BY <1>3 DEF Lookahead, Shape, ThreadShape, Computing
    <2>2. LET l == Look[cur[t].state]
          IN Derive(cur[t], l.to, l.dur, l.steps) \in Node
      BY <2>1, SonType
    <2>3. QED
      BY <1>3, <2>2 DEF Lookahead, locals, search, memory
  <1>4. CASE Pop(t)
    <2>1. open[TeamOf(t)] \subseteq Node
      BY SMTT(60), TeamOfType DEF ListTypes
    <2>2. QED
      BY <1>4, <2>1 DEF Pop, BestOf, memory
  <1>5. CASE TryAction(t)
    <2>1. held[t] \in Node /\ todo[t] \in 1 .. Len(Acts[held[t].state])
      <3>1. held[t] \in Node
        BY <1>5 DEF TryAction, Shape, ThreadShape, Holding
      <3>2. Acts[held[t].state] \in Seq(Action)
        BY <3>1, ProblemAssumption DEF Node
      <3>3. QED
        BY <1>5, <3>1, <3>2 DEF TryAction
    <2>2. LET a == Acts[held[t].state][todo[t]]
          IN Derive(held[t], a.to, a.dur, 1) \in Node
      BY <2>1, SonType
    <2>3. QED
      BY <1>5, <2>2 DEF TryAction, locals, search, memory
  <1>6. CASE \/ CheckNode(t) \/ Evaluate(t) \/ GoalTest(t) \/ Improve(t)
             \/ OpenInsert(t) \/ LoopTest(t) \/ BeginWork(t) \/ Tried(t)
    BY <1>6 DEF CheckNode, Evaluate, GoalTest, Improve, OpenInsert, LoopTest,
                BeginWork, Tried, StopWork, locals
  <1>7. CASE EndWork(t) \/ ExitCount(t) \/ ExitList(t) \/ Merge(t) \/ FlushBegin(t) \/ FlushEnd(t)
    BY ZenonT(120), <1>7 DEF EndWork, StopWork, ExitCount, ExitList,
                             Merge, FlushBegin, FlushEnd, locals
  <1>8. QED
    BY <1>1, <1>2, <1>3, <1>4, <1>5, <1>6, <1>7 DEF ThreadStep

(* How a thread's step changes the open and closed lists.                  *)
LEMMA ListTypesStep ==
  ASSUME TypeOK, Shape, NEW t \in Threads, ThreadStep(t)
  PROVE  ListTypes'
  <1> USE DEF ThreadTypes, ListTypes, TypeOK, search, memory
  <1>1. TeamOf(t) \in TeamIds
    BY TeamOfType
  <1>2. CASE CloseInsert(t)
    <2>1. [cur[t] EXCEPT !.id = Cardinality(closed[TeamOf(t)])] \in Node
      BY <1>1, <1>2, NumberedType DEF CloseInsert, Shape, ThreadShape, Computing
    <2>2. QED
      BY <1>1, <1>2, <2>1 DEF CloseInsert
  <1>3. CASE OpenInsert(t)
    <2>1. cur[t] \in Node
      BY <1>3 DEF OpenInsert, Shape, ThreadShape, Computing
    <2>2. QED
      BY <1>1, <1>3, <2>1 DEF OpenInsert, Inserted
  <1>4. CASE Pop(t)
    <2>1. \/ UNCHANGED open
          \/ \E m : open' = [open EXCEPT ![TeamOf(t)] = open[TeamOf(t)] \ {m}]
      BY <1>4 DEF Pop
    <2>2. open' \in [TeamIds -> SUBSET Node]
      BY <1>1, <2>1
    <2>3. QED
      BY <1>4, <2>2 DEF Pop
  <1>5. CASE Merge(t)
    BY <1>5 DEF Merge
  <1>6. CASE FlushBegin(t) \/ FlushEnd(t)
    BY <1>1, <1>6 DEF FlushBegin, FlushEnd
  <1>7. CASE \/ Begin(t) \/ CheckNode(t) \/ Evaluate(t) \/ GoalTest(t)
             \/ Improve(t) \/ Lookahead(t) \/ LoopTest(t)
    BY <1>7 DEF Begin, CheckNode, Evaluate, GoalTest, Improve, Lookahead, LoopTest
  <1>8. CASE BeginWork(t) \/ TryAction(t) \/ Tried(t) \/ EndWork(t) \/ ExitCount(t) \/ ExitList(t)
    BY <1>8 DEF BeginWork, TryAction, Tried, StopWork, EndWork, ExitCount, ExitList
  <1>9. QED
    BY <1>2, <1>3, <1>4, <1>5, <1>6, <1>7, <1>8 DEF ThreadStep


(* How a thread's step changes the counters and the bound.                 *)
LEMMA CounterTypesStep ==
  ASSUME TypeOK, Shape, NEW t \in Threads, ThreadStep(t)
  PROVE  CounterTypes'
  <1> USE DEF CounterTypes, TypeOK, search
  <1>1. CASE Improve(t)
    <2>1. cur[t] \in Node
      BY <1>1 DEF Improve, Shape, ThreadShape, Computing, ThreadTypes
    <2>2. cur[t].mk \in Nat
      BY <2>1 DEF Node
    <2>3. QED
      BY <1>1, <2>2 DEF Improve, Lowered
  <1>2. CASE Begin(t) \/ Evaluate(t) \/ BeginWork(t) \/ Tried(t) \/ EndWork(t)
    BY <1>2 DEF Begin, Evaluate, BeginWork, Tried, StopWork, EndWork
  <1>3. CASE \/ CloseInsert(t) \/ CheckNode(t) \/ GoalTest(t) \/ OpenInsert(t)
             \/ Lookahead(t) \/ LoopTest(t)
    BY <1>3 DEF CloseInsert, CheckNode, GoalTest, OpenInsert, Lookahead, LoopTest
  <1>4. CASE \/ Pop(t) \/ TryAction(t) \/ ExitCount(t) \/ ExitList(t) \/ Merge(t)
             \/ FlushBegin(t) \/ FlushEnd(t)
    BY <1>4 DEF Pop, TryAction, ExitCount, ExitList, Merge, FlushBegin, FlushEnd
  <1>5. QED
    BY <1>1, <1>2, <1>3, <1>4 DEF ThreadStep

(* How a thread's step changes the flags, and what it frees.               *)
LEMMA FlagTypesStep ==
  ASSUME TypeOK, NEW t \in Threads, ThreadStep(t)
  PROVE  FlagTypes' /\ MemoryTypes'
  <1> USE DEF FlagTypes, MemoryTypes, TypeOK, locals, search, memory
  <1>1. CASE ExitCount(t) \/ ExitList(t)
    BY <1>1 DEF ExitCount, ExitList
  <1>2. CASE Merge(t)
    BY <1>2 DEF Merge
  <1>3. CASE FlushEnd(t)
    <2>1. flushing[t] \X {TeamOf(t)} \subseteq Node \X TeamIds
      BY TeamOfType DEF ListTypes
    <2>2. MemoryTypes'
      BY <1>3, <2>1 DEF FlushEnd
    <2>3. FlagTypes'
      BY <1>3 DEF FlushEnd
    <2>4. QED
      BY <2>2, <2>3
  <1>4. CASE \/ Begin(t) \/ CloseInsert(t) \/ CheckNode(t) \/ Evaluate(t)
             \/ GoalTest(t) \/ Improve(t) \/ OpenInsert(t) \/ Lookahead(t)
    BY <1>4 DEF Begin, CloseInsert, CheckNode, Evaluate, GoalTest, Improve,
                OpenInsert, Lookahead
  <1>5. CASE \/ LoopTest(t) \/ Pop(t) \/ BeginWork(t) \/ TryAction(t) \/ Tried(t)
             \/ EndWork(t) \/ FlushBegin(t)
    BY <1>5 DEF LoopTest, Pop, BeginWork, TryAction, Tried, StopWork, EndWork, FlushBegin
  <1>6. QED
    BY <1>1, <1>2, <1>3, <1>4, <1>5 DEF ThreadStep

(* The closed lists stay finite.                                           *)
LEMMA FiniteStep ==
  ASSUME TypeOK, Shape, NEW t \in Threads, ThreadStep(t)
  PROVE  \A k \in TeamIds : IsFiniteSet(closed'[k])
  <1> USE DEF search, TypeOK, ListTypes
  <1>1. CASE CloseInsert(t)
    <2>1. \/ UNCHANGED closed
          \/ \E n : closed' = [closed EXCEPT ![TeamOf(t)] = closed[TeamOf(t)] \cup {n}]
      BY <1>1 DEF CloseInsert
    <2>2. ASSUME NEW k \in TeamIds, NEW n
          PROVE  IsFiniteSet(closed[k]) /\ IsFiniteSet(closed[k] \cup {n})
      BY FS_AddElement DEF Shape
    <2>3. QED
      BY ZenonT(120), <2>1, <2>2
  <1>2. CASE FlushEnd(t)
    <2>1. IsFiniteSet({})
      BY FS_EmptySet
    <2>2. QED
      BY <1>2, <2>1 DEF FlushEnd, Shape
  <1>3. CASE ~CloseInsert(t) /\ ~FlushEnd(t)
    <2>1. UNCHANGED closed
      BY <1>3 DEF ThreadStep, Begin, CheckNode, Evaluate, GoalTest, Improve,
                  OpenInsert, Lookahead, LoopTest, Pop, BeginWork, TryAction,
                  Tried, StopWork, EndWork, ExitCount, ExitList, Merge, FlushBegin
    <2>2. QED
      BY <2>1 DEF Shape
  <1>4. QED
    BY <1>1, <1>2, <1>3

(* A step of one thread leaves the local variables of the others alone.    *)
LEMMA OthersUnchanged ==
  ASSUME TypeOK, NEW t \in Threads, ThreadStep(t), NEW u \in Threads, u # t
  PROVE  /\ pc'[u] = pc[u] /\ cur'[u] = cur[u] /\ caller'[u] = caller[u]
         /\ held'[u] = held[u] /\ ret'[u] = ret[u] /\ todo'[u] = todo[u]
         /\ open_empty'[u] = open_empty[u]
  <1> USE DEF Goto, Return, TypeOK, ThreadTypes, FlagTypes, locals
  <1>1. CASE \/ Begin(t) \/ CloseInsert(t) \/ CheckNode(t) \/ Evaluate(t)
             \/ GoalTest(t) \/ Improve(t) \/ OpenInsert(t)
    BY <1>1 DEF Begin, CloseInsert, CheckNode, Evaluate, GoalTest, Improve,
                OpenInsert
  <1>2. CASE \/ Lookahead(t) \/ LoopTest(t) \/ Pop(t) \/ BeginWork(t)
             \/ TryAction(t)
    BY <1>2 DEF Lookahead, LoopTest, Pop, BeginWork, TryAction
  <1>3. CASE \/ Tried(t) \/ EndWork(t) \/ ExitCount(t) \/ ExitList(t) \/ Merge(t)
             \/ FlushBegin(t) \/ FlushEnd(t)
    BY <1>3 DEF Tried, StopWork, EndWork, ExitCount, ExitList, Merge, FlushBegin, FlushEnd
  <1>4. QED
    BY <1>1, <1>2, <1>3 DEF ThreadStep

(* A step of one thread keeps the shape of its local variables.            *)
LEMMA ThreadShapeStep ==
  ASSUME TypeOK, Shape, NEW t \in Threads, ThreadStep(t)
  PROVE  ThreadShape(t)'
  <1> USE OptionAssumption
      DEF Goto, Return, TypeOK, ThreadTypes, ThreadShape, Holding, Computing, locals
  <1>1. ThreadShape(t)
    BY DEF Shape
  <1>2. CASE Begin(t)
    <2>1. RootNode # Nil
      BY ProblemAssumption DEF RootNode, Node
    <2>2. QED
      BY <1>1, <1>2, <2>1 DEF Begin
  <1>3. CASE CloseInsert(t)
    <2>1. [cur[t] EXCEPT !.id = Cardinality(closed[TeamOf(t)])] \in Node
      BY <1>1, <1>3, TeamOfType, NumberedType DEF CloseInsert, Shape
    <2>2. [cur[t] EXCEPT !.id = Cardinality(closed[TeamOf(t)])] # Nil
      BY <2>1
    <2>3. QED
      BY <1>1, <1>3, <2>2 DEF CloseInsert
  <1>4. CASE Lookahead(t)
    <2>1. cur[t] \in Node
      BY <1>1, <1>4 DEF Lookahead
    <2>2. LET l == Look[cur[t].state]
          IN Derive(cur[t], l.to, l.dur, l.steps) # Nil
      BY <2>1, SonType
    <2>3. QED
      BY <1>1, <1>4, <2>2 DEF Lookahead
  <1>5. CASE Pop(t)
    <2>1. open[TeamOf(t)] \subseteq Node
      BY SMTT(60), TeamOfType DEF ListTypes
    <2>2. QED
      BY <1>1, <1>5, <2>1 DEF Pop, BestOf
  <1>6. CASE TryAction(t)
    <2>1. held[t] \in Node /\ todo[t] \in 1 .. Len(Acts[held[t].state])
      <3>1. held[t] \in Node
        BY <1>1, <1>6 DEF TryAction
      <3>2. Acts[held[t].state] \in Seq(Action)
        BY <3>1, ProblemAssumption DEF Node
      <3>3. QED
        BY <1>6, <3>1, <3>2 DEF TryAction
    <2>2. LET a == Acts[held[t].state][todo[t]]
          IN Derive(held[t], a.to, a.dur, 1) # Nil
      BY <2>1, SonType
    <2>3. caller[t] = "expand"
      BY <1>1, <1>6 DEF TryAction
    <2>4. QED
      BY <1>1, <1>6, <2>2, <2>3 DEF TryAction
  <1>7. CASE CheckNode(t) \/ Evaluate(t) \/ GoalTest(t) \/ Improve(t) \/ OpenInsert(t)
    BY <1>1, <1>7 DEF CheckNode, Evaluate, GoalTest, Improve, OpenInsert
  <1>8. CASE LoopTest(t) \/ BeginWork(t) \/ Tried(t) \/ EndWork(t)
    BY <1>1, <1>8 DEF LoopTest, BeginWork, Tried, StopWork, EndWork
  <1>9. CASE ExitCount(t) \/ ExitList(t) \/ Merge(t) \/ FlushBegin(t) \/ FlushEnd(t)
    BY <1>1, <1>9 DEF ExitCount, ExitList, Merge, FlushBegin, FlushEnd
  <1>10. QED
    BY <1>2, <1>3, <1>4, <1>5, <1>6, <1>7, <1>8, <1>9 DEF ThreadStep

(* Types and shape are kept by every step of a thread.                     *)
LEMMA ThreadKeepsShape ==
  ASSUME TypeOK, Shape, NEW t \in Threads, ThreadStep(t)
  PROVE  TypeOK' /\ Shape'
  <1>1. TypeOK'
    BY ThreadTypesStep, ListTypesStep, CounterTypesStep, FlagTypesStep DEF TypeOK
  <1>2. ASSUME NEW u \in Threads
        PROVE  ThreadShape(u)'
    <2>1. CASE u = t
      BY <2>1, ThreadShapeStep
    <2>2. CASE u # t
      BY <2>2, OthersUnchanged DEF Shape, ThreadShape, Holding
    <2>3. QED
      BY <2>1, <2>2
  <1>3. \A k \in TeamIds : IsFiniteSet(closed'[k])
    BY FiniteStep
  <1>4. QED
    BY <1>1, <1>2, <1>3 DEF Shape

(* Types and shape are kept by the barrier and the end of the region.      *)
LEMMA JointKeepsShape ==
  ASSUME TypeOK, Shape, Barrier \/ Collect
  PROVE  TypeOK' /\ Shape'
  <1>1. TypeOK'
    BY DEF Barrier, Collect, locals, search, memory, TypeOK, ThreadTypes,
           ListTypes, CounterTypes, FlagTypes, MemoryTypes, Locations
  <1>2. ASSUME NEW u \in Threads
        PROVE  ThreadShape(u)'
    BY DEF Barrier, Collect, locals, TypeOK, ThreadTypes, Shape, ThreadShape,
           Holding, Computing
  <1>3. UNCHANGED closed
    BY DEF Barrier, Collect, search
  <1>4. QED
    BY <1>1, <1>2, <1>3 DEF Shape

-----------------------------------------------------------------------------
(* Every variable of the search keeps its type, and the local variables of
   a thread agree with the place it has reached in yahsp_plan.             *)
THEOREM TypeCorrect == Spec => []TypeOK /\ []Shape
  <1>1. ASSUME TypeOK /\ Shape, [Next]_vars
        PROVE  (TypeOK /\ Shape)'
    <2>1. CASE \E t \in Threads : ThreadStep(t)
      BY <1>1, <2>1, ThreadKeepsShape
    <2>2. CASE Barrier \/ Collect
      BY <1>1, <2>2, JointKeepsShape
    <2>3. CASE UNCHANGED vars
      BY <1>1, <2>3 DEF vars, locals, search, memory, TypeOK, ThreadTypes,
         ListTypes, CounterTypes, FlagTypes, MemoryTypes, Shape, ThreadShape,
         Holding
    <2>4. QED
      BY <1>1, <2>1, <2>2, <2>3 DEF Next, Terminating
  <1>2. QED
    BY <1>1, InitShape, PTL DEF Spec

-----------------------------------------------------------------------------
(* Any set of threads is finite, and has at most NbThreads elements.       *)
LEMMA ThreadSets ==
  ASSUME NEW S, S \subseteq Threads
  PROVE  /\ IsFiniteSet(S)
         /\ Cardinality(S) \in Nat
         /\ Cardinality(S) <= NbThreads
  <1>1. IsFiniteSet(Threads) /\ Cardinality(Threads) = NbThreads
    <2>1. 0 \in Int /\ NbThreads - 1 \in Int /\ NbThreads > 0
      BY TeamsAssumption
    <2>2. IsFiniteSet(0 .. NbThreads - 1)
      BY <2>1, FS_Interval
    <2>3. Cardinality(0 .. NbThreads - 1) = NbThreads
      <3>1. Cardinality(0 .. NbThreads - 1) =
              IF 0 > NbThreads - 1 THEN 0 ELSE (NbThreads - 1) - 0 + 1
        BY <2>1, FS_Interval, Zenon
      <3>2. QED
        BY <3>1, TeamsAssumption
    <2>4. QED
      BY <2>2, <2>3 DEF Threads
  <1>2. QED
    BY <1>1, FS_Subset, FS_CardinalityType

(* A set of threads that gains or loses one thread.                        *)
LEMMA ThreadSetStep ==
  ASSUME NEW S, S \subseteq Threads, NEW t \in Threads
  PROVE  /\ t \notin S => Cardinality(S \cup {t}) = Cardinality(S) + 1
         /\ t \in S => Cardinality(S \ {t}) = Cardinality(S) - 1
  BY ThreadSets, FS_AddElement, FS_RemoveElement

(* The phase of the threads: they leave the root phase together.           *)
SamePhase == \A t, u \in Threads : caller[t] = caller[u]

(* Which threads are busy after a step of thread t.                        *)
LEMMA BusyStep ==
  ASSUME TypeOK, Shape, NEW t \in Threads, ThreadStep(t)
  PROVE  /\ BusySet \subseteq Threads
         /\ UNCHANGED caller
         /\ \/ Begin(t)
            \/ BeginWork(t) /\ t \notin BusySet /\ BusySet' = BusySet \cup {t}
               /\ working' = working + 1
            \/ t \in BusySet /\ BusySet' = BusySet \ {t} /\ working' = working - 1
            \/ BusySet' = BusySet /\ working' = working
  <1> USE DEF Goto, Return, TypeOK, ThreadTypes, Computing, locals, search, StopWork
  <1>1. ThreadShape(t)
    BY DEF Shape
  <1>2. \A u \in Threads : u # t => (Busy(u)' <=> Busy(u))
    BY OthersUnchanged DEF Busy
  <1>3. UNCHANGED caller
    BY DEF ThreadStep, Begin, CloseInsert, CheckNode, Evaluate, GoalTest,
           Improve, OpenInsert, Lookahead, LoopTest, Pop, BeginWork, TryAction,
           Tried, StopWork, EndWork, ExitCount, ExitList, Merge, FlushBegin, FlushEnd
  <1>4. CASE Begin(t)
    BY <1>3, <1>4 DEF BusySet
  <1>5. CASE BeginWork(t)
    <2>1. ~Busy(t) /\ Busy(t)' /\ working' = working + 1
      BY <1>5 DEF BeginWork, Busy
    <2>2. QED
      BY <1>2, <1>3, <1>5, <2>1 DEF BusySet
  <1>6. CASE (Tried(t) /\ pc'[t] = "merge") \/ EndWork(t)
    <2>1. Busy(t) /\ ~Busy(t)' /\ working' = working - 1
      BY <1>6 DEF Tried, StopWork, EndWork, Busy
    <2>2. QED
      BY <1>2, <1>3, <2>1 DEF BusySet
  <1>7. ASSUME Busy(t)' <=> Busy(t), working' = working
        PROVE  BusySet' = BusySet /\ working' = working
    BY <1>2, <1>7 DEF BusySet
  <1>8. CASE Tried(t) /\ pc'[t] # "merge"
    <2>1. Busy(t)' /\ Busy(t) /\ working' = working
      BY <1>8 DEF Tried, Busy
    <2>2. QED
      BY <1>3, <1>7, <2>1 DEF BusySet
  <1>9. CASE \/ CloseInsert(t) \/ CheckNode(t) \/ Evaluate(t) \/ GoalTest(t)
             \/ Improve(t) \/ OpenInsert(t) \/ Lookahead(t)
    <2>1. Busy(t) <=> caller[t] = "expand"
      BY <1>9 DEF Busy, CloseInsert, CheckNode, Evaluate, GoalTest, Improve,
                  OpenInsert, Lookahead
    <2>2. Busy(t)' <=> caller[t] = "expand"
      BY <1>3, <1>9 DEF Busy, CloseInsert, CheckNode, Evaluate, GoalTest,
                        Improve, OpenInsert, Lookahead
    <2>3. working' = working
      BY <1>9 DEF CloseInsert, CheckNode, Evaluate, GoalTest, Improve,
                  OpenInsert, Lookahead
    <2>4. QED
      BY <1>3, <1>7, <2>1, <2>2, <2>3 DEF BusySet
  <1>10. CASE TryAction(t)
    <2>1. caller[t] = "expand"
      BY <1>1, <1>10 DEF TryAction, ThreadShape
    <2>2. Busy(t) /\ Busy(t)' /\ working' = working
      BY <1>10, <2>1 DEF TryAction, Busy
    <2>3. QED
      BY <1>3, <1>7, <2>2 DEF BusySet
  <1>11. CASE \/ LoopTest(t) \/ Pop(t) \/ ExitCount(t) \/ ExitList(t) \/ Merge(t)
              \/ FlushBegin(t) \/ FlushEnd(t)
    <2>1. ~Busy(t) /\ ~Busy(t)' /\ working' = working
      BY <1>11 DEF LoopTest, Pop, ExitCount, ExitList, Merge, FlushBegin, FlushEnd, Busy
    <2>2. QED
      BY <1>3, <1>7, <2>1 DEF BusySet
  <1>12. QED
    BY <1>4, <1>5, <1>6, <1>8, <1>9, <1>10, <1>11 DEF ThreadStep

(* working_threads counts exactly the threads that are expanding a node.   *)
THEOREM WorkingCounted == Spec => []WorkingCount
  <1> DEFINE IInv == TypeOK /\ Shape /\ SamePhase /\ WorkingCount
  <1>1. Init => IInv
    <2> SUFFICES ASSUME Init PROVE SamePhase /\ WorkingCount
      BY InitShape
    <2>1. BusySet = {}
      BY DEF Init, BusySet, Busy, Computing
    <2>2. QED
      BY <2>1, FS_EmptySet DEF Init, SamePhase, WorkingCount
  <1>2. ASSUME IInv, NEW t \in Threads, ThreadStep(t)
        PROVE  IInv'
    <2>1. TypeOK' /\ Shape'
      BY <1>2, ThreadKeepsShape
    <2>2. UNCHANGED caller /\ BusySet \subseteq Threads
      BY <1>2, BusyStep
    <2>3. SamePhase'
      BY <1>2, <2>2 DEF SamePhase
    <2>4. WorkingCount'
      <3>1. CASE Begin(t)
        <4>1. caller[t] = "root"
          BY <1>2, <3>1 DEF Begin, Shape, ThreadShape
        <4>2. \A u \in Threads : caller'[u] = "root"
          BY <1>2, <2>2, <4>1 DEF SamePhase
        <4>3. BusySet' = {}
          BY <2>1, <4>2 DEF BusySet, Busy, Shape, ThreadShape, Computing
        <4>4. QED
          BY <3>1, <4>3, FS_EmptySet DEF Begin, WorkingCount
      <3>2. CASE /\ BeginWork(t) /\ t \notin BusySet
                 /\ BusySet' = BusySet \cup {t} /\ working' = working + 1
        BY <1>2, <2>2, <3>2, ThreadSetStep DEF WorkingCount
      <3>3. CASE t \in BusySet /\ BusySet' = BusySet \ {t} /\ working' = working - 1
        BY <1>2, <2>2, <3>3, ThreadSetStep DEF WorkingCount
      <3>4. CASE BusySet' = BusySet /\ working' = working
        BY <1>2, <3>4 DEF WorkingCount
      <3>5. QED
        BY <1>2, <3>1, <3>2, <3>3, <3>4, BusyStep
    <2>5. QED
      BY <2>1, <2>3, <2>4
  <1>3. ASSUME IInv, Barrier \/ Collect
        PROVE  IInv'
    <2>1. TypeOK' /\ Shape'
      BY <1>3, JointKeepsShape
    <2>2. SamePhase'
      BY <1>3 DEF Barrier, Collect, SamePhase, locals
    <2>3. BusySet' = BusySet /\ working' = working
      BY <1>3 DEF Barrier, Collect, BusySet, Busy, Computing, TypeOK, ThreadTypes,
                  locals, search
    <2>4. QED
      BY <1>3, <2>1, <2>2, <2>3 DEF WorkingCount
  <1>4. ASSUME IInv, UNCHANGED vars
        PROVE  IInv'
    BY <1>4 DEF vars, locals, search, memory, TypeOK, ThreadTypes, ListTypes,
       CounterTypes, FlagTypes, MemoryTypes, Shape, ThreadShape, Holding,
       SamePhase, WorkingCount, BusySet, Busy
  <1>5. IInv /\ [Next]_vars => IInv'
    BY <1>2, <1>3, <1>4 DEF Next, Terminating
  <1>6. QED
    BY <1>1, <1>5, PTL DEF Spec

-----------------------------------------------------------------------------
(* The slack of the node limit: what has been counted, and the threads that
   are between the test of the limit and the increment.                    *)
CountedBound ==
  evaluated + Cardinality(CountingSet) <= Limit + (NbThreads - 1)

(* How a step changes the counter and the set of threads about to count.   *)
LEMMA CountingStep ==
  ASSUME TypeOK, Shape, NEW t \in Threads, ThreadStep(t)
  PROVE  /\ CountingSet \subseteq Threads
         /\ CountingSet' \subseteq Threads
         /\ \/ evaluated' = evaluated /\ evaluated < Limit
            \/ t \in CountingSet /\ CountingSet' = CountingSet \ {t}
               /\ evaluated' = evaluated + 1
            \/ CountingSet' = CountingSet /\ evaluated' = evaluated
  <1> USE DEF Goto, Return, TypeOK, ThreadTypes, CounterTypes, locals, search
  <1>1. \A u \in Threads : u # t => pc'[u] = pc[u]
    BY OthersUnchanged
  <1>2. CASE CheckNode(t)
    <2>1. CASE pc'[t] = "counting"
      <3>1. ~StopNow /\ evaluated' = evaluated
        BY <1>2, <2>1 DEF CheckNode
      <3>2. evaluated < Limit
        BY <3>1, OptionAssumption DEF StopNow
      <3>3. QED
        BY <3>1, <3>2 DEF CountingSet
    <2>2. CASE pc'[t] # "counting"
      BY <1>1, <1>2, <2>2 DEF CheckNode, CountingSet
    <2>3. QED
      BY <2>1, <2>2
  <1>3. CASE Evaluate(t)
    <2>1. pc[t] = "counting" /\ pc'[t] # "counting" /\ evaluated' = evaluated + 1
      BY <1>3 DEF Evaluate
    <2>2. QED
      BY <1>1, <2>1 DEF CountingSet
  <1>4. CASE ~CheckNode(t) /\ ~Evaluate(t)
    <2>1. pc[t] # "counting" /\ pc'[t] # "counting" /\ evaluated' = evaluated
      BY <1>4 DEF ThreadStep, Begin, CloseInsert, GoalTest, Improve,
         OpenInsert, Lookahead, LoopTest, Pop, BeginWork, TryAction, Tried,
         StopWork, EndWork, ExitCount, ExitList, Merge, FlushBegin, FlushEnd
    <2>2. QED
      BY <1>1, <2>1 DEF CountingSet
  <1>5. CountingSet \subseteq Threads /\ CountingSet' \subseteq Threads
    BY DEF CountingSet
  <1>6. QED
    BY <1>2, <1>3, <1>4, <1>5

(* The node limit is exceeded by at most one evaluation per other thread.  *)
THEOREM LimitHeld == Spec => []LimitOvershoot
  <1>1. ASSUME TypeOK
        PROVE  CountedBound => LimitOvershoot
    <2>1. Cardinality(CountingSet) \in Nat
      BY ThreadSets DEF CountingSet
    <2>2. QED
      BY <1>1, <2>1, TeamsAssumption, OptionAssumption
         DEF CountedBound, LimitOvershoot, TypeOK, CounterTypes
  <1>2. Init => CountedBound
    <2> SUFFICES ASSUME Init PROVE CountedBound
      OBVIOUS
    <2>1. CountingSet = {} /\ evaluated = 0
      BY DEF Init, CountingSet
    <2>2. QED
      BY <2>1, FS_EmptySet, TeamsAssumption, OptionAssumption DEF CountedBound
  <1>3. ASSUME TypeOK, Shape, CountedBound, [Next]_vars
        PROVE  CountedBound'
    <2>1. evaluated \in Nat /\ Limit \in Nat /\ NbThreads \in Nat
      BY <1>3, TeamsAssumption, OptionAssumption DEF TypeOK, CounterTypes
    <2>2. ASSUME NEW t \in Threads, ThreadStep(t)
          PROVE  CountedBound'
      <3>1. CountingSet \subseteq Threads /\ CountingSet' \subseteq Threads
        BY <1>3, <2>2, CountingStep
      <3>2. CASE evaluated' = evaluated /\ evaluated < Limit
        <4>1. Cardinality(CountingSet') \in Nat
              /\ Cardinality(CountingSet') <= NbThreads
          BY <3>1, ThreadSets
        <4>2. QED
          BY <2>1, <3>2, <4>1 DEF CountedBound
      <3>3. CASE /\ t \in CountingSet /\ CountingSet' = CountingSet \ {t}
                 /\ evaluated' = evaluated + 1
        <4>1. Cardinality(CountingSet') = Cardinality(CountingSet) - 1
          BY <3>1, <3>3, ThreadSetStep
        <4>2. Cardinality(CountingSet) \in Nat
          BY <3>1, ThreadSets
        <4>3. QED
          BY <1>3, <2>1, <3>3, <4>1, <4>2 DEF CountedBound
      <3>4. CASE CountingSet' = CountingSet /\ evaluated' = evaluated
        BY <1>3, <3>4 DEF CountedBound
      <3>5. QED
        BY <1>3, <2>2, <3>2, <3>3, <3>4, CountingStep
    <2>3. CASE Barrier \/ Collect \/ UNCHANGED vars
      <3>1. CountingSet' = CountingSet /\ evaluated' = evaluated
        BY <1>3, <2>3 DEF Barrier, Collect, vars, search, CountingSet, TypeOK,
                          ThreadTypes
      <3>2. QED
        BY <1>3, <3>1 DEF CountedBound
    <2>4. QED
      BY <1>3, <2>2, <2>3 DEF Next, Terminating
  <1>4. QED
    BY <1>1, <1>2, <1>3, TypeCorrect, PTL DEF Spec

-----------------------------------------------------------------------------
(* No step raises a bound: only Improve writes one, under its second test. *)
LEMMA BoundStep ==
  ASSUME TypeOK, Shape, [Next]_vars
  PROVE  \A t \in Threads : best'[t] <= best[t]
  <1>1. \A t \in Threads : best[t] \in Nat
    BY DEF TypeOK, CounterTypes
  <1>2. CASE UNCHANGED best
    BY <1>1, <1>2
  <1>3. ASSUME NEW t \in Threads, Improve(t)
        PROVE  \A u \in Threads : best'[u] <= best[u]
    <2>1. cur[t].mk \in Nat
      <3>1. cur[t] \in Node
        BY SMTT(60), <1>3 DEF Improve, Shape, ThreadShape, Computing, TypeOK, ThreadTypes
      <3>2. QED
        BY <3>1 DEF Node
    <2>2. QED
      BY <1>1, <1>3, <2>1 DEF Improve, Lowered, Bound, TypeOK, CounterTypes
  <1>4. ASSUME NEW t \in Threads, ThreadStep(t), ~Improve(t)
        PROVE  UNCHANGED best
    BY <1>4 DEF ThreadStep, Begin, CloseInsert, CheckNode, Evaluate, GoalTest,
       OpenInsert, Lookahead, LoopTest, Pop, BeginWork, TryAction, Tried,
       StopWork, EndWork, ExitCount, ExitList, Merge, FlushBegin, FlushEnd, search
  <1>5. Barrier \/ Collect \/ UNCHANGED vars => UNCHANGED best
    BY DEF Barrier, Collect, vars, search
  <1>6. QED
    BY <1>2, <1>3, <1>4, <1>5 DEF Next, Terminating

(* Whatever threads race to the critical section of compute_node, a bound
   only ever goes down.                                                    *)
THEOREM BoundImproves == Spec => BoundOnlyImproves
  <1>1. TypeOK /\ Shape /\ [Next]_vars => [\A t \in Threads : best'[t] <= best[t]]_vars
    BY BoundStep
  <1>2. QED
    BY <1>1, TypeCorrect, PTL DEF Spec, BoundOnlyImproves

(* The plan yahsp_main keeps is the shortest its threads returned.         *)
THEOREM ShortestIsKept == Spec => []ShortestKept
  <1> DEFINE Left == {"joined", "flush", "freeing", "halted"}
  <1>1. Init => ShortestKept
    BY DEF Init, ShortestKept
  <1>2. ASSUME TypeOK, Shape, ShortestKept, [Next]_vars
        PROVE  ShortestKept'
    <2>1. \A n \in Node : n.mk \in Nat
      BY DEF Node
    <2>2. /\ best_node \in Node \cup {Nil}
          /\ \A t \in Threads : ret[t] \in Node \cup {Nil}
      BY <1>2 DEF TypeOK, ThreadTypes, ListTypes
    <2>3. ASSUME NEW t \in Threads, Merge(t)
          PROVE  ShortestKept'
      <3>1. UNCHANGED ret /\ \A u \in Threads : u # t => pc'[u] = pc[u]
        BY <1>2, <2>3 DEF Merge, Goto, locals, TypeOK, ThreadTypes
      <3>2. CASE IsShorter(t)
        BY <1>2, <2>1, <2>2, <2>3, <3>1, <3>2 DEF Merge, IsShorter, ShortestKept
      <3>3. CASE ~IsShorter(t)
        BY <1>2, <2>1, <2>2, <2>3, <3>1, <3>3 DEF Merge, IsShorter, ShortestKept
      <3>4. QED
        BY <3>2, <3>3
    <2>4. ASSUME NEW t \in Threads, ThreadStep(t), ~Merge(t)
          PROVE  ShortestKept'
      <3>1. UNCHANGED best_node
        BY SMTT(60), <2>4 DEF ThreadStep, Begin, CloseInsert, CheckNode, Evaluate, GoalTest,
           Improve, OpenInsert, Lookahead, LoopTest, Pop, BeginWork, TryAction,
           Tried, StopWork, EndWork, ExitCount, ExitList, FlushBegin, FlushEnd, search
      <3>2. pc'[t] \in Left => pc[t] \in Left /\ ret'[t] = ret[t]
        BY <1>2, <2>4 DEF ThreadStep, Begin, CloseInsert, CheckNode, Evaluate,
           GoalTest, Improve, OpenInsert, Lookahead, LoopTest, Pop, BeginWork,
           TryAction, Tried, StopWork, EndWork, ExitCount, ExitList, FlushBegin, FlushEnd, Goto,
           Return, locals, TypeOK, ThreadTypes
      <3>3. \A u \in Threads : u # t => pc'[u] = pc[u] /\ ret'[u] = ret[u]
        BY <1>2, <2>4, OthersUnchanged
      <3>4. QED
        BY SMTT(60), <1>2, <3>1, <3>2, <3>3 DEF ShortestKept
    <2>5. CASE Barrier \/ Collect \/ UNCHANGED vars
      BY <1>2, <2>5 DEF Barrier, Collect, vars, locals, search, ShortestKept,
                        TypeOK, ThreadTypes
    <2>6. QED
      BY <1>2, <2>3, <2>4, <2>5 DEF Next, Terminating
  <1>3. QED
    BY <1>1, <1>2, TypeCorrect, PTL DEF Spec

-----------------------------------------------------------------------------
(* The search of a team: who has a node in hand, and what is closed.       *)

(* A thread computes a node it has put into the closed list: InHand before
   the node enters the open list, AtHand until the lookahead leaves it.     *)
InHand(t) == pc[t] \in {"checking", "counting", "goal", "improving", "opening"}
AtHand(t) == InHand(t) \/ pc[t] = "lookahead"

Flushing(t) == pc[t] \in {"flush", "freeing", "halted"}
Out(t)      == Flushing(t) \/ pc[t] \in {"merge", "joined"}

(* The flush starts when every thread has left the first parallel region,
   and only it frees nodes.                                                *)
FlushLast ==
  (freed # {} \/ \E t \in Threads : Flushing(t)) => \A t \in Threads : Flushing(t)

(* A thread that is freeing frees what its team has closed.                *)
FlushShape ==
  \A t \in Threads : pc[t] = "freeing" =>
    /\ closed[TeamOf(t)] \subseteq flushing[t]
    /\ flushing[t] \subseteq EverClosed(TeamOf(t))

(* The ids of a closed list are different.                                 *)
Ids(k) ==
  \A m \in closed[k] : /\ m.id < Cardinality(closed[k])
                       /\ \A n \in closed[k] : m.id = n.id => m = n

(* A closed node is in one place: in the hands of one thread that computes
   it, in the open list, or in the hands of one thread that expands it.    *)
OnePlace(k) ==
  /\ open[k] \subseteq closed[k]
  /\ \A t \in Members(k) :
       /\ AtHand(t) => cur[t] \in closed[k]
       /\ InHand(t) => cur[t] \notin open[k]
       /\ held[t] # Nil => held[t] \in closed[k] \ open[k]
  /\ \A t, u \in Members(k) :
       /\ InHand(t) => held[u] # cur[t]
       /\ t # u /\ InHand(t) /\ InHand(u) => cur[t] # cur[u]
       /\ t # u /\ held[t] # Nil => held[u] # held[t]

(* No two nodes of an open list compare equal.                             *)
OpenDistinct(k) ==
  \A t \in Threads : \A m, n \in open[k] : EqualIn(t, m, n) => m = n

(* Only nodes that are neither goals nor dead ends are opened.             *)
OpenInterior(k) ==
  /\ \A n \in open[k] : Interior(n.state)
  /\ \A t \in Members(k) :
       pc[t] \in {"opening", "lookahead"} => Interior(cur[t].state)

(* The lookahead of an open node has been tried or is being tried.         *)
LookTried(k) ==
  IsCut(k) \/ \A n \in open[k] :
    \/ Look[n.state].to \in Visited(k)
    \/ \E t \in Members(k) : /\ pc[t] \in {"lookahead", "closing"}
                             /\ Look[n.state].to \in Here(t)

(* A thread leaves the loop when it has found nothing to do, or because the
   search is cut, and it goes nowhere else then.                           *)
LeavesRight ==
  \A t \in Threads :
    /\ Out(t) => open_empty[t] \/ ret[t] # Nil \/ StopNow
    /\ open_empty[t] => Out(t) \/ pc[t] = "loop"
    /\ ret[t] # Nil => Out(t) \/ pc[t] \in {"barrier", "tried"}

(* A team whose threads have all found nothing to do has nothing to do.    *)
EmptyAtEnd(k) == (\A t \in Members(k) : open_empty[t]) => open[k] = {}

BoundsLow == \A t \in Threads : best[t] <= MaxTime

StopMeansPlan == stop_search => best_node # Nil

(* A goal that was closed is being looked at, or has cut the search.       *)
GoalsSeen(k) ==
  IsCut(k) \/ \A n \in EverClosed(k) : IsGoal(n.state) =>
    \E t \in Members(k) :
      pc[t] \in {"checking", "counting", "goal", "improving"} /\ cur[t] = n

Explored(k) ==
  ~IsCut(k) => /\ Root \in Visited(k) \cup Pending(k)
               /\ \A s \in Visited(k) : Sons(s) \subseteq Visited(k) \cup Pending(k)

-----------------------------------------------------------------------------
(* Types and shape are kept by every step.                                 *)
LEMMA TypeKept ==
  ASSUME TypeOK, Shape, [Next]_vars
  PROVE  TypeOK' /\ Shape'
  <1>1. CASE UNCHANGED vars
    BY <1>1 DEF vars, locals, search, memory, TypeOK, ThreadTypes, ListTypes,
       CounterTypes, FlagTypes, MemoryTypes, Shape, ThreadShape, Holding
  <1>2. QED
    BY <1>1, ThreadKeepsShape, JointKeepsShape DEF Next, Terminating

-----------------------------------------------------------------------------
(* Control: the flush, the way out of the loop, and what stops the search. *)

LEMMA FlushLastStep ==
  ASSUME TypeOK, Shape, FlushLast, NEW t \in Threads, ThreadStep(t)
  PROVE  FlushLast'
  <1>1. \A u \in Threads : u # t => pc'[u] = pc[u]
    BY OthersUnchanged
  <1>2. CASE Flushing(t)
    <2>1. Flushing(t)'
      BY <1>2 DEF Flushing, TypeOK, ThreadTypes, Goto, ThreadStep, Begin, CloseInsert,
         CheckNode, Evaluate, GoalTest, Improve, OpenInsert, Lookahead, LoopTest,
         Pop, BeginWork, TryAction, Tried, EndWork, ExitCount, ExitList,
         Merge, FlushBegin, FlushEnd
    <2>2. \A u \in Threads : Flushing(u)'
      BY <1>1, <1>2, <2>1 DEF FlushLast, Flushing
    <2>3. QED
      BY SMTT(60), <2>2 DEF FlushLast
  <1>3. CASE ~Flushing(t)
    <2>1. freed = {} /\ \A u \in Threads : ~Flushing(u)
      BY SMTT(60), <1>3 DEF FlushLast
    <2>2. ~Flushing(t)' /\ freed' = freed
      BY <1>3 DEF Flushing, TypeOK, ThreadTypes, Goto, Return, memory, ThreadStep, Begin,
         CloseInsert, CheckNode, Evaluate, GoalTest, Improve, OpenInsert, Lookahead,
         LoopTest, Pop, BeginWork, TryAction, Tried, EndWork, ExitCount, ExitList, Merge,
         FlushBegin, FlushEnd
    <2>3. \A u \in Threads : ~Flushing(u)'
      BY <1>1, <2>1, <2>2 DEF Flushing
    <2>4. QED
      BY <2>1, <2>2, <2>3 DEF FlushLast
  <1>4. QED
    BY <1>2, <1>3

(* What has stopped the search does not let it go on.                      *)
LEMMA StopStays ==
  ASSUME TypeOK, Shape, [Next]_vars, StopNow
  PROVE  StopNow'
  <1> USE OptionAssumption DEF StopNow, TypeOK, CounterTypes, FlagTypes, search
  <1>1. ASSUME NEW t \in Threads, Evaluate(t)
        PROVE  StopNow'
    BY <1>1 DEF Evaluate
  <1>2. ASSUME NEW t \in Threads, Merge(t)
        PROVE  StopNow'
    BY SMTT(60), <1>2 DEF Merge
  <1>3. ASSUME NEW t \in Threads, ThreadStep(t), ~Evaluate(t), ~Merge(t)
        PROVE  UNCHANGED <<evaluated, stop_search>>
    BY <1>3 DEF ThreadStep, Begin, CloseInsert, CheckNode, GoalTest, Improve,
       OpenInsert, Lookahead, LoopTest, Pop, BeginWork, TryAction, Tried, EndWork,
       ExitCount, ExitList, FlushBegin, FlushEnd
  <1>4. Barrier \/ Collect \/ UNCHANGED vars => UNCHANGED <<evaluated, stop_search>>
    BY DEF Barrier, Collect, vars
  <1>5. QED
    BY <1>1, <1>2, <1>3, <1>4 DEF Next, Terminating

LEMMA LeavesRightStep ==
  ASSUME TypeOK, Shape, LeavesRight, NEW t \in Threads, ThreadStep(t)
  PROVE  LeavesRight'
  <1> DEFINE L == /\ Out(t) => open_empty[t] \/ ret[t] # Nil \/ StopNow
                  /\ open_empty[t] => Out(t) \/ pc[t] = "loop"
                  /\ ret[t] # Nil => Out(t) \/ pc[t] \in {"barrier", "tried"}
  <1>1. \A u \in Threads :
          u # t => pc'[u] = pc[u] /\ ret'[u] = ret[u] /\ open_empty'[u] = open_empty[u]
    BY OthersUnchanged
  <1>2. StopNow => StopNow'
    BY StopStays DEF Next
  <1>3. L'
    <2> USE DEF LeavesRight, Out, Flushing, TypeOK, ThreadTypes, FlagTypes, Goto, Return,
                locals
    <2>1. L
      OBVIOUS
    <2>2. CASE Begin(t) \/ CloseInsert(t) \/ CheckNode(t) \/ Evaluate(t) \/ GoalTest(t)
      BY <2>1, <2>2 DEF Begin, CloseInsert, CheckNode, Evaluate, GoalTest
    <2>3. CASE Improve(t) \/ OpenInsert(t) \/ Lookahead(t) \/ Pop(t) \/ BeginWork(t)
      BY <2>1, <2>3 DEF Improve, OpenInsert, Lookahead, Pop, BeginWork
    <2>4. CASE TryAction(t) \/ EndWork(t) \/ ExitCount(t) \/ ExitList(t)
      BY <2>1, <2>4 DEF TryAction, StopWork, EndWork, ExitCount, ExitList
    <2>5. CASE Merge(t) \/ FlushBegin(t) \/ FlushEnd(t)
      BY <1>2, <2>1, <2>5 DEF Merge, FlushBegin, FlushEnd
    <2>6. CASE LoopTest(t) \/ Tried(t)
      BY <1>2, <2>1, <2>6 DEF LoopTest, Tried, StopWork
    <2>7. QED
      BY <2>2, <2>3, <2>4, <2>5, <2>6 DEF ThreadStep
  <1>4. ASSUME NEW u \in Threads, u # t
        PROVE  /\ Out(u)' => open_empty'[u] \/ ret'[u] # Nil \/ StopNow'
               /\ open_empty'[u] => Out(u)' \/ pc'[u] = "loop"
               /\ ret'[u] # Nil => Out(u)' \/ pc'[u] \in {"barrier", "tried"}
    BY <1>1, <1>2, <1>4 DEF LeavesRight, Out, Flushing
  <1>5. QED
    BY <1>3, <1>4 DEF LeavesRight

(* The barrier and the end of the region keep the control in order.        *)
LEMMA JointControl ==
  ASSUME TypeOK, Shape, FlushLast, LeavesRight, Barrier \/ Collect
  PROVE  FlushLast' /\ LeavesRight'
  <1>1. FlushLast'
    BY DEF Barrier, Collect, FlushLast, Flushing, TypeOK, ThreadTypes, memory
  <1>2. LeavesRight'
    <2>1. CASE Barrier
      BY <2>1 DEF Barrier, LeavesRight, Out, Flushing, locals, search, TypeOK,
                  ThreadTypes, StopNow
    <2>2. CASE Collect
      BY <2>2 DEF Collect, LeavesRight, Out, Flushing, locals, search, TypeOK,
                  ThreadTypes, StopNow
    <2>3. QED
      BY <2>1, <2>2
  <1>3. QED
    BY <1>1, <1>2

-----------------------------------------------------------------------------
(* The bounds, the solution and what is closed.                            *)

LEMMA BoundsLowStep ==
  ASSUME TypeOK, Shape, BoundsLow, [Next]_vars
  PROVE  BoundsLow'
  <1>1. \A t \in Threads : best'[t] <= best[t]
    BY BoundStep
  <1>2. /\ \A t \in Threads : best[t] \in Nat
        /\ \A t \in Threads : best'[t] \in Nat
    <2>1. TypeOK'
      BY TypeKept
    <2>2. QED
      BY <2>1 DEF TypeOK, CounterTypes
  <1>3. ASSUME NEW t \in Threads
        PROVE  best'[t] <= MaxTime
    <2>1. best[t] \in Nat /\ best'[t] \in Nat /\ best'[t] <= best[t] /\ best[t] <= MaxTime
      BY <1>1, <1>2 DEF BoundsLow
    <2>2. QED
      BY <2>1, ProblemAssumption
  <1>4. QED
    BY <1>3 DEF BoundsLow

LEMMA StopMeansPlanStep ==
  ASSUME TypeOK, Shape, StopMeansPlan, [Next]_vars
  PROVE  StopMeansPlan'
  <1> USE DEF StopMeansPlan, search
  <1>1. ASSUME NEW t \in Threads, Merge(t)
        PROVE  StopMeansPlan'
    BY <1>1 DEF Merge, IsShorter
  <1>2. ASSUME NEW t \in Threads, ThreadStep(t), ~Merge(t)
        PROVE  UNCHANGED <<stop_search, best_node>>
    BY <1>2 DEF ThreadStep, Begin, CloseInsert, CheckNode, Evaluate, GoalTest, Improve,
       OpenInsert, Lookahead, LoopTest, Pop, BeginWork, TryAction, Tried, EndWork,
       ExitCount, ExitList, FlushBegin, FlushEnd
  <1>3. Barrier \/ Collect \/ UNCHANGED vars => UNCHANGED <<stop_search, best_node>>
    BY DEF Barrier, Collect, vars
  <1>4. QED
    BY <1>1, <1>2, <1>3 DEF Next, Terminating

(* What a team has freed, as a set of the pairs in freed.                  *)
LEMMA FreedMember ==
  ASSUME TypeOK, NEW k, NEW n
  PROVE  n \in Freed(k) <=> <<n, k>> \in freed
  <1>1. \A x \in freed : x = <<x[1], x[2]>>
    BY DEF TypeOK, MemoryTypes
  <1>2. QED
    BY <1>1 DEF Freed

(* How a step changes what a team has ever closed: closed_list_insert adds
   the node it numbers, and the flush loses nothing.                       *)
LEMMA ClosedStep ==
  ASSUME TypeOK, Shape, FlushShape, NEW t \in Threads, ThreadStep(t), NEW k \in TeamIds
  PROVE  \/ EverClosed(k)' = EverClosed(k)
         \/ /\ k = TeamOf(t) /\ CloseInsert(t) /\ pc'[t] = "checking"
            /\ EverClosed(k)' = EverClosed(k) \cup {cur'[t]}
            /\ closed'[k] = closed[k] \cup {cur'[t]}
  <1> USE DEF TypeOK, ListTypes, MemoryTypes
  <1>1. TeamOf(t) \in TeamIds
    BY TeamOfType
  <1>2. CASE CloseInsert(t)
    <2>1. freed' = freed
      BY <1>2 DEF CloseInsert, memory
    <2>2. Freed(k)' = Freed(k)
      BY <2>1 DEF Freed
    <2>3. CASE k = TeamOf(t) /\ cur[t].state \notin ClosedStates(k)
      <3>1. /\ pc'[t] = "checking"
            /\ closed'[k] = closed[k] \cup {cur'[t]}
        BY <1>1, <1>2, <2>3 DEF CloseInsert, Goto, ThreadTypes
      <3>2. QED
        BY <1>2, <2>2, <2>3, <3>1 DEF EverClosed
    <2>4. CASE ~(k = TeamOf(t) /\ cur[t].state \notin ClosedStates(k))
      <3>1. closed'[k] = closed[k]
        BY <1>1, <1>2, <2>4 DEF CloseInsert
      <3>2. QED
        BY <2>2, <3>1 DEF EverClosed
    <2>5. QED
      BY <2>3, <2>4
  <1>3. CASE FlushEnd(t)
    <2>1. /\ pc[t] = "freeing"
          /\ freed' = freed \cup (flushing[t] \X {TeamOf(t)})
          /\ closed' = [closed EXCEPT ![TeamOf(t)] = {}]
      BY <1>3 DEF FlushEnd
    <2>2. \A n : n \in Freed(k)' <=> <<n, k>> \in freed'
      <3>1. TypeOK'
        BY TypeKept DEF Next
      <3>2. \A x \in freed' : x = <<x[1], x[2]>>
        BY <3>1 DEF TypeOK, MemoryTypes
      <3>3. QED
        BY <3>2 DEF Freed
    <2>3. \A n : n \in Freed(k)' <=> n \in Freed(k) \/ (k = TeamOf(t) /\ n \in flushing[t])
      BY <2>1, <2>2, FreedMember
    <2>4. CASE k = TeamOf(t)
      <3>1. closed[k] \subseteq flushing[t] /\ flushing[t] \subseteq closed[k] \cup Freed(k)
        BY <2>1, <2>4 DEF FlushShape, EverClosed
      <3>2. closed'[k] = {}
        BY <1>1, <2>1, <2>4
      <3>3. QED
        BY <2>3, <2>4, <3>1, <3>2 DEF EverClosed
    <2>5. CASE k # TeamOf(t)
      <3>1. closed'[k] = closed[k]
        BY <2>1, <2>5
      <3>2. QED
        BY <2>3, <2>5, <3>1 DEF EverClosed
    <2>6. QED
      BY <2>4, <2>5
  <1>4. CASE ~CloseInsert(t) /\ ~FlushEnd(t)
    <2>1. UNCHANGED <<closed, freed>>
      BY <1>4 DEF ThreadStep, Begin, CheckNode, Evaluate, GoalTest, Improve, OpenInsert,
         Lookahead, LoopTest, Pop, BeginWork, TryAction, Tried, EndWork, ExitCount, ExitList,
         Merge,
         FlushBegin, search, memory
    <2>2. QED
      BY SMTT(60), <2>1 DEF EverClosed, Freed
  <1>5. QED
    BY <1>2, <1>3, <1>4

LEMMA FlushShapeStep ==
  ASSUME TypeOK, Shape, FlushLast, FlushShape, NEW t \in Threads, ThreadStep(t)
  PROVE  FlushShape'
  <1>1. \A u \in Threads : u # t => pc'[u] = pc[u]
    BY OthersUnchanged
  <1>2. \A u \in Threads : TeamOf(u) \in TeamIds
    BY TeamOfType
  <1>3. \A k \in TeamIds : EverClosed(k) \subseteq EverClosed(k)'
    BY ClosedStep
  <1>4. CASE ~Flushing(t)
    <2>1. \A u \in Threads : pc'[u] # "freeing"
      BY <1>1, <1>4 DEF FlushLast, Flushing, TypeOK, ThreadTypes, Goto, Return, ThreadStep,
         Begin, CloseInsert, CheckNode, Evaluate, GoalTest, Improve, OpenInsert, Lookahead,
         LoopTest, Pop, BeginWork, TryAction, Tried, EndWork, ExitCount, ExitList,
         Merge, FlushBegin,
         FlushEnd
    <2>2. QED
      BY SMTT(60), <2>1 DEF FlushShape
  <1>5. CASE FlushBegin(t)
    <2>1. ASSUME NEW u \in Threads, pc'[u] = "freeing"
          PROVE  /\ closed'[TeamOf(u)] \subseteq flushing'[u]
                 /\ flushing'[u] \subseteq EverClosed(TeamOf(u))'
      <3>1. closed' = closed
        BY <1>5 DEF FlushBegin, search
      <3>2. CASE u = t
        BY <1>2, <1>3, <1>5, <3>1, <3>2 DEF FlushBegin, EverClosed, TypeOK, ListTypes
      <3>3. CASE u # t
        <4>1. flushing'[u] = flushing[u] /\ pc[u] = "freeing"
          BY <1>1, <1>5, <2>1, <3>3 DEF FlushBegin, TypeOK, ListTypes
        <4>2. QED
          BY <1>2, <1>3, <3>1, <4>1 DEF FlushShape
      <3>4. QED
        BY <3>2, <3>3
    <2>2. QED
      BY <2>1 DEF FlushShape
  <1>6. CASE FlushEnd(t)
    <2>1. ASSUME NEW u \in Threads, pc'[u] = "freeing"
          PROVE  /\ closed'[TeamOf(u)] \subseteq flushing'[u]
                 /\ flushing'[u] \subseteq EverClosed(TeamOf(u))'
      <3>1. u # t /\ pc[u] = "freeing"
        BY <1>1, <1>6, <2>1 DEF FlushEnd, Goto, TypeOK, ThreadTypes
      <3>2. flushing'[u] = flushing[u] /\ closed'[TeamOf(u)] \subseteq closed[TeamOf(u)]
        BY <1>2, <1>6, <3>1 DEF FlushEnd, TypeOK, ListTypes
      <3>3. QED
        BY <1>2, <1>3, <3>1, <3>2 DEF FlushShape
    <2>2. QED
      BY <2>1 DEF FlushShape
  <1>7. QED
    BY <1>4, <1>5, <1>6 DEF Flushing, ThreadStep, Begin, CloseInsert, CheckNode,
       Evaluate, GoalTest, Improve, OpenInsert, Lookahead, LoopTest, Pop, BeginWork,
       TryAction, Tried, EndWork, ExitCount, ExitList, Merge

-----------------------------------------------------------------------------
(* Where the nodes of a team are.                                          *)

LEMMA MembersType ==
  /\ \A k : Members(k) \subseteq Threads
  /\ \A t \in Threads : TeamOf(t) \in TeamIds /\ t \in Members(TeamOf(t))
  BY TeamOfType DEF Members

(* A step of a thread leaves the lists of the other teams alone.           *)
LEMMA OtherTeam ==
  ASSUME TypeOK, NEW t \in Threads, ThreadStep(t), NEW k \in TeamIds, k # TeamOf(t)
  PROVE  /\ open'[k] = open[k] /\ closed'[k] = closed[k]
         /\ t \notin Members(k)
  <1>1. TeamOf(t) \in TeamIds
    BY TeamOfType
  <1>2. t \notin Members(k)
    BY DEF Members
  <1>3. CASE OpenInsert(t) \/ Pop(t) \/ FlushEnd(t) \/ CloseInsert(t)
    BY <1>1, <1>2, <1>3 DEF OpenInsert, Pop, FlushEnd, CloseInsert, TypeOK, ListTypes
  <1>4. CASE ~(OpenInsert(t) \/ Pop(t) \/ FlushEnd(t) \/ CloseInsert(t))
    BY <1>2, <1>4 DEF ThreadStep, Begin, CheckNode, Evaluate, GoalTest, Improve, Lookahead,
       LoopTest, BeginWork, TryAction, Tried, EndWork, ExitCount, ExitList,
       Merge, FlushBegin, search
  <1>5. QED
    BY <1>3, <1>4

(* Only the insertion of a node of the team makes an open list larger.     *)
LEMMA OpenShrinks ==
  ASSUME TypeOK, NEW t \in Threads, ThreadStep(t), NEW k \in TeamIds,
         ~(k = TeamOf(t) /\ OpenInsert(t))
  PROVE  open'[k] \subseteq open[k]
  <1>1. CASE k # TeamOf(t)
    BY <1>1, OtherTeam
  <1>2. CASE k = TeamOf(t) /\ (Pop(t) \/ FlushEnd(t))
    BY <1>2 DEF Pop, FlushEnd, TypeOK, ListTypes
  <1>3. CASE k = TeamOf(t) /\ ~(Pop(t) \/ FlushEnd(t))
    BY <1>3 DEF ThreadStep, Begin, CloseInsert, CheckNode, Evaluate, GoalTest, Improve,
       Lookahead, LoopTest, BeginWork, TryAction, Tried, EndWork, ExitCount, ExitList,
       Merge,
       FlushBegin, search
  <1>4. QED
    BY <1>1, <1>2, <1>3

(* The nodes of the team of t stay where they are, but for those that t lets
   go.                                                                     *)
LEMMA LetsGo ==
  ASSUME TypeOK, NEW t \in Threads, NEW k \in TeamIds, t \in Members(k), OnePlace(k),
         \A u \in Members(k) : u # t =>
           pc'[u] = pc[u] /\ cur'[u] = cur[u] /\ held'[u] = held[u],
         open'[k] \subseteq open[k], closed'[k] = closed[k],
         AtHand(t)' => AtHand(t) /\ cur'[t] = cur[t],
         InHand(t)' => InHand(t),
         held'[t] # Nil => held'[t] = held[t]
  PROVE  OnePlace(k)'
  <1>1. \A u \in Members(k) :
          /\ AtHand(u)' => AtHand(u) /\ cur'[u] = cur[u]
          /\ InHand(u)' => InHand(u) /\ AtHand(u) /\ cur'[u] = cur[u]
          /\ held'[u] # Nil => held'[u] = held[u]
    BY DEF InHand, AtHand
  <1>2. \A u \in Members(k) :
          /\ AtHand(u)' => cur'[u] \in closed'[k]
          /\ InHand(u)' => cur'[u] \notin open'[k]
          /\ held'[u] # Nil => held'[u] \in closed'[k] \ open'[k]
    BY <1>1 DEF OnePlace
  <1>3. ASSUME NEW u \in Members(k), NEW w \in Members(k)
        PROVE  /\ InHand(u)' => held'[w] # cur'[u]
               /\ u # w /\ InHand(u)' /\ InHand(w)' => cur'[u] # cur'[w]
               /\ u # w /\ held'[u] # Nil => held'[w] # held'[u]
    <2>1. InHand(u)' => cur'[u] # Nil
      BY <1>2, OptionAssumption DEF InHand, AtHand, TypeOK, ListTypes
    <2>2. QED
      BY <1>1, <2>1 DEF OnePlace
  <1>4. QED
    BY <1>2, <1>3 DEF OnePlace, Members

(* Under strategies 0 and 1 every thread compares nodes in the same way.   *)
LEMMA SameOrder ==
  ASSUME Strategy <= 1, NEW t \in Threads, NEW u \in Threads, NEW m, NEW n
  PROVE  EqualIn(t, m, n) <=> EqualIn(u, m, n)
  BY OptionAssumption DEF EqualIn, ComparesId

(* What the thread that pops a node takes out of the list is that node.    *)
LEMMA PopTakes ==
  ASSUME TypeOK, NEW t \in Threads, Pop(t), OpenDistinct(TeamOf(t))
  PROVE  LET k == TeamOf(t) IN
         \/ pc'[t] = "exit_check" /\ UNCHANGED <<open, held>>
         \/ /\ pc'[t] = "popped"
            /\ held'[t] \in open[k]
            /\ open'[k] = open[k] \ {held'[t]}
  <1> DEFINE k == TeamOf(t)
  <1>1. k \in TeamIds
    BY TeamOfType
  <1>2. CASE open[k] = {}
    BY <1>2 DEF Pop, BestOf, Goto, TypeOK, ThreadTypes
  <1>3. CASE open[k] # {}
    <2>1. PICK n \in BestOf(t, open[k]) : \E m \in open[k] :
            /\ EqualIn(t, m, n)
            /\ open' = [open EXCEPT ![k] = open[k] \ {m}]
            /\ held' = [held EXCEPT ![t] = n]
            /\ Goto(t, "popped")
      BY <1>3 DEF Pop
    <2>2. n \in open[k]
      BY <2>1 DEF BestOf
    <2>3. open' = [open EXCEPT ![k] = open[k] \ {n}]
      BY <2>1, <2>2 DEF OpenDistinct
    <2>4. QED
      BY <1>1, <2>1, <2>2, <2>3 DEF Goto, TypeOK, ThreadTypes, ListTypes
  <1>4. QED
    BY <1>2, <1>3

(* A closed node stays in one place: the team of the thread that moves.     *)
LEMMA OnePlaceHere ==
  ASSUME TypeOK, Shape, FlushLast, NEW t \in Threads, ThreadStep(t),
         NEW k \in TeamIds, k = TeamOf(t), OnePlace(k), OpenDistinct(k)
  PROVE  OnePlace(k)'
  <1>1. t \in Members(k) /\ Members(k) \subseteq Threads
    BY MembersType
  <1>2. \A u \in Threads : u # t => /\ pc'[u] = pc[u]
                                    /\ cur'[u] = cur[u]
                                    /\ held'[u] = held[u]
    BY OthersUnchanged
  <1>4. OnePlace(k) /\ OpenDistinct(k)
    OBVIOUS
  <1>5. open[k] \subseteq Node /\ closed[k] \subseteq Node /\ Nil \notin Node
    BY OptionAssumption DEF TypeOK, ListTypes
  <1>6. CASE CloseInsert(t)
    <2>1. CASE cur[t].state \in ClosedStates(k)
      <3>1. open' = open /\ closed' = closed /\ held' = held /\ ~AtHand(t)'
        BY <1>6, <2>1 DEF CloseInsert, Return, Goto, AtHand, InHand, TypeOK, ThreadTypes
      <3>2. InHand(t)' => AtHand(t)'
        BY DEF AtHand
      <3>3. QED
        BY <1>1, <1>2, <1>4, <3>1, <3>2, LetsGo
    <2>2. CASE cur[t].state \notin ClosedStates(k)
      <3>1. /\ closed'[k] = closed[k] \cup {cur'[t]}
            /\ open' = open /\ held' = held
            /\ cur'[t].state = cur[t].state
        <4>1. cur' = [cur EXCEPT ![t] = [cur[t] EXCEPT !.id = Cardinality(closed[k])]]
          BY <1>6, <2>2 DEF CloseInsert
        <4>2. cur[t] \in Node
          BY <1>6 DEF CloseInsert, Shape, ThreadShape, Computing, TypeOK, ThreadTypes
        <4>3. cur'[t].state = cur[t].state
          BY <4>1, <4>2 DEF TypeOK, ThreadTypes, Node
        <4>4. QED
          BY <1>1, <1>6, <2>2, <4>1, <4>3 DEF CloseInsert, TypeOK, ThreadTypes, ListTypes
      <3>2. cur'[t] \notin closed[k]
        BY <2>2, <3>1 DEF ClosedStates
      <3>3. \A u \in Members(k) :
              /\ AtHand(u)' => cur'[u] \in closed'[k]
              /\ InHand(u)' => cur'[u] \notin open'[k]
              /\ held'[u] # Nil => held'[u] \in closed'[k] \ open'[k]
        BY <1>1, <1>2, <1>4, <3>1, <3>2 DEF OnePlace, InHand, AtHand
      <3>4. \A u \in Members(k) : u # t /\ InHand(u) => cur[u] # cur'[t]
        BY <1>4, <3>2 DEF OnePlace, AtHand
      <3>5. \A u \in Members(k) : held[u] # cur'[t]
        <4>1. cur'[t] # Nil
          BY <1>1, <1>5, <3>1, TypeKept DEF TypeOK, ListTypes, Next
        <4>2. QED
          BY <1>4, <3>2, <4>1 DEF OnePlace
      <3>6. ASSUME NEW u \in Members(k), NEW w \in Members(k)
            PROVE  /\ InHand(u)' => held'[w] # cur'[u]
                   /\ u # w /\ InHand(u)' /\ InHand(w)' => cur'[u] # cur'[w]
                   /\ u # w /\ held'[u] # Nil => held'[w] # held'[u]
        BY <1>1, <1>2, <1>4, <3>1, <3>4, <3>5 DEF OnePlace, InHand
      <3>7. QED
        BY <1>4, <3>1, <3>3, <3>6 DEF OnePlace, Members
    <2>3. QED
      BY <2>1, <2>2
  <1>7. CASE OpenInsert(t)
    <2>1. /\ open'[k] \subseteq open[k] \cup {cur[t]}
          /\ closed' = closed /\ held' = held /\ cur' = cur
          /\ InHand(t) /\ AtHand(t) /\ ~InHand(t)'
      BY <1>1, <1>7 DEF OpenInsert, Inserted, InHand, AtHand, Goto, TypeOK, ThreadTypes,
         ListTypes
    <2>2. \A u \in Members(k) :
            /\ AtHand(u)' => cur'[u] \in closed'[k]
            /\ InHand(u)' => cur'[u] \notin open'[k]
            /\ held'[u] # Nil => held'[u] \in closed'[k] \ open'[k]
      BY <1>1, <1>2, <1>4, <2>1 DEF OnePlace, InHand, AtHand
    <2>3. ASSUME NEW u \in Members(k), NEW w \in Members(k)
          PROVE  /\ InHand(u)' => held'[w] # cur'[u]
                 /\ u # w /\ InHand(u)' /\ InHand(w)' => cur'[u] # cur'[w]
                 /\ u # w /\ held'[u] # Nil => held'[w] # held'[u]
      BY <1>1, <1>2, <1>4, <2>1 DEF OnePlace, InHand
    <2>4. open'[k] \subseteq closed'[k]
      BY <1>1, <1>4, <2>1 DEF OnePlace
    <2>5. QED
      BY <2>2, <2>3, <2>4 DEF OnePlace, Members
  <1>8. CASE Pop(t)
    <2>1. /\ closed' = closed /\ cur' = cur /\ ~AtHand(t)' /\ ~InHand(t)'
      BY <1>8 DEF Pop, InHand, AtHand, Goto, TypeOK, ThreadTypes
    <2>2. CASE UNCHANGED <<open, held>>
      BY <1>1, <1>2, <1>4, <2>1, <2>2, LetsGo
    <2>3. CASE held'[t] \in open[k] /\ open'[k] = open[k] \ {held'[t]}
      <3>1. \A u \in Members(k) :
              /\ AtHand(u)' => cur'[u] \in closed'[k]
              /\ InHand(u)' => cur'[u] \notin open'[k]
              /\ held'[u] # Nil => held'[u] \in closed'[k] \ open'[k]
        BY <1>1, <1>2, <1>4, <2>1, <2>3 DEF OnePlace, InHand, AtHand
      <3>2. \A u \in Members(k) : u # t => held[u] # held'[t]
        BY <1>4, <1>5, <2>3 DEF OnePlace
      <3>3. \A u \in Members(k) : InHand(u) => cur[u] # held'[t]
        BY <1>4, <2>3 DEF OnePlace
      <3>4. ASSUME NEW u \in Members(k), NEW w \in Members(k)
            PROVE  /\ InHand(u)' => held'[w] # cur'[u]
                   /\ u # w /\ InHand(u)' /\ InHand(w)' => cur'[u] # cur'[w]
                   /\ u # w /\ held'[u] # Nil => held'[w] # held'[u]
        BY <1>1, <1>2, <1>4, <2>1, <3>2, <3>3 DEF OnePlace, InHand
      <3>5. open'[k] \subseteq closed'[k]
        BY <1>4, <2>1, <2>3 DEF OnePlace
      <3>6. QED
        BY <3>1, <3>4, <3>5 DEF OnePlace, Members
    <2>4. QED
      BY <1>4, <1>8, <2>2, <2>3, PopTakes
  <1>9. CASE FlushEnd(t)
    <2>1. \A u \in Threads : Flushing(u)
      BY <1>9 DEF FlushEnd, FlushLast, Flushing
    <2>2. \A u \in Threads : Flushing(u)'
      BY <1>2, <1>9, <2>1 DEF FlushEnd, Flushing, Goto, TypeOK, ThreadTypes
    <2>3. \A u \in Threads : ~AtHand(u)' /\ ~InHand(u)' /\ held'[u] = Nil
      <3>1. Shape'
        BY TypeKept DEF Next
      <3>2. QED
        BY <2>2, <3>1 DEF Flushing, AtHand, InHand, Shape, ThreadShape, Holding, Computing
    <2>4. open'[k] = {}
      BY <1>1, <1>9 DEF FlushEnd, TypeOK, ListTypes
    <2>5. QED
      BY <1>1, <2>3, <2>4 DEF OnePlace, Members
  <1>10. CASE ~(CloseInsert(t) \/ OpenInsert(t) \/ Pop(t) \/ FlushEnd(t))
    <2>1. open' = open /\ closed' = closed
      BY <1>10 DEF ThreadStep, Begin, CheckNode, Evaluate, GoalTest, Improve, Lookahead,
         LoopTest, BeginWork, TryAction, Tried, EndWork, ExitCount, ExitList,
         Merge, FlushBegin, search
    <2>2. /\ AtHand(t)' => AtHand(t) /\ cur'[t] = cur[t]
          /\ InHand(t)' => InHand(t)
          /\ held'[t] # Nil => held'[t] = held[t]
      BY <1>10 DEF ThreadStep, Begin, CheckNode, Evaluate, GoalTest, Improve, Lookahead,
         LoopTest, BeginWork, TryAction, Tried, EndWork, ExitCount, ExitList,
         Merge, FlushBegin,
         StopWork, Goto, Return, locals, AtHand, InHand, TypeOK, ThreadTypes
    <2>3. QED
      BY <1>1, <1>2, <1>4, <2>1, <2>2, LetsGo
  <1>11. QED
    BY <1>6, <1>7, <1>8, <1>9, <1>10

LEMMA OnePlaceStep ==
  ASSUME TypeOK, Shape, FlushLast, NEW t \in Threads, ThreadStep(t),
         NEW k \in TeamIds, OnePlace(k), OpenDistinct(k)
  PROVE  OnePlace(k)'
  <1>1. CASE k = TeamOf(t)
    BY <1>1, OnePlaceHere
  <1>2. CASE k # TeamOf(t)
    <2>1. open'[k] = open[k] /\ closed'[k] = closed[k] /\ t \notin Members(k)
      BY <1>2, OtherTeam
    <2>2. \A u \in Members(k) : pc'[u] = pc[u] /\ cur'[u] = cur[u] /\ held'[u] = held[u]
      BY <2>1, MembersType, OthersUnchanged
    <2>3. QED
      BY <2>1, <2>2 DEF OnePlace, InHand, AtHand, Members
  <1>3. QED
    BY <1>1, <1>2

(* The open list of a team holds no two nodes that compare equal: the
   insertion tests one order, and it is the order of every thread.         *)
LEMMA OpenDistinctStep ==
  ASSUME TypeOK, Strategy <= 1, NEW t \in Threads, ThreadStep(t),
         NEW k \in TeamIds, OpenDistinct(k)
  PROVE  OpenDistinct(k)'
  <1>1. CASE k = TeamOf(t) /\ OpenInsert(t)
    <2>1. open'[k] = Inserted(t, open[k], cur[t])
      BY <1>1 DEF OpenInsert, TypeOK, ListTypes
    <2>2. CASE \E m \in open[k] : EqualIn(t, m, cur[t])
      BY <2>1, <2>2 DEF OpenDistinct, Inserted, EqualIn, ComparesId, SameRank, FValue
    <2>3. CASE ~\E m \in open[k] : EqualIn(t, m, cur[t])
      <3>1. ASSUME NEW u \in Threads, NEW m \in open'[k], NEW n \in open'[k], EqualIn(u, m, n)
            PROVE  m = n
        <4>1. EqualIn(t, m, n) /\ EqualIn(t, n, m)
          BY <3>1, SameOrder DEF EqualIn, SameRank
        <4>2. open'[k] = open[k] \cup {cur[t]}
          BY <2>1, <2>3 DEF Inserted
        <4>3. QED
          BY <2>3, <4>1, <4>2 DEF OpenDistinct
      <3>2. QED
        BY <3>1 DEF OpenDistinct, EqualIn, ComparesId, SameRank, FValue
    <2>4. QED
      BY <2>2, <2>3
  <1>2. CASE ~(k = TeamOf(t) /\ OpenInsert(t))
    <2>1. open'[k] \subseteq open[k]
      BY <1>2, OpenShrinks
    <2>2. QED
      BY <2>1 DEF OpenDistinct, EqualIn, ComparesId, SameRank, FValue
  <1>3. QED
    BY <1>1, <1>2

(* The ids of a closed list stay different: a new node gets its size.      *)
LEMMA IdsStep ==
  ASSUME TypeOK, Shape, NEW t \in Threads, ThreadStep(t), NEW k \in TeamIds, Ids(k)
  PROVE  Ids(k)'
  <1>1. CASE k = TeamOf(t) /\ CloseInsert(t) /\ cur[t].state \notin ClosedStates(k)
    <2> DEFINE c == Cardinality(closed[k])
    <2>1. IsFiniteSet(closed[k]) /\ c \in Nat
      BY FS_CardinalityType DEF Shape
    <2>2. PICK n : /\ closed'[k] = closed[k] \cup {n}
                   /\ n = [cur[t] EXCEPT !.id = c]
      BY <1>1 DEF CloseInsert, TypeOK, ListTypes
    <2>3. n.id = c
      BY <1>1, <2>2 DEF CloseInsert, Shape, ThreadShape, Computing, TypeOK, ThreadTypes, Node
    <2>4. \A m \in closed[k] : m.id \in Nat /\ m.id < c
      BY DEF Ids, TypeOK, ListTypes, Node
    <2> HIDE DEF c
    <2>5. n \notin closed[k]
      BY <2>1, <2>3, <2>4
    <2>6. Cardinality(closed'[k]) = c + 1
      BY ZenonT(120), <2>1, <2>2, <2>5, FS_AddElement DEF c
    <2>7. ASSUME NEW m \in closed'[k]
          PROVE  m.id < c + 1
      <3>1. m \in closed[k] \/ m.id = c
        BY <2>2, <2>3
      <3>2. m \in closed[k] => m.id \in Nat /\ m.id < c
        BY <2>4
      <3>3. QED
        BY <2>1, <3>1, <3>2
    <2>8. ASSUME NEW m \in closed'[k], NEW o \in closed'[k], m.id = o.id
          PROVE  m = o
      <3>1. /\ m \in closed[k] => m.id \in Nat /\ m.id < c
            /\ o \in closed[k] => o.id \in Nat /\ o.id < c
        BY <2>4
      <3>2. CASE m \in closed[k] /\ o \in closed[k]
        BY <2>8, <3>2 DEF Ids
      <3>3. CASE m = n \/ o = n
        <4>1. m.id = c /\ o.id = c
          BY <2>3, <2>8, <3>3
        <4>2. m \notin closed[k] /\ o \notin closed[k]
          BY <2>1, <3>1, <4>1
        <4>3. QED
          BY <2>2, <4>2
      <3>4. QED
        BY <2>2, <3>2, <3>3
    <2>9. QED
      BY <2>6, <2>7, <2>8 DEF Ids
  <1>2. CASE k = TeamOf(t) /\ FlushEnd(t)
    <2>1. closed'[k] = {}
      BY <1>2 DEF FlushEnd, TypeOK, ListTypes
    <2>2. QED
      BY <2>1 DEF Ids
  <1>3. CASE /\ ~(k = TeamOf(t) /\ CloseInsert(t) /\ cur[t].state \notin ClosedStates(k))
             /\ ~(k = TeamOf(t) /\ FlushEnd(t))
    <2>1. closed'[k] = closed[k]
      <3>1. CASE k # TeamOf(t)
        BY SMTT(60), <3>1, OtherTeam
      <3>2. CASE k = TeamOf(t)
        BY <1>3, <3>2 DEF ThreadStep, Begin, CloseInsert, CheckNode, Evaluate, GoalTest,
           Improve, OpenInsert, Lookahead, LoopTest, Pop, BeginWork, TryAction, Tried,
           EndWork, ExitCount, ExitList, Merge, FlushBegin, search
      <3>3. QED
        BY <3>1, <3>2
    <2>2. QED
      BY <2>1 DEF Ids
  <1>4. QED
    BY <1>1, <1>2, <1>3

(* Only the nodes that compute_node finds worth opening are opened.        *)
LEMMA OpenInteriorStep ==
  ASSUME TypeOK, Shape, NEW t \in Threads, ThreadStep(t), NEW k \in TeamIds, OpenInterior(k)
  PROVE  OpenInterior(k)'
  <1> USE DEF Interior, IsGoal, IsDead
  <1>1. \A u \in Threads : u # t => pc'[u] = pc[u] /\ cur'[u] = cur[u]
    BY OthersUnchanged
  <1>2. \A n \in open'[k] : Interior(n.state)
    <2>1. CASE k = TeamOf(t) /\ OpenInsert(t)
      <3>1. open'[k] \subseteq open[k] \cup {cur[t]}
        BY <2>1 DEF OpenInsert, Inserted, TypeOK, ListTypes
      <3>2. Interior(cur[t].state)
        BY <2>1, MembersType DEF OpenInterior, OpenInsert
      <3>3. QED
        BY <3>1, <3>2 DEF OpenInterior
    <2>2. CASE ~(k = TeamOf(t) /\ OpenInsert(t))
      BY <2>2, OpenShrinks DEF OpenInterior
    <2>3. QED
      BY <2>1, <2>2
  <1>3. ASSUME NEW u \in Members(k), pc'[u] \in {"opening", "lookahead"}
        PROVE  Interior(cur'[u].state)
    <2>1. u \in Threads
      BY MembersType
    <2>2. CASE u # t
      BY <1>1, <1>3, <2>1, <2>2 DEF OpenInterior
    <2>3. CASE u = t
      <3>1. Evaluate(t) \/ OpenInsert(t)
        BY <1>3, <2>3 DEF ThreadStep, Begin, CloseInsert, CheckNode, GoalTest, Improve,
           Lookahead, LoopTest, Pop, BeginWork, TryAction, Tried, EndWork, ExitCount, ExitList,
           Merge,
           FlushBegin, FlushEnd, Goto, Return, TypeOK, ThreadTypes
      <3>2. CASE Evaluate(t)
        BY <1>3, <2>3, <3>2 DEF Evaluate, Goto, Return, TypeOK, ThreadTypes
      <3>3. CASE OpenInsert(t)
        BY <1>3, <2>3, <3>3 DEF OpenInsert, OpenInterior
      <3>4. QED
        BY SMTT(60), <3>1, <3>2, <3>3
    <2>4. QED
      BY <2>2, <2>3
  <1>4. QED
    BY <1>2, <1>3 DEF OpenInterior, Members

(* A team whose threads have all found nothing to do has nothing to do: the
   thread that opens a node has not said so yet.                           *)
LEMMA EmptyAtEndStep ==
  ASSUME TypeOK, Shape, LeavesRight, NEW t \in Threads, ThreadStep(t),
         NEW k \in TeamIds, EmptyAtEnd(k)
  PROVE  EmptyAtEnd(k)'
  <1> SUFFICES ASSUME \A u \in Members(k) : open_empty'[u]
               PROVE  open'[k] = {}
    BY DEF EmptyAtEnd, Members
  <1>1. \A u \in Threads : u # t => open_empty'[u] = open_empty[u]
    BY OthersUnchanged
  <1>2. CASE ExitList(t)
    <2>1. open' = open
      BY <1>2 DEF ExitList, search
    <2>2. CASE k = TeamOf(t) /\ NothingLeft(t)
      BY <2>1, <2>2 DEF NothingLeft
    <2>3. CASE ~(k = TeamOf(t) /\ NothingLeft(t))
      <3>1. \A u \in Members(k) : open_empty[u]
        BY <1>1, <1>2, <2>3 DEF ExitList, Members, TypeOK, FlagTypes
      <3>2. QED
        BY <2>1, <3>1 DEF EmptyAtEnd
    <2>4. QED
      BY <2>2, <2>3
  <1>3. CASE ~ExitList(t)
    <2>1. open_empty' = open_empty
      BY <1>3 DEF ThreadStep, Begin, CloseInsert, CheckNode, Evaluate, GoalTest, Improve,
         OpenInsert, Lookahead, LoopTest, Pop, BeginWork, TryAction, Tried, EndWork,
         ExitCount, Merge, FlushBegin, FlushEnd, locals
    <2>2. open[k] = {}
      BY <2>1 DEF EmptyAtEnd
    <2>3. ~(k = TeamOf(t) /\ OpenInsert(t))
      BY <2>1, MembersType DEF OpenInsert, LeavesRight, Out, Flushing
    <2>4. QED
      BY SMTT(60), <2>2, <2>3, OpenShrinks
  <1>4. QED
    BY <1>2, <1>3

-----------------------------------------------------------------------------
(* The part of the invariant that every strategy keeps.                    *)
Control ==
  /\ FlushLast /\ FlushShape /\ LeavesRight /\ BoundsLow /\ StopMeansPlan
  /\ \A k \in TeamIds : Ids(k) /\ OpenInterior(k) /\ EmptyAtEnd(k)

Placed == \A k \in TeamIds : OnePlace(k) /\ OpenDistinct(k)

LEMMA InitControl == Init => Control /\ Placed
  <1> SUFFICES ASSUME Init PROVE Control /\ Placed
    OBVIOUS
  <1>1. FlushLast /\ FlushShape /\ LeavesRight /\ BoundsLow /\ StopMeansPlan
    BY ProblemAssumption DEF Init, FlushLast, FlushShape, LeavesRight, BoundsLow,
       StopMeansPlan, Flushing, Out
  <1>2. ASSUME NEW k \in TeamIds
        PROVE  Ids(k) /\ OpenInterior(k) /\ EmptyAtEnd(k) /\ OnePlace(k) /\ OpenDistinct(k)
    BY MembersType DEF Init, Ids, OpenInterior, EmptyAtEnd, OnePlace, OpenDistinct, AtHand,
       InHand
  <1>3. QED
    BY <1>1, <1>2 DEF Control, Placed

(* The joint steps and the stuttering ones leave the lists alone.          *)
LEMMA JointLists ==
  ASSUME TypeOK, Shape, Control, Barrier \/ Collect \/ UNCHANGED vars
  PROVE  /\ FlushShape'
         /\ \A k \in TeamIds : /\ Ids(k)' /\ OpenInterior(k)' /\ EmptyAtEnd(k)'
                               /\ OnePlace(k) => OnePlace(k)'
                               /\ OpenDistinct(k) => OpenDistinct(k)'
  <1>1. UNCHANGED <<open, closed, freed, flushing, held, cur, open_empty>>
    BY DEF Barrier, Collect, vars, locals, search, memory
  <1>2. \A t \in Threads : /\ pc'[t] \in {"freeing", "opening", "lookahead"} => pc'[t] = pc[t]
                           /\ AtHand(t)' => AtHand(t)
                           /\ InHand(t)' => InHand(t)
    BY DEF Barrier, Collect, vars, AtHand, InHand
  <1>3. FlushShape'
    BY <1>1, <1>2 DEF Control, FlushShape, EverClosed, Freed
  <1>4. ASSUME NEW k \in TeamIds
        PROVE  /\ Ids(k)' /\ OpenInterior(k)' /\ EmptyAtEnd(k)'
               /\ OnePlace(k) => OnePlace(k)'
               /\ OpenDistinct(k) => OpenDistinct(k)'
    <2>1. Ids(k) /\ OpenInterior(k) /\ EmptyAtEnd(k) /\ Members(k)' = Members(k)
      BY DEF Control, Members
    <2>2. Ids(k)' /\ EmptyAtEnd(k)'
      BY <1>1, <2>1 DEF Ids, EmptyAtEnd
    <2>3. OpenInterior(k)'
      BY <1>1, <1>2, <2>1, MembersType DEF OpenInterior, Interior, IsGoal, IsDead
    <2>4. OnePlace(k) => OnePlace(k)'
      BY <1>1, <1>2, <2>1, MembersType DEF OnePlace
    <2>5. OpenDistinct(k) => OpenDistinct(k)'
      BY <1>1 DEF OpenDistinct, EqualIn, ComparesId, SameRank, FValue
    <2>6. QED
      BY <2>2, <2>3, <2>4, <2>5
  <1>5. QED
    BY <1>3, <1>4

LEMMA ControlStep ==
  ASSUME TypeOK, Shape, Control, [Next]_vars
  PROVE  Control'
  <1>1. BoundsLow' /\ StopMeansPlan'
    BY BoundsLowStep, StopMeansPlanStep DEF Control
  <1>2. ASSUME NEW t \in Threads, ThreadStep(t)
        PROVE  Control'
    <2>1. FlushLast' /\ FlushShape' /\ LeavesRight'
      BY <1>2, FlushLastStep, FlushShapeStep, LeavesRightStep DEF Control
    <2>2. \A k \in TeamIds : Ids(k)' /\ OpenInterior(k)' /\ EmptyAtEnd(k)'
      BY <1>2, IdsStep, OpenInteriorStep, EmptyAtEndStep DEF Control
    <2>3. QED
      BY <1>1, <2>1, <2>2 DEF Control
  <1>3. CASE Barrier \/ Collect
    <2>1. FlushLast' /\ LeavesRight'
      BY <1>3, JointControl DEF Control
    <2>2. QED
      BY <1>1, <1>3, <2>1, JointLists DEF Control
  <1>4. CASE UNCHANGED vars
    <2>1. FlushLast' /\ LeavesRight'
      BY <1>4 DEF Control, FlushLast, LeavesRight, Flushing, Out, StopNow, vars, locals,
         search, memory
    <2>2. QED
      BY <1>1, <1>4, <2>1, JointLists DEF Control
  <1>5. QED
    BY <1>2, <1>3, <1>4 DEF Next, Terminating

LEMMA PlacedStep ==
  ASSUME TypeOK, Shape, Control, Strategy <= 1, Placed, [Next]_vars
  PROVE  Placed'
  <1>1. ASSUME NEW t \in Threads, ThreadStep(t), NEW k \in TeamIds
        PROVE  OnePlace(k)' /\ OpenDistinct(k)'
    BY <1>1, OnePlaceStep, OpenDistinctStep DEF Control, Placed
  <1>2. ASSUME Barrier \/ Collect \/ UNCHANGED vars, NEW k \in TeamIds
        PROVE  OnePlace(k)' /\ OpenDistinct(k)'
    BY <1>2, JointLists DEF Placed
  <1>3. QED
    BY <1>1, <1>2 DEF Placed, Next, Terminating

LEMMA ControlKept == Spec => []Control
  <1>1. TypeOK /\ Shape /\ Control /\ [Next]_vars => Control'
    BY ControlStep
  <1>2. QED
    BY <1>1, InitControl, TypeCorrect, PTL DEF Spec

(* A node taken from an open list is nowhere else, whatever the threads and
   the teams: the locks of the two lists and the order of the open list are
   enough, as long as every thread compares nodes in the same way.         *)
THEOREM NodesHeldOnce == Strategy <= 1 => (Spec => []HeldOnce)
  <1> SUFFICES ASSUME Strategy <= 1 PROVE Spec => []HeldOnce
    OBVIOUS
  <1>1. TypeOK /\ Shape /\ Control /\ Placed /\ [Next]_vars => Placed'
    BY PlacedStep
  <1>2. Placed => HeldOnce
    BY MembersType DEF Placed, OnePlace, HeldOnce
  <1>3. QED
    BY <1>1, <1>2, InitControl, TypeCorrect, ControlKept, PTL DEF Spec

-----------------------------------------------------------------------------
LEMMA ClosedType ==
  ASSUME TypeOK, NEW k \in TeamIds
  PROVE  EverClosed(k) \subseteq Node /\ Visited(k) \subseteq State
  <1>1. ASSUME NEW n \in Freed(k)
        PROVE  n \in Node
    <2>1. <<n, k>> \in freed
      BY FreedMember
    <2>2. QED
      BY <2>1 DEF TypeOK, MemoryTypes
  <1>2. EverClosed(k) \subseteq Node
    BY <1>1 DEF EverClosed, TypeOK, ListTypes
  <1>3. \A n \in EverClosed(k) : n.state \in State
    BY <1>2 DEF Node
  <1>4. Visited(k) \subseteq State
    BY <1>3 DEF Visited
  <1>5. QED
    BY <1>2, <1>4

(* What was closed once has been closed ever since.                        *)
LEMMA ClosedGrows ==
  ASSUME TypeOK, Shape, Control, [Next]_vars, NEW k \in TeamIds
  PROVE  EverClosed(k) \subseteq EverClosed(k)'
  <1>1. ASSUME NEW t \in Threads, ThreadStep(t)
        PROVE  EverClosed(k) \subseteq EverClosed(k)'
    BY <1>1, ClosedStep DEF Control
  <1>2. CASE Barrier \/ Collect \/ UNCHANGED vars
    BY <1>2 DEF Barrier, Collect, vars, search, memory, EverClosed, Freed
  <1>3. QED
    BY <1>1, <1>2 DEF Next, Terminating

(* A reason to cut the search does not go away.                            *)
LEMMA CutStays ==
  ASSUME TypeOK, Shape, Control, [Next]_vars, NEW k \in TeamIds, IsCut(k)
  PROVE  IsCut(k)'
  <1>1. CASE StopNow
    BY <1>1, StopStays DEF IsCut
  <1>2. CASE \E t \in Threads : best[t] < MaxTime
    <2>1. PICK t \in Threads : best[t] < MaxTime
      BY <1>2
    <2>2. TypeOK'
      BY TypeKept
    <2>3. best'[t] <= best[t] /\ best'[t] \in Nat /\ best[t] \in Nat
      BY <2>2, BoundStep DEF TypeOK, CounterTypes
    <2>4. best'[t] < MaxTime
      BY <2>1, <2>3, ProblemAssumption
    <2>5. QED
      BY <2>4 DEF IsCut
  <1>3. CASE ~StopNow /\ \E t \in Threads : ret[t] # Nil
    <2>1. PICK t \in Threads : ret[t] # Nil
      BY <1>3
    <2>2. Out(t) \/ pc[t] \in {"barrier", "tried"}
      BY <2>1 DEF Control, LeavesRight
    <2>3. ret'[t] = ret[t]
      <3>1. ASSUME NEW u \in Threads, ThreadStep(u), u # t
            PROVE  ret'[t] = ret[t]
        BY SMTT(60), <3>1, OthersUnchanged
      <3>2. ASSUME ThreadStep(t)
            PROVE  ret'[t] = ret[t]
        BY <2>2, <3>2 DEF Out, Flushing, ThreadStep, Begin, CloseInsert, CheckNode, Evaluate,
           GoalTest, Improve, OpenInsert, Lookahead, LoopTest, Pop, BeginWork, TryAction,
           Tried, EndWork, ExitCount, ExitList, Merge, FlushBegin, FlushEnd, locals
      <3>3. QED
        BY <3>1, <3>2 DEF Next, Terminating, Barrier, Collect, vars, locals
    <2>4. QED
      BY <2>1, <2>3 DEF IsCut
  <1>4. CASE \E n \in EverClosed(k) : TooLate(n)
    BY <1>4, ClosedGrows DEF IsCut, TooLate
  <1>5. QED
    BY <1>1, <1>2, <1>3, <1>4 DEF IsCut

(* What passes for a bound that is not lowered cuts the search.            *)
LEMMA LateCuts ==
  ASSUME TypeOK, Shape, NEW k \in TeamIds, NEW t \in Threads, NEW n \in EverClosed(k),
         \/ n.mk >= Bound(t)
         \/ n.mk + Look[n.state].dur > Bound(t)
  PROVE  IsCut(k)
  <1>1. Cell(t) \in Threads /\ Bound(t) \in Nat
    BY CellType DEF Bound, TypeOK, CounterTypes
  <1>2. n \in Node
    BY ClosedType
  <1>3. n.mk \in Nat /\ Look[n.state].dur \in Nat /\ MaxTime \in Nat
    BY <1>2, ProblemAssumption DEF Node
  <1>4. CASE Bound(t) < MaxTime
    BY <1>1, <1>4 DEF IsCut, Bound
  <1>5. CASE ~(Bound(t) < MaxTime)
    <2>1. TooLate(n)
      BY <1>1, <1>3, <1>5 DEF TooLate
    <2>2. QED
      BY <2>1 DEF IsCut
  <1>6. QED
    BY <1>4, <1>5

-----------------------------------------------------------------------------
(* What a team has pending, by where it comes from: what thread t has in
   hand, what the other threads have, what the open list holds.            *)
Mine(t)      == Here(t) \cup ToTry(t)
Theirs(t, k) == UNION {Mine(u) : u \in Members(k) \ {t}}
Opened(k)    == UNION {Sons(n.state) : n \in open[k]}

LEMMA PendingSplit ==
  ASSUME NEW k \in TeamIds, NEW t \in Members(k)
  PROVE  /\ Pending(k) = Mine(t) \cup Theirs(t, k) \cup Opened(k)
         /\ Pending(k)' = Mine(t)' \cup Theirs(t, k)' \cup Opened(k)'
  BY DEF Pending, Mine, Theirs, Opened, Members

LEMMA TheirsStay ==
  ASSUME TypeOK, NEW t \in Threads, ThreadStep(t), NEW k \in TeamIds
  PROVE  /\ \A u \in Threads : u # t => Here(u)' = Here(u) /\ Mine(u)' = Mine(u)
         /\ Theirs(t, k)' = Theirs(t, k)
  <1>1. ASSUME NEW u \in Threads, u # t
        PROVE  Here(u)' = Here(u) /\ Mine(u)' = Mine(u)
    <2>1. pc'[u] = pc[u] /\ cur'[u] = cur[u] /\ held'[u] = held[u] /\ todo'[u] = todo[u]
      BY <1>1, OthersUnchanged
    <2>2. Here(u)' = Here(u)
      BY <2>1 DEF Here
    <2>3. ToTry(u)' = ToTry(u)
      BY <2>1 DEF ToTry, NextTodo
    <2>4. QED
      BY <2>2, <2>3 DEF Mine
  <1>2. QED
    BY <1>1, MembersType DEF Theirs, Members

(* The steps that take what they have in hand one step further.            *)
LEMMA MineKept ==
  ASSUME TypeOK, Shape, NEW t \in Threads,
         \/ Begin(t) \/ Evaluate(t) \/ GoalTest(t) \/ Improve(t) \/ LoopTest(t)
         \/ BeginWork(t) \/ TryAction(t) \/ EndWork(t) \/ ExitCount(t) \/ ExitList(t) \/ Merge(t)
         \/ FlushBegin(t)
  PROVE  Mine(t)' = Mine(t)
  <1> USE OptionAssumption DEF Goto, Return, TypeOK, ThreadTypes, Mine, locals
  <1>1. ThreadShape(t)
    BY DEF Shape
  <1>2. CASE Begin(t)
    <2>1. held[t] = Nil /\ held'[t] = Nil
      BY <1>1, <1>2 DEF Begin, ThreadShape, Holding, Computing
    <2>2. CASE t < Teams
      <3>1. pc'[t] = "closing" /\ cur'[t].state = Root
        BY <1>2, <2>2, TeamsAssumption DEF Begin, RootNode, Threads
      <3>2. QED
        BY <1>2, <2>1, <2>2, <3>1 DEF Begin, Here, ToTry
    <2>3. CASE ~(t < Teams)
      <3>1. pc'[t] = "barrier"
        BY <1>2, <2>3 DEF Begin
      <3>2. QED
        BY <1>2, <2>1, <2>3, <3>1 DEF Begin, Here, ToTry
    <2>4. QED
      BY <2>2, <2>3
  <1>3. CASE Evaluate(t)
    <2>1. ToTry(t)' = ToTry(t)
      <3>1. pc[t] # "popped" /\ pc'[t] # "popped" /\ held' = held /\ todo' = todo
        BY <1>3 DEF Evaluate
      <3>2. QED
        BY <3>1 DEF ToTry, NextTodo
    <2>2. Here(t)' = Here(t)
      <3>1. CASE Interior(cur[t].state)
        BY <1>3, <3>1 DEF Evaluate, Here, Interior
      <3>2. CASE ~Interior(cur[t].state)
        <4>1. Sons(cur[t].state) = {}
          BY <3>2 DEF Sons
        <4>2. Here(t) = {}
          BY <1>3, <4>1 DEF Evaluate, Here
        <4>3. pc'[t] \in {"barrier", "tried", "goal"}
          BY <1>3, <3>2 DEF Evaluate, Interior
        <4>4. QED
          BY <4>2, <4>3 DEF Here
      <3>3. QED
        BY <3>1, <3>2
    <2>3. QED
      BY <2>1, <2>2
  <1>4. CASE GoalTest(t) \/ Improve(t)
    <2>1. Here(t)' = {} /\ Here(t) = {}
      BY <1>4 DEF GoalTest, Improve, Here
    <2>2. pc[t] # "popped" /\ pc'[t] # "popped" /\ held' = held /\ todo' = todo
      BY SMTT(60), <1>4 DEF GoalTest, Improve
    <2>3. ToTry(t)' = ToTry(t)
      BY <2>2 DEF ToTry, NextTodo
    <2>4. QED
      BY <2>1, <2>3
  <1>5. CASE LoopTest(t) \/ ExitCount(t) \/ ExitList(t) \/ Merge(t) \/ FlushBegin(t)
    BY <1>1, <1>5 DEF LoopTest, ExitCount, ExitList,
                      Merge, FlushBegin, ThreadShape, Holding,
       Computing, Here, ToTry
  <1>6. CASE BeginWork(t)
    BY ZenonT(120), <1>6 DEF BeginWork, Here, ToTry, NextTodo
  <1>7. CASE TryAction(t)
    <2>1. held[t] \in Node
      BY <1>1, <1>7 DEF TryAction, ThreadShape, Holding
    <2>2. PICK i \in Nat \ {0} : i = todo[t]
      OBVIOUS
    <2> DEFINE A == Acts[held[t].state]
    <2>3. Len(A) \in Nat
      BY <2>1, ProblemAssumption DEF Node
    <2>4. Here(t) = {} /\ ToTry(t) = {A[j].to : j \in i .. Len(A)}
      BY <1>1, <1>7, <2>2 DEF TryAction, ThreadShape, Holding, Here, ToTry, NextTodo
    <2>5. cur'[t].state = A[i].to /\ held' = held /\ todo'[t] = i + 1
      BY SMTT(30), <1>7, <2>2 DEF TryAction, Derive
    <2>6. Here(t)' = {A[i].to} /\ ToTry(t)' = {A[j].to : j \in i + 1 .. Len(A)}
      BY ZenonT(120), <1>1, <1>7, <2>5 DEF TryAction, ThreadShape, Holding, Here, ToTry, NextTodo
    <2>7. i .. Len(A) = {i} \cup (i + 1 .. Len(A))
      BY <1>7, <2>2, <2>3 DEF TryAction
    <2>8. QED
      BY SMTT(60), <2>4, <2>6, <2>7
  <1>8. CASE EndWork(t)
    <2>1. held[t] \in Node
      BY <1>1, <1>8 DEF EndWork, ThreadShape, Holding
    <2>2. Len(Acts[held[t].state]) \in Nat
      BY <2>1, ProblemAssumption DEF Node
    <2>3. Here(t) = {} /\ ToTry(t) = {}
      BY <1>8, <2>2 DEF EndWork, Here, ToTry, NextTodo
    <2>4. Here(t)' = {} /\ ToTry(t)' = {}
      BY <1>8 DEF EndWork, StopWork, Here, ToTry
    <2>5. QED
      BY <2>3, <2>4
  <1>9. QED
    BY <1>2, <1>3, <1>4, <1>5, <1>6, <1>7, <1>8

(* Only the insertion into the closed list makes a state visited.          *)
LEMMA VisitedKept ==
  ASSUME TypeOK, Shape, Control, NEW t \in Threads, ThreadStep(t), NEW k \in TeamIds,
         ~(k = TeamOf(t) /\ CloseInsert(t))
  PROVE  EverClosed(k)' = EverClosed(k) /\ Visited(k)' = Visited(k)
  BY ClosedStep DEF Control, Visited

(* A node a thread computes is a closed node of its team.                  *)
LEMMA HandsAreClosed ==
  ASSUME TypeOK, NEW k \in TeamIds, NEW t \in Members(k), OnePlace(k), AtHand(t)
  PROVE  cur[t] \in Node /\ cur[t] \in EverClosed(k) /\ cur[t].state \in State
  <1>1. cur[t] \in closed[k]
    BY DEF OnePlace
  <1>2. QED
    BY <1>1, ClosedType DEF EverClosed, Node

(* A closed list that gets a node gets a state that was not visited yet.   *)
LEMMA VisitsNew ==
  ASSUME TypeOK, Shape, Control, NEW t \in Threads, CloseInsert(t), NEW k \in TeamIds,
         k = TeamOf(t)
  PROVE  \/ /\ cur[t].state \in Visited(k) /\ closed' = closed
            /\ pc'[t] \in {"barrier", "tried"}
         \/ /\ cur[t].state \notin Visited(k)
            /\ pc'[t] = "checking" /\ cur'[t].state = cur[t].state
            /\ EverClosed(k)' = EverClosed(k) \cup {cur'[t]}
            /\ Visited(k)' = Visited(k) \cup {cur[t].state}
  <1>1. CASE cur[t].state \in ClosedStates(k)
    BY <1>1 DEF CloseInsert, ClosedStates, Visited, EverClosed, Return, Goto, TypeOK,
       ThreadTypes
  <1>2. CASE cur[t].state \notin ClosedStates(k)
    <2>1. Freed(k) = {}
      <3>1. ~Flushing(t)
        BY DEF CloseInsert, Flushing
      <3>2. freed = {}
        BY <3>1 DEF Control, FlushLast
      <3>3. QED
        BY <3>2 DEF Freed
    <2>2. cur[t].state \notin Visited(k)
      BY <1>2, <2>1 DEF Visited, EverClosed, ClosedStates
    <2>3. cur[t] \in Node
      BY DEF CloseInsert, Shape, ThreadShape, Computing, TypeOK, ThreadTypes
    <2>4. pc'[t] = "checking" /\ cur'[t].state = cur[t].state
      BY <1>2, <2>3 DEF CloseInsert, Goto, TypeOK, ThreadTypes, Node
    <2>5. closed'[k] = closed[k] \cup {cur'[t]} /\ freed' = freed
      BY <1>2 DEF CloseInsert, memory, TypeOK, ThreadTypes, ListTypes
    <2>6. EverClosed(k)' = EverClosed(k) \cup {cur'[t]}
      BY <2>5 DEF EverClosed, Freed
    <2>7. Visited(k)' = Visited(k) \cup {cur[t].state}
      BY <2>4, <2>6 DEF Visited
    <2>8. QED
      BY <2>2, <2>4, <2>6, <2>7
  <1>3. QED
    BY <1>1, <1>2

(* A node that is opened is put into the open list: no node in it has the
   rank and the id of the new one.                                         *)
LEMMA OpensIt ==
  ASSUME TypeOK, Strategy = 0, NEW t \in Threads, OpenInsert(t), NEW k \in TeamIds,
         k = TeamOf(t), OnePlace(k), Ids(k)
  PROVE  open'[k] = open[k] \cup {cur[t]}
  <1>1. cur[t] \in closed[k] /\ cur[t] \notin open[k] /\ open[k] \subseteq closed[k]
    BY MembersType DEF OnePlace, AtHand, InHand, OpenInsert
  <1>2. ASSUME NEW m \in open[k], EqualIn(t, m, cur[t])
        PROVE  FALSE
    <2>1. m.id = cur[t].id
      BY <1>2 DEF EqualIn, ComparesId
    <2>2. m = cur[t]
      BY <1>1, <2>1 DEF Ids
    <2>3. QED
      BY <1>1, <2>2
  <1>3. QED
    BY <1>2 DEF OpenInsert, Inserted, TypeOK, ListTypes

(* A step in the team of the thread that moves: nothing that is pending is
   forgotten unless the search is cut already, and a state is visited when
   it is pending.                                                          *)
LEMMA PendingStep ==
  ASSUME TypeOK, Shape, Control, Placed, Strategy = 0, NEW t \in Threads, ThreadStep(t),
         NEW k \in TeamIds, k = TeamOf(t), LookTried(k)
  PROVE  \/ /\ Visited(k)' = Visited(k)
            /\ Pending(k)' \ Visited(k) = Pending(k) \ Visited(k)
         \/ /\ Visited(k)' = Visited(k)
            /\ Pending(k)' \subseteq Pending(k) /\ IsCut(k)
         \/ \E s \in Pending(k) \ Visited(k) :
              /\ Visited(k)' = Visited(k) \cup {s}
              /\ Pending(k)' \ Visited(k)' = (Pending(k) \cup Sons(s)) \ Visited(k)'
  <1> DEFINE Stays == /\ Visited(k)' = Visited(k)
                      /\ Pending(k)' \ Visited(k) = Pending(k) \ Visited(k)
             Forgets == /\ Visited(k)' = Visited(k)
                        /\ Pending(k)' \subseteq Pending(k) /\ IsCut(k)
             Visits == \E s \in Pending(k) \ Visited(k) :
                         /\ Visited(k)' = Visited(k) \cup {s}
                         /\ Pending(k)' \ Visited(k)' =
                              (Pending(k) \cup Sons(s)) \ Visited(k)'
  <1> SUFFICES Stays \/ Forgets \/ Visits
    OBVIOUS
  <1>1. /\ t \in Members(k)
        /\ Pending(k) = Mine(t) \cup Theirs(t, k) \cup Opened(k)
        /\ Pending(k)' = Mine(t)' \cup Theirs(t, k) \cup Opened(k)'
    BY MembersType, PendingSplit, TheirsStay
  <1>2. OnePlace(k) /\ OpenDistinct(k) /\ Ids(k) /\ OpenInterior(k) /\ ThreadShape(t)
    BY DEF Placed, Control, Shape
  <1>3. CASE open' = open /\ Mine(t)' = Mine(t) /\ ~CloseInsert(t)
    <2>1. Opened(k)' = Opened(k)
      BY <1>3 DEF Opened
    <2>2. Stays
      BY <1>1, <1>3, <2>1, VisitedKept
    <2>3. QED
      BY <2>2
  <1>4. CASE open' = open /\ Mine(t)' \subseteq Mine(t) /\ ~CloseInsert(t) /\ IsCut(k)
    <2>1. Opened(k)' = Opened(k)
      BY <1>4 DEF Opened
    <2>2. Forgets
      BY <1>1, <1>4, <2>1, VisitedKept
    <2>3. QED
      BY <2>2
  <1>5. CASE CloseInsert(t)
    <2>1. Opened(k)' = Opened(k)
      BY <1>5 DEF CloseInsert, Opened
    <2>2. ToTry(t)' = ToTry(t)
      <3>1. pc[t] # "popped" /\ pc'[t] # "popped" /\ held' = held /\ todo' = todo
        BY <1>5 DEF CloseInsert, Return, Goto, TypeOK, ThreadTypes
      <3>2. QED
        BY <3>1 DEF ToTry, NextTodo
    <2>3. Here(t) = {cur[t].state}
      BY <1>5 DEF CloseInsert, Here
    <2>4. CASE cur[t].state \in Visited(k) /\ closed' = closed
               /\ pc'[t] \in {"barrier", "tried"}
      <3>1. Here(t)' = {}
        BY <2>4 DEF Here
      <3>2. Visited(k)' = Visited(k)
        BY <1>5, <2>4 DEF CloseInsert, Visited, EverClosed, Freed, memory
      <3>3. Stays
        BY <1>1, <2>1, <2>2, <2>3, <2>4, <3>1, <3>2 DEF Mine
      <3>4. QED
        BY <3>3
    <2>5. CASE /\ cur[t].state \notin Visited(k)
               /\ pc'[t] = "checking" /\ cur'[t].state = cur[t].state
               /\ Visited(k)' = Visited(k) \cup {cur[t].state}
      <3>1. Here(t)' = Sons(cur[t].state)
        BY <2>5 DEF Here
      <3>2. Pending(k)' \ Visited(k)' =
              (Pending(k) \cup Sons(cur[t].state)) \ Visited(k)'
        BY <1>1, <2>1, <2>2, <2>3, <2>5, <3>1 DEF Mine
      <3>3. cur[t].state \in Pending(k) \ Visited(k)
        BY <1>1, <2>3, <2>5 DEF Mine
      <3>4. Visits
        BY <2>5, <3>2, <3>3
      <3>5. QED
        BY <3>4
    <2>6. QED
      BY <1>5, <2>4, <2>5, VisitsNew
  <1>6. CASE CheckNode(t)
    <2>1. open' = open /\ ToTry(t)' = ToTry(t)
      <3>1. pc[t] # "popped" /\ pc'[t] # "popped" /\ held' = held /\ todo' = todo
        BY <1>6 DEF CheckNode, Return, Goto, TypeOK, ThreadTypes
      <3>2. QED
        BY <1>6, <3>1 DEF CheckNode, ToTry, NextTodo, search
    <2>2. CASE StopNow \/ cur[t].mk >= Bound(t)
      <3>1. cur[t] \in EverClosed(k)
        BY <1>1, <1>2, <1>6, HandsAreClosed DEF CheckNode, AtHand, InHand
      <3>2. IsCut(k)
        BY <2>2, <3>1, LateCuts DEF IsCut
      <3>3. Here(t)' = {}
        BY <1>6, <2>2 DEF CheckNode, Return, Goto, Here, TypeOK, ThreadTypes
      <3>4. QED
        BY <1>4, <1>6, <2>1, <3>2, <3>3 DEF Mine, CheckNode, CloseInsert
    <2>3. CASE ~(StopNow \/ cur[t].mk >= Bound(t))
      <3>1. Here(t)' = Here(t)
        BY <1>6, <2>3 DEF CheckNode, Goto, Here, TypeOK, ThreadTypes
      <3>2. QED
        BY <1>3, <1>6, <2>1, <3>1 DEF Mine, CheckNode, CloseInsert
    <2>4. QED
      BY <2>2, <2>3
  <1>7. CASE OpenInsert(t)
    <2>1. open'[k] = open[k] \cup {cur[t]}
      BY <1>2, <1>7, OpensIt
    <2>2. Opened(k)' = Opened(k) \cup Sons(cur[t].state)
      BY <2>1 DEF Opened
    <2>3. ToTry(t)' = ToTry(t)
      <3>1. pc[t] # "popped" /\ pc'[t] # "popped" /\ held' = held /\ todo' = todo
        BY <1>7 DEF OpenInsert, Goto, TypeOK, ThreadTypes
      <3>2. QED
        BY <3>1 DEF ToTry, NextTodo
    <2>4. Here(t) = Sons(cur[t].state)
      BY <1>7 DEF OpenInsert, Here
    <2>5. Here(t)' = {Look[cur[t].state].to}
      BY <1>7 DEF OpenInsert, Goto, Here, TypeOK, ThreadTypes
    <2>6. Look[cur[t].state].to \in Sons(cur[t].state)
      BY <1>1, <1>2, <1>7 DEF OpenInsert, OpenInterior, Sons
    <2>7. Stays
      BY <1>1, <1>7, <2>2, <2>3, <2>4, <2>5, <2>6, VisitedKept DEF Mine, OpenInsert, CloseInsert
    <2>8. QED
      BY <2>7
  <1>8. CASE Lookahead(t)
    <2> DEFINE l == Look[cur[t].state]
               son == Derive(cur[t], l.to, l.dur, l.steps)
    <2>1. open' = open /\ ToTry(t)' = ToTry(t)
      <3>1. pc[t] # "popped" /\ pc'[t] # "popped" /\ held' = held /\ todo' = todo
        BY <1>8 DEF Lookahead, Return, Goto, TypeOK, ThreadTypes
      <3>2. QED
        BY <1>8, <3>1 DEF Lookahead, ToTry, NextTodo, search
    <2>2. Here(t) = {l.to}
      BY <1>8 DEF Lookahead, Here
    <2>3. CASE son.mk > Bound(t)
      <3>1. cur[t] \in EverClosed(k)
        BY <1>1, <1>2, <1>8, HandsAreClosed DEF Lookahead, AtHand
      <3>2. cur[t].mk + l.dur > Bound(t)
        BY <2>3 DEF Derive
      <3>3. IsCut(k)
        BY <3>1, <3>2, LateCuts
      <3>4. Here(t)' = {}
        BY <1>8, <2>3 DEF Lookahead, Return, Goto, Here, TypeOK, ThreadTypes
      <3>5. QED
        BY <1>4, <1>8, <2>1, <3>3, <3>4 DEF Mine, Lookahead, CloseInsert
    <2>4. CASE ~(son.mk > Bound(t))
      <3>1. pc'[t] = "closing" /\ cur'[t].state = l.to
        BY <1>8, <2>4 DEF Lookahead, Goto, Derive, TypeOK, ThreadTypes
      <3>2. Here(t)' = Here(t)
        BY <2>2, <3>1 DEF Here
      <3>3. QED
        BY <1>3, <1>8, <2>1, <3>2 DEF Mine, Lookahead, CloseInsert
    <2>5. QED
      BY <2>3, <2>4
  <1>9. CASE Pop(t)
    <2>1. Here(t) = {} /\ ToTry(t) = {}
      BY <1>2, <1>9 DEF Pop, Here, ToTry, ThreadShape, Holding, Computing
    <2>2. CASE pc'[t] = "exit_check" /\ UNCHANGED <<open, held>>
      <3>1. Here(t)' = {} /\ ToTry(t)' = {}
        BY <1>2, <1>9, <2>2 DEF Pop, Here, ToTry, ThreadShape, Holding, Computing
      <3>2. QED
        BY <1>3, <1>9, <2>1, <2>2, <3>1 DEF Mine, Pop, CloseInsert
    <2>3. CASE /\ pc'[t] = "popped" /\ held'[t] \in open[k]
               /\ open'[k] = open[k] \ {held'[t]}
      <3>1. PICK n \in open[k] : n = held'[t]
        BY <2>3
      <3>2. n # Nil /\ Interior(n.state)
        BY <1>2, OptionAssumption DEF OpenInterior, TypeOK, ListTypes
      <3>3. Here(t)' = {} /\ ToTry(t)' = {Acts[n.state][i].to : i \in 1 .. Len(Acts[n.state])}
        BY <2>3, <3>1, <3>2 DEF Here, ToTry, NextTodo
      <3>4. Sons(n.state) = Mine(t)' \cup {Look[n.state].to}
        BY <3>2, <3>3 DEF Sons, Mine
      <3>5. Opened(k) = Opened(k)' \cup Sons(n.state)
        BY <2>3, <3>1 DEF Opened
      <3>6. Pending(k) = Pending(k)' \cup {Look[n.state].to}
        BY <1>1, <2>1, <3>4, <3>5 DEF Mine
      <3>7. Visited(k)' = Visited(k)
        BY <1>9, VisitedKept DEF Pop, CloseInsert
      <3>8. CASE IsCut(k)
        BY <3>6, <3>7, <3>8
      <3>9. CASE Look[n.state].to \in Visited(k)
        BY <3>6, <3>7, <3>9
      <3>10. CASE \E u \in Members(k) : Look[n.state].to \in Here(u)
        <4>1. PICK u \in Members(k) : Look[n.state].to \in Here(u)
          BY <3>10
        <4>2. u # t
          BY <2>1, <4>1
        <4>3. Look[n.state].to \in Theirs(t, k)
          BY <4>1, <4>2 DEF Theirs, Mine
        <4>4. Stays
          BY <1>1, <3>6, <3>7, <4>3
        <4>5. QED
          BY <4>4
      <3>11. QED
        BY <3>1, <3>8, <3>9, <3>10 DEF LookTried
    <2>4. QED
      BY <1>2, <1>9, <2>2, <2>3, PopTakes
  <1>10. CASE Tried(t)
    <2>1. open' = open /\ Here(t) = {} /\ Here(t)' = {}
      BY <1>10 DEF Tried, StopWork, Goto, Here, TypeOK, ThreadTypes
    <2>2. CASE ret[t] # Nil \/ StopNow
      <3>1. IsCut(k)
        BY <2>2 DEF IsCut
      <3>2. ToTry(t)' = {}
        BY <1>10, <2>2 DEF Tried, StopWork, ToTry, TypeOK, ThreadTypes
      <3>3. QED
        BY <1>4, <1>10, <2>1, <3>1, <3>2 DEF Mine, Tried, CloseInsert
    <2>3. CASE ~(ret[t] # Nil \/ StopNow)
      <3>1. pc[t] # "popped" /\ pc'[t] # "popped" /\ held' = held /\ todo' = todo
        BY <1>10, <2>3 DEF Tried, Goto, TypeOK, ThreadTypes
      <3>2. ToTry(t)' = ToTry(t)
        BY <3>1 DEF ToTry, NextTodo
      <3>3. QED
        BY <1>3, <1>10, <2>1, <3>2 DEF Mine, Tried, CloseInsert
    <2>4. QED
      BY <2>2, <2>3
  <1>11. CASE FlushEnd(t)
    <2>1. \A u \in Threads : Flushing(u)
      BY <1>11 DEF FlushEnd, Control, FlushLast, Flushing
    <2>2. Here(t) = {} /\ ToTry(t) = {} /\ Here(t)' = {} /\ ToTry(t)' = {}
      <3>1. held[t] = Nil /\ held' = held /\ pc[t] = "freeing" /\ pc'[t] = "halted"
        BY <1>2, <1>11 DEF FlushEnd, locals, Goto, ThreadShape, Holding, Computing, TypeOK,
           ThreadTypes
      <3>2. QED
        BY <3>1 DEF Here, ToTry
    <2>3. open'[k] = {}
      BY <1>11 DEF FlushEnd, TypeOK, ListTypes
    <2>4. Opened(k)' = {}
      BY <2>3 DEF Opened
    <2>5. Visited(k)' = Visited(k)
      BY <1>11, VisitedKept DEF FlushEnd, CloseInsert
    <2>6. CASE IsCut(k)
      BY <1>1, <2>2, <2>4, <2>5, <2>6 DEF Mine
    <2>7. CASE ~IsCut(k)
      <3>1. \A u \in Members(k) : open_empty[u]
        BY <2>1, <2>7, MembersType DEF Control, LeavesRight, Out, IsCut
      <3>2. open[k] = {}
        BY <3>1 DEF Control, EmptyAtEnd
      <3>3. Opened(k) = {}
        BY <3>2 DEF Opened
      <3>4. QED
        BY <1>1, <2>2, <2>4, <2>5, <3>3 DEF Mine
    <2>8. QED
      BY <2>6, <2>7
  <1>12. CASE \/ Begin(t) \/ Evaluate(t) \/ GoalTest(t) \/ Improve(t) \/ LoopTest(t)
              \/ BeginWork(t) \/ TryAction(t) \/ EndWork(t) \/ ExitCount(t) \/ ExitList(t) \/ Merge(t)
              \/ FlushBegin(t)
    <2>1. Mine(t)' = Mine(t)
      BY <1>12, MineKept
    <2>2. open' = open /\ ~CloseInsert(t)
      BY <1>12 DEF Begin, Evaluate, GoalTest, Improve, LoopTest, BeginWork, TryAction,
         EndWork, ExitCount, ExitList, Merge, FlushBegin, CloseInsert, search
    <2>3. QED
      BY <1>3, <2>1, <2>2
  <1>13. QED
    BY <1>5, <1>6, <1>7, <1>8, <1>9, <1>10, <1>11, <1>12 DEF ThreadStep

(* The lookahead of an open node stays tried, or the search is cut.        *)
LEMMA LookTriedStep ==
  ASSUME TypeOK, Shape, Control, Placed, Strategy = 0, NEW t \in Threads, ThreadStep(t),
         NEW k \in TeamIds, LookTried(k), ~IsCut(k)'
  PROVE  LookTried(k)'
  <1>1. ~IsCut(k)
    BY CutStays DEF Next
  <1>2. \A n \in open[k] :
          \/ Look[n.state].to \in Visited(k)
          \/ \E u \in Members(k) : /\ pc[u] \in {"lookahead", "closing"}
                                   /\ Look[n.state].to \in Here(u)
    BY <1>1 DEF LookTried
  <1>3. Visited(k) \subseteq Visited(k)'
    BY ClosedGrows DEF Visited, Next
  <1>4. \A u \in Threads : u # t => pc'[u] = pc[u] /\ Here(u)' = Here(u)
    BY OthersUnchanged, TheirsStay
  <1>5. OnePlace(k) /\ t \in Members(TeamOf(t)) /\ Members(k) \subseteq Threads
    BY MembersType DEF Placed
  <1> DEFINE Done(x) == \/ x \in Visited(k)'
                        \/ \E u \in Members(k) : /\ pc'[u] \in {"lookahead", "closing"}
                                                 /\ x \in Here(u)'
  <1>6. ASSUME NEW n \in open[k]
        PROVE  Done(Look[n.state].to)
    <2>1. CASE Look[n.state].to \in Visited(k)
      BY <1>3, <2>1
    <2>2. ASSUME NEW u \in Members(k), u # t, pc[u] \in {"lookahead", "closing"},
                 Look[n.state].to \in Here(u)
          PROVE  Done(Look[n.state].to)
      BY <1>4, <1>5, <2>2
    <2>3. ASSUME t \in Members(k), pc[t] = "closing", Look[n.state].to \in Here(t)
          PROVE  Done(Look[n.state].to)
      <3>1. k = TeamOf(t) /\ CloseInsert(t)
        BY <2>3 DEF Members, ThreadStep, Begin, CheckNode, Evaluate, GoalTest, Improve,
           OpenInsert, Lookahead, LoopTest, Pop, BeginWork, TryAction, Tried, EndWork,
           ExitCount, ExitList, Merge, FlushBegin, FlushEnd
      <3>2. Look[n.state].to = cur[t].state
        BY <2>3 DEF Here
      <3>3. cur[t].state \in Visited(k)'
        BY <1>3, <3>1, VisitsNew
      <3>4. QED
        BY <3>2, <3>3
    <2>4. ASSUME t \in Members(k), pc[t] = "lookahead", Look[n.state].to \in Here(t)
          PROVE  Done(Look[n.state].to)
      <3>1. Lookahead(t) /\ AtHand(t)
        BY <2>4 DEF AtHand, ThreadStep, Begin, CloseInsert, CheckNode, Evaluate, GoalTest,
           Improve, OpenInsert, LoopTest, Pop, BeginWork, TryAction, Tried, EndWork,
           ExitCount, ExitList, Merge, FlushBegin, FlushEnd
      <3> DEFINE l == Look[cur[t].state]
                 son == Derive(cur[t], l.to, l.dur, l.steps)
      <3>2. Look[n.state].to = l.to
        BY <2>4 DEF Here
      <3>3. ~(son.mk > Bound(t))
        <4>1. SUFFICES ASSUME cur[t].mk + l.dur > Bound(t) PROVE FALSE
          BY DEF Derive
        <4>2. cur[t] \in EverClosed(k)
          BY <1>5, <2>4, <3>1, HandsAreClosed
        <4>3. QED
          BY <1>1, <4>1, <4>2, LateCuts
      <3>4. pc'[t] = "closing" /\ cur'[t].state = l.to
        BY <3>1, <3>3 DEF Lookahead, Goto, Derive, TypeOK, ThreadTypes
      <3>5. Here(t)' = {l.to}
        BY <3>4 DEF Here
      <3>6. QED
        BY <2>4, <3>2, <3>4, <3>5
    <2>5. QED
      BY <1>2, <2>1, <2>2, <2>3, <2>4
  <1>7. ASSUME NEW n \in open'[k], n \notin open[k]
        PROVE  Done(Look[n.state].to)
    <2>1. k = TeamOf(t) /\ OpenInsert(t)
      BY <1>7, OpenShrinks
    <2>2. n = cur[t]
      BY <1>7, <2>1 DEF OpenInsert, Inserted, TypeOK, ListTypes
    <2>3. pc'[t] = "lookahead" /\ cur' = cur
      BY <2>1 DEF OpenInsert, Goto, TypeOK, ThreadTypes
    <2>4. Here(t)' = {Look[n.state].to}
      BY <2>2, <2>3 DEF Here
    <2>5. QED
      BY <1>5, <2>1, <2>3, <2>4
  <1>8. \A n \in open'[k] : Done(Look[n.state].to)
    BY <1>6, <1>7
  <1>9. QED
    BY <1>8 DEF LookTried, Members

(* A goal that was closed is still being looked at, or it cuts the search. *)
LEMMA GoalsSeenStep ==
  ASSUME TypeOK, Shape, Control, Placed, NEW t \in Threads, ThreadStep(t),
         NEW k \in TeamIds, GoalsSeen(k), ~IsCut(k)'
  PROVE  GoalsSeen(k)'
  <1> DEFINE L == {"checking", "counting", "goal", "improving"}
  <1>1. ~IsCut(k)
    BY CutStays DEF Next
  <1>2. \A n \in EverClosed(k) : IsGoal(n.state) =>
          \E u \in Members(k) : pc[u] \in L /\ cur[u] = n
    BY <1>1 DEF GoalsSeen
  <1>3. \A u \in Threads : u # t => pc'[u] = pc[u] /\ cur'[u] = cur[u]
    BY OthersUnchanged
  <1>4. OnePlace(k) /\ t \in Members(TeamOf(t)) /\ Members(k) \subseteq Threads
    BY MembersType DEF Placed
  <1>5. ASSUME NEW n \in EverClosed(k), IsGoal(n.state)
        PROVE  \E u \in Members(k) : pc'[u] \in L /\ cur'[u] = n
    <2>1. PICK u \in Members(k) : pc[u] \in L /\ cur[u] = n
      BY <1>2, <1>5
    <2>2. CASE u # t
      BY SMTT(60), <1>3, <1>4, <2>1, <2>2
    <2>3. CASE u = t
      <3>1. n.mk < Bound(t) \/ IsCut(k)
        <4>1. n.mk \in Nat /\ Bound(t) \in Nat
          BY ClosedType, CellType DEF Node, Bound, TypeOK, CounterTypes
        <4>2. QED
          BY <4>1, LateCuts
      <3>2. CASE CheckNode(t)
        <4>1. ~StopNow /\ ~(n.mk >= Bound(t))
          <5>1. n.mk \in Nat /\ Bound(t) \in Nat
            BY ClosedType, CellType DEF Node, Bound, TypeOK, CounterTypes
          <5>2. QED
            BY <1>1, <3>1, <5>1 DEF IsCut
        <4>2. pc'[t] = "counting" /\ cur' = cur
          BY <2>1, <2>3, <3>2, <4>1 DEF CheckNode, Goto, TypeOK, ThreadTypes
        <4>3. QED
          BY <2>1, <2>3, <4>2
      <3>3. CASE Evaluate(t)
        <4>1. ~IsDead(n.state)
          BY <1>5, ProblemAssumption DEF IsGoal, IsDead
        <4>2. CASE ~Anytime
          <5>1. ret'[t] = n /\ n # Nil
            BY <1>5, <2>1, <2>3, <3>3, <4>1, <4>2, ClosedType, OptionAssumption
               DEF Evaluate, Return, TypeOK, ThreadTypes
          <5>2. QED
            BY <5>1 DEF IsCut
        <4>3. CASE Anytime
          BY <1>5, <2>1, <2>3, <3>3, <4>1, <4>3 DEF Evaluate, Goto, TypeOK, ThreadTypes
        <4>4. QED
          BY <4>2, <4>3
      <3>4. CASE GoalTest(t)
        BY <1>1, <2>1, <2>3, <3>1, <3>4 DEF GoalTest, Goto, TypeOK, ThreadTypes
      <3>5. CASE Improve(t)
        <4>1. Cell(t) \in Threads /\ best[Cell(t)] <= MaxTime
          BY CellType DEF Control, BoundsLow
        <4>2. best'[Cell(t)] = n.mk
          BY <1>1, <2>1, <2>3, <3>1, <3>5, <4>1
             DEF Improve, Lowered, Bound, TypeOK, CounterTypes
        <4>3. n.mk < MaxTime
          <5>1. n.mk \in Nat /\ best[Cell(t)] \in Nat /\ MaxTime \in Nat
            BY <4>1, ClosedType, ProblemAssumption DEF Node, TypeOK, CounterTypes
          <5>2. QED
            BY <1>1, <3>1, <4>1, <5>1 DEF Bound
        <4>4. QED
          BY <4>1, <4>2, <4>3 DEF IsCut
      <3>6. QED
        BY <2>1, <2>3, <3>2, <3>3, <3>4, <3>5 DEF ThreadStep, Begin, CloseInsert,
           OpenInsert, Lookahead, LoopTest, Pop, BeginWork, TryAction, Tried, EndWork,
           ExitCount, ExitList, Merge, FlushBegin, FlushEnd
    <2>4. QED
      BY <2>2, <2>3
  <1>6. ASSUME NEW n \in EverClosed(k)', n \notin EverClosed(k)
        PROVE  \E u \in Members(k) : pc'[u] \in L /\ cur'[u] = n
    <2>1. /\ k = TeamOf(t) /\ pc'[t] = "checking"
          /\ EverClosed(k)' = EverClosed(k) \cup {cur'[t]}
      BY <1>6, ClosedStep DEF Control
    <2>2. QED
      BY <1>4, <1>6, <2>1
  <1>7. QED
    BY <1>5, <1>6 DEF GoalsSeen, Members, IsGoal

(* A step of a team is a step of GraphSearch, or changes nothing in it.    *)
LEMMA TeamStep ==
  ASSUME TypeOK, Shape, Control, Placed, Strategy = 0, NEW t \in Threads, ThreadStep(t),
         NEW k \in TeamIds, LookTried(k)
  PROVE  \/ /\ Visited(k)' = Visited(k)
            /\ Pending(k)' \ Visited(k) = Pending(k) \ Visited(k)
         \/ /\ Visited(k)' = Visited(k)
            /\ Pending(k)' \subseteq Pending(k) /\ IsCut(k)
         \/ \E s \in Pending(k) \ Visited(k) :
              /\ Visited(k)' = Visited(k) \cup {s}
              /\ Pending(k)' \ Visited(k)' = (Pending(k) \cup Sons(s)) \ Visited(k)'
  <1>1. CASE k = TeamOf(t)
    BY <1>1, PendingStep
  <1>2. CASE k # TeamOf(t)
    <2>1. open'[k] = open[k] /\ t \notin Members(k)
      BY <1>2, OtherTeam
    <2>2. \A u \in Members(k) : Here(u)' = Here(u) /\ Mine(u)' = Mine(u)
      BY <2>1, MembersType, TheirsStay
    <2>3. Visited(k)' = Visited(k)
      BY <1>2, VisitedKept
    <2>4. Pending(k) = (UNION {Mine(u) : u \in Members(k)}) \cup Opened(k)
      BY DEF Pending, Mine, Opened
    <2>5. Pending(k)' = (UNION {Mine(u)' : u \in Members(k)}) \cup Opened(k)
      BY <2>1 DEF Pending, Mine, Opened, Members
    <2>6. QED
      BY <2>2, <2>3, <2>4, <2>5
  <1>3. QED
    BY <1>1, <1>2

(* The joint steps change nothing in what a team has visited, has pending
   or looks at.                                                            *)
LEMMA JointSearch ==
  ASSUME TypeOK, Shape, Barrier \/ Collect \/ UNCHANGED vars, NEW k \in TeamIds
  PROVE  /\ Visited(k)' = Visited(k) /\ Pending(k)' = Pending(k)
         /\ IsCut(k)' = IsCut(k)
         /\ LookTried(k) => LookTried(k)'
         /\ GoalsSeen(k) => GoalsSeen(k)'
  <1>1. UNCHANGED <<open, closed, freed, held, cur, todo, ret, best, stop_search, evaluated>>
    BY DEF Barrier, Collect, vars, locals, search, memory
  <1>2. EverClosed(k)' = EverClosed(k) /\ Visited(k)' = Visited(k)
    BY <1>1 DEF EverClosed, Freed, Visited
  <1>3. \A u \in Threads :
          \/ pc'[u] = pc[u]
          \/ /\ pc[u] \in {"barrier", "joined"} /\ pc'[u] \in {"merge", "loop", "flush"}
             /\ held[u] = Nil
    BY DEF Barrier, Collect, vars, Shape, ThreadShape, Holding, Computing
  <1>4. ASSUME NEW u \in Threads
        PROVE  Here(u)' = Here(u) /\ ToTry(u)' = ToTry(u)
    <2>1. CASE pc'[u] = pc[u]
      BY <1>1, <2>1 DEF Here, ToTry, NextTodo
    <2>2. CASE /\ pc[u] \in {"barrier", "joined"} /\ pc'[u] \in {"merge", "loop", "flush"}
               /\ held[u] = Nil
      BY <1>1, <2>2 DEF Here, ToTry
    <2>3. QED
      BY <1>3, <2>1, <2>2
  <1>5. Pending(k)' = Pending(k)
    <2>1. \A u \in Members(k) : Here(u)' = Here(u) /\ ToTry(u)' = ToTry(u)
      BY <1>4, MembersType
    <2>2. Pending(k)' = (UNION {Here(u)' \cup ToTry(u)' : u \in Members(k)})
                        \cup (UNION {Sons(n.state) : n \in open[k]})
      BY <1>1 DEF Pending, Members
    <2>3. QED
      BY <2>1, <2>2 DEF Pending
  <1>6. IsCut(k)' = IsCut(k)
    BY <1>1, <1>2 DEF IsCut, StopNow, TooLate
  <1>7. LookTried(k) => LookTried(k)'
    BY <1>1, <1>2, <1>3, <1>4, <1>6, MembersType DEF LookTried, Members
  <1>8. GoalsSeen(k) => GoalsSeen(k)'
    BY <1>1, <1>2, <1>3, <1>6, MembersType DEF GoalsSeen, Members, IsGoal
  <1>9. QED
    BY <1>2, <1>5, <1>6, <1>7, <1>8

-----------------------------------------------------------------------------
(* The part of the invariant that strategy 0 keeps: an open node is never
   refused, so nothing is lost.                                            *)
Covered == \A k \in TeamIds : LookTried(k) /\ GoalsSeen(k) /\ Explored(k)

LEMMA InitCovered == Init => Covered /\ \A k \in TeamIds : Team(k)!Init
  <1> SUFFICES ASSUME Init, NEW k \in TeamIds
               PROVE  LookTried(k) /\ GoalsSeen(k) /\ Explored(k) /\ Team(k)!Init
    BY DEF Covered
  <1>1. EverClosed(k) = {} /\ Visited(k) = {}
    BY DEF Init, EverClosed, Freed, Visited
  <1>2. \A t \in Threads : Here(t) = (IF t < Teams THEN {Root} ELSE {}) /\ ToTry(t) = {}
    BY DEF Init, Here, ToTry
  <1>3. k \in Members(k) /\ k < Teams
    BY TeamsAssumption DEF Members, TeamOf, TeamIds, Threads
  <1>4. Pending(k) = {Root}
    BY <1>2, <1>3, MembersType DEF Init, Pending
  <1>5. LookTried(k) /\ GoalsSeen(k)
    BY <1>1 DEF Init, LookTried, GoalsSeen
  <1>6. Explored(k)
    BY <1>1, <1>4 DEF Explored
  <1>7. IsCut(k) \in BOOLEAN
    BY DEF IsCut
  <1>8. QED
    BY <1>1, <1>4, <1>5, <1>6, <1>7 DEF Team!Init

(* Every step, of a thread or of all of them, in the terms of GraphSearch. *)
LEMMA SearchStep ==
  ASSUME TypeOK, Shape, Control, Placed, Covered, Strategy = 0, [Next]_vars,
         NEW k \in TeamIds
  PROVE  /\ Team(k)!Next \/ UNCHANGED Team(k)!gvars
         /\ Explored(k)'
  <1>1. LookTried(k) /\ Explored(k)
    BY DEF Covered
  <1>2. \/ /\ Visited(k)' = Visited(k)
           /\ Pending(k)' \ Visited(k) = Pending(k) \ Visited(k)
        \/ /\ Visited(k)' = Visited(k)
           /\ Pending(k)' \subseteq Pending(k) /\ IsCut(k)
        \/ \E s \in Pending(k) \ Visited(k) :
             /\ Visited(k)' = Visited(k) \cup {s}
             /\ Pending(k)' \ Visited(k)' = (Pending(k) \cup Sons(s)) \ Visited(k)'
    <2>1. ASSUME Barrier \/ Collect \/ UNCHANGED vars
          PROVE  Visited(k)' = Visited(k) /\ Pending(k)' = Pending(k)
      BY <2>1, JointSearch
    <2>2. QED
      BY <1>1, <2>1, TeamStep DEF Next, Terminating
  <1>3. IsCut(k) \in BOOLEAN /\ IsCut(k)' \in BOOLEAN /\ (IsCut(k) => IsCut(k)')
    BY CutStays DEF IsCut
  <1>4. CASE /\ Visited(k)' = Visited(k)
             /\ Pending(k)' \ Visited(k) = Pending(k) \ Visited(k)
    <2>1. Team(k)!Next \/ UNCHANGED Team(k)!gvars
      <3>1. CASE IsCut(k)'
        <4>1. Team(k)!Cut
          BY <1>4, <3>1, <1>3 DEF Team!Cut
        <4>2. QED
          BY <4>1 DEF Team!Next
      <3>2. CASE ~IsCut(k)'
        <4>1. IsCut(k)' = IsCut(k)
          BY <1>3, <3>2
        <4>2. QED
          BY <1>4, <4>1 DEF Team!gvars
      <3>3. QED
        BY <3>1, <3>2
    <2>2. Explored(k)'
      BY <1>1, <1>3, <1>4 DEF Explored
    <2>3. QED
      BY <2>1, <2>2
  <1>5. CASE /\ Visited(k)' = Visited(k)
             /\ Pending(k)' \subseteq Pending(k) /\ IsCut(k)
    <2>1. Team(k)!Cut
      BY <1>3, <1>5 DEF Team!Cut
    <2>2. QED
      BY <1>3, <1>5, <2>1 DEF Team!Next, Explored
  <1>6. CASE \E s \in Pending(k) \ Visited(k) :
               /\ Visited(k)' = Visited(k) \cup {s}
               /\ Pending(k)' \ Visited(k)' = (Pending(k) \cup Sons(s)) \ Visited(k)'
    <2>1. PICK s \in Pending(k) \ Visited(k) :
            /\ Visited(k)' = Visited(k) \cup {s}
            /\ Pending(k)' \ Visited(k)' = (Pending(k) \cup Sons(s)) \ Visited(k)'
      BY <1>6
    <2>2. Team(k)!Visit(s)
      BY <1>3, <2>1 DEF Team!Visit
    <2>3. Explored(k)'
      <3> SUFFICES ASSUME ~IsCut(k)'
                   PROVE  /\ Root \in Visited(k)' \cup Pending(k)'
                          /\ \A u \in Visited(k)' : Sons(u) \subseteq Visited(k)' \cup Pending(k)'
        BY DEF Explored
      <3>1. /\ Root \in Visited(k) \cup Pending(k)
            /\ \A u \in Visited(k) : Sons(u) \subseteq Visited(k) \cup Pending(k)
        BY <1>1, <1>3 DEF Explored
      <3>2. Visited(k) \cup Pending(k) \cup Sons(s) \subseteq Visited(k)' \cup Pending(k)'
        BY <2>1
      <3>3. QED
        BY <2>1, <3>1, <3>2
    <2>4. QED
      BY <2>1, <2>2, <2>3 DEF Team!Next
  <1>7. QED
    BY <1>2, <1>4, <1>5, <1>6

LEMMA CoveredStep ==
  ASSUME TypeOK, Shape, Control, Placed, Covered, Strategy = 0, [Next]_vars
  PROVE  Covered'
  <1> SUFFICES ASSUME NEW k \in TeamIds
               PROVE  LookTried(k)' /\ GoalsSeen(k)' /\ Explored(k)'
    BY DEF Covered
  <1>1. LookTried(k) /\ GoalsSeen(k)
    BY DEF Covered
  <1>2. LookTried(k)' /\ GoalsSeen(k)'
    <2>1. CASE IsCut(k)'
      BY <2>1 DEF LookTried, GoalsSeen
    <2>2. ASSUME ~IsCut(k)', NEW t \in Threads, ThreadStep(t)
          PROVE  LookTried(k)' /\ GoalsSeen(k)'
      BY <1>1, <2>2, LookTriedStep, GoalsSeenStep
    <2>3. ASSUME Barrier \/ Collect \/ UNCHANGED vars
          PROVE  LookTried(k)' /\ GoalsSeen(k)'
      BY <1>1, <2>3, JointSearch
    <2>4. QED
      BY <2>1, <2>2, <2>3 DEF Next, Terminating
  <1>3. QED
    BY <1>2, SearchStep

(* What the invariants say when every thread has left the search.          *)
LEMMA EndIsProof ==
  ASSUME TypeOK, Shape, Control, Covered, ShortestKept
  PROVE  NoPlanIsProof
  <1> SUFFICES ASSUME AllJoined, best_node = Nil, evaluated < Limit,
                      ~\E t \in Threads : best[t] < MaxTime,
                      NEW k \in TeamIds, ~\E n \in EverClosed(k) : TooLate(n)
               PROVE  open[k] = {} /\ \A s \in Team(k)!Reach : ~IsGoal(s)
    BY DEF NoPlanIsProof
  <1>1. \A t \in Threads : ret[t] = Nil
    BY DEF AllJoined, ShortestKept
  <1>2. ~StopNow
    BY OptionAssumption DEF StopNow, Control, StopMeansPlan, TypeOK, FlagTypes, CounterTypes
  <1>3. ~IsCut(k)
    BY <1>1, <1>2 DEF IsCut
  <1>4. \A t \in Threads : Out(t) /\ open_empty[t]
    BY <1>1, <1>2 DEF AllJoined, Out, Flushing, Control, LeavesRight
  <1>5. open[k] = {}
    BY <1>4, MembersType DEF Control, EmptyAtEnd
  <1>6. ASSUME NEW t \in Threads
        PROVE  Here(t) = {} /\ ToTry(t) = {}
    BY DEF AllJoined, Here, ToTry, Shape, ThreadShape, Holding, Computing
  <1>7. Pending(k) = {}
    BY <1>5, <1>6, MembersType DEF Pending
  <1>8. Team(k)!Reach \subseteq Visited(k)
    <2>1. Visited(k) \subseteq State
      BY ClosedType
    <2>2. Team(k)!ClosedUnderSons(Visited(k))
      BY <1>3, <1>7 DEF Covered, Explored, Team!ClosedUnderSons
    <2>3. QED
      BY <2>1, <2>2 DEF Team!Reach
  <1>9. ASSUME NEW s \in Visited(k), IsGoal(s)
        PROVE  FALSE
    <2>1. PICK n \in EverClosed(k) : n.state = s
      BY DEF Visited
    <2>2. PICK t \in Members(k) : pc[t] \in {"checking", "counting", "goal", "improving"}
      BY <1>3, <1>9, <2>1 DEF Covered, GoalsSeen
    <2>3. QED
      BY <2>2, MembersType DEF AllJoined
  <1>10. QED
    BY <1>5, <1>8, <1>9

-----------------------------------------------------------------------------
(* Under strategy 0 each team implements GraphSearch, for every number of
   threads and of teams: no interleaving loses a state that has to be tried,
   or visits one twice.                                                    *)
THEOREM TeamsSearch == Strategy = 0 => (Spec => TeamSearches)
  <1> SUFFICES ASSUME Strategy = 0 PROVE Spec => TeamSearches
    OBVIOUS
  <1>1. Strategy <= 1
    OBVIOUS
  <1>2. TypeOK /\ Shape /\ Control /\ Placed /\ Covered /\ [Next]_vars =>
          /\ Placed' /\ Covered'
          /\ [\A k \in TeamIds : Team(k)!Next \/ UNCHANGED Team(k)!gvars]_vars
    BY <1>1, PlacedStep, CoveredStep, SearchStep
  <1>3. Init => \A k \in TeamIds : Team(k)!Init
    BY InitCovered
  <1>4. QED
    BY <1>2, <1>3, InitControl, InitCovered, TypeCorrect, ControlKept, PTL
       DEF Spec, TeamSearches

(* The answer NO_PLAN is right: a search that was not cut has looked at
   every reachable state, and none of them is a goal.                      *)
THEOREM NoPlanProved == Strategy = 0 => (Spec => []NoPlanIsProof)
  <1> SUFFICES ASSUME Strategy = 0 PROVE Spec => []NoPlanIsProof
    OBVIOUS
  <1>1. Strategy <= 1
    OBVIOUS
  <1>2. TypeOK /\ Shape /\ Control /\ Placed /\ Covered /\ [Next]_vars =>
          Placed' /\ Covered'
    BY <1>1, PlacedStep, CoveredStep
  <1>3. TypeOK /\ Shape /\ Control /\ Covered /\ ShortestKept => NoPlanIsProof
    BY EndIsProof
  <1>4. QED
    BY <1>2, <1>3, InitControl, InitCovered, TypeCorrect, ControlKept, ShortestIsKept, PTL
       DEF Spec

=============================================================================
