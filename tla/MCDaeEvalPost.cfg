SPECIFICATION Spec
CONSTANTS
  Fluent <- PostFluents
  Ops <- PostOps
  Pre <- PostPre
  Add <- PostAdd
  Del <- PostDel
  Dur <- PostDur
  Cost <- PostOnes
  InitState <- PostInit
  GoalState <- PostGoal
  Mates <- PostMates
  Date <- PostDate
  Mutexes <- PostMutexes
  Radius = 1
  LMax = 3
  BIn = 1
  BLast = 2
  Weight = 10
  Penalty = 2
  Horizon = 2
  Rounds = 2
  Sequential = FALSE
  ActionCosts = FALSE
  Random = FALSE
  MaxTime = 100
INVARIANTS GoalsConsistent DatesUsable SubplansFollow PlanSound
CHECK_DEADLOCK FALSE
