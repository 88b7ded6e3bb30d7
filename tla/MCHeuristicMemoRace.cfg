SPECIFICATION FairSpec
CONSTANTS
  Fluent <- RoadFluents
  Ops <- RoadOps
  Pre <- RoadPre
  Add <- RoadAdd
  Del <- RoadDel
  Dur <- RoadDur
  Cost <- RoadCost
  InitState <- RoadInit
  Tasks <- RaceTasks
  Threads = {t1, t2}
  Runs = 1
  Sequential = FALSE
  ActionCosts = FALSE
  Random = FALSE
  MaxTime = 100
INVARIANTS ConclusionsRight EntriesSafe
PROPERTY Returns
CHECK_DEADLOCK FALSE
