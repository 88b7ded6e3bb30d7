SPECIFICATION FairSpec
CONSTANTS
  Fluent <- KeysFluents
  Ops <- KeysOps
  Pre <- KeysPre
  Add <- KeysAdd
  Del <- KeysDel
  Dur <- KeysDur
  Cost <- KeysCost
  InitState <- KeysInit
  Queries <- KeysQueries
  Mutex <- MCMutex
  Sequential = FALSE
  ActionCosts = FALSE
  Random = TRUE
  MaxTime = 1000
  AnytimeModes = {TRUE, FALSE}
  Calls = 2
  Settings = {"cost", "makespan_max"}
  Weight = 3
  Dae = TRUE
INVARIANTS PathsExecute NothingLost StepsFit
PROPERTIES AnswersCalls Returns
CHECK_DEADLOCK FALSE
