CONSTANTS
  NbThreads = 2
  Teams = 1
  State <- DiamondStates
  Root = 1
  Acts <- DiamondActs
  Heur <- DiamondHeur
  Look <- DiamondLook
  Weight = 3
  Limit = 20
  MaxTime = 20
  Anytime = FALSE
  Duplicate = FALSE
  Strategy = 0
  Random = FALSE
  Nil = Nil
SPECIFICATION Spec
INVARIANTS NodeFreedOnce
