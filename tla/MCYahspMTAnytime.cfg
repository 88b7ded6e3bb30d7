CONSTANTS
  NbThreads = 2
  Teams = 2
  State <- DiamondStates
  Root = 1
  Acts <- DiamondActs
  Heur <- DiamondHeur
  Look <- DiamondLook
  Weight = 3
  Limit = 20
  MaxTime = 20
  Anytime = TRUE
  Duplicate = FALSE
  Strategy = 0
  Random = TRUE
  Nil = Nil
SPECIFICATION Spec
INVARIANTS TypeOK WorkingCount
PROPERTIES BoundOnlyImproves
