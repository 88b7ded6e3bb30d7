CONSTANTS
  NbThreads = 3
  Teams = 1
  State <- LostStates
  Root = 1
  Acts <- LostActs
  Heur <- LostHeur
  Look <- LostLook
  Weight = 3
  Limit = 20
  MaxTime = 20
  Anytime = FALSE
  Duplicate = FALSE
  Strategy = 0
  Random = FALSE
  Nil = Nil
SPECIFICATION FairSpec
INVARIANTS NoPlanIsProof
PROPERTIES TeamSearches Terminates
