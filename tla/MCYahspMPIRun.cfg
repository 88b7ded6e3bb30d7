CONSTANTS
  NbProcs = 3
  State <- States
  Root = 1
  Owner <- Owners
  Weight = 3
  MaxTime = 20
  CacheMax = 2
  Boost = 100
  Settings <- RunSettings
  Nil = Nil
SPECIFICATION FairSpec
INVARIANTS PlansGathered RoundsMatch
PROPERTIES ProcsSearch BoundsOnlyImprove AllTried SolutionsGiven
