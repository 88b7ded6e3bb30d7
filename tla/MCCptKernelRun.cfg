SPECIFICATION Spec
CONSTANTS
  s1 = s1
  s2 = s2
  d1 = d1
  Enums = {s1, s2}
  Bounds = {d1}
  Problems <- MCProblems
  Limit = 1
  MaxWorld <- MCMaxWorld
  NoVar = NoVar
CHECK_DEADLOCK FALSE
INVARIANT WorldRestored
INVARIANT DomainLinked
INVARIANT EventsKept
PROPERTY LoopGoesOn
PROPERTY ChangesAnnounced
