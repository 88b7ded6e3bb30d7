SPECIFICATION FairSpec
CONSTANTS
  Problems <- MCProblems
  Options <- MCOptions
  MaxTime = 100
  MaxMakespan = 6
  MaxBacktracks = 2
  FirstLimit = 1
  Increment = 1
  MaxTries = 2
  Unlimited = 1000
INVARIANTS MutexesSound AnswerRight
PROPERTY Finishes
