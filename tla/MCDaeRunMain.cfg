SPECIFICATION FairSpec
CONSTANTS
  Threads = {t1}
  PopSize = 2
  Offsprings = 2
  Outcomes <- RunOutcomes
  Worst = 9
  GoodMin = 2
  Fixed = {0, 2}
  BMaxInit = 4
  Coef = 2
  MinGens = 1
  MaxGens = 2
  MaxRuns = 3
  Timed = TRUE
INVARIANTS LastFileIsBest BestKept EstimateJustified RunsFull
PROPERTY Terminates
