SPECIFICATION Spec
CONSTANTS
  Threads = {t1, t2}
  PopSize = 2
  Offsprings = 2
  Outcomes <- RunOutcomes
  Worst = 9
  GoodMin = 2
  Fixed = {2}
  BMaxInit = 4
  Coef = 2
  MinGens = 1
  MaxGens = 2
  MaxRuns = 1
  Timed = FALSE
INVARIANT LastFileIsBest
