CONSTANTS
  NbThreads = 3
  Teams = 1
  State <- FanStates
  Root = 1
  Acts <- FanActs
  Heur <- FanHeur
  Look <- FanLook
  Weight = 3
  Limit = 5
  MaxTime = 20
  Anytime = FALSE
  Duplicate = FALSE
  Strategy = 0
  Random = FALSE
  Nil = Nil
SPECIFICATION Spec
INVARIANTS HeldOnce ShortestKept LimitOvershoot
