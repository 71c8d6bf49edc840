CONSTANTS
  p1 = p1
  p2 = p2
  t1 = t1
  t2 = t2
  None = None
  Pets = {p1, p2}
  Tricks = {t1, t2}
  Teaches <- MCTeaches
  Hard = {t2}
  MayDie = {p2}
  MaxQueue = 2
  MaxAnswers = 1
SPECIFICATION LearningSpec
INVARIANTS LearningTypeOK BusyHasLearner BusyHasOwner PausedForReward
PROPERTY StoppedTrickArrives
CHECK_DEADLOCK FALSE
