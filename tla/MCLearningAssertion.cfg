CONSTANTS
  p1 = p1
  p2 = p2
  t1 = t1
  t2 = t2
  None = None
  Pets = {p1, p2}
  Tricks = {t1, t2}
  Teaches <- MCTeaches
  Hard = {t2}
  MayDie = {}
  MaxQueue = 2
  MaxAnswers = 1
SPECIFICATION Spec
INVARIANT NoAssertionFails
CHECK_DEADLOCK FALSE
