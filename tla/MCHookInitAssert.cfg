SPECIFICATION LazySpec
CONSTANTS
  t1 = t1
  t2 = t2
  t3 = t3
  Callers = {t1, t2, t3}
INVARIANT AssertionHolds
CHECK_DEADLOCK FALSE
