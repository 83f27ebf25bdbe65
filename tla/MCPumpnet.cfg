SPECIFICATION Spec
CONSTANTS
  t1 = t1
  t2 = t2
  d1 = d1
  d2 = d2
  Threads = {t1, t2}
  Files = {f}
  Data = {d1, d2}
  NoData = NoData
  NoCall = NoCall
  Saved = Saved
  Failed = Failed
  RETRY_COUNT_ON_ERROR = 2
  MaxCalls <- TwoAndOne
PROPERTY ImplementsStore
SYMMETRY Symmetry
CHECK_DEADLOCK FALSE
