CONSTANTS
  t1 = t1
  t2 = t2
  t3 = t3
  Tasks = {t1, t2, t3}
  Ops = {"turn", "compact", "new", "erase"}
  c1 = c1
  c2 = c2
  c3 = c3
  Convs = {c1, c2, c3}
  None = None
  MaxAtOnce = 2
  MaxMishaps = 1
  DbAnswers = {TRUE}
SPECIFICATION Spec
SYMMETRY Symmetry
CHECK_DEADLOCK FALSE
INVARIANTS
  UsageOnOneRow
  HistoryKept
  ErasedStaysErased
  FullContextRetried
