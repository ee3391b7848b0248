\* One turn slot of one user; the requests it gave up overlap its later ones.
CONSTANTS
  User = {u1}
  Turn = {t1}
  Conn = {k1, k2}
  Box = {b1, b2}
  Faults = TRUE
  None = None
SPECIFICATION FairSpec
INVARIANTS
  TrackedRuns
  OnlyFaultsLeak
PROPERTIES
  NoticeMeansReplaced
  NothingLingers
