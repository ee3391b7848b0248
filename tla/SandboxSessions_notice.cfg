\* No faults: the sandbox is reaped between two calls of a turn.
CONSTANTS
  User = {u1}
  Turn = {t1}
  Conn = {k1, k2}
  Box = {b1, b2}
  Faults = FALSE
  None = None
SPECIFICATION FairSpec
PROPERTIES
  ReplacementAnnounced
