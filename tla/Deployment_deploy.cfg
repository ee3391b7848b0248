\* Two requests, two commits of which the second is broken, one fault; the host
\* is empty or runs the first commit when the bot starts.
CONSTANTS
  Request = {q1, q2}
  MaxCommit = 2
  Broken = {2}
  SearchDepth = 2
  MaxAttempts = 2
  MaxFaults = 1
  MaxStarts = 1
  None = None
SPECIFICATION Spec
INVARIANTS
  PreviousStaysWhole
  PairMatches
  BuildDeployedOnce
PROPERTIES RequestEnds
CHECK_DEADLOCK FALSE
