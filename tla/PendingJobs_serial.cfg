\* One press handled at a time, every button, Discord shows what it is told.
CONSTANTS
  Owner = owner
  Configurers = {owner}
  Users = {u1}
  Job = {j1, j2}
  Slot = {s1}
  Buttons <- EveryButton
  MaxPending = 1
  MaxRuns = 2
  UpdatesAccepted = TRUE
  None = None
SPECIFICATION FairSpec
\* Every job may end up terminal, expired or unreachable: the system may stop.
CHECK_DEADLOCK FALSE
INVARIANTS
  DispatchedAtMostOnce
PROPERTIES
  DispatchSettles
  TerminalIsFinal
