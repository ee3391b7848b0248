\* Two presses at once: one of them is stale.
CONSTANTS
  Owner = owner
  Configurers = {owner}
  Users = {u1}
  Job = {j1}
  Slot = {s1, s2}
  Buttons <- EveryButton
  MaxPending = 1
  MaxRuns = 2
  UpdatesAccepted = TRUE
  None = None
SPECIFICATION Spec
SYMMETRY Symmetry
\* Every job may end up terminal, expired or unreachable: the system may stop.
CHECK_DEADLOCK FALSE
INVARIANTS
  DispatchedAtMostOnce
