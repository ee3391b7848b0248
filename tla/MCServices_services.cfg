\* Seven components, one per behaviour.
CONSTANTS
  o = o
  u1 = u1
  u2 = u2
  t1 = t1
  t2 = t2
  t3 = t3
  c1 = c1
  c2 = c2
  c3 = c3
  r1 = r1
  r2 = r2
  None = None
  Torn = Torn
  Damaged = Damaged
  Task = {t1, t2}
  Slot = {t1, t2, t3}
  MaxFaults = 1
  MaxRestarts = 1
  MaxErases = 1
  \* Configuration
  ConfigUser = {o, u1}
  Owner = o
  ConfigAdmin = {u1}
  Delegates = {u1}
  Command <- MCCommand
  TTL = 1
  Ceilings = {0}
  Default = 1
  MaxCommands = 3
  ConfigTime = 1
  \* Reminders
  Reminder = {r1, r2}
  OwnerOf <- OwnReminder
  Writer = {w1, w2}
  MinDelay = 1
  MaxDelay = 2
  Delay = {0, 1, 3}
  ReminderTime = 2
  \* Skills
  Name = {s1}
  User = {u1, u2}
  SkillHandle = {"bot", "agent"}
  OpsOf <- OpsVia
  MaxOps = 3
  \* GitHubIssues
  Seed <- MCSeed
  Admin = {u2}
  Call <- MCCall
  Life = 2
  Margin = 1
  PageSize = 2
  FileMax = 1
  FileWindow = 2
  GitCalls = 2
  GitTime = 2
  \* TokenLedger: two conversations of u1 and one of u2
  Conv = {c1, c2, c3}
  SpeakerOf <- Speaker
  Usage <- MCUsage
  Windowed = {"daily"}
  Days <- NoDays
  Limit = 1
  MaxUses = 2
  LedgerTime = 1
  \* WebTools: one slot in two ticks, one redirect, one credit a month
  Url = {page, private}
  Public = {page}
  SlotLimit = 1
  SlotWindow = 2
  MaxRedirects = 1
  CreditLimit = 1
  MonthLength = 2
  WebCalls = 3
  WebTime = 3
  \* PendingJobs: three presses of one approval card at once
  Job = {j1}
  Requester = {u1}
  MaxPending = 1
  MaxRuns = 2
SPECIFICATION Spec
SYMMETRY Symmetry
\* Every part is bounded and stops at its bound.
CHECK_DEADLOCK FALSE
INVARIANTS
  ChangesCompose
  NoneLostNoneTwice
  SkillsKept
  SaysWhatItDid
  PrivilegeAccounted
  LeaderboardAdds
  WebWithinBudget
  ApprovalHolds
PROPERTIES
  RevocationBites
