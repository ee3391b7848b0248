\* One skill and no overlap: saved, copied, deleted in the chat, copied again.
CONSTANTS
  Name = {s1}
  User = {u1}
  Handle = {"bot", "agent"}
  OpsOf <- OpsVia
  Task = {t1}
  MaxOps = 4
  MaxFaults = 0
  None = None
  Damaged = Damaged
  Garbled = Garbled
INIT Init
NEXT Next
INVARIANT CopiesCurrentSkills
CHECK_DEADLOCK FALSE
