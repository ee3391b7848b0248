\* Three calls suffice for a waiter behind a waiter behind a holder; the ceiling
\* moves between 1 and 2, so it can drop below inflight.
CONSTANTS
  ChatCalls = {c1, c2}
  BackgroundCalls = {b1}
  MaxCeiling = 2
  None = None
SPECIFICATION FairSpec
INVARIANTS
  SlotAccounting
  WorkConserving
  NeverDropsQueuedWaiter
PROPERTIES
  ArrivalOrderKept
  ImplementsSlotPool
  Progress
