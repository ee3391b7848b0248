\* Two messages of any kind, or one that comes twice, or three of one talk; two
\* instants, as far apart as the windows are long.
CONSTANTS
  u1 = u1
  u2 = u2
  bot1 = bot1
  bot2 = bot2
  dm = dm
  room = room
  thread = thread
  den = den
  hall = hall
  Instants = {0, 2}
  Delivery = {d1, d2, d3}
  User = {u1, u2}
  Bot = {bot1, bot2}
  Channel = {dm, room, thread, den, hall}
  Direct = {dm}
  ParentOf <- MCParentOf
  AllowList = {room, den}
  Proactive = {room}
  Silenced = {u2, bot2}
  BotPings = TRUE
  Kind <- MCKind
  Capacity = 2
  ContextMessages = 1
  Retention = 1
  RespondedSize = 1
  IdleTimeout = 1
  ChatMax = 1
  ChatWindow = 2
  NoticeWindow = 2
  ProactiveWindow = 2
  MaxTime = 2
  None = None
SYMMETRY Deliveries
SPECIFICATION Spec
ACTION_CONSTRAINT Bounded
INVARIANTS
  OneDeliveryInHand
  WithinLimits
  BotsDoNotConverse
  ContextIsNewest
  JudgesItsMessage
CHECK_DEADLOCK FALSE
