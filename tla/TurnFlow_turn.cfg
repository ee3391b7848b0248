\* Two rounds of up to two tool calls, two reactions of the author, any order.
CONSTANTS
  MaxRounds = 2
  MaxCalls = 2
  r1 = r1
  r2 = r2
  Reactions = {r1, r2}
  EditsAccepted = {TRUE}
  RepliesSent = {TRUE, FALSE}
SPECIFICATION FairSpec
INVARIANTS
  CancelInTimeSticks
  TranscriptBalanced
  AddressedTurnCloses
  CancelledSaysSo
PROPERTIES
  CancelEndsTurn
