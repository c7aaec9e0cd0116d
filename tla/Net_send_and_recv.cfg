SPECIFICATION FairSpec
CONSTANTS
  Receivers = {r1}
  Senders = {s1}
  BdCount = 2
  MaxPackets = 3
  MaxFrames = 4
  TakeTurns = FALSE
PROPERTY SendersReturn
CHECK_DEADLOCK FALSE
