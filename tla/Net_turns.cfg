SPECIFICATION Spec
CONSTANTS
  Receivers = {r1, r2}
  Senders = {s1}
  BdCount = 3
  MaxPackets = 4
  MaxFrames = 7
  TakeTurns = TRUE
INVARIANTS OneReceiver DeliveredInOrder RxWithinBatch FullBatchIsNoticed
CHECK_DEADLOCK FALSE
