\* Senders and receivers of messages of different lengths, some killed, and a box used again.
CONSTANTS
  NUM_MAX_TASK = 4
  MaxPid = 4
  MaxSleep = 0
  Masks = {3}
  Modes = {"ENTER_ZOMBIE_ON_EXIT"}
  Calls = {"spawn", "mbox_open", "mbox_close", "mbox_send", "mbox_recv", "mulmail", "kill"}
  Workers = {1, 2, 3}
  Objects = {full_queue, empty_queue}
  Locks = {}
  NoObject = NoObject
  full_queue = full_queue
  empty_queue = empty_queue
  MAX_MBOX_LENGTH = 3
  SendLengths = {1, 2}
  RecvLengths = {2}
  Senders = {1, 2}
  Receivers = {2, 3}
  Stamps = 4
SPECIFICATION FairMailboxSpec
INVARIANTS StreamIntact NoSleeperWithoutReason
PROPERTIES TransferGoesOn
