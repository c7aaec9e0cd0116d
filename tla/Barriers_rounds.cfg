\* Three tasks go through the barrier three times, then it is destroyed.
CONSTANTS
  NUM_MAX_TASK = 4
  MaxPid = 4
  MaxSleep = 1
  Masks = {3}
  Modes = {"ENTER_ZOMBIE_ON_EXIT"}
  Calls = {"spawn", "sleep", "barrier_init", "barrier_wait", "barrier_destroy"}
  Workers = {1, 2, 3}
  Objects = {b0}
  Locks = {}
  NoObject = NoObject
  Barriers = {b0}
  Handle = b0
  MaxRounds = 3
SPECIFICATION FairBarrierSpec
INVARIANTS BarrierSynchronises
PROPERTIES BarrierOpens
