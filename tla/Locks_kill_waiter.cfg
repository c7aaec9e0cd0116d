\* As Locks_exit, and a task that waits for a lock may be killed.
CONSTANTS
  NUM_MAX_TASK = 4
  MaxPid = 5
  MaxSleep = 1
  Masks = {3}
  Modes = {"AUTO_CLEANUP_ON_EXIT"}
  Calls = {"spawn", "mutex_get", "binsemget", "lock", "unlock", "kill", "kill_waiter", "exit"}
  Workers = {1, 2, 3}
  Objects = {l1, l2}
  Locks = {l1, l2}
  NoObject = NoObject
SPECIFICATION LockSpec
INVARIANTS MutualExclusion
