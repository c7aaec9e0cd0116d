\* The shell and three workers share two locks, sleep, end and are killed while
\* they hold them, kills leaving their marks in the records of others.
CONSTANTS
  NUM_MAX_TASK = 4
  MaxPid = 4
  MaxSleep = 1
  Masks = {3}
  Modes = {"AUTO_CLEANUP_ON_EXIT"}
  Calls = {"spawn", "mutex_get", "binsemget", "lock", "unlock", "kill", "exit", "sleep"}
  Workers = {0, 1, 2, 3}
  Objects = {l1, l2}
  Locks = {l1, l2}
  NoObject = NoObject
SPECIFICATION FairLockSpec
INVARIANTS LockTypeOK MutualExclusion NoSleeperOnFreeLock RecordsNoOther
PROPERTIES DeadStayDead ImplementsService  SleepersWakeOrHartStops
CHECK_DEADLOCK FALSE
