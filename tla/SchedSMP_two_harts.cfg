\* Tasks bound to hart 1 or to none start, wait, sleep, end, are killed, and
\* compete for a lock on both harts.
CONSTANTS
  NUM_MAX_TASK = 3
  Masks = {2}
  Calls = {"sleep", "waitpid", "spawn", "taskset", "taskset_p", "exit", "kill", "lock", "unlock"}
  Workers = {1, 2}
  Locks = {l1}
  NoLock = NoLock
SPECIFICATION FairSpec
INVARIANTS StacksAreOwn NobodyLost LockExcludes NobodyWaitsForTheDead
PROPERTIES ReadyTasksGetAHart
CHECK_DEADLOCK FALSE
