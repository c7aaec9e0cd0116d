\* Three workers share two permits; some end or are killed with one or in the queue.
CONSTANTS
  NUM_MAX_TASK = 4
  MaxPid = 5
  MaxSleep = 0
  Masks = {3}
  Modes = {"ENTER_ZOMBIE_ON_EXIT"}
  Calls = {"spawn", "sem_init", "sem_down", "sem_up", "sem_destroy", "kill", "exit"}
  Workers = {1, 2, 3}
  Objects = {s1}
  Locks = {}
  NoObject = NoObject
  Semaphores = {s1}
  Values = {1, 2}
SPECIFICATION FairSemaphoreSpec
INVARIANTS PermitsNotExceeded NoSleeperOnPermit
PROPERTIES PermitWaitersAreWoken
