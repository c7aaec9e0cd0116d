\* The shell keeps polling its console; the tasks it starts sleep, yield, wait for it and are rebound.
CONSTANTS
  NUM_MAX_TASK = 4
  MaxPid = 4
  MaxSleep = 1
  Masks = {2, 3}
  Modes = {"ENTER_ZOMBIE_ON_EXIT"}
  Calls = {"yield", "sleep", "waitpid", "spawn", "exec", "taskset", "taskset_p", "mthread_create"}
  Workers = {1, 2, 3}
  Objects = {}
SPECIFICATION FairSpec
INVARIANTS TypeOK StatusMatchesQueue TranslatesOwnTable
PROPERTIES DeadlinesKept NoOvertaking ReadyTasksRun
