------------------------------ MODULE SchedSMP ------------------------------
(***************************************************************************)
(* The kernel on two harts (Project3-InteractiveOSandProcessManagement):   *)
(* the kernel lock of kernel/sched/smp.c, taken and given back by          *)
(* arch/riscv/kernel/entry.S, and what runs under it: the scheduler and    *)
(* the life of tasks (kernel/sched/sched.c), mutex locks (kernel/locking/  *)
(* lock.c).                                                                *)
(*                                                                         *)
(* A hart goes through user, enter (the registers are saved, it spins on   *)
(* the kernel lock), call, schedule, pick, switch, leave, restore (the     *)
(* lock is given back, the registers are still on the kernel stack), user. *)
(* A handler is one step up to its do_scheduler; do_scheduler and          *)
(* switch_to are three, with the other hart in between if it gets in.      *)
(*                                                                         *)
(* Data left out: registers, cursors, pids (a slot is used or free; stale  *)
(* pids name nobody), spawn modes.  Deadlines are left out: any sleeper    *)
(* may be due.  As in Sched, "wrong:" marks what is only tried in place of *)
(* the definition below it.                                                *)
(***************************************************************************)
EXTENDS Integers, Sequences, FiniteSets, SequencesExt

CONSTANTS
  NUM_MAX_TASK,   \* size of the process table
  Masks,          \* affinity masks programs pass to taskset
  Calls,          \* system calls and habits of the programs
  Workers,        \* tasks that block, end or are killed; the others never do
  Locks,          \* entries of whole_locks
  NoLock          \* acquiring nothing

ASSUME SizeAssumption == NUM_MAX_TASK \in Nat \ {0}
ASSUME MaskAssumption == Masks \subseteq 1 .. 3
ASSUME LockAssumption == NoLock \notin Locks /\ Locks \cap (0 .. NUM_MAX_TASK - 1) = {}

Harts == {0, 1}
Tasks == 0 .. NUM_MAX_TASK - 1
Pid0(h) == -1 - h                    \* pid0_pcb_core0, pid0_pcb_core1
PCBs == Tasks \cup {Pid0(h) : h \in Harts}
Dead == "EXITED"                     \* TASK_ZOMBIE too

VARIABLES
  phase,            \* of a hart
  stack,            \* of a hart: the task on whose kernel stack it is
  current_running,  \* of a hart
  kernel_lock,
  used,             \* of a slot: its pid is not -1
  status, mask,
  ready_queue, sleep_queue,
  wait_queue,       \* of a task: its wait_list; of a lock: its block_queue
  lock_status,
  lock_list,        \* of a PCB: the locks recorded there
  acquiring, cpu,   \* of a PCB: the lock and the cpu_id on its kernel stack
  held              \* of a task: the locks its program believes to hold

hartVars == <<phase, stack, kernel_lock>>
queues == <<ready_queue, sleep_queue, wait_queue>>
lockVars == <<lock_status, lock_list, acquiring, cpu, held>>
vars == <<hartVars, current_running, used, status, mask, queues, lockVars>>

-----------------------------------------------------------------------------
Caller(h) == current_running[h]

Goto(h, from, to) == phase[h] = from /\ phase' = [phase EXCEPT ![h] = to]

InCall(h, name) == phase[h] = "call" /\ name \in Calls /\ Caller(h) \in Tasks

Waiting == UNION {ToSet(wait_queue[q]) : q \in Tasks \cup Locks}
Linked == ToSet(ready_queue) \cup ToSet(sleep_queue) \cup Waiting

(* delete_element: what is in q is taken out of it.                         *)
Without(q, x) ==
  IF x \in ToSet(q) THEN RemoveAt(q, CHOOSE i \in DOMAIN q : q[i] = x) ELSE q

(* The sequences that list exactly the members of S, in the order of s.     *)
Listing(s, S) ==
  {w \in SetToSeqs(S) :
     /\ ToSet(w) = S
     /\ \A i, j \in DOMAIN w : i < j =>
          \E m, n \in DOMAIN s : m < n /\ s[m] = w[i] /\ s[n] = w[j]}

Ready(st, woken) == [t \in PCBs |-> IF t \in ToSet(woken) THEN "READY" ELSE st[t]]

Fits(t, h) == mask[t] \in {3, h + 1}

(* With a ready queue in which no mask fits do_scheduler lets the hart go   *)
(* on with the task that just blocked or ended.  Programs do that only when *)
(* the workload has stray.                                                  *)
Replaceable(h, rq) ==
  "stray" \in Calls \/ rq = <<>> \/ \E i \in DOMAIN rq : Fits(rq[i], h)

-----------------------------------------------------------------------------
(* SAVE_CONTEXT *)
Trap(h) ==
  /\ Goto(h, "user", "enter")
  /\ UNCHANGED <<stack, kernel_lock, current_running, used, status, mask, queues, lockVars>>

(* wrong: the hart does not spin. *)
EnterKernel(h) ==
  /\ Goto(h, "enter", "call")
  /\ kernel_lock' = TRUE
  /\ UNCHANGED <<stack, current_running, used, status, mask, queues, lockVars>>

LockKernel(h) ==
  /\ Goto(h, "enter", "call")
  /\ ~kernel_lock /\ kernel_lock' = TRUE
  /\ UNCHANGED <<stack, current_running, used, status, mask, queues, lockVars>>

(* reset_irq_timer; yield is the same.  pid0 is interrupted, too.           *)
TimerInterrupt(h) ==
  /\ Goto(h, "call", "schedule")
  /\ UNCHANGED <<stack, kernel_lock, current_running, used, status, mask, queues, lockVars>>

(* timer_check and the first part of do_scheduler.  Queueing a node that is *)
(* linked breaks the lists; what follows is not modelled.                   *)
Requeue(h) ==
  /\ Goto(h, "schedule", "pick")
  /\ \E due \in SUBSET ToSet(sleep_queue) :
     \E woken \in Listing(sleep_queue, due), asleep \in Listing(sleep_queue, ToSet(sleep_queue) \ due) :
       LET running == status[Caller(h)] = "RUNNING"
           requeued == IF running /\ Caller(h) \in Tasks THEN <<Caller(h)>> ELSE <<>>
       IN  /\ ToSet(requeued) \cap Linked = {}
           /\ sleep_queue' = asleep
           /\ ready_queue' = ready_queue \o woken \o requeued
           /\ status' = [Ready(status, woken) EXCEPT ![Caller(h)] = IF running THEN "READY" ELSE @]
  /\ UNCHANGED <<stack, kernel_lock, current_running, used, mask, wait_queue, lockVars>>

Run(h, t, rq) ==
  /\ current_running' = [current_running EXCEPT ![h] = t]
  /\ status' = [status EXCEPT ![t] = "RUNNING"]
  /\ ready_queue' = rq

(* wrong: the last task that fits. *)
LastFit(i, h) ==
  Fits(ready_queue[i], h) /\ \A j \in i + 1 .. Len(ready_queue) : ~Fits(ready_queue[j], h)

FirstFit(i, h) == Fits(ready_queue[i], h) /\ \A j \in 1 .. i - 1 : ~Fits(ready_queue[j], h)

(* The choice of the next task, and "RUNNING".                              *)
Pick(h) ==
  /\ Goto(h, "pick", "switch")
  /\ \/ ready_queue = <<>> /\ Run(h, Pid0(h), <<>>)
     \/ \E i \in DOMAIN ready_queue :
          FirstFit(i, h) /\ Run(h, ready_queue[i], RemoveAt(ready_queue, i))
     \/ /\ ready_queue # <<>> /\ \A i \in DOMAIN ready_queue : ~Fits(ready_queue[i], h)
        /\ Run(h, Caller(h), ready_queue)
  /\ UNCHANGED <<stack, kernel_lock, used, mask, sleep_queue, wait_queue, lockVars>>

(* switch_to: the stack of the next task, which returns to user mode or     *)
(* into the loop of do_mutex_lock_acquire.                                  *)
SwitchTo(h) ==
  /\ Goto(h, "switch", IF acquiring[Caller(h)] = NoLock THEN "leave" ELSE "retry")
  /\ stack' = [stack EXCEPT ![h] = Caller(h)]
  /\ UNCHANGED <<kernel_lock, current_running, used, status, mask, queues, lockVars>>

(* ret_from_exception: unlock_kernel, then RESTORE_CONTEXT.                 *)
UnlockKernel(h) ==
  /\ Goto(h, "leave", "restore")
  /\ kernel_lock' = FALSE
  /\ UNCHANGED <<stack, current_running, used, status, mask, queues, lockVars>>

Restore(h) ==
  /\ Goto(h, "restore", "user")
  /\ UNCHANGED <<stack, kernel_lock, current_running, used, status, mask, queues, lockVars>>

-----------------------------------------------------------------------------
(* do_block of task t in the list of q, or the sleep queue.                 *)
Block(h, t, q) ==
  /\ t \notin Linked
  /\ status' = [status EXCEPT ![t] = "BLOCKED"]
  /\ wait_queue' = [wait_queue EXCEPT ![q] = Append(@, t)]

(* Programs sleep unbound, unless the workload has stray: a sleeper that    *)
(* wakes must not be the only ready task and fit nobody's hart.             *)
Sleep(h) ==
  /\ InCall(h, "sleep") /\ Caller(h) \in Workers
  /\ Replaceable(h, ready_queue) /\ ("stray" \in Calls \/ mask[Caller(h)] = 3)
  /\ held[Caller(h)] = {}
  /\ Goto(h, "call", "schedule")
  /\ Caller(h) \notin Linked
  /\ status' = [status EXCEPT ![Caller(h)] = "BLOCKED"]
  /\ sleep_queue' = Append(sleep_queue, Caller(h))
  /\ UNCHANGED <<stack, kernel_lock, current_running, used, mask, ready_queue, wait_queue, lockVars>>

Waitpid(h, t) ==
  /\ InCall(h, "waitpid") /\ Caller(h) \in Workers \ {t}
  /\ used[t] /\ status[t] # Dead
  /\ Replaceable(h, ready_queue) /\ held[Caller(h)] = {}
  /\ Goto(h, "call", "schedule")
  /\ Block(h, Caller(h), t)
  /\ UNCHANGED <<stack, kernel_lock, current_running, used, mask, ready_queue, sleep_queue, lockVars>>

(* do_spawn gives the mask of the caller, do_taskset a mask of its own, to  *)
(* the first free slot.  Programs never fill the table.                     *)
NewTask(h, t, k) ==
  /\ ~used[t] /\ \A u \in 0 .. t - 1 : used[u]
  /\ Goto(h, "call", "leave")
  /\ used' = [used EXCEPT ![t] = TRUE]
  /\ status' = [status EXCEPT ![t] = "READY"]
  /\ mask' = [mask EXCEPT ![t] = k]
  /\ wait_queue' = [wait_queue EXCEPT ![t] = <<>>]
  /\ lock_list' = [lock_list EXCEPT ![t] = <<>>]
  /\ held' = [held EXCEPT ![t] = {}]
  /\ ready_queue' = Append(ready_queue, t)
  /\ UNCHANGED <<stack, kernel_lock, current_running, sleep_queue, lock_status, acquiring, cpu>>

Spawn(h, t) == InCall(h, "spawn") /\ NewTask(h, t, mask[Caller(h)])

Taskset(h, t, k) == InCall(h, "taskset") /\ NewTask(h, t, k)

(* Programs leave alone what sleeps or uses a lock, and do not take the     *)
(* hart from a task that has it, unless they stray.                         *)
TasksetP(h, t, k) ==
  /\ InCall(h, "taskset_p")
  /\ used[t]
  /\ "stray" \in Calls \/ /\ t \notin ToSet(sleep_queue)
                          /\ held[t] = {} /\ acquiring[t] = NoLock
                          /\ \A i \in Harts : current_running[i] = t => k \in {3, i + 1}
  /\ Goto(h, "call", "leave")
  /\ mask' = [mask EXCEPT ![t] = k]
  /\ UNCHANGED <<stack, kernel_lock, current_running, used, status, queues, lockVars>>

-----------------------------------------------------------------------------
(* do_mutex_lock_acquire from the loop on, for the task that current_       *)
(* running[cpu_id] says, where cpu_id was read at the start of the call.    *)
TryAcquire(h, l, t) ==
  \/ /\ lock_status[l] = "LOCKED"
     /\ Block(h, t, l)
     /\ phase' = [phase EXCEPT ![h] = "schedule"]
     /\ acquiring' = [acquiring EXCEPT ![Caller(h)] = l]
     /\ UNCHANGED <<lock_status, lock_list, held>>
  \/ /\ lock_status[l] = "UNLOCKED"
     /\ lock_status' = [lock_status EXCEPT ![l] = "LOCKED"]
     /\ lock_list' = [lock_list EXCEPT ![t] = Append(@, l)]
     /\ held' = [held EXCEPT ![Caller(h)] = @ \cup {l}]
     /\ phase' = [phase EXCEPT ![h] = "leave"]
     /\ acquiring' = [acquiring EXCEPT ![Caller(h)] = NoLock]
     /\ UNCHANGED <<status, wait_queue>>

(* A program locks what it does not hold, one lock at a time.  Bound to a   *)
(* hart or not, it takes a free lock; one that has to wait is bound to its  *)
(* hart, unless the workload has roam: cpu_id is still that of the hart it  *)
(* was on.  A task that was killed and runs on takes a lock, which nobody   *)
(* gives back, only when the workload has kill_holder.                      *)
(*                                                                          *)
(* A task may have to wait while the ready tasks all belong to the other    *)
(* hart.  do_scheduler then lets it go on, it finds the lock taken and      *)
(* queues its linked node again, for ever and with the kernel lock.  The    *)
(* model stops at that second do_block.                                     *)
Acquire(h, l) ==
  /\ InCall(h, "lock") /\ Caller(h) \in Workers
  /\ held[Caller(h)] = {}
  /\ "kill_holder" \in Calls \/ status[Caller(h)] # Dead
  /\ lock_status[l] = "LOCKED" => "roam" \in Calls \/ mask[Caller(h)] = h + 1
  /\ TryAcquire(h, l, Caller(h))
  /\ cpu' = [cpu EXCEPT ![Caller(h)] = h]
  /\ UNCHANGED <<stack, kernel_lock, current_running, used, mask, ready_queue, sleep_queue>>

(* wrong: the lock is not tested again. *)
RetryUntested(h) ==
  /\ phase[h] = "retry"
  /\ LET t == Caller(h) IN
       /\ lock_status' = [lock_status EXCEPT ![acquiring[t]] = "LOCKED"]
       /\ lock_list' = [lock_list EXCEPT ![t] = Append(@, acquiring[t])]
       /\ held' = [held EXCEPT ![t] = @ \cup {acquiring[t]}]
       /\ acquiring' = [acquiring EXCEPT ![t] = NoLock]
  /\ phase' = [phase EXCEPT ![h] = "leave"]
  /\ UNCHANGED <<cpu, stack, kernel_lock, current_running, used, status, mask, queues>>

Retry(h) ==
  /\ phase[h] = "retry"
  /\ TryAcquire(h, acquiring[Caller(h)], current_running[cpu[Caller(h)]])
  /\ UNCHANGED <<cpu, stack, kernel_lock, current_running, used, mask, ready_queue, sleep_queue>>

(* do_mutex_lock_release, in mutex_op: the record goes, all are woken.      *)
Release(h, l) ==
  /\ InCall(h, "unlock") /\ l \in held[Caller(h)]
  /\ Goto(h, "call", "leave")
  /\ held' = [held EXCEPT ![Caller(h)] = @ \ {l}]
  /\ lock_status' = [lock_status EXCEPT ![l] = "UNLOCKED"]
  /\ lock_list' = [t \in PCBs |-> Without(lock_list[t], l)]
  /\ ready_queue' = ready_queue \o wait_queue[l]
  /\ status' = Ready(status, wait_queue[l])
  /\ wait_queue' = [wait_queue EXCEPT ![l] = <<>>]
  /\ UNCHANGED <<stack, kernel_lock, current_running, used, mask, sleep_queue, acquiring, cpu>>

(* wrong: those who wait for the task itself are forgotten. *)
OnlyItsLocks(t) == lock_list[t]

(* Whose waiters the end of t wakes: its own (waitpid), then its locks'.    *)
Ended(t) == <<t>> \o lock_list[t]

(* The common part of do_exit and do_kill: t dies and leaves its list, its  *)
(* locks are free, and whoever waits for it or for them is ready.           *)
Terminate(h, t) ==
  LET unlinked == [q \in Tasks \cup Locks |-> Without(wait_queue[q], t)]
      woken == FlattenSeq([i \in DOMAIN Ended(t) |-> unlinked[Ended(t)[i]]])
      rq == Without(ready_queue, t) \o woken
  IN  /\ t = Caller(h) => Replaceable(h, rq)
      /\ Goto(h, "call", IF t = Caller(h) THEN "schedule" ELSE "leave")
      /\ status' = Ready([status EXCEPT ![t] = Dead], woken)
      /\ ready_queue' = rq
      /\ sleep_queue' = Without(sleep_queue, t)
      /\ wait_queue' = [q \in Tasks \cup Locks |->
                          IF q \in ToSet(Ended(t)) THEN <<>> ELSE unlinked[q]]
      /\ lock_status' = [l \in Locks |->
                           IF l \in ToSet(lock_list[t]) THEN "UNLOCKED" ELSE lock_status[l]]
      /\ lock_list' = [lock_list EXCEPT ![t] = <<>>]
      /\ acquiring' = [acquiring EXCEPT ![t] = NoLock]
      /\ held' = IF t = Caller(1 - h) THEN held ELSE [held EXCEPT ![t] = {}]
      /\ UNCHANGED <<stack, kernel_lock, current_running, mask, cpu>>

Exit(h) ==
  /\ InCall(h, "exit") /\ Caller(h) \in Workers
  /\ Terminate(h, Caller(h))
  /\ used' = [used EXCEPT ![Caller(h)] = FALSE]

(* wrong: the slot becomes free, as do_kill seems to intend. *)
KillFreesSlot(h, t) ==
  /\ InCall(h, "kill") /\ t \in Workers /\ used[t]
  /\ Terminate(h, t)
  /\ used' = [used EXCEPT ![t] = FALSE]

(* `pcb[i].pid==-1;` assigns nothing.  A task that runs on the other hart   *)
(* dies on paper only and runs on to its next trap; programs kill it inside *)
(* its critical section only when the workload has kill_holder.             *)
Kill(h, t) ==
  /\ InCall(h, "kill") /\ t \in Workers /\ used[t]
  /\ (t = Caller(1 - h) /\ held[t] # {}) => "kill_holder" \in Calls
  /\ Terminate(h, t)
  /\ UNCHANGED used

-----------------------------------------------------------------------------
(* init_pcb and main: both harts idle as pid0, the shell is ready.          *)
Init ==
  /\ phase = [h \in Harts |-> "user"]
  /\ stack = [h \in Harts |-> Pid0(h)]
  /\ current_running = [h \in Harts |-> Pid0(h)]
  /\ kernel_lock = FALSE
  /\ used = [t \in Tasks |-> t = 0]
  /\ status = [t \in PCBs |-> IF t = 0 THEN "READY" ELSE IF t < 0 THEN "RUNNING" ELSE Dead]
  /\ mask = [t \in PCBs |-> 3]
  /\ ready_queue = <<0>> /\ sleep_queue = <<>>
  /\ wait_queue = [q \in Tasks \cup Locks |-> <<>>]
  /\ lock_status = [l \in Locks |-> "UNLOCKED"]
  /\ lock_list = [t \in PCBs |-> <<>>]
  /\ acquiring = [t \in PCBs |-> NoLock]
  /\ cpu = [t \in PCBs |-> 0]
  /\ held = [t \in Tasks |-> {}]

SystemCall(h) ==
  \/ Sleep(h)
  \/ \E t \in Tasks : Waitpid(h, t) \/ Spawn(h, t) \/ Kill(h, t)
  \/ \E t \in Tasks, k \in Masks : Taskset(h, t, k) \/ TasksetP(h, t, k)
  \/ \E l \in Locks : Acquire(h, l) \/ Release(h, l)
  \/ Exit(h)

InKernel(h) ==
  Requeue(h) \/ Pick(h) \/ SwitchTo(h) \/ Retry(h) \/ UnlockKernel(h) \/ Restore(h)

Next == \E h \in Harts :
  Trap(h) \/ LockKernel(h) \/ TimerInterrupt(h) \/ SystemCall(h) \/ InKernel(h)

Spec == Init /\ [][Next]_vars

(* Each hart's timer goes on firing, the kernel runs on, and a hart that    *)
(* spins gets the kernel lock when it is free again and again.              *)
FairSpec ==
  /\ Spec
  /\ \A h \in Harts : /\ WF_vars(Trap(h)) /\ WF_vars(InKernel(h))
                      /\ SF_vars(LockKernel(h)) /\ SF_vars(TimerInterrupt(h))

-----------------------------------------------------------------------------
(* The two harts are never on the kernel stack of the same task, not while  *)
(* a preempted task is already queued but not yet switched from, nor when   *)
(* the slot of a task that ended is given to a new one.                     *)
StacksAreOwn == stack[0] # stack[1]

(* Outside of the kernel no task is lost and none is in two places: READY   *)
(* tasks are queued, BLOCKED ones sleep or wait, RUNNING ones have a hart.  *)
Once(t, q) == Cardinality({i \in DOMAIN q : q[i] = t}) = 1
NobodyLost ==
  ~kernel_lock =>
    /\ \A t \in Tasks : status[t] = "READY" => Once(t, ready_queue)
    /\ \A t \in Tasks : status[t] = "BLOCKED" =>
         Once(t, sleep_queue) \/ \E q \in Tasks \cup Locks : Once(t, wait_queue[q])
    /\ \A t \in Linked : status[t] \in {"READY", "BLOCKED"} /\ used[t]
    /\ \A t \in Tasks : status[t] = "RUNNING" => \E h \in Harts : current_running[h] = t
    /\ \A h \in Harts : stack[h] = current_running[h] /\ status[stack[h]] \in {"RUNNING", Dead}

(* Programs on both harts are never inside the critical section of one lock *)
(* together, whatever kills and preemption came before: the hart that finds *)
(* the lock taken waits, and tests it again when it goes on.                *)
Inside(t) == IF status[t] = Dead /\ \A h \in Harts : stack[h] # t THEN {} ELSE held[t]
LockExcludes == \A t, u \in Tasks : t # u => Inside(t) \cap Inside(u) = {}

(* Whoever waits for a task with waitpid waits for one that is alive.       *)
NobodyWaitsForTheDead == \A t \in Tasks : wait_queue[t] # <<>> => used[t] /\ status[t] # Dead

(* A hart that goes on with a linked task for want of another: it keeps the *)
(* kernel lock, and no hart goes on.                                        *)
Stuck(h) == phase[h] = "retry" /\ Caller(h) \in Linked

(* Affinity and two harts starve nobody: a ready task is given a hart, or   *)
(* is killed before, unless a hart is stuck.  The masks of the workload all *)
(* allow one hart at least in common: a task bound now to one hart and now  *)
(* to the other could be missed by both.                                    *)
ReadyTasksGetAHart ==
  \A t \in Tasks :
    status[t] = "READY" ~> status[t] # "READY" \/ \E i \in Harts : Stuck(i)

=============================================================================
