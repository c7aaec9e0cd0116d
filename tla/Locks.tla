------------------------------- MODULE Locks -------------------------------
(***************************************************************************)
(* Task termination and the kernel's mutex locks (Project6-FileSystem:     *)
(* do_kill and do_exit of kernel/sched/sched.c, kernel/locking/lock.c, and *)
(* the binary semaphores of do_binsemget, which are the same locks).       *)
(*                                                                         *)
(* do_mutex_lock_acquire blocks in the middle of a system call.  acquiring *)
(* is what its kernel stack remembers: the object a switched-out task will *)
(* test again when it is switched in, before it can take any trap.         *)
(*                                                                         *)
(* A program uses the handle mutex_get returned, does not lock what it     *)
(* holds and unlocks only what it holds; held is what its own control flow *)
(* knows.  lockid[t] lists pcb[t].lockid up to locknum; NoObject in it is  *)
(* the -1 that a kill of another task has written there.  A task is in     *)
(* overrun once it has unlocked what its record does not list: lockid[5],  *)
(* which is locknum, is set to -1 and then decremented.  From there on the *)
(* record lies before the array; where the code goes on with it (the next  *)
(* lock, the end of the task) the step does not exist.                     *)
(*                                                                         *)
(* As in Sched, a definition marked "wrong:" is only there to be tried in  *)
(* place of the one below it.                                              *)
(***************************************************************************)
EXTENDS Sched

CONSTANTS
  Locks,          \* the entries of whole_locks the programs' keys map to
  NoObject        \* acquiring nothing

MaxLockid == 5      \* entries of pcb_t.lockid

ASSUME LockAssumption == Locks \subseteq Objects /\ NoObject \notin Objects
ASSUME LockidAssumption == Cardinality(Locks) <= MaxLockid

VARIABLES valid, lock_status, lockid, overrun, acquiring, held

lockVars == <<valid, lock_status, lockid, overrun, acquiring, held>>
vars == <<schedVars, lockVars>>

InUser == acquiring[current_running] = NoObject
LockCall(name, l) == InCall(name) /\ valid[l]
Recorded(t) == ToSet(lockid[t]) \cap Locks

-----------------------------------------------------------------------------
(* do_mutex_lock_init                                                       *)
InitLock(l) ==
  /\ lock_status' = [lock_status EXCEPT ![l] = "UNLOCKED"]
  /\ wait_queue' = [wait_queue EXCEPT ![l] = <<>>]
  /\ valid' = [valid EXCEPT ![l] = TRUE]
  /\ UNCHANGED <<pcbVars, runVars, lockid, overrun, acquiring, held>>

(* mutex_get initialises the lock of the key, whoever uses it already.      *)
(* Programs do that to a lock in use when the workload has mutex_get_again. *)
MutexGet(l) ==
  /\ InCall("mutex_get")
  /\ valid[l] => "mutex_get_again" \in Calls
  /\ InitLock(l)

(* do_binsemget initialises it for the first caller only.                   *)
BinsemGet(l) == InCall("binsemget") /\ ~valid[l] /\ InitLock(l)

(* One turn of the loop in do_mutex_lock_acquire.                           *)
TryAcquire(l) ==
  \/ /\ lock_status[l] = "UNLOCKED"
     /\ lock_status' = [lock_status EXCEPT ![l] = "LOCKED"]
     /\ held' = [held EXCEPT ![current_running] = @ \cup {l}]
     /\ acquiring' = [acquiring EXCEPT ![current_running] = NoObject]
     /\ UNCHANGED <<wait_queue, runVars>>
  \/ /\ lock_status[l] = "LOCKED"
     /\ acquiring' = [acquiring EXCEPT ![current_running] = l]
     /\ DoBlock(l)
     /\ UNCHANGED <<lock_status, held>>

(* mutex_op(handle, 0): the lock is recorded in the PCB, then acquired.     *)
Lock(l) ==
  /\ LockCall("lock", l) /\ current_running \in Workers /\ ~Shell(current_running)
  /\ l \notin held[current_running]
  /\ \/ l \in Recorded(current_running) /\ UNCHANGED lockid
     \/ /\ l \notin Recorded(current_running) /\ current_running \notin overrun
        /\ lockid' = [lockid EXCEPT ![current_running] = Append(@, l)]
  /\ TryAcquire(l)
  /\ UNCHANGED <<pcbVars, valid, overrun>>

(* wrong: the loop is an `if`, the lock is not tested again. *)
RetryWithoutTest ==
  /\ Mapped /\ acquiring[current_running] \in Locks
  /\ held' = [held EXCEPT ![current_running] = @ \cup {acquiring[current_running]}]
  /\ lock_status' = [lock_status EXCEPT ![acquiring[current_running]] = "LOCKED"]
  /\ acquiring' = [acquiring EXCEPT ![current_running] = NoObject]
  /\ UNCHANGED <<pcbVars, runVars, wait_queue, valid, lockid, overrun>>

(* A task switched in inside do_mutex_lock_acquire tests the lock again.    *)
Retry ==
  /\ Mapped /\ acquiring[current_running] \in Locks
  /\ TryAcquire(acquiring[current_running])
  /\ UNCHANGED <<pcbVars, valid, lockid, overrun>>

(* The effect of mutex_op(handle, 1) when it wakes the tasks of woken and   *)
(* leaves left in the queue of the lock.                                    *)
Release(l, woken, left) ==
  /\ LockCall("unlock", l) /\ l \in held[current_running]
  /\ held' = [held EXCEPT ![current_running] = @ \ {l}]
  /\ lockid' = [lockid EXCEPT ![current_running] = Without(@, l)]
  /\ overrun' = IF l \in Recorded(current_running) THEN overrun
                ELSE overrun \cup {current_running}
  /\ lock_status' = [lock_status EXCEPT ![l] = "UNLOCKED"]
  /\ ready_queue' = ready_queue \o woken
  /\ status' = Awaken(status, ToSet(woken))
  /\ wait_queue' = [wait_queue EXCEPT ![l] = left]
  /\ UNCHANGED <<pcbVars, valid, acquiring, timer, sleep_queue, current_running, satp>>

(* wrong: one waiter is woken. *)
UnlockOne(l) == Release(l, FirstOnly(wait_queue[l]), ButFirst(wait_queue[l]))

(* mutex_op(handle, 1): the record is removed, the lock is free, and every  *)
(* waiter is ready.                                                         *)
Unlock(l) == Release(l, wait_queue[l], <<>>)

-----------------------------------------------------------------------------
(* wrong: the mode is stored where the status belongs. *)
DeadStatusIsMode(t) == mode[t]

DeadStatus(t) == IF mode[t] = "ENTER_ZOMBIE_ON_EXIT" THEN "ZOMBIE" ELSE "EXITED"

(* The waiters of the recorded locks, the lock recorded last coming first.  *)
ReleaseOrder(t, wq) ==
  LET waiters == UNION {ToSet(wq[l]) : l \in Recorded(t)}
      Rank(u) == CHOOSE k \in DOMAIN lockid[t] :
                   lockid[t][k] \in Locks /\ u \in ToSet(wq[lockid[t][k]])
      Place(u) == CHOOSE k \in DOMAIN wq[lockid[t][Rank(u)]] : wq[lockid[t][Rank(u)]][k] = u
  IN  {w \in SetToSeqs(waiters) :
         /\ ToSet(w) = waiters
         /\ \A i, j \in DOMAIN w : i < j =>
              \/ Rank(w[i]) > Rank(w[j])
              \/ Rank(w[i]) = Rank(w[j]) /\ Place(w[i]) < Place(w[j])}

(* The common part of do_kill and do_exit: t dies, its node leaves its      *)
(* list, every lock it has recorded is released.  Then the hart is given up *)
(* when t is the caller.  Nothing touches the tasks in pcb[t].wait_list:    *)
(* they stay there, or in no list any more once the slot is used again.     *)
(* For a -1 in the record the code releases whole_locks[-1], memory that is *)
(* not modelled: of what the build may make of it, only that the loop goes  *)
(* on is a step here.                                                       *)
Terminate(t) ==
  LET unlinked == [q \in Tasks \cup Objects |-> Without(wait_queue[q], t)] IN
  /\ t \notin overrun
  /\ \E woken \in ReleaseOrder(t, unlinked) :
       LET st == Awaken([status EXCEPT ![t] = DeadStatus(t)], ToSet(woken))
           rq == Without(ready_queue, t) \o woken
           sq == Without(sleep_queue, t)
       IN  /\ wait_queue' = [q \in Tasks \cup Objects |->
                               IF q \in Recorded(t) THEN <<>> ELSE unlinked[q]]
           /\ lock_status' = [l \in Locks |->
                                IF l \in Recorded(t) THEN "UNLOCKED" ELSE lock_status[l]]
           /\ IF t = current_running
                THEN DoScheduler(st, rq, sq, timer)
                ELSE /\ status' = st /\ ready_queue' = rq /\ sleep_queue' = sq
                     /\ UNCHANGED <<timer, current_running, satp>>

(* wrong: the locknum of the victim stays. *)
RecordsKept(t) == lockid

(* The records do_kill leaves.  That of the victim is empty, its locknum    *)
(* being -1.  The loop that should clear the entries behind it declares an  *)
(* i of its own: it sets pcb[u].lockid[u] to -1, for the first five u.      *)
RecordsAfterKill(t) ==
  [u \in Tasks |-> IF u = t THEN <<>>
                   ELSE IF u + 1 \in DOMAIN lockid[u] THEN [lockid[u] EXCEPT ![u + 1] = NoObject]
                   ELSE lockid[u]]

(* The slot of a killed task keeps its pid: `pcb[i].pid==-1;` assigns       *)
(* nothing.  A program kills a task that waits for a lock only when its     *)
(* workload has kill_waiter.                                                *)
Kill(p) ==
  /\ InCall("kill")
  /\ \E t \in Tasks :
       /\ t \in Workers /\ pid[t] = p
       /\ acquiring[t] \in Locks => "kill_waiter" \in Calls
       /\ Terminate(t)
       /\ lockid' = RecordsAfterKill(t)
       /\ held' = [held EXCEPT ![t] = {}]
  /\ UNCHANGED <<pcbVars, valid, overrun, acquiring>>

(* wrong: the locknum of the task stays for the next task of the slot. *)
ExitKeepingRecord ==
  /\ InCall("exit") /\ current_running \in Workers
  /\ Terminate(current_running)
  /\ pid' = [pid EXCEPT ![current_running] = NoPid]
  /\ held' = [held EXCEPT ![current_running] = {}]
  /\ UNCHANGED <<mode, mask, pgdir, process_id, valid, lockid, overrun, acquiring>>

Exit ==
  /\ InCall("exit") /\ current_running \in Workers
  /\ Terminate(current_running)
  /\ pid' = [pid EXCEPT ![current_running] = NoPid]
  /\ lockid' = [lockid EXCEPT ![current_running] = <<>>]
  /\ held' = [held EXCEPT ![current_running] = {}]
  /\ UNCHANGED <<mode, mask, pgdir, process_id, valid, overrun, acquiring>>

-----------------------------------------------------------------------------
LockInit ==
  /\ Init
  /\ valid = [l \in Locks |-> FALSE]
  /\ lock_status = [l \in Locks |-> "UNLOCKED"]
  /\ lockid = [t \in Tasks |-> <<>>]
  /\ overrun = {}
  /\ acquiring = [t \in PCBs |-> NoObject]
  /\ held = [t \in Tasks |-> {}]

UserUnlock(l) == InUser /\ Unlock(l)

(* A system call is made, and the timer is taken, in user mode only.        *)
LockNext ==
  \/ /\ InUser
     /\ \/ /\ TimerInterrupt \/ SchedCall
           /\ UNCHANGED lockVars
        \/ \E l \in Locks : MutexGet(l) \/ BinsemGet(l) \/ Lock(l)
        \/ \E p \in 1 .. MaxPid : Kill(p)
        \/ Exit
  \/ \E l \in Locks : UserUnlock(l)
  \/ Retry
  \/ Tick /\ UNCHANGED lockVars

LockSpec == LockInit /\ [][LockNext]_vars

(* The timer fires, time passes, the kernel finishes what it resumes, and a *)
(* program that gets the hart again and again ends its critical sections.   *)
FairLockSpec ==
  /\ LockSpec
  /\ WF_vars(InUser /\ TimerInterrupt /\ UNCHANGED lockVars)
  /\ WF_vars(Tick /\ UNCHANGED lockVars)
  /\ WF_vars(Retry)
  /\ \A l \in Locks : SF_vars(UserUnlock(l))

-----------------------------------------------------------------------------
LockTypeOK ==
  /\ TypeOK
  /\ valid \in [Locks -> BOOLEAN]
  /\ lock_status \in [Locks -> {"UNLOCKED", "LOCKED"}]
  /\ lockid \in [Tasks -> Seq(Locks \cup {NoObject})] /\ overrun \subseteq Tasks
  /\ acquiring \in [PCBs -> Objects \cup {NoObject}]
  /\ held \in [Tasks -> SUBSET Locks]

(* Two tasks never are inside the critical section of one lock, whatever    *)
(* mixture of preemption, blocking, exits and kills came before.            *)
MutualExclusion ==
  \A t, u \in Tasks : t # u => held[t] \cap held[u] = {}

(* Nobody sleeps on a free lock: a release wakes all, and who is woken and  *)
(* finds the lock taken again is back in the list before anyone runs.       *)
NoSleeperOnFreeLock ==
  \A l \in Locks : lock_status[l] = "UNLOCKED" => wait_queue[l] = <<>>

(* Whatever kills have made of the records, none lists a lock that its task *)
(* neither holds nor waits for: an end never frees the lock of another.     *)
RecordsNoOther ==
  \A t \in Tasks : Recorded(t) \subseteq held[t] \cup ({acquiring[t]} \cap Locks)

(* A dead task is never given the hart again, and its node is in no list.   *)
DeadStayDead ==
  [][\A t \in Tasks : status[t] \in Dead /\ pid'[t] = pid[t]
       => /\ status'[t] \in Dead /\ current_running' # t
          /\ t \notin ToSet(ready_queue') \cup ToSet(sleep_queue') \cup Waiting']_vars

(* Seen from the programs this is the lock service of MutexService, blocked *)
(* tasks, wake-ups and second looks at the lock being invisible.            *)
Service == INSTANCE MutexService
  WITH Clients <- Tasks, free <- {l \in Locks : lock_status[l] = "UNLOCKED"}

ImplementsService == Service!Spec


=============================================================================
