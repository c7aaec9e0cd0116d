----------------------------- MODULE Semaphores -----------------------------
(***************************************************************************)
(* The counting semaphores of Project6-FileSystem (kernel/sched/sched.c,   *)
(* sys_mthread_semaphore_*; semaphore_get of kernel/locking/lock.c).       *)
(*                                                                         *)
(* sys_mthread_semaphore_down blocks in the middle of the call: while      *)
(* acquiring[t] is a semaphore, t tests it again when it is switched in.   *)
(*                                                                         *)
(* Programs take a permit with down, use what it protects, and give it     *)
(* back with up; inside is what their control flow knows.                  *)
(***************************************************************************)
EXTENDS Locks

CONSTANTS
  Semaphores,     \* the entries of whole_semaphores the programs use
  Values          \* the initial values they pass

ASSUME SemaphoreAssumption ==
  Semaphores \subseteq Objects /\ Semaphores \cap Locks = {} /\ Values \subseteq Nat \ {0}

VARIABLES
  sem_valid, sem,
  value,          \* the value given to semaphore_get
  inside          \* the tasks between down and up

semVars == <<sem_valid, sem, value, inside>>
allVars == <<vars, semVars>>

-----------------------------------------------------------------------------
(* semaphore_get probes for an entry that is not in use.  Its queue is as   *)
(* the last user left it.                                                   *)
SemInit(s, v) ==
  /\ InCall("sem_init") /\ ~sem_valid[s]
  /\ sem_valid' = [sem_valid EXCEPT ![s] = TRUE]
  /\ sem' = [sem EXCEPT ![s] = v]
  /\ value' = [value EXCEPT ![s] = v]
  /\ UNCHANGED <<vars, inside>>

(* The end of a successful down.                                            *)
Take(s, left) ==
  /\ sem' = [sem EXCEPT ![s] = left]
  /\ inside' = [inside EXCEPT ![s] = @ \cup {current_running}]
  /\ acquiring' = [acquiring EXCEPT ![current_running] = NoObject]
  /\ UNCHANGED <<wait_queue, runVars>>

(* One turn of the loop of sys_mthread_semaphore_down.                      *)
TryDown(s) ==
  \/ sem[s] >= 1 /\ Take(s, sem[s] - 1)
  \/ /\ sem[s] < 1
     /\ acquiring' = [acquiring EXCEPT ![current_running] = s]
     /\ DoBlock(s)
     /\ UNCHANGED <<sem, inside>>

(* On an entry that is not in use the call fails and changes nothing.       *)
SemDown(s) ==
  /\ InCall("sem_down") /\ current_running \in Workers
  /\ sem_valid[s] /\ current_running \notin inside[s]
  /\ TryDown(s)
  /\ UNCHANGED <<pcbVars, valid, lock_status, lockid, overrun, held, sem_valid, value>>

(* wrong: the count is not tested again. *)
SemRetryWithoutTest ==
  /\ Mapped /\ acquiring[current_running] \in Semaphores
  /\ Take(acquiring[current_running], sem[acquiring[current_running]] - 1)
  /\ UNCHANGED <<pcbVars, valid, lock_status, lockid, overrun, held, sem_valid, value>>

SemRetry ==
  /\ Mapped /\ acquiring[current_running] \in Semaphores
  /\ TryDown(acquiring[current_running])
  /\ UNCHANGED <<pcbVars, valid, lock_status, lockid, overrun, held, sem_valid, value>>

(* wrong: one waiter is woken, as POSIX has it. *)
UpWakesOne(s) == IF sem[s] = 0 THEN FirstOnly(wait_queue[s]) ELSE <<>>

(* Whom an up wakes: everybody when the count becomes 1, else nobody.       *)
UpWakes(s) == IF sem[s] = 0 THEN wait_queue[s] ELSE <<>>

SemUp(s) ==
  /\ InCall("sem_up") /\ sem_valid[s] /\ current_running \in inside[s]
  /\ inside' = [inside EXCEPT ![s] = @ \ {current_running}]
  /\ sem' = [sem EXCEPT ![s] = @ + 1]
  /\ ready_queue' = ready_queue \o UpWakes(s)
  /\ status' = Awaken(status, ToSet(UpWakes(s)))
  /\ wait_queue' = [wait_queue EXCEPT ![s] = SubSeq(@, Len(UpWakes(s)) + 1, Len(@))]
  /\ UNCHANGED <<pcbVars, timer, sleep_queue, current_running, satp, lockVars, sem_valid, value>>

InUse(s) == inside[s] # {} \/ \E t \in Tasks : Alive(t) /\ acquiring[t] = s

(* sys_mthread_semaphore_destroy leaves the count and the waiters alone.    *)
(* Programs destroy a semaphore when they have done with it.                *)
SemDestroy(s) ==
  /\ InCall("sem_destroy") /\ sem_valid[s] /\ ~InUse(s)
  /\ sem_valid' = [sem_valid EXCEPT ![s] = FALSE]
  /\ UNCHANGED <<vars, sem, value, inside>>

-----------------------------------------------------------------------------
SemaphoreInit ==
  /\ LockInit
  /\ sem_valid = [s \in Semaphores |-> FALSE]
  /\ sem = [s \in Semaphores |-> 0]
  /\ value = [s \in Semaphores |-> 0]
  /\ inside = [s \in Semaphores |-> {}]

SomeUp == InUser /\ \E s \in Semaphores : SemUp(s)

(* A task that ends or is killed inside never gives its permit back: the    *)
(* kernel records locks only.                                               *)
OtherStep ==
  /\ LockNext
  /\ inside' = [s \in Semaphores |-> {t \in inside[s] : status'[t] \notin Dead}]
  /\ UNCHANGED <<sem_valid, sem, value>>

SemaphoreNext ==
  \/ OtherStep
  \/ InUser /\ \E s \in Semaphores :
       \/ \E v \in Values : SemInit(s, v)
       \/ SemDown(s)
       \/ SemDestroy(s)
  \/ SomeUp
  \/ SemRetry

SemaphoreSpec == SemaphoreInit /\ [][SemaphoreNext]_allVars

(* The timer fires, the kernel finishes what it resumes, and a program that *)
(* gets the hart again and again gives its permit back.                     *)
FairSemaphoreSpec ==
  /\ SemaphoreSpec
  /\ WF_allVars(InUser /\ TimerInterrupt /\ UNCHANGED <<lockVars, semVars>>)
  /\ WF_allVars(SemRetry)
  /\ SF_allVars(SomeUp)

-----------------------------------------------------------------------------

(* No more tasks are inside than there were permits, and no permit is made  *)
(* up: not when several waiters are woken for one permit and another task   *)
(* takes it first, nor when a task is killed inside or in the queue.        *)
PermitsNotExceeded ==
  \A s \in Semaphores :
    sem_valid[s] => sem[s] >= 0 /\ Cardinality(inside[s]) + sem[s] <= value[s]

(* Nobody sleeps while a permit is left.  up looks at its queue only when   *)
(* the count goes from 0 to 1: that no second up ever finds a sleeper is    *)
(* what makes the shortcut correct.                                         *)
NoSleeperOnPermit ==
  \A s \in Semaphores : sem[s] >= 1 => wait_queue[s] = <<>>

(* Whoever waits for a permit is woken, unless all permits went with tasks  *)
(* that died inside: the kernel does not give those back.                   *)
PermitWaitersAreWoken ==
  \A s \in Semaphores :
    wait_queue[s] # <<>> ~> wait_queue[s] = <<>> \/ (sem[s] = 0 /\ inside[s] = {})

=============================================================================
