----------------------------- MODULE SyncProofs -----------------------------
(***************************************************************************)
(* What holds of the counting semaphores for every number of tasks,        *)
(* semaphores and permits, with tasks killed inside and in the queue; and  *)
(* of the barrier for every number of participants and of rounds, with     *)
(* participants killed while they wait.  The programs' handles map to      *)
(* entry 0 here, the only entry the calls use: of another entry Barriers   *)
(* says what goes wrong.                                                   *)
(***************************************************************************)
EXTENDS Semaphores, Barriers, LocksProofs

USE SizeAssumption, MaskAssumption, ModeAssumption

-----------------------------------------------------------------------------
(* Semaphores.                                                             *)

SemTypeOK ==
  /\ sem_valid \in [Semaphores -> BOOLEAN]
  /\ sem \in [Semaphores -> Nat]
  /\ value \in [Semaphores -> Nat]
  /\ inside \in [Semaphores -> SUBSET Tasks]

(* The queue of a semaphore lists tasks that are inside down.              *)
SleepersAcquire == \A s \in Semaphores : \A t \in ToSet(wait_queue[s]) : acquiring[t] = s

FreeUnused == \A s \in Semaphores : ~sem_valid[s] => ~InUse(s)

SemInv == KernelInv /\ SemTypeOK /\ SleepersAcquire /\ FreeUnused

SemSafe == NoSleeperOnPermit /\ PermitsNotExceeded

(* A semaphore is no lock.                                                 *)
LEMMA SemaphoreNoLock ==
  ASSUME NEW s \in Semaphores
  PROVE  s \in Objects \ Locks /\ s \in Queues /\ s # NoObject
BY SemaphoreAssumption, ObjectNoTask

(* A sleeper is a user of the semaphore.                                   *)
LEMMA SleepersUse ==
  ASSUME SemInv, NEW s \in Semaphores, wait_queue[s] # <<>>
  PROVE  InUse(s)
<1>1. wait_queue[s] \in Seq(Tasks) /\ s \in Queues
  BY SemaphoreNoLock, QueueTypes DEF SemInv, KernelInv, EndInv
<1>2. PICK t \in Tasks : t \in ToSet(wait_queue[s])
  <2>1. 1 \in DOMAIN wait_queue[s] /\ wait_queue[s][1] \in Tasks
    BY <1>1
  <2> QED
    BY <2>1 DEF ToSet
<1>3. acquiring[t] = s /\ status[t] = "BLOCKED" /\ pid[t] # NoPid
  BY <1>1, <1>2 DEF SemInv, SleepersAcquire, KernelInv, EndInv, QueueInv, InOrder, Placed, Owners, Unused
<1> QED
  BY <1>3 DEF InUse, Alive, Dead

(* The tasks inside a semaphore are finitely many.                         *)
LEMMA InsideCounts ==
  ASSUME NEW S \in SUBSET Tasks
  PROVE  /\ Cardinality(S) \in Nat
         /\ \A R \in SUBSET S : Cardinality(R) <= Cardinality(S)
         /\ \A t : t \notin S => Cardinality(S \cup {t}) = Cardinality(S) + 1
         /\ \A t \in S : Cardinality(S \ {t}) = Cardinality(S) - 1
<1>1. IsFiniteSet(S)
  BY TasksFinite, FS_Subset
<1> QED
  BY <1>1, FS_CardinalityType, FS_AddElement, FS_RemoveElement, FS_Subset

(* A step that is no call of a semaphore keeps the invariant.              *)
LEMMA OtherStepKept ==
  ASSUME SemInv, SemSafe, OtherStep
  PROVE  SemInv' /\ SemSafe'
<1>1. KernelInv' /\ OnlyNewAwake
  BY LockStepKeepsKernel DEF OtherStep, SemInv
<1>2. /\ UNCHANGED <<sem_valid, sem, value>>
      /\ \A s \in Semaphores : inside'[s] \subseteq inside[s]
      /\ inside' \in [Semaphores -> SUBSET Tasks]
  BY DEF OtherStep, SemInv, SemTypeOK
<1>3. \A s \in Semaphores : LeavesAlone(s)
  BY SemaphoreNoLock, LockStepLeavesAlone DEF OtherStep, SemInv, KernelInv
<1>4. SleepersAcquire'
  <2> SUFFICES ASSUME NEW s \in Semaphores, NEW t \in ToSet(wait_queue'[s])
               PROVE  acquiring'[t] = s
    BY DEF SleepersAcquire
  <2>1. t \in ToSet(wait_queue[s]) /\ t \in Tasks
    BY <1>3, SemaphoreNoLock, QueueTypes DEF LeavesAlone, SemInv, KernelInv, EndInv
  <2> QED
    BY <1>3, <2>1 DEF SemInv, SleepersAcquire, LeavesAlone
<1>5. FreeUnused'
  <2> SUFFICES ASSUME NEW s \in Semaphores, ~sem_valid'[s], InUse(s)'
               PROVE  FALSE
    BY DEF FreeUnused
  <2>1. ~InUse(s)
    BY <1>2 DEF SemInv, FreeUnused
  <2>2. PICK t \in Tasks : Alive(t)' /\ acquiring'[t] = s
    BY <1>2, <2>1 DEF InUse
  <2>3. acquiring[t] = s
    BY <1>3, <2>2 DEF LeavesAlone
  <2>4. pid[t] = NoPid
    BY <1>1, <2>1, <2>2, <2>3 DEF OnlyNewAwake, InUse
  <2> QED
    BY <2>3, <2>4, SemaphoreNoLock DEF SemInv, KernelInv, FreshAcquireNothing
<1>6. NoSleeperOnPermit'
  BY <1>2, <1>3 DEF SemSafe, NoSleeperOnPermit, LeavesAlone
<1>7. PermitsNotExceeded'
  <2> SUFFICES ASSUME NEW s \in Semaphores, sem_valid[s]
               PROVE  sem[s] >= 0 /\ Cardinality(inside'[s]) + sem[s] <= value[s]
    BY <1>2 DEF PermitsNotExceeded
  <2>1. sem[s] >= 0 /\ Cardinality(inside[s]) + sem[s] <= value[s]
    BY DEF SemSafe, PermitsNotExceeded
  <2>2. Cardinality(inside'[s]) <= Cardinality(inside[s])
    BY <1>2, InsideCounts DEF SemInv, SemTypeOK
  <2>3. Cardinality(inside'[s]) \in Nat /\ Cardinality(inside[s]) \in Nat
    BY <1>2, InsideCounts DEF SemInv, SemTypeOK
  <2> QED
    BY <2>1, <2>2, <2>3 DEF SemInv, SemTypeOK
<1> QED
  BY <1>1, <1>2, <1>4, <1>5, <1>6, <1>7 DEF SemInv, SemTypeOK, SemSafe

(* do_semaphore_init keeps it.                                             *)
LEMMA SemInitKept ==
  ASSUME SemInv, SemSafe, NEW s \in Semaphores, NEW v \in Values, SemInit(s, v)
  PROVE  SemInv' /\ SemSafe'
<1>1. /\ ~sem_valid[s] /\ sem_valid' = [sem_valid EXCEPT ![s] = TRUE]
      /\ sem' = [sem EXCEPT ![s] = v] /\ value' = [value EXCEPT ![s] = v]
      /\ v \in Nat /\ UNCHANGED <<vars, inside>>
  BY SemaphoreAssumption DEF SemInit
<1>2. ~InUse(s) /\ wait_queue[s] = <<>>
  BY <1>1, SleepersUse DEF SemInv, FreeUnused
<1>3. KernelInv'
  BY <1>1, VarsKeepKernel DEF SemInv
<1>4. UNCHANGED <<pid, status, wait_queue, acquiring, inside>>
  BY <1>1 DEF vars, schedVars, pcbVars, runVars, lockVars
<1>5. SemTypeOK'
  BY <1>1 DEF SemInv, SemTypeOK
<1>6. SleepersAcquire' /\ FreeUnused'
  BY <1>1, <1>4 DEF SemInv, SemTypeOK, SleepersAcquire, FreeUnused, InUse, Alive
<1>7. inside[s] = {} /\ Cardinality({}) = 0
  BY <1>2, FS_EmptySet DEF InUse
<1>8. /\ sem'[s] = v /\ value'[s] = v
      /\ \A k \in Semaphores \ {s} : /\ sem'[k] = sem[k] /\ value'[k] = value[k]
                                     /\ sem_valid'[k] = sem_valid[k]
  BY <1>1 DEF SemInv, SemTypeOK
<1>9. NoSleeperOnPermit'
  BY <1>2, <1>4, <1>8 DEF SemSafe, NoSleeperOnPermit
<1>10. PermitsNotExceeded'
  <2> SUFFICES ASSUME NEW k \in Semaphores, sem_valid'[k]
               PROVE  sem'[k] >= 0 /\ Cardinality(inside'[k]) + sem'[k] <= value'[k]
    BY DEF PermitsNotExceeded
  <2>1. inside' = inside /\ v \in Nat
    BY <1>1
  <2>2. CASE k = s
    <3>1. inside'[k] = {} /\ sem'[k] = v /\ value'[k] = v
      BY <1>7, <1>8, <2>1, <2>2
    <3>2. Cardinality(inside'[k]) = 0
      BY <1>7, <3>1
    <3> QED
      BY <2>1, <3>1, <3>2
  <2>3. CASE k # s
    <3>1. sem_valid[k] /\ sem'[k] = sem[k] /\ value'[k] = value[k]
      BY <1>8, <2>3
    <3>2. sem[k] >= 0 /\ Cardinality(inside[k]) + sem[k] <= value[k]
      BY <3>1 DEF SemSafe, PermitsNotExceeded
    <3> QED
      BY <2>1, <3>1, <3>2
  <2> QED
    BY <2>2, <2>3
<1> QED
  BY <1>3, <1>5, <1>6, <1>9, <1>10 DEF SemInv, SemSafe

(* do_semaphore_destroy keeps it.                                          *)
LEMMA SemDestroyKept ==
  ASSUME SemInv, SemSafe, NEW s \in Semaphores, SemDestroy(s)
  PROVE  SemInv' /\ SemSafe'
<1>1. /\ ~InUse(s) /\ sem_valid' = [sem_valid EXCEPT ![s] = FALSE]
      /\ UNCHANGED <<vars, sem, value, inside>>
  BY DEF SemDestroy
<1>2. KernelInv'
  BY <1>1, VarsKeepKernel DEF SemInv
<1>3. UNCHANGED <<pid, status, wait_queue, acquiring>>
  BY <1>1 DEF vars, schedVars, pcbVars, runVars, lockVars
<1>4. \A k \in Semaphores : k = s \/ sem_valid'[k] = sem_valid[k]
  BY <1>1 DEF SemInv, SemTypeOK
<1>5. SemTypeOK' /\ sem_valid'[s] = FALSE
  BY <1>1 DEF SemInv, SemTypeOK
<1>6. SleepersAcquire' /\ FreeUnused'
  BY <1>1, <1>3, <1>4 DEF SemInv, SleepersAcquire, FreeUnused, InUse, Alive
<1>7. NoSleeperOnPermit' /\ PermitsNotExceeded'
  BY <1>1, <1>3, <1>4, <1>5 DEF SemSafe, NoSleeperOnPermit, PermitsNotExceeded
<1> QED
  BY <1>2, <1>5, <1>6, <1>7 DEF SemInv, SemSafe

(* One turn of the loop in down, by a task that runs and has a valid entry. *)
LEMMA TryDownKept ==
  ASSUME SemInv, SemSafe, NEW s \in Semaphores, TryDown(s), sem_valid[s],
         current_running \in Tasks, current_running \in Workers,
         acquiring[current_running] \in {NoObject, s},
         UNCHANGED <<pcbVars, valid, lock_status, lockid, overrun, held, sem_valid, value>>
  PROVE  SemInv' /\ SemSafe'
<1> DEFINE cur == current_running
<1>0. /\ QueueInv /\ LockTypeOK /\ TypeOK /\ EndInv
      /\ s \in Queues /\ s \in Objects /\ s # NoObject
      /\ Tasks \subseteq PCBs /\ Pid0 \in PCBs /\ Pid0 \notin Tasks /\ 0 \in PCBs
      /\ wait_queue \in [Queues -> Seq(Tasks)]
      /\ acquiring \in [PCBs -> Objects \cup {NoObject}]
  BY SemaphoreNoLock, PCBFacts, QueueTypes DEF SemInv, KernelInv, EndInv, LockTypeOK
<1>1. /\ status[cur] = "RUNNING" /\ pid[cur] # NoPid
      /\ \A q \in Queues : cur \notin ToSet(wait_queue[q])
  BY <1>0, QueueTypes DEF QueueInv, InOrder, Placed, Owners, Unused, Active
<1>2. CASE sem[s] >= 1 /\ Take(s, sem[s] - 1)
  <2>1. /\ sem' = [sem EXCEPT ![s] = sem[s] - 1]
        /\ inside' = [inside EXCEPT ![s] = @ \cup {cur}]
        /\ acquiring' = [acquiring EXCEPT ![cur] = NoObject]
        /\ UNCHANGED <<wait_queue, runVars>>
    BY <1>2 DEF Take
  <2>2. KernelInv'
    BY <2>1, ReturnKeepsKernel DEF SemInv
  <2>3. SemTypeOK'
    BY <1>2, <2>1 DEF SemInv, SemTypeOK
  <2>4. \A t \in Tasks : t # cur => acquiring'[t] = acquiring[t]
    BY <1>0, <2>1
  <2>5. \A k \in Semaphores : \A t \in ToSet(wait_queue'[k]) : t # cur /\ t \in Tasks
    BY <1>1, <2>1, SemaphoreNoLock, QueueTypes, <1>0
  <2>6. SleepersAcquire'
    BY <2>1, <2>4, <2>5 DEF SemInv, SleepersAcquire
  <2>7. FreeUnused'
    <3>1. \A k \in Semaphores : \A t \in Tasks : acquiring'[t] = k => acquiring[t] = k
      BY <1>0, <2>1, <2>4, SemaphoreNoLock
    <3>2. \A k \in Semaphores : k # s => inside'[k] = inside[k]
      BY <2>1 DEF SemInv, SemTypeOK
    <3> QED
      BY <2>1, <3>1, <3>2 DEF SemInv, FreeUnused, InUse, Alive, pcbVars, runVars
  <2>8. /\ sem'[s] = sem[s] - 1 /\ inside'[s] = inside[s] \cup {cur}
        /\ \A k \in Semaphores \ {s} : sem'[k] = sem[k] /\ inside'[k] = inside[k]
        /\ sem[s] \in Nat /\ value[s] \in Nat
    BY <2>1 DEF SemInv, SemTypeOK
  <2>9. NoSleeperOnPermit'
    BY <1>2, <2>1, <2>8 DEF SemSafe, NoSleeperOnPermit
  <2>10. PermitsNotExceeded'
    <3>1. /\ Cardinality(inside[s]) \in Nat /\ Cardinality(inside'[s]) \in Nat
          /\ Cardinality(inside'[s]) <= Cardinality(inside[s]) + 1
      <4>1. inside[s] \in SUBSET Tasks
        BY DEF SemInv, SemTypeOK
      <4>2. CASE cur \in inside[s]
        <5>1. inside'[s] = inside[s]
          BY <2>8, <4>2
        <5> QED
          BY <4>1, <5>1, InsideCounts
      <4>3. CASE cur \notin inside[s]
        BY <2>8, <4>1, <4>3, InsideCounts
      <4> QED
        BY <4>2, <4>3
    <3>2. Cardinality(inside[s]) + sem[s] <= value[s]
      BY DEF SemSafe, PermitsNotExceeded
    <3>3. sem'[s] >= 0 /\ Cardinality(inside'[s]) + sem'[s] <= value[s]
      BY <1>2, <2>8, <3>1, <3>2
    <3> QED
      BY <2>8, <3>3 DEF SemSafe, PermitsNotExceeded
  <2> QED
    BY <2>2, <2>3, <2>6, <2>7, <2>9, <2>10 DEF SemInv, SemSafe
<1>3. CASE /\ acquiring' = [acquiring EXCEPT ![cur] = s]
           /\ DoBlock(s)
           /\ UNCHANGED <<sem, inside>>
           /\ sem[s] < 1
  <2>3. /\ KernelInv' /\ DeadStep
        /\ ToSet(wait_queue'[s]) = ToSet(wait_queue[s]) \cup {cur}
        /\ \A k \in Queues : k # s => wait_queue'[k] = wait_queue[k]
    BY <1>0, <1>3, BlockKeepsKernel DEF SemInv
  <2>4. \A k \in Semaphores : k # s => wait_queue'[k] = wait_queue[k]
    BY <2>3, SemaphoreNoLock
  <2>5. \A t \in Tasks : acquiring'[t] = IF t = cur THEN s ELSE acquiring[t]
    BY <1>0, <1>3
  <2>6. SleepersAcquire'
    <3> SUFFICES ASSUME NEW k \in Semaphores, NEW t \in ToSet(wait_queue'[k])
                 PROVE  acquiring'[t] = k
      BY DEF SleepersAcquire
    <3>1. CASE t = cur
      BY <1>1, <2>4, <2>5, <3>1, SemaphoreNoLock
    <3>2. CASE t # cur
      <4>0. t \in ToSet(wait_queue[k])
        BY <2>3, <2>4, <3>2
      <4>1. t \in ToSet(wait_queue[k]) /\ t \in Tasks
        BY <4>0, SemaphoreNoLock, WaiterFacts DEF SemInv
      <4> QED
        BY <2>5, <3>2, <4>1 DEF SemInv, SleepersAcquire
    <3> QED
      BY <3>1, <3>2
  <2>7. FreeUnused'
    <3>1. \A t \in Tasks : Alive(t)' => Alive(t)
      BY <2>3 DEF DeadStep, Alive, pcbVars
    <3>2. \A k \in Semaphores \ {s} : \A t \in Tasks : acquiring'[t] = k => acquiring[t] = k
      BY <2>5
    <3> QED
      BY <1>3, <3>1, <3>2 DEF SemInv, FreeUnused, InUse
  <2>8. NoSleeperOnPermit' /\ PermitsNotExceeded' /\ SemTypeOK'
    BY <1>3, <2>3, <2>4 DEF SemSafe, NoSleeperOnPermit, PermitsNotExceeded, SemInv, SemTypeOK
  <2> QED
    BY <2>3, <2>6, <2>7, <2>8 DEF SemInv, SemSafe
<1> QED
  BY <1>2, <1>3 DEF TryDown

(* do_semaphore_up keeps it.                                               *)
LEMMA SemUpKept ==
  ASSUME SemInv, SemSafe, NEW s \in Semaphores, SemUp(s)
  PROVE  SemInv' /\ SemSafe'
<1> DEFINE cur == current_running
           woken == UpWakes(s)
<1>0. /\ QueueInv /\ LockTypeOK /\ TypeOK /\ EndInv
      /\ s \in Queues /\ wait_queue \in [Queues -> Seq(Tasks)] /\ wait_queue[s] \in Seq(Tasks)
      /\ sem[s] \in Nat /\ value[s] \in Nat /\ inside[s] \in SUBSET Tasks
  BY SemaphoreNoLock, QueueTypes DEF SemInv, SemTypeOK, KernelInv, EndInv, LockTypeOK
<1>1. /\ sem_valid[s] /\ cur \in inside[s] /\ cur \in Tasks
      /\ inside' = [inside EXCEPT ![s] = @ \ {cur}]
      /\ sem' = [sem EXCEPT ![s] = @ + 1]
      /\ ready_queue' = ready_queue \o woken
      /\ status' = Awaken(status, ToSet(woken))
      /\ wait_queue' = [wait_queue EXCEPT ![s] = SubSeq(@, Len(woken) + 1, Len(@))]
      /\ UNCHANGED <<pcbVars, timer, sleep_queue, current_running, satp, lockVars, sem_valid, value>>
  BY DEF SemUp, InCall
<1>2. /\ woken = IF sem[s] = 0 THEN wait_queue[s] ELSE <<>>
      /\ wait_queue'[s] = IF sem[s] = 0 THEN <<>> ELSE wait_queue[s]
  <2>1. wait_queue'[s] = SubSeq(wait_queue[s], Len(woken) + 1, Len(wait_queue[s]))
    BY <1>0, <1>1
  <2>2. CASE sem[s] = 0
    <3>1. woken = wait_queue[s]
      BY <2>2 DEF UpWakes
    <3>2. SubSeq(wait_queue[s], Len(wait_queue[s]) + 1, Len(wait_queue[s])) = <<>>
      BY <1>0
    <3> QED
      BY <2>1, <2>2, <3>1, <3>2
  <2>3. CASE sem[s] # 0
    <3>1. woken = <<>>
      BY <2>3 DEF UpWakes
    <3>2. Len(<<>>) + 1 = 1 /\ SubSeq(wait_queue[s], 1, Len(wait_queue[s])) = wait_queue[s]
      BY <1>0
    <3> QED
      BY <2>1, <2>3, <3>1, <3>2
  <2> QED
    BY <2>2, <2>3
<1>3. ASSUME sem[s] = 0 PROVE KernelInv' /\ DeadStep
  <2>1. /\ ready_queue' = ready_queue \o wait_queue[s]
        /\ status' = Awaken(status, ToSet(wait_queue[s]))
    BY <1>1, <1>2, <1>3
  <2>2. wait_queue' = [wait_queue EXCEPT ![s] = <<>>]
    BY <1>0, <1>1, <1>2, <1>3
  <2>3. KernelInv' /\ DeadStep
    BY <1>1, <2>1, <2>2, SemaphoreNoLock, WakeKeepsKernel DEF SemInv, lockVars
  <2> QED
    BY <2>3
<1>4. ASSUME sem[s] # 0 PROVE KernelInv' /\ DeadStep
  <2>1. ready_queue' = ready_queue /\ status' = status
    BY <1>0, <1>1, <1>2, <1>4, EmptyQueue DEF Awaken, TypeOK
  <2>2. wait_queue' = wait_queue
    BY <1>0, <1>1, <1>2, <1>4
  <2>3. KernelInv'
    BY <1>1, <2>1, <2>2, VarsKeepKernel DEF SemInv, vars, schedVars, runVars
  <2> QED
    BY <2>1, <2>3 DEF DeadStep
<1>5. /\ KernelInv' /\ DeadStep
      /\ \A q \in Queues : wait_queue'[q] = IF q = s /\ sem[s] = 0 THEN <<>> ELSE wait_queue[q]
  <2>1. \A q \in Queues : wait_queue'[q] = IF q = s /\ sem[s] = 0 THEN <<>> ELSE wait_queue[q]
    BY <1>0, <1>1, <1>2
  <2> QED
    BY <1>3, <1>4, <2>1
<1>8. /\ sem'[s] = sem[s] + 1 /\ inside'[s] = inside[s] \ {cur}
      /\ \A k \in Semaphores \ {s} : sem'[k] = sem[k] /\ inside'[k] = inside[k]
      /\ SemTypeOK'
  BY <1>1 DEF SemInv, SemTypeOK
<1>9. \A k \in Semaphores : /\ ToSet(wait_queue'[k]) \subseteq ToSet(wait_queue[k])
                            /\ wait_queue[k] = <<>> => wait_queue'[k] = <<>>
  BY <1>5, EmptyQueue, SemaphoreNoLock
<1>10. SleepersAcquire'
  BY <1>1, <1>9 DEF SemInv, SleepersAcquire, lockVars
<1>11. FreeUnused'
  <2>1. \A t \in Tasks : Alive(t)' => Alive(t)
    BY <1>1, <1>5 DEF DeadStep, Alive, pcbVars
  <2>2. \A k \in Semaphores : sem_valid'[k] = sem_valid[k] /\ acquiring' = acquiring
    BY <1>1 DEF lockVars
  <2> QED
    BY <1>1, <1>8, <2>1, <2>2 DEF SemInv, FreeUnused, InUse
<1>12. NoSleeperOnPermit'
  <2> SUFFICES ASSUME NEW k \in Semaphores, sem'[k] >= 1 PROVE wait_queue'[k] = <<>>
    BY DEF NoSleeperOnPermit
  <2>1. CASE k = s /\ sem[s] = 0
    BY <1>2, <2>1
  <2>2. CASE k # s \/ sem[s] # 0
    <3>1. sem[k] >= 1
      BY <1>0, <1>8, <2>2
    <3> QED
      BY <1>9, <3>1 DEF SemSafe, NoSleeperOnPermit
  <2> QED
    BY <2>1, <2>2
<1>13. PermitsNotExceeded'
  <2>1. Cardinality(inside'[s]) = Cardinality(inside[s]) - 1 /\ Cardinality(inside[s]) \in Nat
    BY <1>0, <1>1, <1>8, InsideCounts
  <2>2. Cardinality(inside[s]) + sem[s] <= value[s]
    BY <1>1 DEF SemSafe, PermitsNotExceeded
  <2>3. sem'[s] >= 0 /\ Cardinality(inside'[s]) + sem'[s] <= value[s]
    BY <1>0, <1>8, <2>1, <2>2
  <2>4. UNCHANGED <<sem_valid, value>>
    BY <1>1
  <2> QED
    BY <1>8, <2>3, <2>4 DEF SemSafe, PermitsNotExceeded
<1> QED
  BY <1>5, <1>8, <1>10, <1>11, <1>12, <1>13 DEF SemInv, SemSafe

(* Every step keeps it.                                                    *)
LEMMA SemaphoreStep ==
  ASSUME SemInv, SemSafe, [SemaphoreNext]_allVars
  PROVE  SemInv' /\ SemSafe'
<1>1. ASSUME NEW s \in Semaphores, InUser, SemDown(s) PROVE SemInv' /\ SemSafe'
  BY <1>1, TryDownKept DEF SemDown, InCall, InUser
<1>2. CASE SemRetry
  <2> DEFINE s == acquiring[current_running]
  <2>1. s \in Semaphores /\ TryDown(s)
    BY <1>2 DEF SemRetry
  <2>2. current_running \in Tasks /\ current_running \in Workers
    <3>1. s # NoObject /\ current_running \in PCBs
      BY <2>1, SemaphoreNoLock, QueueTypes DEF SemInv, KernelInv, EndInv
    <3> QED
      BY <3>1 DEF SemInv, KernelInv, EndInv, BootAcquiresNothing, OnlyWorkersAcquire, PCBs
  <2>3. Alive(current_running)
    BY <2>2, QueueTypes, PCBFacts
       DEF SemInv, KernelInv, EndInv, QueueInv, Owners, Unused, Active, Alive, Dead
  <2>4. sem_valid[s]
    BY <2>1, <2>2, <2>3 DEF SemInv, FreeUnused, InUse
  <2>5. UNCHANGED <<pcbVars, valid, lock_status, lockid, overrun, held, sem_valid, value>>
    BY <1>2 DEF SemRetry
  <2> HIDE DEF s
  <2>6. acquiring[current_running] = s
    BY DEF s
  <2> QED
    BY <2>1, <2>2, <2>4, <2>5, <2>6, TryDownKept
<1>3. CASE UNCHANGED allVars
  <2>1. UNCHANGED vars /\ UNCHANGED semVars /\ UNCHANGED <<pid, status, wait_queue, acquiring>>
    BY <1>3 DEF allVars, vars, schedVars, pcbVars, runVars, lockVars
  <2>2. KernelInv'
    BY <2>1, VarsKeepKernel DEF SemInv
  <2> QED
    BY <2>1, <2>2 DEF semVars, SemInv, SemTypeOK, SleepersAcquire, FreeUnused, InUse, Alive,
                      SemSafe, NoSleeperOnPermit, PermitsNotExceeded
<1> QED
  BY <1>1, <1>2, <1>3, OtherStepKept, SemInitKept, SemDestroyKept, SemUpKept DEF SemaphoreNext, SomeUp

(* It holds before the first call.                                         *)
LEMMA SemaphoreInitInv == NobodyStranded /\ SemaphoreInit => SemInv /\ SemSafe
<1> SUFFICES ASSUME NobodyStranded, SemaphoreInit PROVE SemInv /\ SemSafe
  OBVIOUS
<1>1. EndInv
  BY LockInitEnds DEF SemaphoreInit
<1>2. FreshAcquireNothing /\ \A t \in Tasks : acquiring[t] = NoObject
  BY PCBFacts DEF SemaphoreInit, LockInit, FreshAcquireNothing
<1>3. \A s \in Semaphores : wait_queue[s] = <<>> /\ s # NoObject
  BY SemaphoreNoLock DEF SemaphoreInit, LockInit, Init, Queues
<1>4. SemTypeOK
  BY DEF SemaphoreInit, SemTypeOK
<1>5. SleepersAcquire /\ FreeUnused
  BY <1>2, <1>3, EmptyQueue DEF SemaphoreInit, SleepersAcquire, FreeUnused, InUse
<1>6. SemSafe
  BY <1>3 DEF SemaphoreInit, SemSafe, NoSleeperOnPermit, PermitsNotExceeded
<1> QED
  BY <1>1, <1>2, <1>4, <1>5, <1>6 DEF SemInv, KernelInv

(* Between do_semaphore_down and do_semaphore_up there are never more      *)
(* tasks than permits, for every number of permits and whoever is killed.  *)
THEOREM PermitsKept ==
  ASSUME NobodyStranded
  PROVE  SemaphoreSpec => []PermitsNotExceeded
<1>1. SemInv /\ SemSafe /\ [SemaphoreNext]_allVars => SemInv' /\ SemSafe'
  BY SemaphoreStep
<1>2. SemSafe => PermitsNotExceeded
  BY DEF SemSafe
<1>3. SemaphoreInit => SemInv /\ SemSafe
  BY SemaphoreInitInv
<1> QED
  BY <1>1, <1>2, <1>3, PTL DEF SemaphoreSpec

(* Nobody sleeps in do_semaphore_down while a permit is free:              *)
(* do_semaphore_up, and a woken task killed before it goes on, leave no    *)
(* wake-up lost.                                                           *)
THEOREM PermitsWakeAll ==
  ASSUME NobodyStranded
  PROVE  SemaphoreSpec => []NoSleeperOnPermit
<1>1. SemInv /\ SemSafe /\ [SemaphoreNext]_allVars => SemInv' /\ SemSafe'
  BY SemaphoreStep
<1>2. SemSafe => NoSleeperOnPermit
  BY DEF SemSafe
<1>3. SemaphoreInit => SemInv /\ SemSafe
  BY SemaphoreInitInv
<1> QED
  BY <1>1, <1>2, <1>3, PTL DEF SemaphoreSpec

-----------------------------------------------------------------------------
(* The barrier.                                                            *)

BarTypeOK ==
  /\ bar_valid \in [Entries -> BOOLEAN]
  /\ goal \in [Entries -> Nat]
  /\ cur_num \in [Entries -> Nat]
  /\ arrived \in [Tasks -> Nat]
  /\ passed \in [Tasks -> Nat]

(* The participants that have come to the barrier for the round after k.   *)
Came(k) == {t \in Workers : arrived[t] = k + 1}

(* k rounds are over: everybody has come to each of them, those who have   *)
(* come to the next one wait for the others or are dead, and cur_num       *)
(* counts them.                                                            *)
RoundsOver(k) ==
  /\ \A t \in Workers : arrived[t] \in {k, k + 1} /\ arrived[t] <= MaxRounds /\ passed[t] <= k
  /\ \A t \in Came(k) :
       t \in ToSet(wait_queue[Handle]) \/ (status[t] \in Dead /\ pid[t] # NoPid)
  /\ IF bar_valid[Handle]
       THEN goal[Handle] = Cardinality(Workers) /\ cur_num[Handle] = Cardinality(Came(k))
       ELSE Came(k) = {}

OneEntry == Barriers \subseteq {Handle}
Participants == Workers \subseteq Tasks /\ NobodyStranded

BarInv == KernelInv /\ BarTypeOK /\ \E k \in Nat : RoundsOver(k)

(* Under OneEntry the barrier in use is entry 0.                           *)
LEMMA HandleFacts ==
  /\ Handle \in Objects \ Locks /\ Handle \in Queues /\ Handle \in Entries
  /\ MaxRounds \in Nat
BY BarrierAssumption, ObjectNoTask DEF Entries

(* The participants are finitely many.                                     *)
LEMMA WorkersCount ==
  ASSUME Participants, NEW S \in SUBSET Workers
  PROVE  /\ Cardinality(S) \in Nat /\ Cardinality(Workers) \in Nat
         /\ Cardinality(S) = Cardinality(Workers) => S = Workers
         /\ \A t : t \notin S => Cardinality(S \cup {t}) = Cardinality(S) + 1
<1>1. IsFiniteSet(Workers)
  BY TasksFinite, FS_Subset DEF Participants
<1>2. IsFiniteSet(S)
  BY <1>1, FS_Subset
<1> QED
  BY <1>1, <1>2, FS_Subset, FS_CardinalityType, FS_AddElement

(* Who is counted and gone stays gone, and the others stay in the queue.   *)
LEMMA WaitersCounted ==
  ASSUME KernelInv, DeadStep, NEW k \in Nat, RoundsOver(k), UNCHANGED <<arrived, passed>>,
         \A t \in Tasks : pid[t] # NoPid /\ t # current_running => pid'[t] = pid[t],
         StaysOrDies(Handle), Participants
  PROVE  \A t \in Came(k)' :
           t \in ToSet(wait_queue'[Handle]) \/ (status'[t] \in Dead /\ pid'[t] # NoPid)
<1> SUFFICES ASSUME NEW t \in Workers, arrived[t] = k + 1
             PROVE  t \in ToSet(wait_queue'[Handle]) \/ (status'[t] \in Dead /\ pid'[t] # NoPid)
  BY DEF Came
<1>1. t \in Tasks /\ t \in Came(k)
  BY DEF Participants, Came
<1>2. CASE t \in ToSet(wait_queue[Handle])
  BY <1>2 DEF StaysOrDies
<1>3. CASE status[t] \in Dead /\ pid[t] # NoPid
  <2>1. t # current_running
    BY <1>1, <1>3, CallerFacts DEF Dead
  <2> QED
    BY <1>1, <1>3, <2>1 DEF DeadStep
<1> QED
  BY <1>1, <1>2, <1>3 DEF RoundsOver

(* Everything but the four calls of the barrier leaves the rounds alone.   *)
LEMMA OtherCallsKeepRounds ==
  ASSUME BarInv, Participants, LockNext, UNCHANGED barVars
  PROVE  BarInv'
<1>0. UNCHANGED <<bar_valid, goal, cur_num, arrived, passed>>
  BY DEF barVars
<1>1. KernelInv' /\ DeadStep
  <2>1. KernelInv'
    BY <1>0, LockStepKeepsKernel DEF BarInv
  <2> QED
    BY <1>0, <2>1, EndStep DEF BarInv, KernelInv, EndInv
<1>2. PICK k \in Nat : RoundsOver(k)
  BY DEF BarInv
<1>3. \A t \in Tasks : pid[t] # NoPid /\ t # current_running => pid'[t] = pid[t]
  BY PidsKept DEF BarInv, KernelInv
<1>4. StaysOrDies(Handle)
  BY HandleFacts, LockStepKeepsWaiters DEF BarInv, KernelInv
<1>5. \A t \in Came(k)' :
        t \in ToSet(wait_queue'[Handle]) \/ (status'[t] \in Dead /\ pid'[t] # NoPid)
  BY <1>0, <1>1, <1>2, <1>3, <1>4, WaitersCounted DEF BarInv
<1>6. Came(k)' = Came(k)
  BY <1>0 DEF Came
<1>7. RoundsOver(k)'
  BY <1>0, <1>2, <1>5, <1>6 DEF RoundsOver
<1>8. BarTypeOK'
  BY <1>0 DEF BarInv, BarTypeOK
<1> QED
  BY <1>1, <1>7, <1>8 DEF BarInv

(* barrier_init: nobody waits on an entry before it is valid.              *)
LEMMA BarrierInitKeepsRounds ==
  ASSUME BarInv, Participants, OneEntry, NEW b \in Barriers, BarrierInit(b)
  PROVE  BarInv'
<1>1. /\ b = Handle /\ ~bar_valid[Handle]
      /\ bar_valid' = [bar_valid EXCEPT ![Handle] = TRUE]
      /\ goal' = [goal EXCEPT ![Handle] = Cardinality(Workers)]
      /\ cur_num' = [cur_num EXCEPT ![Handle] = 0]
      /\ UNCHANGED <<vars, arrived, passed>>
  BY DEF OneEntry, BarrierInit
<1>2. KernelInv' /\ UNCHANGED <<wait_queue, status, pid>>
  BY <1>1, VarsKeepKernel DEF BarInv, vars, schedVars, pcbVars, runVars
<1>3. /\ bar_valid'[Handle] /\ goal'[Handle] = Cardinality(Workers) /\ cur_num'[Handle] = 0
      /\ BarTypeOK'
  BY <1>1, HandleFacts, WorkersCount DEF BarInv, BarTypeOK
<1>4. PICK k \in Nat : RoundsOver(k)
  BY DEF BarInv
<1>5. Came(k) = {} /\ Came(k)' = Came(k) /\ Cardinality({}) = 0
  BY <1>1, <1>4, FS_EmptySet DEF RoundsOver, Came
<1>6. RoundsOver(k)'
  BY <1>1, <1>2, <1>3, <1>4, <1>5 DEF RoundsOver
<1> QED
  BY <1>2, <1>3, <1>6 DEF BarInv

(* barrier_destroy finds no participant in the middle of a round.          *)
LEMMA BarrierDestroyKeepsRounds ==
  ASSUME BarInv, Participants, BarrierDestroy
  PROVE  BarInv'
<1>1. /\ bar_valid' = [bar_valid EXCEPT ![Handle] = FALSE]
      /\ \A t \in Workers : passed[t] = MaxRounds
      /\ UNCHANGED <<vars, goal, cur_num, arrived, passed>>
  BY DEF BarrierDestroy
<1>2. KernelInv' /\ UNCHANGED <<wait_queue, status, pid>>
  BY <1>1, VarsKeepKernel DEF BarInv, vars, schedVars, pcbVars, runVars
<1>3. bar_valid'[Handle] = FALSE /\ BarTypeOK'
  BY <1>1, HandleFacts DEF BarInv, BarTypeOK
<1>4. PICK k \in Nat : RoundsOver(k)
  BY DEF BarInv
<1>5. Came(k) = {}
  <2> SUFFICES ASSUME NEW t \in Workers, arrived[t] = k + 1 PROVE FALSE
    BY DEF Came
  <2>1. arrived[t] <= MaxRounds /\ MaxRounds <= k /\ MaxRounds \in Nat
    BY <1>1, <1>4, HandleFacts DEF RoundsOver
  <2> QED
    BY <2>1
<1>6. Came(k)' = {}
  BY <1>1, <1>5 DEF Came
<1>7. RoundsOver(k)'
  BY <1>1, <1>2, <1>3, <1>4, <1>6 DEF RoundsOver
<1> QED
  BY <1>2, <1>3, <1>7 DEF BarInv

(* The caller of sys_mthread_barrier_wait has not come to this round yet.  *)
LEMMA CallerComes ==
  ASSUME BarInv, Participants, Participates, NEW k \in Nat, RoundsOver(k)
  PROVE  /\ current_running \in Workers /\ current_running \in Tasks
         /\ current_running \notin Came(k) /\ arrived[current_running] = k
         /\ arrived'[current_running] = k + 1 /\ k + 1 <= MaxRounds
         /\ \A t \in Workers : t # current_running => arrived'[t] = arrived[t]
         /\ Came(k)' = Came(k) \cup {current_running}
         /\ arrived' \in [Tasks -> Nat]
<1>1. /\ current_running \in Workers /\ current_running \in Tasks
      /\ arrived' = [arrived EXCEPT ![current_running] = @ + 1]
      /\ arrived[current_running] < MaxRounds /\ arrived \in [Tasks -> Nat] /\ MaxRounds \in Nat
  BY HandleFacts DEF Participates, Participants, BarInv, BarTypeOK, InCall
<1>2. current_running \notin Came(k)
  BY <1>1, CallerFacts, HandleFacts DEF BarInv, RoundsOver, Dead
<1>3. arrived[current_running] = k
  BY <1>1, <1>2 DEF RoundsOver, Came
<1>4. /\ arrived'[current_running] = k + 1 /\ k + 1 <= MaxRounds
      /\ \A t \in Workers : t # current_running => arrived'[t] = arrived[t]
      /\ arrived' \in [Tasks -> Nat]
  BY <1>1, <1>3 DEF Participants
<1>5. Came(k)' = Came(k) \cup {current_running}
  BY <1>1, <1>4 DEF Came
<1> QED
  BY <1>1, <1>2, <1>3, <1>4, <1>5

(* The last participant of a round wakes the others and starts the next    *)
(* round.                                                                  *)
LEMMA OpenKeepsRounds ==
  ASSUME BarInv, Participants, Participates, bar_valid[Handle], LastOne, Open,
         UNCHANGED <<pcbVars, lockVars, bar_valid, goal>>
  PROVE  BarInv'
<1>1. /\ cur_num' = [cur_num EXCEPT ![Handle] = 0]
      /\ ready_queue' = ready_queue \o wait_queue[Handle]
      /\ status' = Awaken(status, ToSet(wait_queue[Handle]))
      /\ wait_queue' = [wait_queue EXCEPT ![Handle] = <<>>]
      /\ passed' = Passed(ToSet(wait_queue[Handle]) \cup {current_running})
      /\ UNCHANGED <<timer, sleep_queue, current_running, satp>>
  BY DEF Open
<1>2. PICK k \in Nat : RoundsOver(k)
  BY DEF BarInv
<1>3. /\ current_running \in Tasks /\ current_running \in Workers
      /\ current_running \notin Came(k) /\ k + 1 <= MaxRounds
      /\ arrived'[current_running] = k + 1 /\ arrived' \in [Tasks -> Nat]
      /\ \A t \in Workers : t # current_running => arrived'[t] = arrived[t]
  BY <1>2, CallerComes
<1>4. KernelInv'
  BY <1>1, <1>3, HandleFacts, WakeKeepsKernel DEF BarInv, lockVars
<1>5. Came(k) \cup {current_running} = Workers
  <2>1. Came(k) \in SUBSET Workers /\ Came(k) \cup {current_running} \in SUBSET Workers
    BY <1>3 DEF Came
  <2>2. Cardinality(Came(k)) + 1 = Cardinality(Workers)
    BY <1>2 DEF RoundsOver, LastOne
  <2>3. Cardinality(Came(k) \cup {current_running}) = Cardinality(Came(k)) + 1
    BY <1>3, <2>1, WorkersCount
  <2> QED
    BY <2>1, <2>2, <2>3, WorkersCount
<1>6. \A t \in Workers : arrived'[t] = k + 1
  BY <1>3, <1>5 DEF Came
<1>7. \A t \in Workers : passed'[t] <= k + 1
  <2>1. \A t \in Workers : passed[t] <= k /\ passed[t] \in Nat /\ t \in Tasks
    BY <1>2 DEF RoundsOver, BarInv, BarTypeOK, Participants
  <2> QED
    BY <1>1, <2>1 DEF Passed
<1>8. Came(k + 1)' = {} /\ Cardinality({}) = 0
  BY <1>6, FS_EmptySet DEF Came
<1>9. /\ bar_valid'[Handle] /\ goal'[Handle] = Cardinality(Workers) /\ cur_num'[Handle] = 0
      /\ BarTypeOK'
  <2>1. passed' \in [Tasks -> Nat]
    BY <1>1 DEF Passed, BarInv, BarTypeOK
  <2> QED
    BY <1>1, <1>2, <1>3, <2>1, HandleFacts DEF RoundsOver, BarInv, BarTypeOK
<1>10. RoundsOver(k + 1)'
  BY <1>3, <1>6, <1>7, <1>8, <1>9 DEF RoundsOver
<1> QED
  BY <1>4, <1>9, <1>10 DEF BarInv

(* The participants before the last one wait.                              *)
LEMMA WaitKeepsRounds ==
  ASSUME BarInv, Participants, Participates, bar_valid[Handle],
         cur_num' = [cur_num EXCEPT ![Handle] = @ + 1], DoBlock(Handle), UNCHANGED passed,
         UNCHANGED <<pcbVars, lockVars, bar_valid, goal>>
  PROVE  BarInv'
<1>1. PICK k \in Nat : RoundsOver(k)
  BY DEF BarInv
<1>2. /\ current_running \in Workers /\ current_running \in Tasks
      /\ current_running \notin Came(k)
      /\ arrived'[current_running] = k + 1 /\ k + 1 <= MaxRounds
      /\ \A t \in Workers : t # current_running => arrived'[t] = arrived[t]
      /\ Came(k)' = Came(k) \cup {current_running}
      /\ arrived' \in [Tasks -> Nat]
  BY <1>1, CallerComes
<1>3. /\ KernelInv' /\ DeadStep
      /\ ToSet(wait_queue'[Handle]) = ToSet(wait_queue[Handle]) \cup {current_running}
  BY <1>2, HandleFacts, BlockKeepsKernel DEF BarInv, lockVars
<1>4. \A t \in Came(k)' :
        t \in ToSet(wait_queue'[Handle]) \/ (status'[t] \in Dead /\ pid'[t] # NoPid)
  <2> SUFFICES ASSUME NEW t \in Came(k), t \notin ToSet(wait_queue[Handle])
               PROVE  status'[t] \in Dead /\ pid'[t] # NoPid
    BY <1>2, <1>3
  <2>1. status[t] \in Dead /\ pid[t] # NoPid /\ t \in Tasks /\ pid' = pid
    BY <1>1 DEF RoundsOver, Came, Participants, pcbVars
  <2> QED
    BY <1>3, <2>1 DEF DeadStep
<1>5. Cardinality(Came(k)') = Cardinality(Came(k)) + 1
  <2>1. Came(k) \in SUBSET Workers
    BY DEF Came
  <2> QED
    BY <1>2, <2>1, WorkersCount
<1>6. /\ bar_valid'[Handle] /\ goal'[Handle] = Cardinality(Workers)
      /\ cur_num'[Handle] = Cardinality(Came(k)')
      /\ BarTypeOK'
  BY <1>1, <1>2, <1>5, HandleFacts DEF RoundsOver, BarInv, BarTypeOK
<1>7. \A t \in Workers : arrived'[t] \in {k, k + 1} /\ arrived'[t] <= MaxRounds /\ passed'[t] <= k
  BY <1>1, <1>2 DEF RoundsOver
<1>8. RoundsOver(k)'
  BY <1>4, <1>6, <1>7 DEF RoundsOver
<1> QED
  BY <1>3, <1>6, <1>8 DEF BarInv

(* Every step keeps the invariant of the rounds.                           *)
LEMMA BarrierStep ==
  ASSUME BarInv, Participants, OneEntry, [BarrierNext]_allBarVars
  PROVE  BarInv'
<1>1. CASE BarrierWait
  <2>1. bar_valid[Handle] /\ Participates /\ UNCHANGED <<pcbVars, lockVars, bar_valid, goal>>
    BY <1>1 DEF BarrierWait, Participates, OneEntry
  <2> QED
    BY <1>1, <2>1, OpenKeepsRounds, WaitKeepsRounds DEF BarrierWait
<1>2. CASE UNCHANGED allBarVars
  <2>1. UNCHANGED vars /\ UNCHANGED barVars /\ UNCHANGED <<pid, status, wait_queue>>
    BY <1>2 DEF allBarVars, vars, schedVars, pcbVars, runVars
  <2>2. KernelInv'
    BY <2>1, VarsKeepKernel DEF BarInv
  <2> QED
    BY <2>1, <2>2 DEF barVars, BarInv, BarTypeOK, RoundsOver, Came
<1> QED
  BY <1>1, <1>2, OtherCallsKeepRounds, BarrierInitKeepsRounds, BarrierDestroyKeepsRounds
     DEF BarrierNext

(* The invariant holds before the first call.                              *)
LEMMA BarriersInitInv == Participants /\ BarriersInit => BarInv
<1> SUFFICES ASSUME Participants, BarriersInit PROVE BarInv
  OBVIOUS
<1>1. EndInv
  BY LockInitEnds DEF BarriersInit, Participants
<1>2. FreshAcquireNothing
  BY PCBFacts DEF BarriersInit, LockInit, FreshAcquireNothing
<1>3. BarTypeOK /\ bar_valid[Handle] = FALSE
  BY HandleFacts DEF BarriersInit, BarTypeOK
<1>4. Came(0) = {} /\ \A t \in Workers : arrived[t] = 0 /\ passed[t] = 0
  BY DEF BarriersInit, Came, Participants
<1>5. RoundsOver(0)
  BY <1>3, <1>4, HandleFacts DEF RoundsOver
<1> QED
  BY <1>1, <1>2, <1>3, <1>5 DEF BarInv, KernelInv

(* What the invariant says of the rounds is what participants rely on.     *)
LEMMA RoundsSynchronise == Participants /\ BarInv => BarrierSynchronises
<1> SUFFICES ASSUME NEW k \in Nat, RoundsOver(k), BarTypeOK, Participants,
                    NEW t \in Workers, NEW u \in Workers
             PROVE  passed[t] <= arrived[u]
  BY DEF BarInv, BarrierSynchronises
<1>1. passed[t] <= k /\ arrived[u] \in {k, k + 1} /\ passed[t] \in Nat
  BY DEF RoundsOver, BarTypeOK, Participants
<1> QED
  BY <1>1

(* With one barrier in use, which is what the entry 0 of the library       *)
(* allows, no participant of do_barrier_wait leaves a round before all     *)
(* have come to it, whatever their number, whoever is killed and however   *)
(* the scheduler orders them.                                              *)
THEOREM RoundsKept ==
  ASSUME OneEntry, Participants
  PROVE  BarrierSpec => []BarrierSynchronises
<1>1. BarInv /\ [BarrierNext]_allBarVars => BarInv'
  BY BarrierStep
<1>2. BarriersInit => BarInv
  BY BarriersInitInv
<1> QED
  BY <1>1, <1>2, RoundsSynchronise, PTL DEF BarrierSpec
=============================================================================
