----------------------------- MODULE LocksProofs -----------------------------
(***************************************************************************)
(* What holds of task termination and the mutex locks for every number of  *)
(* tasks and locks and every workload.                                     *)
(***************************************************************************)
EXTENDS Locks, SchedProofs

USE SizeAssumption, MaskAssumption, ModeAssumption

-----------------------------------------------------------------------------
(* Type correctness.                                                       *)

(* A lock is among the objects a task can wait for.                        *)
LEMMA InUserTypes ==
  ASSUME LockTypeOK, NEW l \in Locks
  PROVE  l \in Objects /\ l \in Tasks \cup Objects
BY LockAssumption

(* do_mutex_lock_init keeps the types.                                     *)
LEMMA InitLockTypes ==
  ASSUME LockTypeOK, NEW l \in Locks, InitLock(l)
  PROVE  LockTypeOK'
<1>1. TypeOK'
  BY LockAssumption DEF InitLock, LockTypeOK, TypeOK, pcbVars, runVars
<1> QED
  BY <1>1 DEF InitLock, LockTypeOK

(* The loop of do_mutex_lock_acquire keeps the types.                      *)
LEMMA TryAcquireTypes ==
  ASSUME LockTypeOK, NEW l \in Locks, current_running \in Tasks, TryAcquire(l),
         UNCHANGED <<pcbVars, valid, overrun>>,
         lockid' \in [Tasks -> Seq(Locks \cup {NoObject})]
  PROVE  LockTypeOK'
<1>1. TypeOK'
  <2>1. CASE UNCHANGED <<wait_queue, runVars>>
    BY <2>1 DEF LockTypeOK, TypeOK, pcbVars, runVars
  <2>2. CASE DoBlock(l)
    BY <2>2, LockAssumption, DoBlockTypes DEF LockTypeOK
  <2> QED
    BY <2>1, <2>2 DEF TryAcquire
<1>2. current_running \in PCBs
  BY DEF PCBs
<1>3. lock_status' \in [Locks -> {"UNLOCKED", "LOCKED"}] /\ held' \in [Tasks -> SUBSET Locks]
  <2>1. held[current_running] \cup {l} \in SUBSET Locks
    BY DEF LockTypeOK
  <2>2. \/ lock_status' = [lock_status EXCEPT ![l] = "LOCKED"]
        \/ lock_status' = lock_status
    BY DEF TryAcquire
  <2>3. \/ held' = [held EXCEPT ![current_running] = @ \cup {l}]
        \/ held' = held
    BY DEF TryAcquire
  <2>4. lock_status \in [Locks -> {"UNLOCKED", "LOCKED"}] /\ held \in [Tasks -> SUBSET Locks]
    BY DEF LockTypeOK
  <2>5. held' \in [Tasks -> SUBSET Locks]
    BY <2>1, <2>3, <2>4
  <2> QED
    BY <2>2, <2>4, <2>5
<1>4. acquiring' \in [PCBs -> Objects \cup {NoObject}]
  BY <1>2, LockAssumption DEF TryAcquire, LockTypeOK
<1> QED
  BY <1>1, <1>3, <1>4 DEF LockTypeOK

(* do_mutex_lock_acquire keeps the types.                                  *)
LEMMA LockTypes ==
  ASSUME LockTypeOK, NEW l \in Locks, Lock(l)
  PROVE  LockTypeOK'
<1>1. current_running \in Tasks
  BY DEF Lock, LockCall, InCall
<1>2. lockid' \in [Tasks -> Seq(Locks \cup {NoObject})]
  <2>1. Append(lockid[current_running], l) \in Seq(Locks \cup {NoObject})
    BY <1>1 DEF LockTypeOK
  <2> QED
    BY <1>1, <2>1 DEF Lock, LockTypeOK
<1> QED
  BY <1>1, <1>2, TryAcquireTypes DEF Lock

(* Only tasks are switched out in the middle of a system call.             *)
BootAcquiresNothing == acquiring[Pid0] = NoObject

(* Who goes on in do_mutex_lock_acquire is a task of the table.            *)
LEMMA RetryRunsTask ==
  ASSUME LockTypeOK, BootAcquiresNothing, Retry
  PROVE  current_running \in Tasks /\ acquiring[current_running] \in Locks
BY LockAssumption DEF Retry, BootAcquiresNothing, LockTypeOK, TypeOK, PCBs

(* So does the wake-up in do_mutex_lock_acquire.                           *)
LEMMA RetryTypes ==
  ASSUME LockTypeOK, BootAcquiresNothing, Retry
  PROVE  LockTypeOK'
<1>1. lockid' \in [Tasks -> Seq(Locks \cup {NoObject})]
  BY DEF Retry, LockTypeOK
<1> QED
  BY <1>1, RetryRunsTask, TryAcquireTypes DEF Retry

(* do_mutex_lock_release keeps the types.                                  *)
LEMMA UnlockTypes ==
  ASSUME LockTypeOK, NEW l \in Locks, Unlock(l)
  PROVE  LockTypeOK'
<1>1. current_running \in Tasks
  BY DEF Unlock, Release, LockCall, InCall
<1>2. wait_queue[l] \in Seq(Tasks)
  BY LockAssumption DEF LockTypeOK, TypeOK
<1>3. Awaken(status, ToSet(wait_queue[l])) \in [PCBs -> Statuses]
  BY DEF Awaken, LockTypeOK, TypeOK, Statuses
<1>4. TypeOK'
  <2>1. ready_queue' \in Seq(Tasks)
    BY <1>2 DEF Unlock, Release, LockTypeOK, TypeOK
  <2>2. wait_queue' \in [Tasks \cup Objects -> Seq(Tasks)] /\ status' \in [PCBs -> Statuses]
    <3>1. /\ wait_queue' = [wait_queue EXCEPT ![l] = <<>>]
          /\ status' = Awaken(status, ToSet(wait_queue[l]))
      BY DEF Unlock, Release
    <3>2. wait_queue \in [Tasks \cup Objects -> Seq(Tasks)] /\ <<>> \in Seq(Tasks)
      BY DEF LockTypeOK, TypeOK
    <3> QED
      BY <1>3, <3>1, <3>2
  <2>3. UNCHANGED <<pid, mode, mask, pgdir, process_id, timer, sleep_queue, current_running, satp>>
    BY DEF Unlock, Release, pcbVars
  <2> QED
    BY <2>1, <2>2, <2>3 DEF LockTypeOK, TypeOK
<1>5. lockid' \in [Tasks -> Seq(Locks \cup {NoObject})] /\ overrun' \subseteq Tasks
  BY <1>1, WithoutTypes DEF Unlock, Release, LockTypeOK
<1> QED
  BY <1>1, <1>4, <1>5 DEF Unlock, Release, LockTypeOK

(* What do_kill and do_exit share keeps the types.                         *)
LEMMA TerminateTypes ==
  ASSUME LockTypeOK, NEW t \in Tasks, Terminate(t)
  PROVE  /\ wait_queue' \in [Tasks \cup Objects -> Seq(Tasks)]
         /\ lock_status' \in [Locks -> {"UNLOCKED", "LOCKED"}]
         /\ status' \in [PCBs -> Statuses]
         /\ timer' \in [Tasks -> 0 .. MaxSleep]
         /\ ready_queue' \in Seq(Tasks)
         /\ sleep_queue' \in Seq(Tasks)
         /\ current_running' \in PCBs
         /\ satp' \in {NullPgdir, BootPgdir} \cup Tasks
<1> DEFINE unlinked == [q \in Tasks \cup Objects |-> Without(wait_queue[q], t)]
           st(w) == Awaken([status EXCEPT ![t] = DeadStatus(t)], ToSet(w))
           rq(w) == Without(ready_queue, t) \o w
           sq == Without(sleep_queue, t)
<1>1. unlinked \in [Tasks \cup Objects -> Seq(Tasks)]
  BY WithoutTypes DEF LockTypeOK, TypeOK
<1>2. PICK w \in ReleaseOrder(t, unlinked) :
        /\ wait_queue' = [q \in Tasks \cup Objects |->
                            IF q \in Recorded(t) THEN <<>> ELSE unlinked[q]]
        /\ lock_status' = [l \in Locks |->
                             IF l \in Recorded(t) THEN "UNLOCKED" ELSE lock_status[l]]
        /\ IF t = current_running
             THEN DoScheduler(st(w), rq(w), sq, timer)
             ELSE /\ status' = st(w) /\ ready_queue' = rq(w) /\ sleep_queue' = sq
                  /\ UNCHANGED <<timer, current_running, satp>>
  BY DEF Terminate
<1>3. w \in Seq(Tasks)
  <2> DEFINE W == UNION {ToSet(unlinked[l]) : l \in Recorded(t)}
  <2>1. Recorded(t) \subseteq Tasks \cup Objects
    BY LockAssumption DEF Recorded
  <2>2. W \in SUBSET Tasks
    BY <1>1, <2>1, ToSetInTasks
  <2>3. w \in SetToSeqs(W)
    BY DEF ReleaseOrder
  <2> QED
    BY <2>2, <2>3, SetToSeqsIsSeq
<1>4. rq(w) \in Seq(Tasks) /\ sq \in Seq(Tasks)
  BY <1>3, WithoutTypes DEF LockTypeOK, TypeOK
<1>5. st(w) \in [PCBs -> Statuses]
  BY DEF Awaken, DeadStatus, LockTypeOK, TypeOK, Statuses, Dead
<1>6. TypeOK /\ timer \in [Tasks -> 0 .. MaxSleep]
  BY DEF LockTypeOK, TypeOK
<1> HIDE DEF unlinked, st, rq, sq
<1>7. wait_queue' \in [Tasks \cup Objects -> Seq(Tasks)]
  BY <1>1, <1>2
<1>8. lock_status' \in [Locks -> {"UNLOCKED", "LOCKED"}]
  BY <1>2 DEF LockTypeOK
<1>9. CASE t = current_running
  BY <1>2, <1>4, <1>5, <1>6, <1>7, <1>8, <1>9, DoSchedulerTypes
<1>10. CASE t # current_running
  BY <1>2, <1>4, <1>5, <1>6, <1>7, <1>8, <1>10 DEF TypeOK
<1> QED
  BY <1>9, <1>10

(* What do_kill makes of the records: it writes no lock anywhere.          *)
LEMMA RecordsAfterKillFacts ==
  ASSUME LockTypeOK, NEW t \in Tasks, NEW u \in Tasks
  PROVE  LET r == RecordsAfterKill(t)[u]
         IN  /\ r \in Seq(Locks \cup {NoObject})
             /\ r = <<>> \/ Len(r) = Len(lockid[u])
             /\ \A k \in DOMAIN r : r[k] = lockid[u][k] \/ r[k] = NoObject
             /\ u # t /\ u + 1 \notin DOMAIN lockid[u] => r = lockid[u]
<1>1. lockid[u] \in Seq(Locks \cup {NoObject}) /\ u \in Nat
  BY DEF LockTypeOK, Tasks
<1>2. CASE u = t
  BY <1>2 DEF RecordsAfterKill
<1>3. CASE u # t /\ u + 1 \in DOMAIN lockid[u]
  <2>1. RecordsAfterKill(t)[u] = [lockid[u] EXCEPT ![u + 1] = NoObject]
    BY <1>3 DEF RecordsAfterKill
  <2> QED
    BY <1>1, <1>3, <2>1
<1>4. CASE u # t /\ u + 1 \notin DOMAIN lockid[u]
  BY <1>1, <1>4 DEF RecordsAfterKill
<1> QED
  BY <1>2, <1>3, <1>4

(* do_kill keeps the types.                                                *)
LEMMA KillTypes ==
  ASSUME LockTypeOK, NEW p \in 1 .. MaxPid, Kill(p)
  PROVE  LockTypeOK'
<1>1. PICK t \in Tasks : /\ Terminate(t) /\ held' = [held EXCEPT ![t] = {}]
                         /\ lockid' = RecordsAfterKill(t)
  BY DEF Kill
<1>2. UNCHANGED <<pid, mode, mask, pgdir, process_id, valid, acquiring, overrun>>
  BY DEF Kill, pcbVars
<1>4. lockid' \in [Tasks -> Seq(Locks \cup {NoObject})]
  <2>1. \A u \in Tasks : lockid'[u] \in Seq(Locks \cup {NoObject})
    BY <1>1, RecordsAfterKillFacts
  <2>2. lockid' = [u \in Tasks |-> lockid'[u]]
    BY <1>1 DEF RecordsAfterKill
  <2> QED
    BY <2>1, <2>2
<1>3. TypeOK'
  BY <1>1, <1>2, TerminateTypes DEF LockTypeOK, TypeOK
<1> QED
  BY <1>1, <1>2, <1>3, <1>4, TerminateTypes DEF LockTypeOK

(* do_exit keeps the types.                                                *)
LEMMA ExitTypes ==
  ASSUME LockTypeOK, Exit
  PROVE  LockTypeOK'
<1>1. /\ current_running \in Tasks
      /\ Terminate(current_running)
      /\ held' = [held EXCEPT ![current_running] = {}]
      /\ lockid' = [lockid EXCEPT ![current_running] = <<>>]
      /\ pid' = [pid EXCEPT ![current_running] = NoPid]
      /\ UNCHANGED <<mode, mask, pgdir, process_id, valid, acquiring, overrun>>
  BY DEF Exit, InCall
<1>2. TypeOK'
  BY <1>1, TerminateTypes DEF LockTypeOK, TypeOK
<1> QED
  BY <1>1, <1>2, TerminateTypes DEF LockTypeOK

-----------------------------------------------------------------------------
(* Mutual exclusion.  Apart from what it says itself, it rests on the       *)
(* record of each PCB: whatever kills have written into lockid, it lists,  *)
(* at most once each, only locks the task holds or is acquiring, all of    *)
(* them initialised, so that an end of the task frees no other's lock.     *)
HeldIsLocked == \A t \in Tasks : \A l \in held[t] : lock_status[l] = "LOCKED"

Claimed(t) == held[t] \cup ({acquiring[t]} \cap Locks)

OnceEach(s) == \A i, j \in DOMAIN s : i # j /\ s[i] \in Locks => s[i] # s[j]

RecordSound ==
  \A t \in Tasks :
    /\ OnceEach(lockid[t])
    /\ Recorded(t) \subseteq Claimed(t)
    /\ \A l \in Claimed(t) : valid[l]

LockInv ==
  LockTypeOK /\ BootAcquiresNothing /\ HeldIsLocked /\ RecordSound /\ MutualExclusion

(* The invariant of locks and records holds at the start.                  *)
LEMMA LockInitInv == LockInit => LockInv
<1> SUFFICES ASSUME LockInit PROVE LockInv
  OBVIOUS
<1>1. TypeOK
  BY InitTypes DEF LockInit
<1>2. LockTypeOK
  BY <1>1, LockAssumption DEF LockInit, LockTypeOK
<1>3. BootAcquiresNothing
  BY DEF LockInit, BootAcquiresNothing, PCBs
<1>4. HeldIsLocked /\ MutualExclusion
  BY DEF LockInit, HeldIsLocked, MutualExclusion
<1>5. RecordSound
  <2>1. ASSUME NEW t \in Tasks
        PROVE  lockid[t] = <<>> /\ held[t] = {} /\ acquiring[t] = NoObject
    BY DEF LockInit, PCBs
  <2>2. OnceEach(<< >>) /\ ToSet(<< >>) = {}
    BY DEF OnceEach, ToSet
  <2>3. NoObject \notin Locks
    BY LockAssumption
  <2> QED
    BY <2>1, <2>2, <2>3 DEF RecordSound, Recorded, Claimed
<1> QED
  BY <1>2, <1>3, <1>4, <1>5 DEF LockInv

(* What the search of mutex_op removes from a record.                      *)
LEMMA WithoutLock ==
  ASSUME NEW s \in Seq(Locks \cup {NoObject}), OnceEach(s), NEW l \in Locks
  PROVE  /\ OnceEach(Without(s, l))
         /\ ToSet(Without(s, l)) \cap Locks = (ToSet(s) \cap Locks) \ {l}
<1>1. CASE l \notin ToSet(s)
  BY <1>1 DEF Without
<1>2. CASE l \in ToSet(s)
  <2> DEFINE i == CHOOSE j \in DOMAIN s : s[j] = l
             r == RemoveAt(s, i)
             g(k) == IF k < i THEN k ELSE k + 1
  <2>1. i \in DOMAIN s /\ s[i] = l
    BY <1>2 DEF ToSet
  <2>2. Without(s, l) = r
    BY <1>2 DEF Without
  <2> HIDE DEF i
  <2>3. /\ r \in Seq(Locks \cup {NoObject}) /\ Len(r) = Len(s) - 1
        /\ \A k \in 1 .. Len(r) : r[k] = IF k < i THEN s[k] ELSE s[k + 1]
    BY <2>1, RemoveAtElements
  <2> HIDE DEF r
  <2>4. DOMAIN r = 1 .. Len(r) /\ DOMAIN s = 1 .. Len(s) /\ Len(s) \in Nat
    BY <2>3
  <2>5. \A k \in DOMAIN r : g(k) \in DOMAIN s /\ g(k) # i /\ r[k] = s[g(k)]
    BY <2>1, <2>3, <2>4
  <2>10. \A k, m \in DOMAIN r : g(k) = g(m) => k = m
    BY <2>1, <2>4
  <2>6. ASSUME NEW k \in DOMAIN s, k # i PROVE \E m \in DOMAIN r : g(m) = k
    <3>1. CASE k < i
      BY <2>1, <2>3, <2>4, <3>1
    <3>2. CASE k > i
      <4>1. k - 1 \in DOMAIN r /\ ~(k - 1 < i) /\ (k - 1) + 1 = k
        BY <2>1, <2>3, <2>4, <3>2
      <4> QED
        BY <4>1
    <3> QED
      BY <2>1, <2>4, <2>6, <3>1, <3>2
  <2> HIDE DEF g
  <2>7. OnceEach(r)
    BY <2>5, <2>10 DEF OnceEach
  <2>8. ToSet(r) \cap Locks \subseteq (ToSet(s) \cap Locks) \ {l}
    BY <2>1, <2>5 DEF ToSet, OnceEach
  <2>9. (ToSet(s) \cap Locks) \ {l} \subseteq ToSet(r) \cap Locks
    BY <2>1, <2>5, <2>6 DEF ToSet
  <2> QED
    BY <2>2, <2>7, <2>8, <2>9
<1> QED
  BY <1>1, <1>2

(* A turn of the acquire loop of a task that has recorded the lock and does *)
(* not hold it, in a state where everything else is as the invariant says.  *)
LEMMA TryAcquireInv ==
  ASSUME LockInv, NEW l \in Locks, current_running \in Tasks, TryAcquire(l),
         UNCHANGED <<pcbVars, valid, overrun>>,
         l \notin held[current_running],
         lockid' \in [Tasks -> Seq(Locks \cup {NoObject})],
         \A t \in Tasks : OnceEach(lockid'[t]),
         \A t \in Tasks \ {current_running} : lockid'[t] = lockid[t],
         (ToSet(lockid'[current_running]) \cap Locks) \subseteq held[current_running] \cup {l},
         valid[l]
  PROVE  LockInv'
<1>1. LockTypeOK'
  BY TryAcquireTypes DEF LockInv
<1>2. current_running \in PCBs /\ Pid0 \in PCBs /\ NoObject \notin Locks
  BY LockAssumption DEF PCBs
<1>3. current_running # Pid0
  BY SizeAssumption DEF Tasks, Pid0
<1>4. BootAcquiresNothing'
  BY <1>2, <1>3 DEF TryAcquire, LockInv, BootAcquiresNothing, LockTypeOK
<1>5. \A t \in Tasks \ {current_running} :
        /\ Recorded(t)' = Recorded(t) /\ Recorded(t) \subseteq Claimed(t)
        /\ \A k \in Claimed(t) : valid[k]
  BY DEF Recorded, LockInv, RecordSound
<1>6. \A k \in held[current_running] : valid[k]
  BY DEF LockInv, RecordSound, Claimed
<1>9. \A t \in Tasks :
        /\ t = current_running => Recorded(t)' \subseteq held[t] \cup {l}
        /\ t # current_running => Recorded(t)' \subseteq Claimed(t)
  BY <1>5 DEF Recorded
<1>10. ASSUME \A t \in Tasks :
                /\ t = current_running => Claimed(t)' = held[t] \cup {l}
                /\ t # current_running => Claimed(t)' = Claimed(t)
       PROVE  RecordSound'
  <2> SUFFICES ASSUME NEW t \in Tasks
               PROVE  /\ OnceEach(lockid'[t])
                      /\ Recorded(t)' \subseteq Claimed(t)'
                      /\ \A k \in Claimed(t)' : valid'[k]
    BY DEF RecordSound
  <2>1. CASE t = current_running
    BY <1>6, <1>9, <1>10, <2>1
  <2>2. CASE t # current_running
    BY <1>5, <1>9, <1>10, <2>2
  <2> QED
    BY <2>1, <2>2
<1>7. CASE /\ lock_status[l] = "UNLOCKED"
           /\ lock_status' = [lock_status EXCEPT ![l] = "LOCKED"]
           /\ held' = [held EXCEPT ![current_running] = @ \cup {l}]
           /\ acquiring' = [acquiring EXCEPT ![current_running] = NoObject]
  <2>1. \A t \in Tasks : l \notin held[t]
    BY <1>7 DEF LockInv, HeldIsLocked
  <2>2. /\ held'[current_running] = held[current_running] \cup {l}
        /\ \A t \in Tasks \ {current_running} : held'[t] = held[t]
    BY <1>7 DEF LockInv, LockTypeOK
  <2>3. /\ acquiring'[current_running] = NoObject
        /\ \A t \in Tasks \ {current_running} : acquiring'[t] = acquiring[t]
    BY <1>2, <1>7 DEF LockInv, LockTypeOK, PCBs
  <2>4. HeldIsLocked'
    BY <1>7, <2>1, <2>2 DEF LockInv, HeldIsLocked, LockTypeOK
  <2>5. MutualExclusion'
    <3> SUFFICES ASSUME NEW t \in Tasks, NEW u \in Tasks, t # u
                 PROVE  held'[t] \cap held'[u] = {}
      BY DEF MutualExclusion
    <3>1. held[t] \cap held[u] = {} /\ l \notin held[t] /\ l \notin held[u]
      BY <2>1 DEF LockInv, MutualExclusion
    <3>2. /\ held'[t] = held[t] \/ (t = current_running /\ held'[t] = held[t] \cup {l})
          /\ held'[u] = held[u] \/ (u = current_running /\ held'[u] = held[u] \cup {l})
      BY <2>2
    <3> QED
      BY <3>1, <3>2
  <2>6. \A t \in Tasks : /\ t = current_running => Claimed(t)' = held[t] \cup {l}
                         /\ t # current_running => Claimed(t)' = Claimed(t)
    BY <1>2, <2>2, <2>3 DEF Claimed
  <2>7. RecordSound'
    BY <1>10, <2>6
  <2> QED
    BY <1>1, <1>4, <2>4, <2>5, <2>7 DEF LockInv
<1>8. CASE /\ acquiring' = [acquiring EXCEPT ![current_running] = l]
           /\ UNCHANGED <<lock_status, held>>
  <2>1. /\ acquiring'[current_running] = l
        /\ \A t \in Tasks \ {current_running} : acquiring'[t] = acquiring[t]
    BY <1>2, <1>8 DEF LockInv, LockTypeOK, PCBs
  <2>2. \A t \in Tasks : /\ t = current_running => Claimed(t)' = held[t] \cup {l}
                         /\ t # current_running => Claimed(t)' = Claimed(t)
    BY <1>8, <2>1 DEF Claimed
  <2>3. RecordSound'
    BY <1>10, <2>2
  <2> QED
    BY <1>1, <1>4, <1>8, <2>3 DEF LockInv, HeldIsLocked, MutualExclusion
<1> QED
  BY <1>7, <1>8 DEF TryAcquire

(* What mutex_op writes into the record before it acquires.                *)
LEMMA LockRecords ==
  ASSUME LockInv, NEW l \in Locks, Lock(l)
  PROVE  LET cur == current_running
         IN  /\ lockid' \in [Tasks -> Seq(Locks \cup {NoObject})]
             /\ \A t \in Tasks : OnceEach(lockid'[t])
             /\ \A t \in Tasks \ {cur} : lockid'[t] = lockid[t]
             /\ (ToSet(lockid'[cur]) \cap Locks) = Recorded(cur) \cup {l}
             /\ lockid[cur] \in Seq(Locks) => lockid'[cur] \in Seq(Locks)
<1> DEFINE cur == current_running
           s == lockid[cur]
           r == Append(s, l)
<1>0. /\ cur \in Tasks /\ s \in Seq(Locks \cup {NoObject}) /\ OnceEach(s)
      /\ lockid \in [Tasks -> Seq(Locks \cup {NoObject})]
      /\ \A t \in Tasks : OnceEach(lockid[t])
  BY DEF Lock, LockCall, InCall, LockInv, LockTypeOK, RecordSound
<1>1. CASE l \in Recorded(cur) /\ UNCHANGED lockid
  BY <1>0, <1>1 DEF Recorded
<1>2. CASE l \notin Recorded(cur) /\ lockid' = [lockid EXCEPT ![cur] = r]
  <2>1. l \notin ToSet(s)
    BY <1>2 DEF Recorded
  <2>2. /\ r \in Seq(Locks \cup {NoObject}) /\ Len(r) = Len(s) + 1 /\ r[Len(s) + 1] = l
        /\ \A k \in 1 .. Len(s) : r[k] = s[k]
        /\ s \in Seq(Locks) => r \in Seq(Locks)
    BY <1>0
  <2>3. DOMAIN r = (DOMAIN s) \cup {Len(s) + 1} /\ DOMAIN s = 1 .. Len(s)
    BY <1>0, <2>2
  <2>4. lockid'[cur] = r /\ \A t \in Tasks \ {cur} : lockid'[t] = lockid[t]
    BY <1>0, <1>2
  <2>5. lockid' \in [Tasks -> Seq(Locks \cup {NoObject})]
    BY <1>0, <1>2, <2>2
  <2> HIDE DEF r
  <2>6. ToSet(r) = ToSet(s) \cup {l}
    BY <2>2, <2>3 DEF ToSet
  <2>7. OnceEach(r)
    BY <1>0, <2>1, <2>2, <2>3 DEF OnceEach, ToSet
  <2>8. (ToSet(lockid'[cur]) \cap Locks) = Recorded(cur) \cup {l}
    BY <2>4, <2>6 DEF Recorded
  <2> QED
    BY <1>0, <2>2, <2>4, <2>5, <2>7, <2>8
<1> QED
  BY <1>1, <1>2 DEF Lock

(* Acquiring a lock keeps locks and records in step.                       *)
LEMMA LockKeepsInv ==
  ASSUME LockInv, InUser, NEW l \in Locks, Lock(l)
  PROVE  LockInv'
<1>1. /\ current_running \in Tasks
      /\ valid[l]
      /\ l \notin held[current_running]
      /\ TryAcquire(l)
      /\ UNCHANGED <<pcbVars, valid, overrun>>
  BY DEF Lock, LockCall, InCall
<1>2. acquiring[current_running] \notin Locks
  BY LockAssumption DEF InUser
<1>3. Recorded(current_running) \subseteq held[current_running]
  BY <1>1, <1>2 DEF LockInv, RecordSound, Claimed
<1> QED
  BY <1>1, <1>3, LockRecords, TryAcquireInv

(* So does going on in do_mutex_lock_acquire.                              *)
LEMMA RetryKeepsInv ==
  ASSUME LockInv, Retry
  PROVE  LockInv'
<1> DEFINE l == acquiring[current_running]
<1>1. current_running \in Tasks /\ l \in Locks
  BY RetryRunsTask DEF LockInv
<1>2. TryAcquire(l) /\ UNCHANGED <<pcbVars, valid, lockid, overrun>>
  BY DEF Retry
<1>3. /\ (ToSet(lockid'[current_running]) \cap Locks) \subseteq held[current_running] \cup {l}
      /\ valid[l]
  BY <1>1, <1>2 DEF LockInv, RecordSound, Recorded, Claimed
<1>4. lockid' \in [Tasks -> Seq(Locks \cup {NoObject})] /\ \A t \in Tasks : OnceEach(lockid'[t])
  BY <1>2 DEF LockInv, LockTypeOK, RecordSound
<1>5. CASE l \notin held[current_running]
  BY <1>1, <1>2, <1>3, <1>4, <1>5, TryAcquireInv
<1>6. CASE l \in held[current_running]
  (* It holds what it waits for: it goes back to the queue for good. *)
  <2>1. lock_status[l] = "LOCKED"
    BY <1>1, <1>6 DEF LockInv, HeldIsLocked
  <2>2. /\ acquiring' = [acquiring EXCEPT ![current_running] = l]
        /\ UNCHANGED <<lock_status, held>>
    BY <1>2, <2>1 DEF TryAcquire
  <2>3. acquiring' = acquiring
    BY <1>1, <2>2 DEF LockInv, LockTypeOK
  <2>4. LockTypeOK'
    BY <1>1, <1>2, <1>4, TryAcquireTypes DEF LockInv
  <2> QED
    BY <1>2, <2>2, <2>3, <2>4
       DEF LockInv, BootAcquiresNothing, HeldIsLocked, RecordSound, Recorded, Claimed,
           MutualExclusion
<1> QED
  BY <1>5, <1>6

(* Releasing a lock takes its record away, if there is one.                *)
LEMMA UnlockKeepsInv ==
  ASSUME LockInv, InUser, NEW l \in Locks, Unlock(l)
  PROVE  LockInv'
<1>1. LockTypeOK'
  BY UnlockTypes DEF LockInv
<1>2. current_running \in Tasks /\ l \in held[current_running]
  BY DEF Unlock, Release, LockCall, InCall
<1>3. /\ held'[current_running] = held[current_running] \ {l}
      /\ \A t \in Tasks \ {current_running} : held'[t] = held[t]
      /\ lockid'[current_running] = Without(lockid[current_running], l)
      /\ \A t \in Tasks \ {current_running} : lockid'[t] = lockid[t]
      /\ \A k \in Locks \ {l} : lock_status'[k] = lock_status[k]
      /\ UNCHANGED <<valid, acquiring>>
  BY <1>2 DEF Unlock, Release, LockInv, LockTypeOK
<1>4. /\ OnceEach(lockid'[current_running])
      /\ (ToSet(lockid'[current_running]) \cap Locks) = Recorded(current_running) \ {l}
  <2>1. /\ lockid[current_running] \in Seq(Locks \cup {NoObject})
        /\ OnceEach(lockid[current_running])
    BY <1>2 DEF LockInv, LockTypeOK, RecordSound
  <2> QED
    BY <1>3, <2>1, WithoutLock DEF Recorded
<1>5. acquiring[current_running] \notin Locks
  BY LockAssumption DEF InUser
<1>6. RecordSound'
  <2> SUFFICES ASSUME NEW t \in Tasks
               PROVE  /\ OnceEach(lockid'[t])
                      /\ Recorded(t)' \subseteq Claimed(t)'
                      /\ \A k \in Claimed(t)' : valid'[k]
    BY DEF RecordSound
  <2>1. CASE t = current_running
    <3>1. Claimed(t) = held[t] /\ Claimed(t)' = held[t] \ {l}
      BY <1>3, <1>5, <2>1 DEF Claimed
    <3>2. Recorded(t)' = Recorded(t) \ {l}
      BY <1>4, <2>1 DEF Recorded
    <3> QED
      BY <1>3, <1>4, <2>1, <3>1, <3>2 DEF LockInv, RecordSound
  <2>2. CASE t # current_running
    BY <1>3, <2>2 DEF LockInv, RecordSound, Recorded, Claimed
  <2> QED
    BY <2>1, <2>2
<1>7. HeldIsLocked'
  <2> SUFFICES ASSUME NEW t \in Tasks, NEW k \in held'[t]
               PROVE  lock_status'[k] = "LOCKED"
    BY DEF HeldIsLocked
  <2>1. k # l /\ k \in held[t]
    BY <1>2, <1>3 DEF LockInv, MutualExclusion
  <2>2. k \in Locks
    BY <2>1 DEF LockInv, LockTypeOK
  <2> QED
    BY <1>3, <2>1, <2>2 DEF LockInv, HeldIsLocked
<1>8. MutualExclusion'
  BY <1>2, <1>3 DEF LockInv, MutualExclusion
<1>9. BootAcquiresNothing'
  BY <1>3 DEF LockInv, BootAcquiresNothing
<1> QED
  BY <1>1, <1>6, <1>7, <1>8, <1>9 DEF LockInv

(* An end frees what was recorded: only locks of the task that ends.       *)
LEMMA TerminateKeepsInv ==
  ASSUME LockInv, NEW t \in Tasks, acquiring[t] \notin Locks, Terminate(t),
         LockTypeOK', held' = [held EXCEPT ![t] = {}], UNCHANGED <<valid, acquiring>>,
         \A u \in Tasks : OnceEach(lockid'[u]),
         \A u \in Tasks : Recorded(u)' \subseteq IF u = t THEN {} ELSE Recorded(u)
  PROVE  LockInv'
<1>1. lock_status' = [l \in Locks |-> IF l \in Recorded(t) THEN "UNLOCKED" ELSE lock_status[l]]
  BY DEF Terminate
<1>2. held'[t] = {} /\ \A u \in Tasks \ {t} : held'[u] = held[u]
  BY DEF LockInv, LockTypeOK
<1>3. Recorded(t) \subseteq held[t]
  BY DEF LockInv, RecordSound, Claimed
<1>4. HeldIsLocked'
  <2> SUFFICES ASSUME NEW u \in Tasks, NEW k \in held'[u]
               PROVE  lock_status'[k] = "LOCKED"
    BY DEF HeldIsLocked
  <2>1. u # t /\ k \in held[u] /\ k \notin held[t]
    BY <1>2 DEF LockInv, MutualExclusion
  <2>2. k \in Locks
    BY <2>1 DEF LockInv, LockTypeOK
  <2> QED
    BY <1>1, <1>3, <2>1, <2>2 DEF LockInv, HeldIsLocked
<1>5. RecordSound'
  <2>1. \A u \in Tasks : Claimed(u)' = IF u = t THEN {} ELSE Claimed(u)
    BY <1>2 DEF Claimed
  <2> QED
    BY <2>1 DEF LockInv, RecordSound
<1>6. MutualExclusion'
  BY <1>2 DEF LockInv, MutualExclusion
<1>7. BootAcquiresNothing'
  BY DEF LockInv, BootAcquiresNothing
<1> QED
  BY <1>4, <1>5, <1>6, <1>7 DEF LockInv

(* The holes do_kill leaves in the records of others list no lock.         *)
LEMMA KillKeepsInv ==
  ASSUME LockInv, "kill_waiter" \notin Calls, NEW p \in 1 .. MaxPid, Kill(p)
  PROVE  LockInv'
<1>1. PICK t \in Tasks : /\ acquiring[t] \notin Locks /\ Terminate(t)
                         /\ held' = [held EXCEPT ![t] = {}]
                         /\ lockid' = RecordsAfterKill(t)
  BY DEF Kill
<1>2. ASSUME NEW u \in Tasks
      PROVE  OnceEach(lockid'[u]) /\ Recorded(u)' \subseteq IF u = t THEN {} ELSE Recorded(u)
  <2> DEFINE r == lockid'[u]
  <2>1. CASE r = <<>>
    BY <2>1 DEF OnceEach, Recorded, ToSet
  <2>2. CASE u # t /\ DOMAIN r = DOMAIN lockid[u]
                   /\ \A k \in DOMAIN r : r[k] = lockid[u][k] \/ r[k] = NoObject
    <3>1. OnceEach(lockid[u]) /\ NoObject \notin Locks
      BY LockAssumption DEF LockInv, RecordSound
    <3>2. OnceEach(r)
      BY <2>2, <3>1 DEF OnceEach
    <3>3. ToSet(r) \cap Locks \subseteq ToSet(lockid[u])
      BY <2>2, <3>1 DEF ToSet
    <3> QED
      BY <2>2, <3>2, <3>3 DEF Recorded
  <2>3. u = t => r = <<>>
    BY <1>1 DEF RecordsAfterKill
  <2>4. /\ r \in Seq(Locks \cup {NoObject}) /\ lockid[u] \in Seq(Locks \cup {NoObject})
        /\ r = <<>> \/ Len(r) = Len(lockid[u])
        /\ \A k \in DOMAIN r : r[k] = lockid[u][k] \/ r[k] = NoObject
    BY <1>1, RecordsAfterKillFacts DEF LockInv, LockTypeOK
  <2> QED
    BY <2>1, <2>2, <2>3, <2>4
<1> QED
  BY <1>1, <1>2, KillTypes, TerminateKeepsInv DEF Kill, LockInv

(* do_exit clears its own record.                                          *)
LEMMA ExitKeepsInv ==
  ASSUME LockInv, InUser, Exit
  PROVE  LockInv'
<1>1. current_running \in Tasks /\ acquiring[current_running] \notin Locks
  BY LockAssumption DEF Exit, InCall, InUser
<1>2. ASSUME NEW u \in Tasks
      PROVE  /\ OnceEach(lockid'[u])
             /\ Recorded(u)' \subseteq IF u = current_running THEN {} ELSE Recorded(u)
  <2>1. lockid'[u] = IF u = current_running THEN <<>> ELSE lockid[u]
    BY <1>1 DEF Exit, LockInv, LockTypeOK
  <2>2. OnceEach(<<>>) /\ ToSet(<<>>) = {}
    BY DEF OnceEach, ToSet
  <2> QED
    BY <2>1, <2>2 DEF Recorded, LockInv, RecordSound
<1> QED
  BY <1>1, <1>2, ExitTypes, TerminateKeepsInv DEF Exit, LockInv

(* What the other system calls and interrupts leave alone.                 *)
LEMMA SchedStepKeepsInv ==
  ASSUME LockInv, TypeOK', UNCHANGED lockVars
  PROVE  LockInv'
BY DEF LockInv, LockTypeOK, BootAcquiresNothing, HeldIsLocked, RecordSound, Recorded, Claimed,
       MutualExclusion, lockVars

(* When no program initialises a lock that is in use and none kills a task *)
(* that waits for a lock, every step keeps the invariant.                  *)
LEMMA LockStepInv ==
  ASSUME "kill_waiter" \notin Calls, "mutex_get_again" \notin Calls,
         LockInv, [LockNext]_vars
  PROVE  LockInv'
<1>0. TypeOK
  BY DEF LockInv, LockTypeOK
<1>1. CASE (TimerInterrupt \/ SchedCall \/ Tick) /\ UNCHANGED lockVars
  BY <1>0, <1>1, TimerTypes, SchedCallTypes, TickTypes, SchedStepKeepsInv
<1>2. ASSUME NEW l \in Locks, MutexGet(l) \/ BinsemGet(l)
      PROVE  LockInv'
  <2>1. ~valid[l] /\ InitLock(l)
    BY <1>2 DEF MutexGet, BinsemGet
  <2>2. LockTypeOK'
    BY <2>1, InitLockTypes DEF LockInv
  <2>3. \A t \in Tasks : l \notin Claimed(t) /\ l \notin held[t]
    BY <2>1 DEF LockInv, RecordSound, Claimed
  <2>4. /\ UNCHANGED <<lockid, acquiring, held>>
        /\ \A k \in Locks \ {l} : lock_status'[k] = lock_status[k] /\ valid'[k] = valid[k]
    BY <2>1 DEF InitLock, LockInv, LockTypeOK
  <2>5. \A t \in Tasks : held[t] \subseteq Locks /\ Claimed(t) \subseteq Locks
    BY DEF LockInv, LockTypeOK, Claimed
  <2>6. HeldIsLocked'
    BY <2>3, <2>4, <2>5 DEF LockInv, HeldIsLocked
  <2>7. RecordSound'
    <3>1. \A t \in Tasks : Claimed(t)' = Claimed(t) /\ Recorded(t)' = Recorded(t)
      BY <2>4 DEF Claimed, Recorded
    <3> QED
      BY <2>3, <2>4, <2>5, <3>1 DEF LockInv, RecordSound
  <2> QED
    BY <2>2, <2>4, <2>6, <2>7 DEF LockInv, BootAcquiresNothing, MutualExclusion
<1>3. ASSUME NEW l \in Locks, InUser, Lock(l)
      PROVE  LockInv'
  BY <1>3, LockKeepsInv
<1>4. ASSUME NEW p \in 1 .. MaxPid, Kill(p)
      PROVE  LockInv'
  BY <1>4, KillKeepsInv
<1>5. CASE InUser /\ Exit
  BY <1>5, ExitKeepsInv
<1>6. CASE \E l \in Locks : UserUnlock(l)
  BY <1>6, UnlockKeepsInv DEF UserUnlock
<1>7. CASE Retry
  BY <1>7, RetryKeepsInv
<1>8. CASE UNCHANGED vars
  <2>1. UNCHANGED lockVars /\ TypeOK'
    BY <1>0, <1>8 DEF vars, schedVars, pcbVars, runVars, TypeOK
  <2> QED
    BY <2>1, SchedStepKeepsInv
<1> QED
  BY <1>1, <1>2, <1>3, <1>4, <1>5, <1>6, <1>7, <1>8 DEF LockNext

(* Two tasks never hold one lock: for any number of tasks, locks and masks, *)
(* however preemption, sleeps, blocking, exits and kills interleave, those  *)
(* that destroy a record of a third task included.  The two workloads left *)
(* out are those in which the code breaks it.                              *)
THEOREM LocksExclude ==
  ASSUME "kill_waiter" \notin Calls, "mutex_get_again" \notin Calls
  PROVE  LockSpec => []MutualExclusion
<1>1. LockInv /\ [LockNext]_vars => LockInv'
  BY LockStepInv
<1>2. LockInv => MutualExclusion
  BY DEF LockInv
<1> QED
  BY <1>1, <1>2, LockInitInv, PTL DEF LockSpec

(* No record lists a lock that its task neither holds nor waits for, so    *)
(* that do_exit and do_kill free nobody else's, although do_kill writes    *)
(* into the records of all tasks.                                          *)
THEOREM RecordsFreeNoOther ==
  ASSUME "kill_waiter" \notin Calls, "mutex_get_again" \notin Calls
  PROVE  LockSpec => []RecordsNoOther
<1>1. LockInv /\ [LockNext]_vars => LockInv'
  BY LockStepInv
<1>2. LockInv => RecordsNoOther
  BY DEF LockInv, RecordSound, RecordsNoOther, Claimed
<1> QED
  BY <1>1, <1>2, LockInitInv, PTL DEF LockSpec

(* Every step keeps the types.                                             *)
LEMMA LockTypesKept ==
  ASSUME LockTypeOK, BootAcquiresNothing, [LockNext]_vars
  PROVE  LockTypeOK' /\ BootAcquiresNothing'
<1>0. TypeOK /\ Pid0 \notin Tasks
  BY SizeAssumption DEF LockTypeOK, Tasks, Pid0
<1>1. CASE (TimerInterrupt \/ SchedCall \/ Tick) /\ UNCHANGED lockVars
  <2>1. TypeOK'
    BY <1>0, <1>1, TimerTypes, SchedCallTypes, TickTypes
  <2> QED
    BY <1>1, <2>1 DEF LockTypeOK, BootAcquiresNothing, lockVars
<1>2. ASSUME NEW l \in Locks, MutexGet(l) \/ BinsemGet(l)
      PROVE  LockTypeOK' /\ BootAcquiresNothing'
  BY <1>2, InitLockTypes DEF MutexGet, BinsemGet, InitLock, BootAcquiresNothing
<1>3. ASSUME NEW l \in Locks, current_running \in Tasks, TryAcquire(l)
      PROVE  BootAcquiresNothing'
  BY <1>0, <1>3 DEF TryAcquire, LockTypeOK, BootAcquiresNothing, PCBs
<1>4. ASSUME NEW l \in Locks, Lock(l)
      PROVE  LockTypeOK' /\ BootAcquiresNothing'
  BY <1>3, <1>4, LockTypes DEF Lock, LockCall, InCall
<1>5. ASSUME NEW p \in 1 .. MaxPid, Kill(p)
      PROVE  LockTypeOK' /\ BootAcquiresNothing'
  BY <1>5, KillTypes DEF Kill, BootAcquiresNothing
<1>6. CASE Exit
  BY <1>6, ExitTypes DEF Exit, BootAcquiresNothing
<1>7. CASE \E l \in Locks : UserUnlock(l)
  BY <1>7, UnlockTypes DEF UserUnlock, Unlock, Release, BootAcquiresNothing
<1>8. CASE Retry
  BY <1>3, <1>8, RetryTypes, RetryRunsTask DEF Retry
<1>9. CASE UNCHANGED vars
  BY <1>9 DEF vars, schedVars, pcbVars, runVars, lockVars, LockTypeOK, TypeOK,
              BootAcquiresNothing
<1> QED
  BY <1>1, <1>2, <1>4, <1>5, <1>6, <1>7, <1>8, <1>9 DEF LockNext

(* The types of the process table, the queues and the locks, in every      *)
(* workload, the two above included.                                       *)
THEOREM LockTypeCorrect == LockSpec => []LockTypeOK
<1>1. LockInit => LockTypeOK /\ BootAcquiresNothing
  BY LockInitInv DEF LockInv
<1>2. LockTypeOK /\ BootAcquiresNothing /\ [LockNext]_vars => LockTypeOK' /\ BootAcquiresNothing'
  BY LockTypesKept
<1> QED
  BY <1>1, <1>2, PTL DEF LockSpec

-----------------------------------------------------------------------------
(* Implementation of the abstract lock service.                             *)
FreeAtFirst == \A l \in Locks : ~valid[l] => lock_status[l] = "UNLOCKED"

Free == {l \in Locks : lock_status[l] = "UNLOCKED"}

ServiceStep ==
  \/ UNCHANGED <<lock_status, held>>
  \/ \E t \in Tasks, l \in Locks : Service!Acquire(t, l) \/ Service!GiveBack(t, l)
  \/ \E t \in Tasks : \E L \in SUBSET held[t] : Service!End(t, L)

(* An acquisition is a grant of the service.                               *)
LEMMA AcquireIsServed ==
  ASSUME LockInv, FreeAtFirst, NEW l \in Locks, valid[l], valid' = valid,
         current_running \in Tasks, TryAcquire(l)
  PROVE  ServiceStep /\ FreeAtFirst'
<1>1. CASE /\ lock_status[l] = "UNLOCKED"
           /\ lock_status' = [lock_status EXCEPT ![l] = "LOCKED"]
           /\ held' = [held EXCEPT ![current_running] = @ \cup {l}]
  <2>1. l \in Free /\ Free' = Free \ {l}
    BY <1>1 DEF Free, LockInv, LockTypeOK
  <2>2. Service!Acquire(current_running, l)
    BY <1>1, <2>1 DEF Service!Acquire, Free
  <2>3. FreeAtFirst'
    BY <1>1 DEF FreeAtFirst, LockInv, LockTypeOK
  <2> QED
    BY <2>2, <2>3 DEF ServiceStep
<1>2. CASE UNCHANGED <<lock_status, held>>
  BY <1>2 DEF ServiceStep, FreeAtFirst
<1> QED
  BY <1>1, <1>2 DEF TryAcquire

(* A release is a release of the service.                                  *)
LEMMA UnlockIsServed ==
  ASSUME LockInv, FreeAtFirst, NEW l \in Locks, Unlock(l)
  PROVE  ServiceStep /\ FreeAtFirst'
<1>1. /\ current_running \in Tasks /\ l \in held[current_running]
      /\ held' = [held EXCEPT ![current_running] = @ \ {l}]
      /\ lock_status' = [lock_status EXCEPT ![l] = "UNLOCKED"]
      /\ valid' = valid
  BY DEF Unlock, Release, LockCall, InCall
<1>2. Free' = Free \cup {l}
  BY <1>1 DEF Free, LockInv, LockTypeOK
<1>3. Service!GiveBack(current_running, l)
  BY <1>1, <1>2 DEF Service!GiveBack, Free
<1>4. FreeAtFirst'
  BY <1>1 DEF FreeAtFirst, LockInv, LockTypeOK
<1> QED
  BY <1>1, <1>3, <1>4 DEF ServiceStep

(* The end of a task gives back what its record still lists.               *)
LEMMA EndIsServed ==
  ASSUME LockInv, FreeAtFirst, NEW t \in Tasks, acquiring[t] \notin Locks,
         Terminate(t), held' = [held EXCEPT ![t] = {}], valid' = valid
  PROVE  ServiceStep /\ FreeAtFirst'
<1>1. Recorded(t) \in SUBSET held[t] /\ Recorded(t) \subseteq Locks
  BY DEF LockInv, RecordSound, Claimed, Recorded
<1>2. lock_status' = [l \in Locks |-> IF l \in Recorded(t) THEN "UNLOCKED" ELSE lock_status[l]]
  BY DEF Terminate
<1>3. Free' = Free \cup Recorded(t)
  BY <1>1, <1>2 DEF Free
<1>4. Service!End(t, Recorded(t))
  BY <1>3 DEF Service!End, Free
<1>5. FreeAtFirst'
  BY <1>2 DEF FreeAtFirst
<1>6. \E L \in SUBSET held[t] : Service!End(t, L)
  BY <1>1, <1>4 DEF Service!End
<1> QED
  BY <1>5, <1>6 DEF ServiceStep

(* Every step is a step of the service or leaves it alone.                 *)
LEMMA StepIsServed ==
  ASSUME "kill_waiter" \notin Calls, "mutex_get_again" \notin Calls,
         LockInv, FreeAtFirst, [LockNext]_vars
  PROVE  ServiceStep /\ FreeAtFirst'
<1>1. CASE UNCHANGED <<lock_status, held, valid>>
  BY <1>1 DEF ServiceStep, FreeAtFirst
<1>2. ASSUME NEW l \in Locks, MutexGet(l) \/ BinsemGet(l)
      PROVE  ServiceStep /\ FreeAtFirst'
  <2>1. ~valid[l] /\ InitLock(l)
    BY <1>2 DEF MutexGet, BinsemGet
  <2>2. lock_status' = lock_status /\ held' = held
    BY <2>1 DEF InitLock, FreeAtFirst, LockInv, LockTypeOK
  <2>3. FreeAtFirst'
    BY <2>1, <2>2 DEF InitLock, FreeAtFirst, LockInv, LockTypeOK
  <2> QED
    BY <2>2, <2>3 DEF ServiceStep
<1>3. ASSUME NEW l \in Locks, Lock(l)
      PROVE  ServiceStep /\ FreeAtFirst'
  BY <1>3, AcquireIsServed DEF Lock, LockCall, InCall
<1>4. ASSUME NEW p \in 1 .. MaxPid, Kill(p)
      PROVE  ServiceStep /\ FreeAtFirst'
  BY <1>4, EndIsServed DEF Kill
<1>5. CASE InUser /\ Exit
  <2>1. current_running \in Tasks /\ acquiring[current_running] \notin Locks
    BY <1>5, LockAssumption DEF Exit, InCall, InUser
  <2> QED
    BY <1>5, <2>1, EndIsServed DEF Exit
<1>6. CASE \E l \in Locks : UserUnlock(l)
  BY <1>6, UnlockIsServed DEF UserUnlock
<1>7. CASE Retry
  <2>1. current_running \in Tasks /\ acquiring[current_running] \in Locks
    BY <1>7, RetryRunsTask DEF LockInv
  <2>2. valid[acquiring[current_running]]
    BY <2>1 DEF LockInv, RecordSound, Claimed
  <2> QED
    BY <1>7, <2>1, <2>2, AcquireIsServed DEF Retry
<1>8. CASE UNCHANGED lockVars
  BY <1>1, <1>8 DEF lockVars
<1> QED
  BY <1>2, <1>3, <1>4, <1>5, <1>6, <1>7, <1>8 DEF LockNext, vars

(* The kernel's locks implement the lock service, whatever kills do to the  *)
(* records: every step is a grant of a free lock, a return by its holder,   *)
(* the end of a task that gives back locks it holds and no others, or       *)
(* invisible.                                                               *)
THEOREM LocksImplementService ==
  ASSUME "kill_waiter" \notin Calls, "mutex_get_again" \notin Calls
  PROVE  LockSpec => ImplementsService
<1>1. LockInit => LockInv /\ FreeAtFirst /\ Service!Init
  BY LockInitInv DEF LockInit, FreeAtFirst, Service!Init
<1>2. LockInv /\ FreeAtFirst /\ [LockNext]_vars => LockInv' /\ FreeAtFirst'
  BY LockStepInv, StepIsServed
<1>3. LockInv /\ FreeAtFirst /\ [LockNext]_vars => [Service!Next]_<<Free, held>>
  <2> SUFFICES ASSUME LockInv, FreeAtFirst, [LockNext]_vars
               PROVE  [Service!Next]_<<Free, held>>
    OBVIOUS
  <2>1. ServiceStep
    BY StepIsServed
  <2>2. CASE UNCHANGED <<lock_status, held>>
    BY <2>2 DEF Free
  <2>3. CASE \E t \in Tasks, l \in Locks : Service!Acquire(t, l) \/ Service!GiveBack(t, l)
    <3>1. Service!Next
      BY <2>3 DEF Service!Next
    <3> QED
      BY <3>1
  <2>4. CASE \E t \in Tasks : \E L \in SUBSET held[t] : Service!End(t, L)
    <3>1. Service!Next
      BY <2>4 DEF Service!Next
    <3> QED
      BY <3>1
  <2> QED
    BY <2>1, <2>2, <2>3, <2>4 DEF ServiceStep
<1>4. LockInv /\ FreeAtFirst /\ [LockNext]_vars
        => [Service!Next]_<<{l \in Locks : lock_status[l] = "UNLOCKED"}, held>>
  BY <1>3 DEF Free
<1> QED
  BY <1>1, <1>2, <1>4, PTL DEF LockSpec, ImplementsService, Service!Spec

-----------------------------------------------------------------------------
LocksAreObjects == \A l \in Locks : l \in Queues /\ l \notin Tasks

(* No lock is a task.                                                      *)
LEMMA LocksNoTasks == LocksAreObjects
BY LockAssumption, ObjectAssumption DEF LocksAreObjects, Queues, Tasks

(* The calls of the scheduler leave locks and their queues alone.          *)
LEMMA SchedLeavesLocks ==
  ASSUME TypeOK, NEW l \in Locks, wait_queue[l] = <<>>, TimerInterrupt \/ SchedCall \/ Tick
  PROVE  wait_queue'[l] = <<>>
<1>0. l \in Queues /\ l \notin Tasks /\ wait_queue \in [Queues -> Seq(Tasks)]
  BY LocksNoTasks DEF LocksAreObjects, TypeOK, Queues
<1>1. CASE UNCHANGED wait_queue
  BY <1>1
<1>2. ASSUME NEW d \in 0 .. MaxSleep, Sleep(d) PROVE wait_queue'[l] = <<>>
  <2>1. wait_queue'[l] = Without(wait_queue[l], current_running)
    BY <1>0, <1>2 DEF Sleep, Queues
  <2> QED
    BY <2>1, EmptyQueue DEF Without
<1>3. ASSUME NEW p \in 1 .. MaxPid, Waitpid(p) PROVE wait_queue'[l] = <<>>
  <2>1. PICK i \in Tasks : wait_queue' = [wait_queue EXCEPT ![i] = Append(@, current_running)]
    BY <1>3 DEF Waitpid, DoBlock
  <2> QED
    BY <1>0, <2>1
<1>4. ASSUME NEW i \in Tasks, NEW m, NEW k, NEW dir, NewTask(i, m, k, dir)
      PROVE  wait_queue'[l] = <<>>
  BY <1>0, <1>4 DEF NewTask
<1> QED
  BY <1>1, <1>2, <1>3, <1>4
     DEF Tick, SchedCall, SomeSpawn, TimerInterrupt, Yield, Spawn, Exec, Taskset,
         MthreadCreate, TasksetP

(* Who goes to sleep in do_mutex_lock_acquire sleeps on a held lock.       *)
LEMMA AcquireLeavesNoSleeper ==
  ASSUME LockTypeOK, NoSleeperOnFreeLock, NEW l \in Locks, TryAcquire(l)
  PROVE  NoSleeperOnFreeLock'
<1>0. /\ wait_queue \in [Queues -> Seq(Tasks)] /\ l \in Queues
      /\ lock_status \in [Locks -> {"UNLOCKED", "LOCKED"}]
  BY LocksNoTasks DEF LockTypeOK, LocksAreObjects, TypeOK, Queues
<1>1. CASE lock_status' = [lock_status EXCEPT ![l] = "LOCKED"] /\ UNCHANGED wait_queue
  BY <1>0, <1>1 DEF NoSleeperOnFreeLock
<1>2. CASE lock_status[l] = "LOCKED" /\ UNCHANGED lock_status /\ DoBlock(l)
  <2>1. wait_queue' = [wait_queue EXCEPT ![l] = Append(@, current_running)]
    BY <1>2 DEF DoBlock
  <2> QED
    BY <1>0, <1>2, <2>1 DEF NoSleeperOnFreeLock
<1> QED
  BY <1>1, <1>2 DEF TryAcquire

(* The end of a task empties the queues of the locks it frees.             *)
LEMMA TerminateLeavesNoSleeper ==
  ASSUME NoSleeperOnFreeLock, NEW t \in Tasks, Terminate(t)
  PROVE  NoSleeperOnFreeLock'
<1> SUFFICES ASSUME NEW l \in Locks, lock_status'[l] = "UNLOCKED"
             PROVE  wait_queue'[l] = <<>>
  BY DEF NoSleeperOnFreeLock
<1>1. /\ wait_queue'[l] = IF l \in Recorded(t) THEN <<>> ELSE Without(wait_queue[l], t)
      /\ lock_status'[l] = IF l \in Recorded(t) THEN "UNLOCKED" ELSE lock_status[l]
  BY LocksNoTasks DEF Terminate, LocksAreObjects, Queues
<1>2. CASE l \notin Recorded(t)
  <2>1. wait_queue[l] = <<>>
    BY <1>1, <1>2 DEF NoSleeperOnFreeLock
  <2> QED
    BY <1>1, <1>2, <2>1, EmptyQueue DEF Without
<1> QED
  BY <1>1, <1>2

(* Nobody sleeps on a free lock, in any workload.                          *)
THEOREM FreeLocksWakeAll == LockSpec => []NoSleeperOnFreeLock
<1>1. LockInit => NoSleeperOnFreeLock
  BY LocksNoTasks DEF LockInit, Init, NoSleeperOnFreeLock, LocksAreObjects, Queues
<1>2. LockTypeOK /\ NoSleeperOnFreeLock /\ [LockNext]_vars => NoSleeperOnFreeLock'
  <2> SUFFICES ASSUME LockTypeOK, NoSleeperOnFreeLock, [LockNext]_vars
               PROVE  NoSleeperOnFreeLock'
    OBVIOUS
  <2>0. TypeOK /\ wait_queue \in [Queues -> Seq(Tasks)] /\ \A l \in Locks : l \in Queues
    BY LocksNoTasks DEF LockTypeOK, TypeOK, Queues, LocksAreObjects
  <2>1. CASE (TimerInterrupt \/ SchedCall \/ Tick) /\ UNCHANGED lockVars
    BY <2>0, <2>1, SchedLeavesLocks DEF NoSleeperOnFreeLock, lockVars
  <2>2. ASSUME NEW l \in Locks, InitLock(l) PROVE NoSleeperOnFreeLock'
    BY <2>0, <2>2 DEF InitLock, NoSleeperOnFreeLock, LockTypeOK
  <2>3. ASSUME NEW l \in Locks, UserUnlock(l) PROVE NoSleeperOnFreeLock'
    BY <2>0, <2>3 DEF UserUnlock, Unlock, Release, NoSleeperOnFreeLock, LockTypeOK
  <2>4. CASE UNCHANGED vars
    BY <2>4 DEF vars, schedVars, lockVars, NoSleeperOnFreeLock
  <2> QED
    BY <2>1, <2>2, <2>3, <2>4, AcquireLeavesNoSleeper, TerminateLeavesNoSleeper
       DEF LockNext, MutexGet, BinsemGet, Lock, Retry, Kill, Exit, InCall
<1> QED
  BY <1>1, <1>2, LockTypeCorrect, PTL DEF LockSpec

-----------------------------------------------------------------------------
OnlyWorkersAcquire == \A t \in Tasks \ Workers : acquiring[t] = NoObject

EndInv == LockTypeOK /\ BootAcquiresNothing /\ OnlyWorkersAcquire /\ QueueInv

DeadStep ==
  \A t \in Tasks : status[t] \in Dead /\ pid'[t] = pid[t] => status'[t] \in Dead

(* A call of the scheduler brings no ended task back.                      *)
LEMMA SchedStepDead ==
  ASSUME QueueInv, TimerInterrupt \/ SchedCall \/ Tick
  PROVE  QueueInv' /\ DeadStep
<1>1. QueueInv'
  BY SchedCallQueues, TimerQueues, TickQueues
<1>2. CASE DoScheduler(status, ready_queue, sleep_queue, timer) /\ UNCHANGED <<pcbVars, wait_queue>>
  BY <1>1, <1>2, PreemptQueues DEF pcbVars, Settled, DeadStep
<1>3. ASSUME NEW sq, Settled([status EXCEPT ![current_running] = "BLOCKED"], sq),
             current_running \in Tasks
      PROVE  DeadStep
  <2>1. /\ \A t \in Tasks : t # current_running =>
             [status EXCEPT ![current_running] = "BLOCKED"][t] = status[t]
        /\ status[current_running] = "RUNNING"
    BY QueueTypes, PCBFacts
  <2> QED
    BY <1>3, <2>1 DEF Settled, DeadStep, Dead
<1>4. ASSUME NEW d \in 0 .. MaxSleep, Sleep(d) PROVE DeadStep
  BY <1>3, <1>4, SleepQueues DEF Sleep, InCall
<1>5. ASSUME NEW p \in 1 .. MaxPid, Waitpid(p) PROVE DeadStep
  BY <1>3, <1>5, DoBlockQueues DEF Waitpid, InCall, Queues, pcbVars
<1>6. ASSUME NEW i \in Tasks, NEW m, NEW k, NEW dir, NewTask(i, m, k, dir) PROVE DeadStep
  <2>1. /\ pid[i] = NoPid /\ pid' = [pid EXCEPT ![i] = process_id + 1]
        /\ process_id + 1 # NoPid /\ status' = [status EXCEPT ![i] = "READY"]
    BY <1>6 DEF NewTask, QueueInv, TypeOK, NoPid
  <2> QED
    BY <2>1, QueueTypes, PCBFacts DEF DeadStep
<1>7. CASE UNCHANGED status
  BY <1>1, <1>7 DEF DeadStep
<1> QED
  BY <1>1, <1>2, <1>4, <1>5, <1>6, <1>7
     DEF Tick, SchedCall, SomeSpawn, TimerInterrupt, Yield, Spawn, Exec, Taskset,
         MthreadCreate, TasksetP, runVars

(* Waiters put behind the ready queue, and taken out of where they waited. *)
LEMMA WakeQueues ==
  ASSUME QueueInv, NEW woken \in Seq(Tasks), IsInjective(woken), NEW Q \in SUBSET Queues,
         ToSet(woken) = UNION {ToSet(wait_queue[q]) : q \in Q},
         ready_queue' = ready_queue \o woken, status' = Awaken(status, ToSet(woken)),
         wait_queue' \in [Queues -> Seq(Tasks)],
         \A q \in Queues : wait_queue'[q] = IF q \in Q THEN <<>> ELSE wait_queue[q],
         UNCHANGED <<pid, mask, sleep_queue, current_running>>
  PROVE  InOrder' /\ Owners' /\ SomeoneFits' /\ DeadStep
<1> DEFINE W == ToSet(woken)
<1>1. /\ \A t \in PCBs : status'[t] = IF t \in W THEN "READY" ELSE status[t]
      /\ \A t \in W : t \in Tasks /\ \E q \in Q : t \in ToSet(wait_queue[q])
      /\ Tasks \subseteq PCBs /\ 0 \in Tasks /\ Pid0 \notin Tasks
  BY ToSetInTasks, PCBFacts DEF Awaken
<1>2. \A t \in W : status[t] = "BLOCKED" /\ t \notin ToSet(sleep_queue) /\ pid[t] # NoPid
  BY <1>1 DEF QueueInv, InOrder, Placed, Owners, Unused
<1>3. \A t \in W : t \notin ToSet(ready_queue) /\ t # current_running
  BY <1>1, <1>2, QueueTypes DEF QueueInv, InOrder, Placed
<1>4. IsInjective(ready_queue') /\ ToSet(ready_queue') = ToSet(ready_queue) \cup W
  BY <1>3, QueueTypes, ConcatQueues DEF QueueInv, InOrder, Ordered
<1>5. \A q \in Queues : /\ IsInjective(wait_queue'[q])
                        /\ ToSet(wait_queue'[q]) \subseteq ToSet(wait_queue[q])
                        /\ ToSet(wait_queue'[q]) \cap W = {}
  <2> SUFFICES ASSUME NEW q \in Queues
               PROVE  /\ IsInjective(wait_queue'[q])
                      /\ ToSet(wait_queue'[q]) \subseteq ToSet(wait_queue[q])
                      /\ ToSet(wait_queue'[q]) \cap W = {}
    OBVIOUS
  <2>1. CASE q \in Q
    BY <2>1, EmptyQueue
  <2>2. CASE q \notin Q
    <3>1. wait_queue'[q] = wait_queue[q]
      BY <2>2
    <3>2. ASSUME NEW t \in W PROVE t \notin ToSet(wait_queue[q])
      <4>1. PICK r \in Q : t \in ToSet(wait_queue[r])
        BY <1>1, <3>2
      <4>2. r \in Queues /\ r # q
        BY <2>2
      <4> QED
        BY <4>1, <4>2 DEF QueueInv, InOrder, Placed
    <3> QED
      BY <3>1, <3>2 DEF QueueInv, InOrder, Ordered
  <2> QED
    BY <2>1, <2>2
<1> HIDE DEF W
<1>6. Ordered(ready_queue', sleep_queue', wait_queue')
  BY <1>4, <1>5 DEF QueueInv, InOrder, Ordered
<1>7. Placed(status', ready_queue', sleep_queue', wait_queue')
  <2>1. \A t \in Tasks : status'[t] = "READY" <=> t \in ToSet(ready_queue')
    BY <1>1, <1>4 DEF QueueInv, InOrder, Placed
  <2>2. \A t \in ToSet(sleep_queue') : status'[t] = "BLOCKED"
    BY <1>1, <1>2, QueueTypes DEF QueueInv, InOrder, Placed
  <2>3. \A q \in Queues : \A t \in ToSet(wait_queue'[q]) :
          status'[t] = "BLOCKED" /\ t \notin ToSet(sleep_queue')
    BY <1>1, <1>5, QueueTypes DEF QueueInv, InOrder, Placed
  <2>4. \A q \in Queues : \A t \in ToSet(wait_queue'[q]) :
          \A r \in Queues : r # q => t \notin ToSet(wait_queue'[r])
    BY <1>5 DEF QueueInv, InOrder, Placed
  <2> QED
    BY <2>1, <2>2, <2>3, <2>4 DEF Placed
<1>8. OneRuns(status', current_running')
  BY <1>1, <1>3, QueueTypes DEF OneRuns
<1>9. Owners'
  BY <1>1, <1>2, <1>5 DEF QueueInv, Owners, Unused
<1>10. SomeoneFits' /\ DeadStep
  BY <1>1, <1>2 DEF QueueInv, SomeoneFits, ShellRuns, AllFit, Fits, DeadStep, Active, Dead
<1> QED
  BY <1>6, <1>7, <1>8, <1>9, <1>10 DEF InOrder

(* Releasing a lock moves its sleepers to the ready queue.                 *)
LEMMA UnlockQueues ==
  ASSUME QueueInv, LockTypeOK, NEW l \in Locks, Unlock(l)
  PROVE  QueueInv' /\ DeadStep
<1>1. /\ ready_queue' = ready_queue \o wait_queue[l]
      /\ status' = Awaken(status, ToSet(wait_queue[l]))
      /\ wait_queue' = [wait_queue EXCEPT ![l] = <<>>]
      /\ UNCHANGED <<pid, mask, sleep_queue, current_running>>
  BY DEF Unlock, Release, pcbVars
<1>2. l \in Queues /\ wait_queue \in [Queues -> Seq(Tasks)] /\ wait_queue[l] \in Seq(Tasks)
  BY LocksNoTasks, QueueTypes DEF LocksAreObjects
<1> DEFINE Q == {l}
           woken == wait_queue[l]
<1>3. /\ wait_queue' \in [Queues -> Seq(Tasks)] /\ Q \in SUBSET Queues
      /\ \A q \in Queues : wait_queue'[q] = IF q \in Q THEN <<>> ELSE wait_queue[q]
  BY <1>1, <1>2
<1>4. /\ woken \in Seq(Tasks) /\ IsInjective(woken)
      /\ ToSet(woken) = UNION {ToSet(wait_queue[q]) : q \in Q}
  BY <1>2 DEF QueueInv, InOrder, Ordered
<1> HIDE DEF Q, woken
<1>5. InOrder' /\ Owners' /\ SomeoneFits' /\ DeadStep
  BY <1>1, <1>3, <1>4, WakeQueues DEF woken
<1> QED
  BY <1>5, UnlockTypes DEF QueueInv, LockTypeOK

(* So does the end of a task that holds it.                                *)
LEMMA ReleaseOrderQueue ==
  ASSUME LockTypeOK, NEW t \in Tasks, NEW wq \in [Queues -> Seq(Tasks)],
         NEW w \in ReleaseOrder(t, wq)
  PROVE  /\ w \in Seq(Tasks) /\ IsInjective(w)
         /\ ToSet(w) = UNION {ToSet(wq[l]) : l \in Recorded(t)}
<1> DEFINE W == UNION {ToSet(wq[l]) : l \in Recorded(t)}
<1>1. Recorded(t) \subseteq Queues
  BY LockAssumption DEF Recorded, Queues
<1>2. W \in SUBSET Tasks
  BY <1>1, ToSetInTasks
<1>3. w \in SetToSeqs(W) /\ ToSet(w) = W
  BY DEF ReleaseOrder
<1> QED
  BY <1>2, <1>3, SetToSeqsIsSeq

(* A task that ends leaves every list; the waiters of its locks are ready. *)
LEMMA TerminateQueues ==
  ASSUME LockTypeOK, QueueInv, NEW t \in Tasks, t \in Workers, Terminate(t), mask' = mask,
         pid' = pid \/ pid' = [pid EXCEPT ![t] = NoPid]
  PROVE  InOrder' /\ Owners' /\ SomeoneFits' /\ DeadStep /\ status'[t] \in Dead
<1> DEFINE unlinked == [q \in Queues |-> Without(wait_queue[q], t)]
           Q == Recorded(t)
           dying == [status EXCEPT ![t] = DeadStatus(t)]
           sq == Without(sleep_queue, t)
           rest == Without(ready_queue, t)
<1>1. PICK woken \in ReleaseOrder(t, unlinked) :
        /\ wait_queue' = [q \in Queues |-> IF q \in Q THEN <<>> ELSE unlinked[q]]
        /\ IF t = current_running
             THEN DoScheduler(Awaken(dying, ToSet(woken)), rest \o woken, sq, timer)
             ELSE /\ status' = Awaken(dying, ToSet(woken)) /\ ready_queue' = rest \o woken
                  /\ sleep_queue' = sq /\ current_running' = current_running
  BY DEF Terminate, Queues
<1> DEFINE W == ToSet(woken)
           st == Awaken(dying, W)
           rq == rest \o woken
<1>2. /\ unlinked \in [Queues -> Seq(Tasks)]
      /\ \A q \in Queues : /\ unlinked[q] \in Seq(Tasks) /\ IsInjective(unlinked[q])
                           /\ ToSet(unlinked[q]) = ToSet(wait_queue[q]) \ {t}
  BY QueueTypes, WithoutElements DEF QueueInv, InOrder, Ordered
<1>3. /\ sq \in Seq(Tasks) /\ IsInjective(sq) /\ ToSet(sq) = ToSet(sleep_queue) \ {t}
      /\ rest \in Seq(Tasks) /\ IsInjective(rest) /\ ToSet(rest) = ToSet(ready_queue) \ {t}
  BY QueueTypes, WithoutElements DEF QueueInv, InOrder, Ordered
<1> HIDE DEF unlinked, sq, rest
<1>4. /\ woken \in Seq(Tasks) /\ IsInjective(woken)
      /\ W = UNION {ToSet(unlinked[l]) : l \in Q}
  BY <1>2, ReleaseOrderQueue
<1>5. Q \subseteq Queues
  BY LockAssumption DEF Recorded, Queues
<1>6. Tasks \subseteq PCBs /\ 0 \in Tasks /\ Pid0 \notin Tasks
  BY PCBFacts
<1>7. \A u \in W : /\ u \in Tasks /\ u # t
                   /\ \E q \in Q : u \in ToSet(wait_queue[q])
  BY <1>2, <1>4, <1>5, ToSetInTasks
<1>8. \A u \in W : /\ status[u] = "BLOCKED" /\ u \notin ToSet(sleep_queue)
                   /\ pid[u] # NoPid /\ u \notin ToSet(ready_queue) /\ u # current_running
  BY <1>5, <1>6, <1>7, QueueTypes DEF QueueInv, InOrder, Placed, Owners, Unused
<1>9. \A q \in Queues : \A u \in W : q \notin Q => u \notin ToSet(wait_queue[q])
  BY <1>5, <1>7 DEF QueueInv, InOrder, Placed
<1> HIDE DEF W
<1>10. DeadStatus(t) \in Dead /\ dying \in [PCBs -> Statuses]
       /\ \A u \in PCBs : dying[u] = IF u = t THEN DeadStatus(t) ELSE status[u]
  BY <1>6, QueueTypes DEF DeadStatus, Dead, Statuses
<1> HIDE DEF dying
<1>11. /\ st \in [PCBs -> Statuses]
       /\ \A u \in PCBs : st[u] = IF u \in W THEN "READY" ELSE
                                  IF u = t THEN DeadStatus(t) ELSE status[u]
  BY <1>10 DEF Awaken, Statuses
<1>12. rq \in Seq(Tasks) /\ IsInjective(rq) /\ ToSet(rq) = (ToSet(ready_queue) \ {t}) \cup W
  <2>1. ToSet(rest) \cap ToSet(woken) = {}
    BY <1>3, <1>8 DEF W
  <2> QED
    BY <1>3, <1>4, <2>1, ConcatQueues DEF W
<1> HIDE DEF st, rq
<1>13. /\ wait_queue' \in [Queues -> Seq(Tasks)]
       /\ \A q \in Queues : /\ IsInjective(wait_queue'[q])
                            /\ ToSet(wait_queue'[q]) \subseteq ToSet(wait_queue[q]) \ {t}
                            /\ ToSet(wait_queue'[q]) \cap W = {}
  <2>1. wait_queue' \in [Queues -> Seq(Tasks)]
    BY <1>1, <1>2
  <2>2. ASSUME NEW q \in Queues
        PROVE  /\ IsInjective(wait_queue'[q])
               /\ ToSet(wait_queue'[q]) \subseteq ToSet(wait_queue[q]) \ {t}
               /\ ToSet(wait_queue'[q]) \cap W = {}
    <3>1. CASE q \in Q
      BY <1>1, <3>1, EmptyQueue
    <3>2. CASE q \notin Q
      BY <1>1, <1>2, <1>9, <3>2
    <3> QED
      BY <3>1, <3>2
  <2> QED
    BY <2>1, <2>2
<1>14. Ordered(rq, sq, wait_queue')
  BY <1>3, <1>12, <1>13 DEF Ordered
<1>15. Placed(st, rq, sq, wait_queue')
  <2>1. \A u \in Tasks : st[u] = "READY" <=> u \in ToSet(rq)
    BY <1>6, <1>7, <1>10, <1>11, <1>12 DEF QueueInv, InOrder, Placed, Dead
  <2>2. \A u \in ToSet(sq) : st[u] = "BLOCKED"
    BY <1>3, <1>6, <1>8, <1>11, QueueTypes DEF QueueInv, InOrder, Placed
  <2>3. \A q \in Queues : \A u \in ToSet(wait_queue'[q]) : st[u] = "BLOCKED" /\ u \notin ToSet(sq)
    BY <1>3, <1>6, <1>11, <1>13, QueueTypes DEF QueueInv, InOrder, Placed
  <2>4. \A q \in Queues : \A u \in ToSet(wait_queue'[q]) :
          \A r \in Queues : r # q => u \notin ToSet(wait_queue'[r])
    BY <1>13 DEF QueueInv, InOrder, Placed
  <2> QED
    BY <2>1, <2>2, <2>3, <2>4 DEF Placed
<1>16. \A u \in PCBs : st[u] = "RUNNING" => u = current_running /\ u # t
  BY <1>10, <1>11, QueueTypes DEF Dead
<1>17. ASSUME NEW u \in Tasks, pid'[u] = NoPid PROVE Unused(u, st, sq, wait_queue')
  <2>1. CASE u = t
    BY <1>3, <1>6, <1>7, <1>10, <1>11, <1>13, <2>1 DEF Unused, Active, Dead
  <2>2. CASE u # t
    <3>1. pid[u] = NoPid
      BY <1>17, <2>2, QueueTypes
    <3>2. Unused(u, status, sleep_queue, wait_queue) /\ u \notin W
      BY <1>8, <3>1 DEF QueueInv, Owners
    <3> QED
      BY <1>3, <1>6, <1>11, <1>13, <2>2, <3>2 DEF Unused
  <2> QED
    BY <2>1, <2>2
<1>18. ChoiceLeft(st)
  <2>1. CASE ShellRuns
    <3>1. t # 0 /\ 0 \notin W
      BY <1>8, <2>1 DEF ShellRuns, Active
    <3> QED
      BY <1>6, <1>11, <2>1, <3>1, QueueTypes DEF ShellRuns, ChoiceLeft
  <2>2. CASE AllFit
    BY <2>2, QueueTypes DEF ChoiceLeft
  <2> QED
    BY <2>1, <2>2 DEF QueueInv, SomeoneFits
<1>19. st[t] \in Dead /\ \A u \in Tasks : status[u] \in Dead => st[u] \in Dead
  BY <1>6, <1>7, <1>8, <1>10, <1>11 DEF Dead
<1>20. CASE t = current_running
  <2>1. DoScheduler(st, rq, sq, timer)
    BY <1>1, <1>20 DEF st, rq, W
  <2>2. InOrder' /\ Owners' /\ SomeoneFits' /\ Settled(st, sq)
    BY <1>3, <1>11, <1>12, <1>13, <1>14, <1>15, <1>16, <1>17, <1>18, <2>1,
       SchedulerKeepsOrder, QueueTypes
  <2> QED
    BY <1>19, <2>2 DEF Settled, DeadStep
<1>21. CASE t # current_running
  <2>1. status' = st /\ ready_queue' = rq /\ sleep_queue' = sq /\ current_running' = current_running
    BY <1>1, <1>21 DEF st, rq, W
  <2>2. OneRuns(st, current_running)
    BY <1>8, <1>10, <1>11, <1>16, <1>21, QueueTypes DEF OneRuns
  <2>3. InOrder' /\ Owners'
    BY <1>14, <1>15, <1>17, <2>1, <2>2 DEF InOrder, Owners
  <2>4. SomeoneFits'
    BY <1>18, <2>1, PCBFacts DEF ChoiceLeft, SomeoneFits, ShellRuns, AllFit, Fits
  <2> QED
    BY <1>19, <2>1, <2>3, <2>4 DEF DeadStep
<1> QED
  BY <1>20, <1>21

(* Acquiring a lock keeps every task where its status says.                *)
LEMMA AcquireQueues ==
  ASSUME EndInv, NEW l \in Locks, current_running \in Tasks, current_running \in Workers,
         TryAcquire(l), LockTypeOK', UNCHANGED <<pcbVars, valid, overrun>>
  PROVE  EndInv' /\ DeadStep
<1>0. 0 \in PCBs /\ Pid0 \in PCBs /\ current_running # Pid0 /\ l \in Queues
  BY PCBFacts, LocksNoTasks DEF LocksAreObjects
<1>1. BootAcquiresNothing' /\ OnlyWorkersAcquire'
  <2>1. \A t \in PCBs : t # current_running => acquiring'[t] = acquiring[t]
    BY DEF EndInv, LockTypeOK, TryAcquire
  <2> QED
    BY <1>0, <2>1, PCBFacts DEF EndInv, BootAcquiresNothing, OnlyWorkersAcquire
<1>2. CASE UNCHANGED <<wait_queue, runVars>>
  BY <1>1, <1>2 DEF EndInv, LockTypeOK, QueueInv, InOrder, Owners, SomeoneFits, ShellRuns,
         AllFit, Fits, DeadStep, pcbVars, runVars
<1>3. CASE DoBlock(l)
  <2> DEFINE st == [status EXCEPT ![current_running] = "BLOCKED"]
  <2>1. InOrder' /\ Owners' /\ SomeoneFits' /\ Settled(st, sleep_queue)
    BY <1>0, <1>3, DoBlockQueues DEF EndInv, pcbVars
  <2>2. \A t \in Tasks : status[t] \in Dead => st[t] \in Dead
    BY QueueTypes, PCBFacts DEF EndInv, Dead
  <2> HIDE DEF st
  <2>3. DeadStep
    BY <2>1, <2>2 DEF Settled, DeadStep
  <2> QED
    BY <1>1, <2>1, <2>3 DEF EndInv, LockTypeOK, QueueInv
<1> QED
  BY <1>2, <1>3 DEF TryAcquire

(* Every step keeps ended tasks out of all queues.                         *)
LEMMA EndStep ==
  ASSUME EndInv, LockTypeOK', [LockNext]_vars
  PROVE  EndInv' /\ DeadStep
<1>0. QueueInv /\ LockTypeOK /\ TypeOK'
  BY DEF EndInv, LockTypeOK
<1>1. CASE (TimerInterrupt \/ SchedCall \/ Tick) /\ UNCHANGED lockVars
  BY <1>0, <1>1, SchedStepDead DEF EndInv, BootAcquiresNothing, OnlyWorkersAcquire, lockVars
<1>2. ASSUME NEW l \in Locks, InitLock(l)
      PROVE  EndInv' /\ DeadStep
  <2>1. \A q \in Queues : wait_queue'[q] = wait_queue[q] \/ wait_queue'[q] = <<>>
    BY <1>0, <1>2, QueueTypes, LocksNoTasks DEF InitLock, LocksAreObjects
  <2>2. \A q \in Queues : /\ IsInjective(wait_queue'[q])
                          /\ ToSet(wait_queue'[q]) \subseteq ToSet(wait_queue[q])
    BY <1>0, <2>1, EmptyQueue DEF QueueInv, InOrder, Ordered
  <2>3. UNCHANGED <<pid, mask, status, ready_queue, sleep_queue, current_running, acquiring>>
    BY <1>2 DEF InitLock, pcbVars, runVars
  <2>4. InOrder'
    BY <1>0, <2>2, <2>3 DEF QueueInv, InOrder, Ordered, Placed, OneRuns
  <2>5. Owners' /\ SomeoneFits'
    BY <1>0, <2>2, <2>3 DEF QueueInv, Owners, Unused, SomeoneFits, ShellRuns, AllFit, Fits
  <2> QED
    BY <1>0, <2>3, <2>4, <2>5
       DEF EndInv, QueueInv, BootAcquiresNothing, OnlyWorkersAcquire, DeadStep
<1>3. ASSUME NEW l \in Locks, Lock(l)
      PROVE  EndInv' /\ DeadStep
  BY <1>3, AcquireQueues DEF Lock, LockCall, InCall
<1>4. CASE Retry
  <2>1. current_running \in Tasks /\ acquiring[current_running] \in Locks
    BY <1>4, RetryRunsTask DEF EndInv
  <2>2. current_running \in Workers
    BY <2>1, LockAssumption DEF EndInv, OnlyWorkersAcquire
  <2> QED
    BY <1>4, <2>1, <2>2, AcquireQueues DEF Retry
<1>5. ASSUME NEW t \in Tasks, t \in Workers, Terminate(t), mask' = mask,
             pid' = pid \/ pid' = [pid EXCEPT ![t] = NoPid], UNCHANGED acquiring
      PROVE  EndInv' /\ DeadStep
  BY <1>0, <1>5, TerminateQueues DEF EndInv, QueueInv, BootAcquiresNothing, OnlyWorkersAcquire
<1>6. ASSUME NEW p \in 1 .. MaxPid, Kill(p)
      PROVE  EndInv' /\ DeadStep
  BY <1>5, <1>6 DEF Kill, pcbVars
<1>7. CASE Exit
  BY <1>5, <1>7 DEF Exit, InCall
<1>8. CASE \E l \in Locks : UserUnlock(l)
  <2>1. UNCHANGED acquiring /\ QueueInv' /\ DeadStep
    BY <1>0, <1>8, UnlockQueues DEF UserUnlock, Unlock, Release
  <2> QED
    BY <2>1 DEF EndInv, BootAcquiresNothing, OnlyWorkersAcquire
<1>9. CASE UNCHANGED vars
  BY <1>0, <1>9 DEF vars, schedVars, pcbVars, runVars, lockVars, EndInv, QueueInv, InOrder, Owners,
                    SomeoneFits, ShellRuns, AllFit, Fits, BootAcquiresNothing, OnlyWorkersAcquire,
                    DeadStep
<1> QED
  BY <1>1, <1>2, <1>3, <1>4, <1>6, <1>7, <1>8, <1>9 DEF LockNext, MutexGet, BinsemGet

(* After a step, the order of the queues says where the dead are: nowhere. *)
LEMMA DeadAreNowhere ==
  ASSUME QueueInv', NEW t \in Tasks, status'[t] \in Dead
  PROVE  /\ current_running' # t
         /\ t \notin ToSet(ready_queue') \cup ToSet(sleep_queue') \cup Waiting'
<1>1. Ordered(ready_queue', sleep_queue', wait_queue')
      /\ Placed(status', ready_queue', sleep_queue', wait_queue')
      /\ OneRuns(status', current_running')
  BY DEF QueueInv, InOrder
<1>2. current_running' # t
  BY <1>1, PCBFacts DEF OneRuns, Dead
<1>3. t \notin ToSet(ready_queue') /\ t \notin ToSet(sleep_queue')
  BY <1>1 DEF Placed, Dead
<1>4. \A q \in Queues : t \notin ToSet(wait_queue'[q])
  BY <1>1 DEF Placed, Dead
<1>5. t \notin Waiting'
  BY <1>4 DEF Waiting, Queues
<1> QED
  BY <1>2, <1>3, <1>5

(* At the start nobody has ended.                                          *)
LEMMA LockInitEnds == NobodyStranded /\ LockInit => EndInv
<1> SUFFICES ASSUME NobodyStranded, LockInit PROVE EndInv
  OBVIOUS
<1>1. LockTypeOK /\ BootAcquiresNothing
  BY LockInitInv DEF LockInv
<1>2. QueueInv /\ OnlyWorkersAcquire
  BY InitQueues, PCBFacts DEF LockInit, OnlyWorkersAcquire
<1> QED
  BY <1>1, <1>2 DEF EndInv

(* A task that has ended stays so until its entry of pcb[] is given to a   *)
(* new one, whatever the others do: no queue that do_kill and do_exit      *)
(* leave behind brings it back to the scheduler.                           *)
THEOREM TheDeadStayDead ==
  ASSUME NobodyStranded
  PROVE  LockSpec => DeadStayDead
<1>1. NobodyStranded /\ LockInit => EndInv
  BY LockInitEnds
<1>2. EndInv /\ LockTypeOK' /\ [LockNext]_vars => EndInv'
  BY EndStep
<1>3. EndInv /\ LockTypeOK' /\ [LockNext]_vars
        => [\A t \in Tasks : status[t] \in Dead /\ pid'[t] = pid[t]
              => /\ status'[t] \in Dead /\ current_running' # t
                 /\ t \notin ToSet(ready_queue') \cup ToSet(sleep_queue') \cup Waiting']_vars
  <2> SUFFICES ASSUME EndInv, LockTypeOK', [LockNext]_vars,
                      NEW t \in Tasks, status[t] \in Dead, pid'[t] = pid[t]
               PROVE  /\ status'[t] \in Dead /\ current_running' # t
                      /\ t \notin ToSet(ready_queue') \cup ToSet(sleep_queue') \cup Waiting'
    OBVIOUS
  <2>1. QueueInv' /\ status'[t] \in Dead
    BY EndStep DEF EndInv, DeadStep
  <2> QED
    BY <2>1, DeadAreNowhere
<1> QED
  BY <1>1, <1>2, <1>3, LockTypeCorrect, PTL DEF LockSpec, DeadStayDead

-----------------------------------------------------------------------------
(* What the other objects tasks queue up on see of these steps.            *)
FreshAcquireNothing == \A t \in Tasks : pid[t] = NoPid => acquiring[t] = NoObject

(* Whoever waits for o, and who has come from it.                          *)
LeavesAlone(o) ==
  /\ ToSet(wait_queue'[o]) \subseteq ToSet(wait_queue[o])
  /\ wait_queue[o] = <<>> => wait_queue'[o] = <<>>
  /\ \A t \in Tasks : acquiring'[t] = o <=> acquiring[t] = o

OnlyNewAwake == \A t \in Tasks : Alive(t)' => Alive(t) \/ pid[t] = NoPid

(* No object of the kernel is a task.                                      *)
LEMMA ObjectNoTask ==
  ASSUME NEW o \in Objects
  PROVE  o \in Queues /\ o \notin Tasks /\ o # NoObject
BY ObjectAssumption, LockAssumption DEF Queues, Tasks

(* The calls of the scheduler leave the waiting of other objects alone.    *)
LEMMA SchedLeavesAlone ==
  ASSUME QueueInv, NEW o \in Objects, TimerInterrupt \/ SchedCall \/ Tick, UNCHANGED acquiring
  PROVE  LeavesAlone(o)
<1>0. o \in Queues /\ o \notin Tasks /\ wait_queue \in [Queues -> Seq(Tasks)]
  BY ObjectNoTask, QueueTypes
<1>1. CASE wait_queue'[o] = wait_queue[o]
  BY <1>1 DEF LeavesAlone
<1>2. ASSUME NEW d \in 0 .. MaxSleep, Sleep(d) PROVE LeavesAlone(o)
  <2>1. wait_queue'[o] = Without(wait_queue[o], current_running)
    BY <1>0, <1>2 DEF Sleep, Queues
  <2>2. wait_queue[o] \in Seq(Tasks) /\ IsInjective(wait_queue[o])
    BY <1>0 DEF QueueInv, InOrder, Ordered
  <2>3. ToSet(wait_queue'[o]) \subseteq ToSet(wait_queue[o])
    BY <2>1, <2>2, WithoutElements
  <2>4. wait_queue[o] = <<>> => wait_queue'[o] = <<>>
    BY <2>1, EmptyQueue DEF Without
  <2> QED
    BY <2>3, <2>4 DEF LeavesAlone
<1>3. ASSUME NEW p \in 1 .. MaxPid, Waitpid(p) PROVE LeavesAlone(o)
  <2>1. PICK i \in Tasks : wait_queue' = [wait_queue EXCEPT ![i] = Append(@, current_running)]
    BY <1>3 DEF Waitpid, DoBlock
  <2> QED
    BY <1>0, <1>1, <2>1
<1>4. ASSUME NEW i \in Tasks, NEW m, NEW k, NEW dir, NewTask(i, m, k, dir)
      PROVE  LeavesAlone(o)
  BY <1>0, <1>1, <1>4 DEF NewTask
<1> QED
  BY <1>1, <1>2, <1>3, <1>4
     DEF Tick, SchedCall, SomeSpawn, TimerInterrupt, Yield, Spawn, Exec, Taskset,
         MthreadCreate, TasksetP

(* So does the acquisition of a lock.                                      *)
LEMMA AcquireLeavesAlone ==
  ASSUME EndInv, NEW l \in Locks, current_running \in Tasks, TryAcquire(l),
         InUser \/ acquiring[current_running] \in Locks, NEW o \in Objects \ Locks
  PROVE  LeavesAlone(o)
<1>0. o \in Queues /\ o # NoObject /\ o # l /\ wait_queue \in [Queues -> Seq(Tasks)]
  BY ObjectNoTask, QueueTypes DEF EndInv
<1>1. wait_queue'[o] = wait_queue[o]
  <2>1. \/ wait_queue' = wait_queue
        \/ wait_queue' = [wait_queue EXCEPT ![l] = Append(@, current_running)]
    BY DEF TryAcquire, DoBlock
  <2> QED
    BY <1>0, <2>1
<1>2. \A t \in Tasks : acquiring'[t] = o <=> acquiring[t] = o
  <2>1. acquiring[current_running] # o
    BY <1>0 DEF InUser
  <2>2. \/ acquiring' = [acquiring EXCEPT ![current_running] = NoObject]
        \/ acquiring' = [acquiring EXCEPT ![current_running] = l]
    BY DEF TryAcquire
  <2>3. /\ acquiring \in [PCBs -> Objects \cup {NoObject}] /\ current_running \in PCBs
        /\ Tasks \subseteq PCBs
    BY PCBFacts DEF EndInv, LockTypeOK
  <2> QED
    BY <1>0, <2>1, <2>2, <2>3
<1> QED
  BY <1>1, <1>2 DEF LeavesAlone

(* The end of a task takes it, and no other, out of its queue.             *)
LEMMA TerminateLeavesAlone ==
  ASSUME EndInv, NEW t \in Tasks, Terminate(t), UNCHANGED acquiring, NEW o \in Objects \ Locks
  PROVE  LeavesAlone(o)
<1>0. o \in Queues /\ wait_queue[o] \in Seq(Tasks) /\ IsInjective(wait_queue[o])
  BY ObjectNoTask, QueueTypes DEF EndInv, QueueInv, InOrder, Ordered
<1>1. wait_queue'[o] = IF o \in Recorded(t) THEN <<>> ELSE Without(wait_queue[o], t)
  BY <1>0 DEF Terminate, Queues
<1>2. /\ ToSet(Without(wait_queue[o], t)) \subseteq ToSet(wait_queue[o])
      /\ wait_queue[o] = <<>> => Without(wait_queue[o], t) = <<>>
  BY <1>0, WithoutElements, EmptyQueue DEF Without
<1> QED
  BY <1>1, <1>2, EmptyQueue DEF LeavesAlone

(* Every step of tasks and locks leaves the queues of other objects in     *)
(* order.                                                                  *)
LEMMA LockStepLeavesAlone ==
  ASSUME EndInv, [LockNext]_vars, NEW o \in Objects \ Locks
  PROVE  LeavesAlone(o)
<1>0. QueueInv /\ LockTypeOK /\ BootAcquiresNothing
  BY DEF EndInv
<1>1. CASE (TimerInterrupt \/ SchedCall \/ Tick) /\ UNCHANGED lockVars
  BY <1>0, <1>1, SchedLeavesAlone DEF lockVars
<1>2. ASSUME NEW l \in Locks, InitLock(l) \/ Unlock(l) PROVE LeavesAlone(o)
  <2>1. wait_queue' = [wait_queue EXCEPT ![l] = <<>>] /\ UNCHANGED acquiring
    BY <1>2 DEF InitLock, Unlock, Release
  <2>2. wait_queue'[o] = wait_queue[o]
    BY <1>0, <2>1, QueueTypes, ObjectNoTask
  <2> QED
    BY <2>1, <2>2 DEF LeavesAlone
<1>3. ASSUME NEW l \in Locks, InUser, Lock(l) PROVE LeavesAlone(o)
  BY <1>3, AcquireLeavesAlone DEF Lock, LockCall, InCall
<1>4. CASE Retry
  BY <1>0, <1>4, RetryRunsTask, AcquireLeavesAlone DEF Retry
<1>5. ASSUME NEW p \in 1 .. MaxPid, Kill(p) PROVE LeavesAlone(o)
  BY <1>5, TerminateLeavesAlone DEF Kill
<1>6. CASE Exit
  BY <1>6, TerminateLeavesAlone DEF Exit, InCall
<1>7. CASE UNCHANGED vars
  BY <1>7 DEF vars, schedVars, lockVars, LeavesAlone
<1> QED
  BY <1>1, <1>2, <1>3, <1>4, <1>5, <1>6, <1>7 DEF LockNext, MutexGet, BinsemGet, UserUnlock

(* A slot without a pid was left in user mode, or never used.              *)
LEMMA LockStepFresh ==
  ASSUME EndInv, LockTypeOK', FreshAcquireNothing, [LockNext]_vars
  PROVE  FreshAcquireNothing' /\ OnlyNewAwake
<1>0. QueueInv /\ LockTypeOK /\ BootAcquiresNothing
  BY DEF EndInv
<1>1. pid'= pid \/ (\E i \in Tasks : pid[i] = NoPid /\ \A t \in Tasks \ {i} : pid'[t] = pid[t])
                \/ (/\ InUser /\ current_running \in Tasks
                    /\ pid' = [pid EXCEPT ![current_running] = NoPid]
                    /\ UNCHANGED acquiring)
  <2>1. ASSUME NEW i \in Tasks, NEW m, NEW k, NEW dir, NewTask(i, m, k, dir)
        PROVE  pid[i] = NoPid /\ \A t \in Tasks \ {i} : pid'[t] = pid[t]
    BY <1>0, <2>1, QueueTypes DEF NewTask
  <2>2. ASSUME ~\E i \in Tasks : pid[i] = NoPid /\ \A t \in Tasks \ {i} : pid'[t] = pid[t]
        PROVE  UNCHANGED pid \/ (InUser /\ Exit)
    BY <2>1, <2>2 DEF LockNext, SchedCall, SomeSpawn, TimerInterrupt, Yield, Sleep, Waitpid, Spawn,
         Exec, Taskset, MthreadCreate, TasksetP, Tick, MutexGet, BinsemGet, InitLock, Lock, Retry,
         UserUnlock, Unlock, Release, Kill, pcbVars, vars, schedVars
  <2> QED
    BY <2>2 DEF Exit, InCall
<1>2. \A t \in Tasks : acquiring'[t] = acquiring[t] \/ t = current_running
  <2>1. ASSUME NEW l \in Locks, TryAcquire(l)
        PROVE  \A t \in Tasks : acquiring'[t] = acquiring[t] \/ t = current_running
    BY <1>0, <2>1, PCBFacts DEF TryAcquire, LockTypeOK
  <2> QED
    BY <2>1 DEF LockNext, MutexGet, BinsemGet, InitLock, Lock, Retry,
         UserUnlock, Unlock, Release, Kill, Exit, lockVars, vars
<1>3. current_running \in Tasks => pid[current_running] # NoPid
  BY <1>0, QueueTypes, PCBFacts DEF QueueInv, Owners, Unused, Active
<1>4. ASSUME NEW t \in Tasks, pid'[t] = NoPid PROVE acquiring'[t] = NoObject
  <2>1. CASE pid[t] = NoPid
    BY <1>2, <1>3, <2>1 DEF FreshAcquireNothing
  <2>2. CASE pid[t] # NoPid
    <3>1. t = current_running /\ InUser /\ UNCHANGED acquiring
      BY <1>0, <1>1, <1>4, <2>2, QueueTypes
    <3> QED
      BY <3>1 DEF InUser
  <2> QED
    BY <2>1, <2>2
<1>5. ASSUME NEW t \in Tasks, pid'[t] # NoPid, status'[t] \notin Dead, pid[t] # NoPid
      PROVE  status[t] \notin Dead
  <2>1. pid'[t] = pid[t]
    BY <1>0, <1>1, <1>5, QueueTypes
  <2> QED
    BY <1>5, <2>1, EndStep DEF DeadStep
<1>6. FreshAcquireNothing'
  BY <1>4 DEF FreshAcquireNothing
<1>7. OnlyNewAwake
  BY <1>5 DEF OnlyNewAwake, Alive
<1> QED
  BY <1>6, <1>7

-----------------------------------------------------------------------------
KernelInv == EndInv /\ FreshAcquireNothing

(* The steps of tasks and locks keep what modules on top rely on.          *)
LEMMA LockStepKeepsKernel ==
  ASSUME KernelInv, [LockNext]_vars
  PROVE  KernelInv' /\ OnlyNewAwake
<1>1. LockTypeOK'
  BY LockTypesKept DEF KernelInv, EndInv
<1> QED
  BY <1>1, EndStep, LockStepFresh DEF KernelInv

(* So does a step of such a module that leaves them alone.                 *)
LEMMA VarsKeepKernel ==
  ASSUME KernelInv, UNCHANGED vars
  PROVE  KernelInv'
BY DEF vars, schedVars, pcbVars, runVars, lockVars, KernelInv, EndInv, LockTypeOK, TypeOK,
       BootAcquiresNothing, OnlyWorkersAcquire, QueueInv, InOrder, Owners, SomeoneFits,
       ShellRuns, AllFit, Fits,
       FreshAcquireNothing

(* Who runs is alive and queued nowhere.                                   *)
LEMMA CallerFacts ==
  ASSUME KernelInv, current_running \in Tasks
  PROVE  /\ status[current_running] = "RUNNING" /\ pid[current_running] # NoPid
         /\ Alive(current_running)
         /\ \A q \in Queues : current_running \notin ToSet(wait_queue[q])
<1>1. QueueInv /\ current_running \in PCBs
  BY PCBFacts DEF KernelInv, EndInv
<1>2. status[current_running] = "RUNNING"
  BY <1>1, QueueTypes
<1>3. pid[current_running] # NoPid
  BY <1>1, <1>2 DEF QueueInv, Owners, Unused, Active
<1>4. \A q \in Queues : current_running \notin ToSet(wait_queue[q])
  BY <1>1, <1>2 DEF QueueInv, InOrder, Placed
<1> QED
  BY <1>2, <1>3, <1>4 DEF Alive, Dead

(* A task that is switched in inside a call is one that may block.         *)
LEMMA ResumedCaller ==
  ASSUME KernelInv, acquiring[current_running] \in Objects
  PROVE  current_running \in Tasks /\ current_running \in Workers
<1>1. acquiring[current_running] # NoObject /\ current_running \in PCBs
  BY ObjectNoTask, QueueTypes DEF KernelInv, EndInv
<1> QED
  BY <1>1 DEF KernelInv, EndInv, BootAcquiresNothing, OnlyWorkersAcquire, PCBs

(* Whoever waits for an object is alive.                                   *)
LEMMA WaiterFacts ==
  ASSUME KernelInv, NEW q \in Queues, NEW t \in ToSet(wait_queue[q])
  PROVE  t \in Tasks /\ Alive(t) /\ t # current_running
<1>1. QueueInv /\ wait_queue[q] \in Seq(Tasks)
  BY QueueTypes DEF KernelInv, EndInv
<1>2. t \in Tasks /\ t \in PCBs
  BY <1>1, QueueTypes, PCBFacts
<1>3. status[t] = "BLOCKED"
  BY <1>1 DEF QueueInv, InOrder, Placed
<1>4. pid[t] # NoPid
  BY <1>1, <1>2 DEF QueueInv, Owners, Unused
<1>5. t # current_running
  BY <1>1, <1>2, <1>3, QueueTypes
<1> QED
  BY <1>2, <1>3, <1>4, <1>5 DEF Alive, Dead

(* A call that blocks the caller in the queue of q.                        *)
LEMMA BlockKeepsKernel ==
  ASSUME KernelInv, NEW q \in Objects, current_running \in Tasks, current_running \in Workers,
         \/ acquiring' = [acquiring EXCEPT ![current_running] = q]
         \/ acquiring' = acquiring,
         DoBlock(q), UNCHANGED <<pcbVars, valid, lock_status, lockid, overrun, held>>
  PROVE  /\ KernelInv'
         /\ DeadStep
         /\ ToSet(wait_queue'[q]) = ToSet(wait_queue[q]) \cup {current_running}
         /\ \A k \in Queues : k # q => wait_queue'[k] = wait_queue[k]
<1> DEFINE cur == current_running
           st == [status EXCEPT ![cur] = "BLOCKED"]
<1>0. /\ QueueInv /\ LockTypeOK /\ TypeOK /\ EndInv /\ q \in Queues /\ q # NoObject
      /\ Tasks \subseteq PCBs /\ Pid0 \in PCBs /\ Pid0 \notin Tasks /\ 0 \in PCBs
      /\ wait_queue \in [Queues -> Seq(Tasks)]
      /\ acquiring \in [PCBs -> Objects \cup {NoObject}]
  BY ObjectNoTask, PCBFacts, QueueTypes DEF KernelInv, EndInv, LockTypeOK
<1>1. InOrder' /\ Owners' /\ SomeoneFits' /\ Settled(st, sleep_queue)
  BY <1>0, DoBlockQueues DEF pcbVars
<1>2. TypeOK'
  BY <1>0, DoBlockTypes
<1>3. LockTypeOK' /\ BootAcquiresNothing' /\ OnlyWorkersAcquire'
  <2>1. /\ valid \in [Locks -> BOOLEAN] /\ lock_status \in [Locks -> {"UNLOCKED", "LOCKED"}]
        /\ lockid \in [Tasks -> Seq(Locks \cup {NoObject})] /\ overrun \subseteq Tasks
        /\ held \in [Tasks -> SUBSET Locks]
        /\ acquiring[Pid0] = NoObject /\ \A t \in Tasks \ Workers : acquiring[t] = NoObject
    BY <1>0 DEF EndInv, LockTypeOK, BootAcquiresNothing, OnlyWorkersAcquire
  <2>2. /\ acquiring' \in [PCBs -> Objects \cup {NoObject}]
        /\ acquiring'[Pid0] = NoObject /\ \A t \in Tasks \ Workers : acquiring'[t] = NoObject
    <3>1. \A t \in PCBs : t # cur => acquiring'[t] = acquiring[t]
      BY <1>0
    <3>2. acquiring' \in [PCBs -> Objects \cup {NoObject}]
      BY <1>0
    <3>3. cur # Pid0 /\ \A t \in Tasks \ Workers : t # cur /\ t \in PCBs
      BY <1>0
    <3> QED
      BY <1>0, <2>1, <3>1, <3>2, <3>3
  <2> QED
    BY <1>2, <2>1, <2>2 DEF LockTypeOK, BootAcquiresNothing, OnlyWorkersAcquire
<1>4. FreshAcquireNothing'
  BY <1>0, CallerFacts DEF KernelInv, FreshAcquireNothing, pcbVars
<1>5. DeadStep
  <2>1. \A t \in Tasks : status[t] \in Dead => st[t] \in Dead
    BY <1>0, CallerFacts, QueueTypes DEF Dead
  <2> HIDE DEF st
  <2> QED
    BY <1>1, <2>1 DEF Settled, DeadStep
<1>6. wait_queue' = [wait_queue EXCEPT ![q] = Append(@, cur)]
  BY DEF DoBlock
<1>7. wait_queue'[q] = Append(wait_queue[q], cur) /\ wait_queue[q] \in Seq(Tasks)
  BY <1>0, <1>6
<1>8. ToSet(wait_queue'[q]) = ToSet(wait_queue[q]) \cup {cur}
  BY <1>7, AppendQueue
<1> QED
  BY <1>0, <1>1, <1>2, <1>3, <1>4, <1>5, <1>6, <1>8 DEF KernelInv, EndInv, QueueInv

(* A call that comes to its end, without a word to anybody.                *)
LEMMA ReturnKeepsKernel ==
  ASSUME KernelInv, current_running \in Tasks,
         acquiring' = [acquiring EXCEPT ![current_running] = NoObject],
         UNCHANGED <<pcbVars, wait_queue, runVars, valid, lock_status, lockid, overrun, held>>
  PROVE  KernelInv'
<1>0. Tasks \subseteq PCBs /\ Pid0 \in PCBs /\ Pid0 \notin Tasks /\ 0 \in PCBs
  BY PCBFacts
<1> QED
  BY <1>0 DEF KernelInv, EndInv, LockTypeOK, TypeOK, pcbVars, runVars,
       BootAcquiresNothing, OnlyWorkersAcquire, QueueInv, InOrder, Owners, SomeoneFits,
       ShellRuns, AllFit, Fits,
       FreshAcquireNothing

(* A call that makes the waiters of q ready and comes to its end.          *)
LEMMA WakeKeepsKernel ==
  ASSUME KernelInv, NEW q \in Objects, current_running \in Tasks,
         ready_queue' = ready_queue \o wait_queue[q],
         status' = Awaken(status, ToSet(wait_queue[q])),
         wait_queue' = [wait_queue EXCEPT ![q] = <<>>],
         \/ acquiring' = [acquiring EXCEPT ![current_running] = NoObject]
         \/ acquiring' = acquiring,
         UNCHANGED <<pcbVars, timer, sleep_queue, current_running, satp,
                     valid, lock_status, lockid, overrun, held>>
  PROVE  KernelInv' /\ DeadStep
<1> DEFINE woken == wait_queue[q]
           Q == {q}
<1>0. /\ QueueInv /\ LockTypeOK /\ TypeOK /\ EndInv /\ q \in Queues
      /\ Tasks \subseteq PCBs /\ Pid0 \in PCBs /\ Pid0 \notin Tasks /\ 0 \in PCBs
      /\ wait_queue \in [Queues -> Seq(Tasks)] /\ woken \in Seq(Tasks)
      /\ acquiring \in [PCBs -> Objects \cup {NoObject}]
  BY ObjectNoTask, PCBFacts, QueueTypes DEF KernelInv, EndInv, LockTypeOK
<1>1. woken \in Seq(Tasks) /\ IsInjective(woken) /\ ToSet(woken) = UNION {ToSet(wait_queue[k]) : k \in Q}
  BY <1>0 DEF QueueInv, InOrder, Ordered
<1>2. /\ wait_queue' \in [Queues -> Seq(Tasks)] /\ Q \in SUBSET Queues
      /\ \A k \in Queues : wait_queue'[k] = IF k \in Q THEN <<>> ELSE wait_queue[k]
  BY <1>0
<1>3. ready_queue' = ready_queue \o woken /\ status' = Awaken(status, ToSet(woken))
  OBVIOUS
<1> HIDE DEF woken, Q
<1>4. InOrder' /\ Owners' /\ SomeoneFits' /\ DeadStep
  BY <1>0, <1>1, <1>2, <1>3, WakeQueues DEF pcbVars
<1>5. TypeOK'
  <2>1. ready_queue' \in Seq(Tasks)
    BY <1>0, <1>1, <1>3 DEF TypeOK
  <2>2. status' \in [PCBs -> Statuses]
    BY <1>0, <1>3 DEF Awaken, TypeOK, Statuses
  <2> QED
    BY <1>0, <1>2, <2>1, <2>2 DEF TypeOK, pcbVars, Queues
<1>6. LockTypeOK' /\ BootAcquiresNothing' /\ OnlyWorkersAcquire' /\ FreshAcquireNothing'
  BY <1>0, <1>5 DEF KernelInv, EndInv, LockTypeOK, BootAcquiresNothing, OnlyWorkersAcquire,
                    FreshAcquireNothing, pcbVars
<1> QED
  BY <1>4, <1>5, <1>6 DEF KernelInv, EndInv, QueueInv

-----------------------------------------------------------------------------
(* A pid goes when its task ends, or when a free slot is given away.       *)
LEMMA PidsKept ==
  ASSUME EndInv, [LockNext]_vars, NEW t \in Tasks, pid[t] # NoPid, t # current_running
  PROVE  pid'[t] = pid[t]
<1>0. pid \in [Tasks -> {NoPid} \cup (1 .. MaxPid)]
  BY QueueTypes DEF EndInv
<1>1. ASSUME NEW i \in Tasks, NEW m, NEW k, NEW dir, NewTask(i, m, k, dir)
      PROVE  pid'[t] = pid[t]
  BY <1>0, <1>1 DEF NewTask
<1>2. CASE Exit
  BY <1>0, <1>2 DEF Exit
<1>3. CASE UNCHANGED pid
  BY <1>3
<1> QED
  BY <1>1, <1>2, <1>3 DEF LockNext, SchedCall, SomeSpawn, TimerInterrupt, Yield, Sleep, Waitpid,
       Spawn, Exec, Taskset, MthreadCreate, TasksetP, Tick, MutexGet, BinsemGet, InitLock, Lock,
       Retry, UserUnlock, Unlock, Release, Kill, pcbVars, vars, schedVars

(* Who waits for an object goes on waiting, or has been killed.            *)
StaysOrDies(o) ==
  \A t \in ToSet(wait_queue[o]) :
    t \in ToSet(wait_queue'[o]) \/ (status'[t] \in Dead /\ pid'[t] # NoPid)

(* A step of tasks and locks lets nobody wait for another object who did   *)
(* not wait before.                                                        *)
LEMMA LockStepKeepsWaiters ==
  ASSUME EndInv, [LockNext]_vars, NEW o \in Objects \ Locks
  PROVE  StaysOrDies(o)
<1>0. /\ QueueInv /\ LockTypeOK /\ o \in Queues /\ o \notin Tasks
      /\ wait_queue \in [Queues -> Seq(Tasks)] /\ IsInjective(wait_queue[o])
      /\ wait_queue[o] \in Seq(Tasks)
  BY ObjectNoTask, QueueTypes DEF EndInv, QueueInv, InOrder, Ordered
<1>1. CASE wait_queue'[o] = wait_queue[o]
  BY <1>1 DEF StaysOrDies
<1>2. \A t \in ToSet(wait_queue[o]) : t # current_running /\ t \in Tasks /\ pid[t] # NoPid
  <2>1. \A t \in ToSet(wait_queue[o]) : t \in Tasks /\ status[t] = "BLOCKED" /\ pid[t] # NoPid
    BY <1>0, QueueTypes DEF QueueInv, InOrder, Placed, Owners, Unused
  <2> QED
    BY <1>0, <2>1, QueueTypes, PCBFacts
<1>3. ASSUME NEW i \in Queues, i # o,
             \/ wait_queue' = [wait_queue EXCEPT ![i] = Append(@, current_running)]
             \/ wait_queue' = [wait_queue EXCEPT ![i] = <<>>]
      PROVE  StaysOrDies(o)
  BY <1>0, <1>1, <1>3
<1>4. ASSUME NEW d \in 0 .. MaxSleep, Sleep(d) PROVE StaysOrDies(o)
  <2>1. wait_queue'[o] = Without(wait_queue[o], current_running)
    BY <1>0, <1>4 DEF Sleep, Queues
  <2>2. ToSet(wait_queue'[o]) = ToSet(wait_queue[o]) \ {current_running}
    BY <1>0, <2>1, WithoutElements
  <2> QED
    BY <1>2, <2>2 DEF StaysOrDies
<1>5. ASSUME NEW p \in 1 .. MaxPid, Waitpid(p) PROVE StaysOrDies(o)
  BY <1>0, <1>3, <1>5 DEF Waitpid, DoBlock, Queues
<1>6. ASSUME NEW i \in Tasks, NEW m, NEW k, NEW dir, NewTask(i, m, k, dir)
      PROVE  StaysOrDies(o)
  BY <1>0, <1>3, <1>6 DEF NewTask, Queues
<1>7. ASSUME NEW l \in Locks, TryAcquire(l) \/ InitLock(l) \/ Unlock(l) PROVE StaysOrDies(o)
  BY <1>1, <1>3, <1>7, LocksNoTasks
     DEF TryAcquire, DoBlock, InitLock, Unlock, Release, LocksAreObjects
<1>8. ASSUME NEW u \in Tasks, Terminate(u) PROVE wait_queue'[o] = Without(wait_queue[o], u)
  <2>1. wait_queue'[o] = IF o \in Recorded(u) THEN <<>> ELSE Without(wait_queue[o], u)
    BY <1>0, <1>8 DEF Terminate, Queues
  <2>2. o \notin Recorded(u)
    BY DEF Recorded
  <2> QED
    BY <2>1, <2>2
<1>9. ASSUME NEW p \in 1 .. MaxPid, Kill(p) PROVE StaysOrDies(o)
  <2>1. PICK u \in Tasks : pid[u] = p /\ Terminate(u) /\ u \in Workers
    BY <1>9 DEF Kill
  <2>2. ToSet(wait_queue'[o]) = ToSet(wait_queue[o]) \ {u}
    BY <1>0, <1>8, <2>1, WithoutElements
  <2>3. UNCHANGED <<pid, mask>>
    BY <1>9 DEF Kill, pcbVars
  <2>4. u \in ToSet(wait_queue[o]) => status'[u] \in Dead /\ pid'[u] # NoPid
    BY <1>0, <1>2, <2>1, <2>3, TerminateQueues
  <2> QED
    BY <2>2, <2>4 DEF StaysOrDies
<1>10. CASE Exit
  <2>1. Terminate(current_running) /\ current_running \in Tasks
    BY <1>10 DEF Exit, InCall
  <2>2. ToSet(wait_queue'[o]) = ToSet(wait_queue[o]) \ {current_running}
    BY <1>0, <1>8, <2>1, WithoutElements
  <2> QED
    BY <1>2, <2>2 DEF StaysOrDies
<1>11. CASE UNCHANGED wait_queue
  BY <1>1, <1>11
<1> QED
  BY <1>4, <1>5, <1>6, <1>7, <1>9, <1>10, <1>11
     DEF LockNext, MutexGet, BinsemGet, UserUnlock, Tick, SchedCall, SomeSpawn, TimerInterrupt,
         Yield, Spawn, Exec, Taskset, MthreadCreate, TasksetP, Lock, Retry, vars, schedVars

=============================================================================
