----------------------------- MODULE SchedProofs -----------------------------
(***************************************************************************)
(* What holds of the scheduler for every size of the process table, every  *)
(* workload and every bound.                                               *)
(*                                                                         *)
(* Some theorems suppose NobodyStranded: the program in entry 0, the shell, *)
(* neither sleeps nor waits nor ends, or nobody is bound to the other hart. *)
(* Without it a task that blocks while the ready ones are all bound to the *)
(* other hart goes on running, see Dispatch of Sched.                      *)
(***************************************************************************)
EXTENDS Sched, FiniteSetTheorems, SequenceTheorems, TLAPS

USE SizeAssumption, MaskAssumption, ModeAssumption

(* The process table is finite.                                            *)
LEMMA TasksFinite == IsFiniteSet(Tasks)
  BY FS_Interval DEF Tasks

(* An enumeration of a set of tasks is a queue of tasks.                   *)
LEMMA SetToSeqsIsSeq ==
  ASSUME NEW S \in SUBSET Tasks, NEW w \in SetToSeqs(S)
  PROVE  w \in Seq(Tasks) /\ IsInjective(w)
<1>1. Cardinality(S) \in Nat
  BY TasksFinite, FS_Subset, FS_CardinalityType
<1>2. w \in [1 .. Cardinality(S) -> S] /\ \A i, j \in 1 .. Cardinality(S) : i # j => w[i] # w[j]
  BY DEF SetToSeqs
<1> QED
  BY <1>1, <1>2 DEF IsInjective

(* What a queue lists are tasks.                                           *)
LEMMA ToSetInTasks ==
  ASSUME NEW s \in Seq(Tasks)
  PROVE  ToSet(s) \in SUBSET Tasks
  BY DEF ToSet

(* A sequence with one place removed.                                      *)
LEMMA RemoveAtIsSeq ==
  ASSUME NEW S, NEW s \in Seq(S), NEW i \in DOMAIN s
  PROVE  s[i] \in S /\ RemoveAt(s, i) \in Seq(S)
<1>1. i \in 1 .. Len(s) /\ Len(s) \in Nat
  OBVIOUS
<1>2. SubSeq(s, 1, i - 1) \in Seq(S) /\ SubSeq(s, i + 1, Len(s)) \in Seq(S)
  BY <1>1
<1> QED
  BY <1>1, <1>2 DEF RemoveAt

(* What delete_element leaves is a queue.                                  *)
LEMMA WithoutTypes ==
  ASSUME NEW S, NEW q \in Seq(S), NEW x
  PROVE  Without(q, x) \in Seq(S)
<1>1. CASE x \in ToSet(q)
  <2>1. \E i \in DOMAIN q : q[i] = x
    BY <1>1 DEF ToSet
  <2>2. (CHOOSE i \in DOMAIN q : q[i] = x) \in DOMAIN q
    BY <2>1
  <2> QED
    BY <1>1, <2>2, RemoveAtIsSeq DEF Without
<1>2. CASE x \notin ToSet(q)
  BY <1>2 DEF Without
<1> QED
  BY <1>1, <1>2

(* Deleting the element at i leaves all the others, in their order.        *)
LEMMA RemoveAtElements ==
  ASSUME NEW S, NEW q \in Seq(S), NEW i \in DOMAIN q
  PROVE  LET r == RemoveAt(q, i)
         IN  /\ r \in Seq(S) /\ Len(r) = Len(q) - 1
             /\ \A k \in 1 .. Len(r) : r[k] = IF k < i THEN q[k] ELSE q[k + 1]
<1> DEFINE a == SubSeq(q, 1, i - 1)
           b == SubSeq(q, i + 1, Len(q))
           r == RemoveAt(q, i)
<1>0. Len(q) \in Nat /\ i \in 1 .. Len(q)
  OBVIOUS
<1>1. a \in Seq(S) /\ Len(a) = i - 1 /\ \A k \in 1 .. i - 1 : a[k] = q[k]
  BY <1>0
<1>2. b \in Seq(S) /\ Len(b) = Len(q) - i /\ \A k \in 1 .. Len(q) - i : b[k] = q[k + i]
  BY <1>0
<1>3. r = a \o b
  BY DEF RemoveAt
<1> HIDE DEF a, b, r
<1>4. /\ r \in Seq(S) /\ Len(r) = Len(q) - 1
      /\ \A k \in 1 .. Len(r) : r[k] = IF k <= Len(a) THEN a[k] ELSE b[k - Len(a)]
  <2>1. /\ r \in Seq(S) /\ Len(r) = Len(a) + Len(b)
        /\ \A k \in 1 .. Len(a) + Len(b) : r[k] = IF k <= Len(a) THEN a[k] ELSE b[k - Len(a)]
    BY <1>1, <1>2, <1>3, ConcatProperties
  <2>2. Len(a) + Len(b) = Len(q) - 1
    BY <1>0, <1>1, <1>2
  <2> QED
    BY <2>1, <2>2
<1>5. ASSUME NEW k \in 1 .. Len(r)
      PROVE  r[k] = IF k < i THEN q[k] ELSE q[k + 1]
  <2>1. CASE k < i
    <3>1. k <= Len(a) /\ k \in 1 .. i - 1
      BY <1>0, <1>1, <1>4, <2>1
    <3> QED
      BY <1>1, <1>4, <2>1, <3>1
  <2>2. CASE ~(k < i)
    <3>1. k - (i - 1) \in 1 .. Len(q) - i /\ (k - (i - 1)) + i = k + 1
      BY <1>0, <1>4, <2>2
    <3>2. b[k - (i - 1)] = q[k + 1]
      BY <1>2, <3>1
    <3> QED
      BY <1>0, <1>1, <1>4, <2>2, <3>2
  <2> QED
    BY <2>1, <2>2
<1> QED
  BY <1>4, <1>5 DEF r

(* A queue that lists nobody twice still does, and lists all but q[i].     *)
LEMMA RemoveAtQueue ==
  ASSUME NEW S, NEW q \in Seq(S), NEW i \in DOMAIN q, IsInjective(q)
  PROVE  /\ RemoveAt(q, i) \in Seq(S)
         /\ IsInjective(RemoveAt(q, i))
         /\ ToSet(RemoveAt(q, i)) = ToSet(q) \ {q[i]}
<1> DEFINE r == RemoveAt(q, i)
           g(k) == IF k < i THEN k ELSE k + 1
<1>1. /\ r \in Seq(S) /\ Len(r) = Len(q) - 1
      /\ \A k \in 1 .. Len(r) : r[k] = IF k < i THEN q[k] ELSE q[k + 1]
  BY RemoveAtElements
<1> HIDE DEF r
<1>2. DOMAIN r = 1 .. Len(r) /\ DOMAIN q = 1 .. Len(q) /\ Len(q) \in Nat
  BY <1>1
<1>3. \A k \in 1 .. Len(r) : g(k) \in DOMAIN q /\ g(k) # i /\ r[k] = q[g(k)]
  BY <1>1, <1>2
<1>4. \A k, m \in 1 .. Len(r) : g(k) = g(m) => k = m
  BY <1>2
<1> HIDE DEF g
<1>5. IsInjective(r)
  BY <1>2, <1>3, <1>4 DEF IsInjective
<1>6. ToSet(r) \subseteq ToSet(q) \ {q[i]}
  BY <1>2, <1>3 DEF IsInjective, ToSet
<1>7. ASSUME NEW y \in ToSet(q) \ {q[i]} PROVE y \in ToSet(r)
  <2>1. PICK k \in DOMAIN q : q[k] = y
    BY <1>7 DEF ToSet
  <2>2. k # i
    BY <1>7, <2>1
  <2>3. CASE k < i
    BY <1>1, <1>2, <2>1, <2>3 DEF ToSet
  <2>4. CASE k > i
    <3>1. k - 1 \in 1 .. Len(r) /\ ~(k - 1 < i) /\ (k - 1) + 1 = k
      BY <1>1, <1>2, <2>4
    <3>2. r[k - 1] = y
      BY <1>1, <2>1, <3>1
    <3> QED
      BY <1>2, <3>1, <3>2 DEF ToSet
  <2> QED
    BY <1>2, <2>2, <2>3, <2>4
<1> QED
  BY <1>1, <1>5, <1>6, <1>7 DEF r

(* delete_element takes out one task and leaves the others.                *)
LEMMA WithoutElements ==
  ASSUME NEW S, NEW q \in Seq(S), NEW x, IsInjective(q)
  PROVE  /\ Without(q, x) \in Seq(S)
         /\ IsInjective(Without(q, x))
         /\ ToSet(Without(q, x)) = ToSet(q) \ {x}
<1>1. CASE x \in ToSet(q)
  <2> DEFINE i == CHOOSE j \in DOMAIN q : q[j] = x
  <2>1. i \in DOMAIN q /\ q[i] = x
    BY <1>1 DEF ToSet
  <2>2. Without(q, x) = RemoveAt(q, i)
    BY <1>1 DEF Without
  <2> HIDE DEF i
  <2> QED
    BY <2>1, <2>2, RemoveAtQueue
<1>2. CASE x \notin ToSet(q)
  BY <1>2 DEF Without
<1> QED
  BY <1>1, <1>2

(* Queues joined.                                                          *)
LEMMA EmptyQueue ==
  /\ IsInjective(<<>>)
  /\ ToSet(<<>>) = {}
BY DEF IsInjective, ToSet

(* A queue behind another lists the tasks of both.                         *)
LEMMA ConcatQueues ==
  ASSUME NEW S, NEW q \in Seq(S), NEW r \in Seq(S)
  PROVE  /\ q \o r \in Seq(S)
         /\ ToSet(q \o r) = ToSet(q) \cup ToSet(r)
         /\ IsInjective(q) /\ IsInjective(r) /\ ToSet(q) \cap ToSet(r) = {} => IsInjective(q \o r)
<1> DEFINE s == q \o r
<1>1. /\ s \in Seq(S) /\ Len(s) = Len(q) + Len(r)
      /\ \A k \in 1 .. Len(q) + Len(r) : s[k] = IF k <= Len(q) THEN q[k] ELSE r[k - Len(q)]
  BY ConcatProperties
<1>2. /\ Len(q) \in Nat /\ Len(r) \in Nat
      /\ DOMAIN q = 1 .. Len(q) /\ DOMAIN r = 1 .. Len(r) /\ DOMAIN s = 1 .. Len(q) + Len(r)
  BY <1>1
<1> HIDE DEF s
<1>3. \A k \in DOMAIN q : k \in DOMAIN s /\ s[k] = q[k]
  BY <1>1, <1>2
<1>4. ASSUME NEW k \in DOMAIN r PROVE k + Len(q) \in DOMAIN s /\ s[k + Len(q)] = r[k]
  <2>1. k + Len(q) \in 1 .. Len(q) + Len(r) /\ ~(k + Len(q) <= Len(q)) /\ (k + Len(q)) - Len(q) = k
    BY <1>2
  <2> QED
    BY <1>1, <1>2, <2>1
<1>5. \A k \in DOMAIN s : \/ k \in DOMAIN q /\ s[k] = q[k]
                          \/ k \notin DOMAIN q /\ k - Len(q) \in DOMAIN r /\ s[k] = r[k - Len(q)]
  BY <1>1, <1>2
<1>6. ToSet(s) = ToSet(q) \cup ToSet(r)
  BY <1>3, <1>4, <1>5 DEF ToSet
<1>7. ASSUME IsInjective(q), IsInjective(r), ToSet(q) \cap ToSet(r) = {}
      PROVE  IsInjective(s)
  <2> SUFFICES ASSUME NEW k \in DOMAIN s, NEW m \in DOMAIN s, s[k] = s[m] PROVE k = m
    BY DEF IsInjective
  <2>1. \A i \in DOMAIN q, j \in DOMAIN r : q[i] # r[j]
    BY <1>7 DEF ToSet
  <2>2. CASE k \in DOMAIN q /\ m \in DOMAIN q
    BY <1>5, <1>7, <2>2 DEF IsInjective
  <2>3. CASE k \notin DOMAIN q /\ m \notin DOMAIN q
    <3>1. k - Len(q) = m - Len(q)
      BY <1>5, <1>7, <2>3 DEF IsInjective
    <3> QED
      BY <1>2, <3>1
  <2> QED
    BY <1>5, <2>1, <2>2, <2>3
<1> QED
  BY <1>1, <1>6, <1>7 DEF s

(* A task added at the end of a queue that does not list it.               *)
LEMMA AppendQueue ==
  ASSUME NEW S, NEW q \in Seq(S), NEW x \in S
  PROVE  /\ Append(q, x) \in Seq(S)
         /\ ToSet(Append(q, x)) = ToSet(q) \cup {x}
         /\ IsInjective(q) /\ x \notin ToSet(q) => IsInjective(Append(q, x))
<1> DEFINE one == <<x>>
<1>1. Append(q, x) = q \o one /\ one \in Seq(S)
  BY AppendIsConcat
<1>2. ToSet(one) = {x} /\ IsInjective(one)
  BY DEF ToSet, IsInjective
<1> HIDE DEF one
<1>3. /\ q \o one \in Seq(S)
      /\ ToSet(q \o one) = ToSet(q) \cup ToSet(one)
      /\ IsInjective(q) /\ IsInjective(one) /\ ToSet(q) \cap ToSet(one) = {} => IsInjective(q \o one)
  BY <1>1, ConcatQueues
<1> QED
  BY <1>1, <1>2, <1>3

-----------------------------------------------------------------------------
(* Type correctness.                                                       *)

(* switch_to keeps the types of what it changes.                           *)
LEMMA DispatchTypes ==
  ASSUME TypeOK, NEW st \in [PCBs -> Statuses], NEW rq \in Seq(Tasks), Dispatch(st, rq)
  PROVE  /\ status' \in [PCBs -> Statuses]
         /\ ready_queue' \in Seq(Tasks)
         /\ current_running' \in PCBs
         /\ satp' \in {NullPgdir, BootPgdir} \cup Tasks
<1>1. \E next \in PCBs, q \in Seq(Tasks) : SwitchTo(next, st, q)
  <2>1. CASE rq = <<>> /\ SwitchTo(Pid0, st, rq)
    BY <2>1 DEF PCBs
  <2>2. CASE \E i \in DOMAIN rq : SwitchTo(rq[i], st, RemoveAt(rq, i))
    BY <2>2, RemoveAtIsSeq DEF PCBs
  <2>3. CASE SwitchTo(current_running, st, rq)
    BY <2>3 DEF TypeOK
  <2> QED
    BY <2>1, <2>2, <2>3 DEF Dispatch
<1> QED
  BY <1>1 DEF SwitchTo, TypeOK, Statuses

(* Whatever queues a handler leaves, do_scheduler keeps the types.         *)
LEMMA DoSchedulerTypes ==
  ASSUME TypeOK,
         NEW st \in [PCBs -> Statuses], NEW rq \in Seq(Tasks),
         NEW sq \in Seq(Tasks), NEW tm \in [Tasks -> 0 .. MaxSleep],
         DoScheduler(st, rq, sq, tm)
  PROVE  /\ status' \in [PCBs -> Statuses]
         /\ timer' \in [Tasks -> 0 .. MaxSleep]
         /\ ready_queue' \in Seq(Tasks)
         /\ sleep_queue' \in Seq(Tasks)
         /\ current_running' \in PCBs
         /\ satp' \in {NullPgdir, BootPgdir} \cup Tasks
<1> DEFINE due == Due(sq, tm)
           awake == Awaken(st, due)
<1>1. due \in SUBSET Tasks /\ ToSet(sq) \ due \in SUBSET Tasks
  BY ToSetInTasks DEF Due
<1>2. PICK woken \in Listing(sq, due), asleep \in Listing(sq, ToSet(sq) \ due) :
        /\ sleep_queue' = asleep
        /\ timer' = tm
        /\ Dispatch(Preempt(awake), rq \o woken \o Requeued(awake))
  BY DEF DoScheduler, Asleep, Queued
<1>3. woken \in Seq(Tasks) /\ asleep \in Seq(Tasks)
  BY <1>1, SetToSeqsIsSeq DEF Listing
<1>4. Preempt(awake) \in [PCBs -> Statuses]
  BY DEF Preempt, Awaken, Statuses
<1>5. Requeued(awake) \in Seq(Tasks)
  BY DEF Requeued, TypeOK, PCBs
<1>6. rq \o woken \o Requeued(awake) \in Seq(Tasks)
  BY <1>3, <1>5
<1> QED
  BY <1>2, <1>3, <1>4, <1>6, DispatchTypes

(* do_exec keeps the types.                                                *)
LEMMA NewTaskTypes ==
  ASSUME TypeOK, NEW i \in Tasks, NEW m \in {"ENTER_ZOMBIE_ON_EXIT", "AUTO_CLEANUP_ON_EXIT"},
         NEW k \in Nat, NEW dir \in {NullPgdir} \cup Tasks, NewTask(i, m, k, dir)
  PROVE  TypeOK'
<1>1. process_id + 1 \in 1 .. MaxPid
  BY DEF NewTask, TypeOK
<1>2. i \in PCBs
  BY DEF PCBs
<1> QED
  BY <1>1, <1>2 DEF NewTask, TypeOK, Statuses

(* do_block keeps the types.                                               *)
LEMMA DoBlockTypes ==
  ASSUME TypeOK, NEW q \in Tasks \cup Objects, current_running \in Tasks, DoBlock(q),
         UNCHANGED pcbVars
  PROVE  TypeOK'
<1>1. [status EXCEPT ![current_running] = "BLOCKED"] \in [PCBs -> Statuses]
  BY DEF TypeOK, Statuses
<1>2. wait_queue' \in [Tasks \cup Objects -> Seq(Tasks)]
  BY DEF DoBlock, TypeOK
<1> QED
  BY <1>1, <1>2, DoSchedulerTypes DEF DoBlock, TypeOK, pcbVars

(* Every system call of sched.c keeps the types.                           *)
LEMMA SchedCallTypes ==
  ASSUME TypeOK, SchedCall
  PROVE  TypeOK'
<1>0. TypeOK
  OBVIOUS
<1>1. CASE Yield
  BY <1>1, DoSchedulerTypes DEF Yield, TypeOK, pcbVars
<1>2. ASSUME NEW d \in 0 .. MaxSleep, Sleep(d)
      PROVE  TypeOK'
  <2>1. current_running \in Tasks
    BY <1>2 DEF Sleep, InCall
  <2>2. /\ [status EXCEPT ![current_running] = "BLOCKED"] \in [PCBs -> Statuses]
        /\ Without(ready_queue, current_running) \in Seq(Tasks)
        /\ Without(sleep_queue, current_running) \in Seq(Tasks)
        /\ Append(Without(sleep_queue, current_running), current_running) \in Seq(Tasks)
        /\ [timer EXCEPT ![current_running] = d] \in [Tasks -> 0 .. MaxSleep]
    BY <2>1, WithoutTypes DEF TypeOK, Statuses
  <2>3. wait_queue' \in [Tasks \cup Objects -> Seq(Tasks)]
    BY <1>2, WithoutTypes DEF Sleep, TypeOK
  <2> QED
    BY <1>2, <2>2, <2>3, DoSchedulerTypes DEF Sleep, TypeOK, pcbVars
<1>3. ASSUME NEW p \in 1 .. MaxPid, Waitpid(p)
      PROVE  TypeOK'
  BY <1>3, DoBlockTypes DEF Waitpid, InCall
<1>4. ASSUME NEW i \in Tasks, NEW m \in Modes, Spawn(i, m) \/ Exec(i, m)
      PROVE  TypeOK'
  BY <1>4, NewTaskTypes DEF Spawn, Exec, InCall, TypeOK, PCBs
<1>5. ASSUME NEW i \in Tasks, NEW m \in Modes, NEW k \in Masks, Taskset(i, m, k)
      PROVE  TypeOK'
  BY <1>5, NewTaskTypes DEF Taskset, InCall, TypeOK, PCBs
<1>6. ASSUME NEW i \in Tasks, MthreadCreate(i)
      PROVE  TypeOK'
  <2>1. current_running \in Tasks /\ current_running \in PCBs
    BY <1>6 DEF MthreadCreate, InCall, PCBs
  <2>2. /\ mode[current_running] \in {"ENTER_ZOMBIE_ON_EXIT", "AUTO_CLEANUP_ON_EXIT"}
        /\ mask[current_running] \in Nat
        /\ pgdir[current_running] \in {NullPgdir} \cup Tasks
    BY <2>1 DEF TypeOK
  <2> QED
    BY <1>6, <2>2, NewTaskTypes DEF MthreadCreate
<1>7. ASSUME NEW k \in Masks, NEW p \in 1 .. MaxPid, TasksetP(k, p)
      PROVE  TypeOK'
  BY <1>7 DEF TasksetP, TypeOK, runVars, PCBs
<1> QED
  BY <1>1, <1>2, <1>3, <1>4, <1>5, <1>6, <1>7 DEF SchedCall, SomeSpawn

(* The clock keeps the types.                                              *)
LEMMA TickTypes ==
  ASSUME TypeOK, Tick
  PROVE  TypeOK'
  BY DEF Tick, TypeOK, pcbVars

(* timer_check keeps the types.                                            *)
LEMMA TimerTypes ==
  ASSUME TypeOK, TimerInterrupt
  PROVE  TypeOK'
  BY DoSchedulerTypes DEF TimerInterrupt, TypeOK, pcbVars

(* The types at the start.                                                 *)
LEMMA InitTypes == Init => TypeOK
  BY DEF Init, TypeOK, Tasks, PCBs, Statuses, Pid0, NoPid, NullPgdir, BootPgdir, Dead

(* The process table, the queues and the page table in use keep their      *)
(* types in every behaviour of the scheduler.                              *)
THEOREM SchedTypeCorrect == Spec => []TypeOK
<1>1. TypeOK /\ [Next]_schedVars => TypeOK'
  <2> SUFFICES ASSUME TypeOK, [Next]_schedVars PROVE TypeOK'
    OBVIOUS
  <2>1. CASE Next
    BY <2>1, SchedCallTypes, TickTypes, TimerTypes DEF Next
  <2>2. CASE UNCHANGED schedVars
    BY <2>2 DEF TypeOK, schedVars, pcbVars, runVars
  <2> QED
    BY <2>1, <2>2
<1> QED
  BY <1>1, InitTypes, PTL DEF Spec

-----------------------------------------------------------------------------
(* Address spaces.  Every task has a page table of its own or of the task   *)
(* that created it as a thread, and pid0 has none.                          *)
TablesGiven ==
  /\ \A t \in Tasks : pgdir[t] \in Tasks
  /\ pgdir[Pid0] = NullPgdir

AddressInv == TypeOK /\ TablesGiven /\ TranslatesOwnTable

(* What swtch installs belongs to the task it goes on with.                *)
LEMMA DispatchSwitches ==
  ASSUME TypeOK, NEW st, NEW rq \in Seq(Tasks), Dispatch(st, rq)
  PROVE  /\ current_running' \in PCBs
         /\ satp' = IF pgdir[current_running'] = pgdir[current_running]
                      THEN satp ELSE pgdir[current_running']
<1>1. CASE rq = <<>> /\ SwitchTo(Pid0, st, rq)
  BY <1>1 DEF PCBs, SwitchTo
<1>2. CASE \E i \in DOMAIN rq : SwitchTo(rq[i], st, RemoveAt(rq, i))
  BY <1>2 DEF PCBs, SwitchTo
<1>3. CASE SwitchTo(current_running, st, rq)
  BY <1>3 DEF TypeOK, SwitchTo
<1> QED
  BY <1>1, <1>2, <1>3 DEF Dispatch

(* So it does after a call of do_scheduler.                                *)
LEMMA DoSchedulerSwitches ==
  ASSUME TypeOK, NEW st, NEW rq \in Seq(Tasks), NEW sq \in Seq(Tasks), NEW tm,
         DoScheduler(st, rq, sq, tm)
  PROVE  /\ current_running' \in PCBs
         /\ satp' = IF pgdir[current_running'] = pgdir[current_running]
                      THEN satp ELSE pgdir[current_running']
<1> DEFINE due == Due(sq, tm)
           awake == Awaken(st, due)
<1>1. due \in SUBSET Tasks
  BY ToSetInTasks DEF Due
<1>2. PICK woken \in Listing(sq, due) :
        Dispatch(Preempt(awake), rq \o woken \o Requeued(awake))
  BY DEF DoScheduler, Asleep, Queued
<1>3. woken \in Seq(Tasks)
  BY <1>1, SetToSeqsIsSeq DEF Listing
<1>4. Requeued(awake) \in Seq(Tasks)
  BY DEF Requeued, TypeOK, PCBs
<1>5. rq \o woken \o Requeued(awake) \in Seq(Tasks)
  BY <1>3, <1>4
<1> HIDE DEF awake, due
<1> QED
  BY <1>2, <1>5, DispatchSwitches

(* do_scheduler leaves the page tables of the PCBs alone.                  *)
LEMMA SwitchKeepsTable ==
  ASSUME AddressInv, TypeOK', UNCHANGED pgdir, current_running' \in PCBs,
         satp' = IF pgdir[current_running'] = pgdir[current_running]
                   THEN satp ELSE pgdir[current_running']
  PROVE  AddressInv'
<1>1. TablesGiven'
  BY DEF AddressInv, TablesGiven
<1>2. TranslatesOwnTable'
  <2>1. CASE pgdir[current_running'] # pgdir[current_running]
    BY <2>1 DEF TranslatesOwnTable
  <2>2. CASE pgdir[current_running'] = pgdir[current_running] /\ satp = pgdir[current_running]
    BY <2>2 DEF TranslatesOwnTable
  <2>3. CASE /\ pgdir[current_running'] = pgdir[current_running]
             /\ satp = BootPgdir /\ current_running = Pid0
    <3>1. NullPgdir \notin Tasks
      BY SizeAssumption DEF Tasks, NullPgdir
    <3>2. current_running' = Pid0
      BY <2>3, <3>1 DEF AddressInv, TablesGiven, PCBs
    <3> QED
      BY <2>3, <3>2 DEF TranslatesOwnTable
  <2> QED
    BY <2>1, <2>2, <2>3 DEF AddressInv, TranslatesOwnTable
<1> QED
  BY <1>1, <1>2 DEF AddressInv

(* A new task gets the page table of its slot or, a thread, its creator's.  *)
LEMMA NewTaskKeepsTable ==
  ASSUME AddressInv, TypeOK', NEW i \in Tasks, NEW m, NEW k,
         NEW dir \in {pgdir[i], pgdir[current_running]},
         current_running \in Tasks, NewTask(i, m, k, dir)
  PROVE  AddressInv'
<1>1. /\ pgdir' = [pgdir EXCEPT ![i] = dir]
      /\ UNCHANGED <<current_running, satp>>
      /\ pgdir \in [PCBs -> {NullPgdir} \cup Tasks]
      /\ i \in PCBs /\ Pid0 \in PCBs /\ i # Pid0 /\ current_running \in PCBs
  BY SizeAssumption DEF NewTask, AddressInv, TypeOK, PCBs, Tasks, Pid0
<1>2. pgdir'[current_running] = pgdir[current_running] /\ pgdir'[Pid0] = pgdir[Pid0]
  BY <1>1
<1>3. \A t \in Tasks : pgdir'[t] \in Tasks
  BY <1>1 DEF AddressInv, TablesGiven, PCBs
<1>4. TablesGiven'
  BY <1>2, <1>3 DEF AddressInv, TablesGiven
<1>5. TranslatesOwnTable'
  BY <1>1, <1>2 DEF AddressInv, TranslatesOwnTable
<1> QED
  BY <1>4, <1>5 DEF AddressInv

(* Every step keeps satp that of the running task.                         *)
LEMMA AddressStep ==
  ASSUME AddressInv, [Next]_schedVars
  PROVE  AddressInv'
<1>0. TypeOK /\ ready_queue \in Seq(Tasks) /\ sleep_queue \in Seq(Tasks)
  BY DEF AddressInv, TypeOK
<1>1. TypeOK'
  <2>1. CASE UNCHANGED schedVars
    BY <1>0, <2>1 DEF TypeOK, schedVars, pcbVars, runVars
  <2> QED
    BY <1>0, <2>1, SchedCallTypes, TickTypes, TimerTypes DEF Next
<1>2. CASE TimerInterrupt \/ Yield
  BY <1>0, <1>1, <1>2, DoSchedulerSwitches, SwitchKeepsTable DEF TimerInterrupt, Yield, pcbVars
<1>3. ASSUME NEW d \in 0 .. MaxSleep, Sleep(d) PROVE AddressInv'
  <2>1. /\ Without(ready_queue, current_running) \in Seq(Tasks)
        /\ Append(Without(sleep_queue, current_running), current_running) \in Seq(Tasks)
    BY <1>0, <1>3, WithoutTypes DEF Sleep, InCall
  <2> QED
    BY <1>0, <1>1, <1>3, <2>1, DoSchedulerSwitches, SwitchKeepsTable DEF Sleep, pcbVars
<1>4. ASSUME NEW p \in 1 .. MaxPid, Waitpid(p) PROVE AddressInv'
  BY <1>0, <1>1, <1>4, DoSchedulerSwitches, SwitchKeepsTable DEF Waitpid, DoBlock, pcbVars
<1>5. ASSUME NEW i \in Tasks, NEW m \in Modes, Spawn(i, m) \/ Exec(i, m) PROVE AddressInv'
  BY <1>1, <1>5, NewTaskKeepsTable DEF Spawn, Exec, InCall
<1>6. ASSUME NEW i \in Tasks, NEW m \in Modes, NEW k \in Masks, Taskset(i, m, k)
      PROVE  AddressInv'
  BY <1>1, <1>6, NewTaskKeepsTable DEF Taskset, InCall
<1>7. ASSUME NEW i \in Tasks, MthreadCreate(i) PROVE AddressInv'
  BY <1>1, <1>7, NewTaskKeepsTable DEF MthreadCreate, InCall
<1>8. CASE UNCHANGED <<pgdir, current_running, satp>>
  BY <1>1, <1>8 DEF AddressInv, TablesGiven, TranslatesOwnTable
<1>9. ASSUME NEW k \in Masks, NEW p \in 1 .. MaxPid, TasksetP(k, p)
      PROVE  UNCHANGED <<pgdir, current_running, satp>>
  BY <1>9 DEF TasksetP, runVars
<1>10. CASE Tick \/ UNCHANGED schedVars
  BY <1>8, <1>10 DEF Tick, schedVars, pcbVars, runVars
<1> QED
  BY <1>2, <1>3, <1>4, <1>5, <1>6, <1>7, <1>8, <1>9, <1>10 DEF Next, SchedCall, SomeSpawn

(* The hart always translates with the page table of the task it runs, and  *)
(* pid0's null table is installed only while pid0 runs.                     *)
THEOREM AddressSpaces == Spec => []TranslatesOwnTable
<1>1. Init => AddressInv
  <2> SUFFICES ASSUME Init PROVE AddressInv
    OBVIOUS
  <2>1. TypeOK
    BY InitTypes
  <2>2. TablesGiven
    BY SizeAssumption DEF Init, TablesGiven, PCBs, Tasks, Pid0
  <2>3. TranslatesOwnTable
    BY DEF Init, TranslatesOwnTable
  <2> QED
    BY <2>1, <2>2, <2>3 DEF AddressInv
<1>2. AddressInv /\ [Next]_schedVars => AddressInv'
  BY AddressStep
<1>3. AddressInv => TranslatesOwnTable
  BY DEF AddressInv
<1> QED
  BY <1>1, <1>2, <1>3, PTL DEF Spec

-----------------------------------------------------------------------------
Queues == Tasks \cup Objects

Ordered(rq, sq, wq) ==
  IsInjective(rq) /\ IsInjective(sq) /\ \A q \in Queues : IsInjective(wq[q])

Placed(st, rq, sq, wq) ==
  /\ \A t \in Tasks : st[t] = "READY" <=> t \in ToSet(rq)
  /\ \A t \in ToSet(sq) : st[t] = "BLOCKED"
  /\ \A q \in Queues : \A t \in ToSet(wq[q]) :
       /\ st[t] = "BLOCKED" /\ t \notin ToSet(sq)
       /\ \A r \in Queues : r # q => t \notin ToSet(wq[r])

OneRuns(st, cur) == \A t \in PCBs : st[t] = "RUNNING" <=> t = cur

(* The entries of the process table are what the queues speak of.          *)
LEMMA PCBFacts ==
  /\ Pid0 \in PCBs /\ Pid0 \notin Tasks /\ Tasks \subseteq PCBs /\ 0 \in Tasks
  /\ NoPid \notin 1 .. MaxPid
BY SizeAssumption DEF PCBs, Tasks, Pid0, NoPid

(* The choice of the next task keeps the queues, when nobody is ready or    *)
(* somebody fits.                                                          *)
LEMMA DispatchQueues ==
  ASSUME NEW st \in [PCBs -> Statuses], NEW rq \in Seq(Tasks), NEW sq \in Seq(Tasks),
         NEW wq \in [Queues -> Seq(Tasks)],
         Ordered(rq, sq, wq), Placed(st, rq, sq, wq),
         \A t \in PCBs : st[t] # "RUNNING",
         rq = <<>> \/ \E t \in ToSet(rq) : Fits(t),
         Dispatch(st, rq)
  PROVE  /\ Ordered(ready_queue', sq, wq) /\ Placed(status', ready_queue', sq, wq)
         /\ OneRuns(status', current_running')
         /\ current_running' \in ToSet(rq) \/ current_running' = Pid0
         /\ status' = [st EXCEPT ![current_running'] = "RUNNING"]
<1>0. CASE rq = <<>>
  <2>1. /\ current_running' = Pid0 /\ ready_queue' = rq
        /\ status' = [st EXCEPT ![Pid0] = "RUNNING"]
    BY <1>0 DEF Dispatch, SwitchTo
  <2>2. status'[Pid0] = "RUNNING" /\ \A t \in PCBs \ {Pid0} : status'[t] = st[t]
    BY <2>1, PCBFacts
  <2>3. ToSet(sq) \in SUBSET Tasks /\ \A q \in Queues : ToSet(wq[q]) \in SUBSET Tasks
    BY ToSetInTasks
  <2>4. \A t \in Tasks : status'[t] = st[t]
    BY <2>2, PCBFacts
  <2>5. Placed(status', rq, sq, wq)
    BY <2>3, <2>4 DEF Placed
  <2>6. OneRuns(status', Pid0)
    BY <2>2, PCBFacts DEF OneRuns
  <2> QED
    BY <2>1, <2>5, <2>6
<1> SUFFICES ASSUME rq # <<>>
             PROVE  /\ Ordered(ready_queue', sq, wq) /\ Placed(status', ready_queue', sq, wq)
                    /\ OneRuns(status', current_running')
                    /\ current_running' \in ToSet(rq)
                    /\ status' = [st EXCEPT ![current_running'] = "RUNNING"]
  BY <1>0
<1>1. PICK i \in DOMAIN rq : SwitchTo(rq[i], st, RemoveAt(rq, i))
  BY EmptyQueue DEF Dispatch, ToSet
<1> DEFINE next == rq[i]
           r == RemoveAt(rq, i)
<1>2. next \in Tasks /\ next \in ToSet(rq) /\ next \in PCBs /\ Tasks \subseteq PCBs
  BY PCBFacts DEF ToSet
<1>3. IsInjective(r) /\ ToSet(r) = ToSet(rq) \ {next}
  BY RemoveAtQueue DEF Ordered
<1>4. /\ current_running' = next /\ ready_queue' = r
      /\ status' = [st EXCEPT ![next] = "RUNNING"]
  BY <1>1 DEF SwitchTo
<1> HIDE DEF next, r
<1>5. status'[next] = "RUNNING" /\ st[next] = "READY" /\ \A t \in PCBs \ {next} : status'[t] = st[t]
  BY <1>2, <1>4 DEF Placed
<1>6. ToSet(sq) \in SUBSET Tasks /\ \A q \in Queues : ToSet(wq[q]) \in SUBSET Tasks
  BY ToSetInTasks
<1>7. \A t \in Tasks : status'[t] = "READY" <=> t \in ToSet(r)
  BY <1>2, <1>3, <1>5 DEF Placed
<1>8. next \notin ToSet(sq) /\ \A q \in Queues : next \notin ToSet(wq[q])
  BY <1>5 DEF Placed
<1>9. Placed(status', r, sq, wq)
  BY <1>2, <1>5, <1>6, <1>7, <1>8 DEF Placed
<1>10. OneRuns(status', next)
  BY <1>5 DEF OneRuns
<1> QED
  BY <1>2, <1>3, <1>4, <1>9, <1>10 DEF Ordered

(* A task is listed in one queue at most.                                  *)
LEMMA ListingQueue ==
  ASSUME NEW s, NEW S \in SUBSET Tasks, NEW w \in Listing(s, S)
  PROVE  w \in Seq(Tasks) /\ IsInjective(w) /\ ToSet(w) = S
BY SetToSeqsIsSeq DEF Listing

(* do_scheduler keeps the queues, called with queues in order, when one of *)
(* the ready tasks fits, or they all do.                                   *)
LEMMA DoSchedulerQueues ==
  ASSUME NEW st \in [PCBs -> Statuses], NEW rq \in Seq(Tasks), NEW sq \in Seq(Tasks),
         NEW wq \in [Queues -> Seq(Tasks)], NEW tm, current_running \in PCBs,
         Ordered(rq, sq, wq), Placed(st, rq, sq, wq),
         \A t \in PCBs : st[t] = "RUNNING" => t = current_running,
         \/ \E t \in Tasks : Fits(t) /\ st[t] \in {"READY", "RUNNING"}
         \/ \A t \in Tasks : st[t] \in {"READY", "RUNNING"} \/ t \in ToSet(sq) => Fits(t),
         DoScheduler(st, rq, sq, tm)
  PROVE  /\ Ordered(ready_queue', sleep_queue', wq)
         /\ Placed(status', ready_queue', sleep_queue', wq)
         /\ OneRuns(status', current_running')
         /\ timer' = tm /\ ToSet(sleep_queue') = ToSet(sq) \ Due(sq, tm)
         /\ \A t \in Tasks :
              \/ st[t] \in {"READY", "RUNNING"} /\ status'[t] \in {"READY", "RUNNING"}
              \/ t \in Due(sq, tm) /\ st[t] = "BLOCKED" /\ status'[t] \in {"READY", "RUNNING"}
              \/ t \notin Due(sq, tm) /\ st[t] \notin {"READY", "RUNNING"} /\ status'[t] = st[t]
<1> DEFINE due == Due(sq, tm)
           awake == Awaken(st, due)
           back == Requeued(awake)
           st2 == Preempt(awake)
<1>1. due \in SUBSET Tasks /\ due \subseteq ToSet(sq) /\ ToSet(sq) \ due \in SUBSET Tasks
  BY ToSetInTasks DEF Due
<1>2. PICK woken \in Listing(sq, due), asleep \in Listing(sq, ToSet(sq) \ due) :
        /\ sleep_queue' = asleep
        /\ timer' = tm
        /\ Dispatch(st2, rq \o woken \o back)
  BY DEF DoScheduler, Asleep, Queued
<1>3. /\ woken \in Seq(Tasks) /\ IsInjective(woken) /\ ToSet(woken) = due
      /\ asleep \in Seq(Tasks) /\ IsInjective(asleep) /\ ToSet(asleep) = ToSet(sq) \ due
  BY <1>1, ListingQueue
<1>4. \A t \in PCBs : awake[t] = IF t \in due THEN "READY" ELSE st[t]
  BY DEF Awaken
<1>5. \A t \in due : st[t] = "BLOCKED"
  BY <1>1 DEF Placed
<1>6. Tasks \subseteq PCBs /\ Pid0 \notin Tasks /\ PCBs = Tasks \cup {Pid0}
  BY PCBFacts DEF PCBs
<1>7. awake \in [PCBs -> Statuses]
  BY DEF Awaken, Statuses
<1> HIDE DEF awake
<1>8. awake[current_running] = "RUNNING" <=> st[current_running] = "RUNNING"
  BY <1>4, <1>5
<1>9. /\ st2 \in [PCBs -> Statuses]
      /\ \A t \in PCBs : st2[t] = IF st[t] = "RUNNING" \/ t \in due THEN "READY" ELSE st[t]
  BY <1>4, <1>5, <1>7, <1>8 DEF Preempt, Statuses
<1>10. /\ back \in Seq(Tasks) /\ IsInjective(back)
       /\ ToSet(back) = {t \in Tasks : st[t] = "RUNNING"}
  <2>1. CASE st[current_running] = "RUNNING" /\ current_running # Pid0
    <3> DEFINE one == <<current_running>>
    <3>1. back = one /\ current_running \in Tasks
      BY <1>6, <1>8, <2>1 DEF Requeued
    <3>2. one \in Seq(Tasks) /\ IsInjective(one) /\ ToSet(one) = {current_running}
      BY <3>1 DEF IsInjective, ToSet
    <3> HIDE DEF one
    <3>3. {t \in Tasks : st[t] = "RUNNING"} = {current_running}
      BY <1>6, <2>1, <3>1
    <3> QED
      BY <3>1, <3>2, <3>3
  <2>2. CASE ~(st[current_running] = "RUNNING" /\ current_running # Pid0)
    <3>1. back = <<>>
      BY <1>8, <2>2 DEF Requeued
    <3>2. {t \in Tasks : st[t] = "RUNNING"} = {}
      BY <1>6, <2>2
    <3> QED
      BY <3>1, <3>2, EmptyQueue
  <2> QED
    BY <2>1, <2>2
<1> HIDE DEF back, st2, due
<1> DEFINE rw == rq \o woken
           rwb == rw \o back
<1>11. /\ rw \in Seq(Tasks) /\ IsInjective(rw) /\ ToSet(rw) = ToSet(rq) \cup due
  <2>1. ToSet(rq) \cap due = {}
    BY <1>1, <1>5, ToSetInTasks DEF Placed
  <2> QED
    BY <1>3, <2>1, ConcatQueues DEF Ordered
<1> HIDE DEF rw
<1>12. /\ rwb \in Seq(Tasks) /\ IsInjective(rwb)
       /\ ToSet(rwb) = ToSet(rq) \cup due \cup {t \in Tasks : st[t] = "RUNNING"}
  <2>1. ToSet(rw) \cap ToSet(back) = {}
    BY <1>5, <1>10, <1>11 DEF Placed
  <2> QED
    BY <1>10, <1>11, <2>1, ConcatQueues
<1>13. Dispatch(st2, rwb)
  BY <1>2 DEF rw
<1> HIDE DEF rwb
<1>14. Ordered(rwb, asleep, wq)
  BY <1>3, <1>12 DEF Ordered
<1>15. Placed(st2, rwb, asleep, wq)
  <2>1. \A t \in Tasks : st2[t] = "READY" <=> t \in ToSet(rwb)
    BY <1>1, <1>6, <1>9, <1>12 DEF Placed
  <2>2. \A t \in ToSet(asleep) : st2[t] = "BLOCKED"
    BY <1>1, <1>3, <1>6, <1>9 DEF Placed
  <2>3. \A q \in Queues : ToSet(wq[q]) \in SUBSET Tasks
    BY ToSetInTasks
  <2>4. ASSUME NEW q \in Queues, NEW t \in ToSet(wq[q])
        PROVE  st2[t] = "BLOCKED" /\ t \notin ToSet(asleep)
    BY <1>1, <1>3, <1>6, <1>9, <2>3, <2>4 DEF Placed
  <2> QED
    BY <2>1, <2>2, <2>4 DEF Placed
<1>16. \A t \in PCBs : st2[t] # "RUNNING"
  BY <1>9
<1>17. rwb = <<>> \/ \E t \in ToSet(rwb) : Fits(t)
  <2>1. CASE \E t \in Tasks : Fits(t) /\ st[t] \in {"READY", "RUNNING"}
    BY <1>6, <1>12, <2>1 DEF Placed
  <2>2. CASE \A t \in Tasks : st[t] \in {"READY", "RUNNING"} \/ t \in ToSet(sq) => Fits(t)
    <3>1. \A t \in ToSet(rwb) : t \in Tasks
      BY <1>12, ToSetInTasks
    <3>2. \A t \in ToSet(rwb) : Fits(t)
      BY <1>1, <1>12, <2>2, <3>1 DEF Placed
    <3>3. rwb # <<>> => 1 \in DOMAIN rwb
      BY <1>12
    <3>4. rwb # <<>> => rwb[1] \in ToSet(rwb)
      BY <3>3 DEF ToSet
    <3> QED
      BY <3>2, <3>4
  <2> QED
    BY <2>1, <2>2
<1>18. /\ Ordered(ready_queue', asleep, wq) /\ Placed(status', ready_queue', asleep, wq)
       /\ OneRuns(status', current_running')
       /\ current_running' \in ToSet(rwb) \/ current_running' = Pid0
       /\ status' = [st2 EXCEPT ![current_running'] = "RUNNING"]
  BY <1>3, <1>9, <1>12, <1>13, <1>14, <1>15, <1>16, <1>17, DispatchQueues
<1>19. ASSUME NEW t \in Tasks
       PROVE  \/ st[t] \in {"READY", "RUNNING"} /\ status'[t] \in {"READY", "RUNNING"}
              \/ t \in due /\ st[t] = "BLOCKED" /\ status'[t] \in {"READY", "RUNNING"}
              \/ t \notin due /\ st[t] \notin {"READY", "RUNNING"} /\ status'[t] = st[t]
  <2>1. status'[t] = IF t = current_running' THEN "RUNNING" ELSE st2[t]
    BY <1>6, <1>9, <1>18
  <2>2. t = current_running' => st[t] \in {"READY", "RUNNING"} \/ t \in due
    <3>1. t = current_running' => t \in ToSet(rwb)
      BY <1>6, <1>18
    <3> QED
      BY <1>12, <3>1 DEF Placed
  <2> QED
    BY <1>5, <1>6, <1>9, <2>1, <2>2
<1> QED
  BY <1>2, <1>3, <1>18, <1>19 DEF due

Active == {"READY", "RUNNING"}

InOrder ==
  /\ Ordered(ready_queue, sleep_queue, wait_queue)
  /\ Placed(status, ready_queue, sleep_queue, wait_queue)
  /\ OneRuns(status, current_running)

Unused(t, st, sq, wq) ==
  st[t] \notin Active /\ t \notin ToSet(sq) /\ \A q \in Queues : t \notin ToSet(wq[q])

Owners == \A t \in Tasks : pid[t] = NoPid => Unused(t, status, sleep_queue, wait_queue)

(* Whom do_scheduler switches from always leaves the hart: the shell (slot   *)
(* 0) never waits nor ends, or it may and no program is bound to the other   *)
(* hart alone.  Otherwise a blocked task may run on.                         *)
NobodyStranded == 0 \notin Workers \/ Masks \subseteq {1, 3}

(* Whichever way nobody is stranded, do_scheduler finds a task for this     *)
(* hart, or none is ready and it takes pid0.                               *)
ShellRuns == 0 \notin Workers /\ pid[0] # NoPid /\ mask[0] = 3 /\ status[0] \in Active
AllFit == Masks \subseteq {1, 3} /\ \A t \in Tasks : pid[t] # NoPid => Fits(t)
SomeoneFits == ShellRuns \/ AllFit

QueueInv == TypeOK /\ InOrder /\ Owners /\ SomeoneFits

(* Whoever waits does so in a queue.                                       *)
LEMMA WaitingIn ==
  ASSUME NEW t
  PROVE  t \in Waiting <=> \E q \in Queues : t \in ToSet(wait_queue[q])
BY DEF Waiting, Queues

(* What do_scheduler makes of the status st and the sleepers sq.           *)
Settled(st, sq) ==
  /\ \A t \in Tasks :
       /\ status'[t] \in Dead <=> st[t] \in Dead
       /\ status'[t] = "BLOCKED" =>
            st[t] = "BLOCKED" /\ (t \in ToSet(sq) => t \in ToSet(sleep_queue'))
  /\ ToSet(sleep_queue') \subseteq ToSet(sq)

(* Somebody fits, in the status st and among those who have a pid then.    *)
ChoiceLeft(st) ==
  \/ ShellRuns /\ pid'[0] # NoPid /\ st[0] \in Active
  \/ AllFit /\ \A t \in Tasks : pid'[t] # NoPid => pid[t] # NoPid

(* do_scheduler leaves the tasks it does not choose in their order.        *)
LEMMA SchedulerKeepsOrder ==
  ASSUME current_running \in PCBs, mask' = mask,
         NEW st \in [PCBs -> Statuses], NEW rq \in Seq(Tasks), NEW sq \in Seq(Tasks), NEW tm,
         wait_queue' \in [Queues -> Seq(Tasks)],
         Ordered(rq, sq, wait_queue'), Placed(st, rq, sq, wait_queue'),
         \A t \in PCBs : st[t] = "RUNNING" => t = current_running,
         ChoiceLeft(st),
         \A t \in Tasks : pid'[t] = NoPid => Unused(t, st, sq, wait_queue'),
         DoScheduler(st, rq, sq, tm)
  PROVE  InOrder' /\ Owners' /\ SomeoneFits' /\ Settled(st, sq)
<1>1. \/ \E t \in Tasks : Fits(t) /\ st[t] \in Active
      \/ \A t \in Tasks : st[t] \in Active \/ t \in ToSet(sq) => Fits(t)
  <2>1. CASE ShellRuns /\ st[0] \in Active
    BY <2>1, PCBFacts DEF ShellRuns, Fits
  <2>2. CASE AllFit /\ \A t \in Tasks : pid'[t] # NoPid => pid[t] # NoPid
    BY <2>2 DEF AllFit, Unused
  <2> QED
    BY <2>1, <2>2 DEF ChoiceLeft
<1>2. /\ Ordered(ready_queue', sleep_queue', wait_queue')
      /\ Placed(status', ready_queue', sleep_queue', wait_queue')
      /\ OneRuns(status', current_running')
      /\ ToSet(sleep_queue') = ToSet(sq) \ Due(sq, tm)
      /\ \A t \in Tasks :
           \/ st[t] \in Active /\ status'[t] \in Active
           \/ t \in Due(sq, tm) /\ st[t] = "BLOCKED" /\ status'[t] \in Active
           \/ t \notin Due(sq, tm) /\ st[t] \notin Active /\ status'[t] = st[t]
  BY <1>1, DoSchedulerQueues DEF Active
<1>3. Due(sq, tm) \subseteq ToSet(sq)
  BY DEF Due
<1>4. Owners'
  BY <1>2, <1>3 DEF Owners, Unused
<1>5. SomeoneFits'
  <2>1. CASE ShellRuns /\ pid'[0] # NoPid /\ st[0] \in Active
    BY <1>2, <2>1, PCBFacts DEF SomeoneFits, ShellRuns, Active
  <2>2. CASE AllFit /\ \A t \in Tasks : pid'[t] # NoPid => pid[t] # NoPid
    BY <2>2 DEF SomeoneFits, AllFit, Fits
  <2> QED
    BY <2>1, <2>2 DEF ChoiceLeft
<1>6. Settled(st, sq)
  <2>1. ASSUME NEW t \in Tasks
        PROVE  /\ status'[t] \in Dead <=> st[t] \in Dead
               /\ status'[t] = "BLOCKED" =>
                    st[t] = "BLOCKED" /\ (t \in ToSet(sq) => t \in ToSet(sleep_queue'))
    BY <1>2 DEF Active, Dead
  <2> QED
    BY <1>2, <2>1 DEF Settled
<1> QED
  BY <1>2, <1>4, <1>5, <1>6 DEF InOrder

(* do_block moves the running task to the queue, and no other.             *)
LEMMA DoBlockQueues ==
  ASSUME QueueInv, NEW q \in Queues, current_running \in Tasks, current_running \in Workers,
         DoBlock(q), pid' = pid, mask' = mask
  PROVE  /\ InOrder' /\ Owners' /\ SomeoneFits'
         /\ Settled([status EXCEPT ![current_running] = "BLOCKED"], sleep_queue)
<1> DEFINE cur == current_running
           st == [status EXCEPT ![cur] = "BLOCKED"]
<1>1. /\ wait_queue' = [wait_queue EXCEPT ![q] = Append(@, cur)]
      /\ DoScheduler(st, ready_queue, sleep_queue, timer)
      /\ cur \notin ToSet(ready_queue) /\ cur \notin ToSet(sleep_queue)
      /\ \A r \in Queues : cur \notin ToSet(wait_queue[r])
  BY WaitingIn DEF DoBlock, Linked
<1>2. /\ status \in [PCBs -> Statuses] /\ wait_queue \in [Queues -> Seq(Tasks)]
      /\ ready_queue \in Seq(Tasks) /\ sleep_queue \in Seq(Tasks)
      /\ ToSet(ready_queue) \subseteq Tasks /\ ToSet(sleep_queue) \subseteq Tasks
      /\ \A r \in Queues : ToSet(wait_queue[r]) \subseteq Tasks
      /\ cur \in PCBs /\ 0 \in Tasks /\ Tasks \subseteq PCBs
  BY PCBFacts, ToSetInTasks DEF QueueInv, TypeOK, Queues
<1>3. /\ st \in [PCBs -> Statuses]
      /\ \A t \in PCBs : st[t] = IF t = cur THEN "BLOCKED" ELSE status[t]
  BY <1>2 DEF Statuses
<1>4. /\ wait_queue' \in [Queues -> Seq(Tasks)]
      /\ \A r \in Queues : r # q => wait_queue'[r] = wait_queue[r]
      /\ wait_queue'[q] = Append(wait_queue[q], cur)
  BY <1>1, <1>2
<1>5. IsInjective(wait_queue'[q]) /\ ToSet(wait_queue'[q]) = ToSet(wait_queue[q]) \cup {cur}
  BY <1>1, <1>2, <1>4, AppendQueue DEF QueueInv, InOrder, Ordered
<1> HIDE DEF st
<1>6. Ordered(ready_queue, sleep_queue, wait_queue')
  BY <1>4, <1>5 DEF QueueInv, InOrder, Ordered
<1>7. Placed(st, ready_queue, sleep_queue, wait_queue')
  <2>1. \A t \in Tasks : st[t] = "READY" <=> t \in ToSet(ready_queue)
    BY <1>1, <1>2, <1>3 DEF QueueInv, InOrder, Placed
  <2>2. \A t \in ToSet(sleep_queue) : st[t] = "BLOCKED"
    BY <1>2, <1>3 DEF QueueInv, InOrder, Placed
  <2>3. ASSUME NEW r \in Queues, NEW t \in ToSet(wait_queue'[r])
        PROVE  /\ st[t] = "BLOCKED" /\ t \notin ToSet(sleep_queue)
               /\ \A s \in Queues : s # r => t \notin ToSet(wait_queue'[s])
    <3>1. CASE t = cur
      BY <1>1, <1>2, <1>3, <1>4, <1>5, <2>3, <3>1
    <3>2. CASE t # cur
      <4>1. t \in ToSet(wait_queue[r])
        BY <1>4, <1>5, <2>3, <3>2
      <4>2. \A s \in Queues : t \in ToSet(wait_queue'[s]) => t \in ToSet(wait_queue[s])
        BY <1>4, <1>5, <3>2
      <4> QED
        BY <1>2, <1>3, <4>1, <4>2 DEF QueueInv, InOrder, Placed
    <3> QED
      BY <3>1, <3>2
  <2> QED
    BY <2>1, <2>2, <2>3 DEF Placed
<1>8. status[cur] = "RUNNING" /\ \A t \in PCBs : status[t] = "RUNNING" => t = cur
  BY <1>2 DEF QueueInv, InOrder, OneRuns
<1>9. pid[cur] # NoPid
  BY <1>8 DEF QueueInv, Owners, Unused, Active
<1>10. ASSUME NEW t \in Tasks, pid'[t] = NoPid PROVE Unused(t, st, sleep_queue, wait_queue')
  <2>1. t # cur /\ Unused(t, status, sleep_queue, wait_queue)
    BY <1>9, <1>10 DEF QueueInv, Owners
  <2> QED
    BY <1>2, <1>3, <1>4, <1>5, <2>1 DEF Unused
<1>11. ChoiceLeft(st)
  BY <1>2, <1>3 DEF QueueInv, SomeoneFits, ShellRuns, ChoiceLeft
<1>12. \A t \in PCBs : st[t] = "RUNNING" => t = current_running
  BY <1>3, <1>8
<1>13. current_running \in PCBs
  BY <1>2
<1>14. InOrder' /\ Owners' /\ SomeoneFits' /\ Settled(st, sleep_queue)
  BY <1>1, <1>2, <1>3, <1>4, <1>6, <1>7, <1>10, <1>11, <1>12, <1>13, SchedulerKeepsOrder
<1> QED
  BY <1>14 DEF st

(* A new task is listed in the ready queue only.                           *)
LEMMA NewTaskQueues ==
  ASSUME QueueInv, current_running \in Tasks,
         NEW i \in Tasks, NEW m, NEW k \in Masks \cup {mask[current_running]}, NEW dir,
         NewTask(i, m, k, dir)
  PROVE  InOrder' /\ Owners' /\ SomeoneFits'
<1>1. /\ pid[i] = NoPid /\ i \notin ToSet(ready_queue) /\ i \notin ToSet(sleep_queue)
      /\ \A r \in Queues : i \notin ToSet(wait_queue[r])
      /\ process_id < MaxPid /\ pid' = [pid EXCEPT ![i] = process_id + 1]
      /\ mask' = [mask EXCEPT ![i] = k]
      /\ status' = [status EXCEPT ![i] = "READY"]
      /\ wait_queue' = [wait_queue EXCEPT ![i] = <<>>]
      /\ ready_queue' = Append(ready_queue, i)
      /\ UNCHANGED <<sleep_queue, current_running>>
  BY WaitingIn DEF NewTask, Linked
<1>2. /\ status \in [PCBs -> Statuses] /\ wait_queue \in [Queues -> Seq(Tasks)]
      /\ ready_queue \in Seq(Tasks) /\ sleep_queue \in Seq(Tasks)
      /\ ToSet(ready_queue) \subseteq Tasks /\ ToSet(sleep_queue) \subseteq Tasks
      /\ \A r \in Queues : ToSet(wait_queue[r]) \subseteq Tasks
      /\ 0 \in Tasks /\ Tasks \subseteq PCBs /\ Pid0 \notin Tasks /\ i \in Queues
      /\ pid \in [Tasks -> {NoPid} \cup (1 .. MaxPid)] /\ mask \in [PCBs -> Nat]
      /\ process_id + 1 # NoPid /\ current_running \in PCBs
  <2>1. process_id \in Nat /\ mask \in [PCBs -> Nat]
    BY DEF QueueInv, TypeOK
  <2>2. process_id + 1 # NoPid
    BY <2>1 DEF NoPid
  <2> QED
    BY <2>1, <2>2, PCBFacts, ToSetInTasks DEF QueueInv, TypeOK, Queues
<1>3. i # current_running /\ pid[current_running] # NoPid
  BY <1>1, <1>2 DEF QueueInv, InOrder, OneRuns, Owners, Unused, Active
<1>4. /\ status'[i] = "READY" /\ \A t \in PCBs : t # i => status'[t] = status[t]
      /\ wait_queue'[i] = <<>> /\ \A r \in Queues : r # i => wait_queue'[r] = wait_queue[r]
      /\ pid'[i] # NoPid /\ \A t \in Tasks : t # i => pid'[t] = pid[t]
      /\ mask'[i] = k /\ \A t \in PCBs : t # i => mask'[t] = mask[t]
  BY <1>1, <1>2, <1>3
<1>5. IsInjective(ready_queue') /\ ToSet(ready_queue') = ToSet(ready_queue) \cup {i}
  BY <1>1, <1>2, AppendQueue DEF QueueInv, InOrder, Ordered
<1>6. Ordered(ready_queue', sleep_queue', wait_queue')
  BY <1>1, <1>4, <1>5, EmptyQueue DEF QueueInv, InOrder, Ordered
<1>7. \A r \in Queues : ToSet(wait_queue'[r]) \subseteq ToSet(wait_queue[r])
  BY <1>4, EmptyQueue
<1>8. Placed(status', ready_queue', sleep_queue', wait_queue')
  <2>1. \A t \in Tasks : status'[t] = "READY" <=> t \in ToSet(ready_queue')
    BY <1>2, <1>4, <1>5 DEF QueueInv, InOrder, Placed
  <2>2. \A t \in ToSet(sleep_queue') : status'[t] = "BLOCKED"
    BY <1>1, <1>2, <1>4 DEF QueueInv, InOrder, Placed
  <2>3. \A r \in Queues : \A t \in ToSet(wait_queue'[r]) :
          status'[t] = "BLOCKED" /\ t \notin ToSet(sleep_queue')
    BY <1>1, <1>2, <1>4, <1>7 DEF QueueInv, InOrder, Placed
  <2>4. \A r \in Queues : \A t \in ToSet(wait_queue'[r]) :
          \A s \in Queues : s # r => t \notin ToSet(wait_queue'[s])
    BY <1>7 DEF QueueInv, InOrder, Placed
  <2> QED
    BY <2>1, <2>2, <2>3, <2>4 DEF Placed
<1>9. OneRuns(status', current_running')
  BY <1>1, <1>2, <1>3, <1>4 DEF QueueInv, InOrder, OneRuns
<1>10. Owners'
  BY <1>1, <1>2, <1>4, <1>7 DEF QueueInv, Owners, Unused
<1>11. SomeoneFits'
  <2>1. CASE ShellRuns
    <3>1. 0 # i
      BY <1>1, <2>1 DEF ShellRuns
    <3> QED
      BY <1>2, <1>4, <2>1, <3>1 DEF SomeoneFits, ShellRuns
  <2>2. CASE AllFit
    <3>1. k = 1 \/ k = 3
      BY <1>3, <2>2 DEF AllFit, Fits
    <3>2. \A t \in Tasks : pid'[t] # NoPid => Fits(t)'
      BY <1>2, <1>4, <2>2, <3>1 DEF AllFit, Fits
    <3> QED
      BY <2>2, <3>2 DEF SomeoneFits, AllFit
  <2> QED
    BY <2>1, <2>2 DEF QueueInv, SomeoneFits
<1> QED
  BY <1>6, <1>8, <1>9, <1>10, <1>11 DEF InOrder

(* The queues are sequences of tasks without repetition.                   *)
LEMMA QueueTypes ==
  ASSUME QueueInv
  PROVE  /\ status \in [PCBs -> Statuses] /\ wait_queue \in [Queues -> Seq(Tasks)]
         /\ ready_queue \in Seq(Tasks) /\ sleep_queue \in Seq(Tasks)
         /\ ToSet(ready_queue) \subseteq Tasks /\ ToSet(sleep_queue) \subseteq Tasks
         /\ \A q \in Queues : ToSet(wait_queue[q]) \subseteq Tasks
         /\ pid \in [Tasks -> {NoPid} \cup (1 .. MaxPid)]
         /\ current_running \in PCBs
         /\ \A t \in PCBs : status[t] = "RUNNING" <=> t = current_running
BY ToSetInTasks DEF QueueInv, TypeOK, Queues, InOrder, OneRuns

(* The timer interrupt keeps status and queues in step.                    *)
LEMMA PreemptQueues ==
  ASSUME QueueInv, DoScheduler(status, ready_queue, sleep_queue, timer),
         UNCHANGED <<pid, mask, wait_queue>>
  PROVE  InOrder' /\ Owners' /\ SomeoneFits' /\ Settled(status, sleep_queue)
<1>1. /\ wait_queue' \in [Queues -> Seq(Tasks)]
      /\ Ordered(ready_queue, sleep_queue, wait_queue')
      /\ Placed(status, ready_queue, sleep_queue, wait_queue')
      /\ \A t \in Tasks : pid'[t] = NoPid => Unused(t, status, sleep_queue, wait_queue')
      /\ ChoiceLeft(status)
  BY QueueTypes DEF QueueInv, InOrder, Owners, SomeoneFits, ShellRuns, ChoiceLeft
<1> QED
  BY <1>1, QueueTypes, SchedulerKeepsOrder

(* So does do_sleep.                                                       *)
LEMMA SleepQueues ==
  ASSUME QueueInv, NEW d \in 0 .. MaxSleep, Sleep(d)
  PROVE  /\ InOrder' /\ Owners' /\ SomeoneFits'
         /\ DoScheduler([status EXCEPT ![current_running] = "BLOCKED"], ready_queue,
                        Append(sleep_queue, current_running),
                        [timer EXCEPT ![current_running] = d])
         /\ Settled([status EXCEPT ![current_running] = "BLOCKED"],
                    Append(sleep_queue, current_running))
         /\ wait_queue' = wait_queue
<1> DEFINE cur == current_running
           st == [status EXCEPT ![cur] = "BLOCKED"]
           sq == Append(sleep_queue, cur)
           tm == [timer EXCEPT ![cur] = d]
<1>1. /\ cur \in Tasks /\ cur \in Workers /\ cur \in PCBs /\ 0 \in Tasks /\ Tasks \subseteq PCBs
      /\ wait_queue' = [q \in Queues |-> Without(wait_queue[q], cur)]
      /\ DoScheduler(st, Without(ready_queue, cur), Append(Without(sleep_queue, cur), cur), tm)
      /\ pid' = pid /\ mask' = mask
  BY PCBFacts DEF Sleep, InCall, pcbVars, Queues
<1>2. status[cur] = "RUNNING" /\ \A t \in PCBs : status[t] = "RUNNING" => t = cur
  BY <1>1, QueueTypes
<1>3. /\ cur \notin ToSet(ready_queue) /\ cur \notin ToSet(sleep_queue)
      /\ \A q \in Queues : cur \notin ToSet(wait_queue[q])
  BY <1>1, <1>2 DEF QueueInv, InOrder, Placed
<1>4. /\ wait_queue' = wait_queue
      /\ Without(ready_queue, cur) = ready_queue /\ Without(sleep_queue, cur) = sleep_queue
  <2>1. \A q \in Queues : Without(wait_queue[q], cur) = wait_queue[q]
    BY <1>3 DEF Without
  <2>2. wait_queue' = wait_queue
    BY <1>1, <2>1, QueueTypes
  <2> QED
    BY <1>3, <2>2 DEF Without
<1>5. DoScheduler(st, ready_queue, sq, tm)
  BY <1>1, <1>4
<1>6. /\ st \in [PCBs -> Statuses]
      /\ \A t \in PCBs : st[t] = IF t = cur THEN "BLOCKED" ELSE status[t]
  BY <1>1, QueueTypes DEF Statuses
<1>7. sq \in Seq(Tasks) /\ IsInjective(sq) /\ ToSet(sq) = ToSet(sleep_queue) \cup {cur}
  BY <1>1, <1>3, QueueTypes, AppendQueue DEF QueueInv, InOrder, Ordered
<1> HIDE DEF st, sq
<1>8. Ordered(ready_queue, sq, wait_queue)
  BY <1>7 DEF QueueInv, InOrder, Ordered
<1>9. Placed(st, ready_queue, sq, wait_queue)
  <2>1. \A t \in Tasks : st[t] = "READY" <=> t \in ToSet(ready_queue)
    BY <1>1, <1>3, <1>6 DEF QueueInv, InOrder, Placed
  <2>2. \A t \in ToSet(sq) : st[t] = "BLOCKED"
    BY <1>1, <1>6, <1>7, QueueTypes DEF QueueInv, InOrder, Placed
  <2>3. \A q \in Queues : \A t \in ToSet(wait_queue[q]) : st[t] = "BLOCKED" /\ t \notin ToSet(sq)
    BY <1>1, <1>3, <1>6, <1>7, QueueTypes DEF QueueInv, InOrder, Placed
  <2> QED
    BY <2>1, <2>2, <2>3 DEF QueueInv, InOrder, Placed
<1>10. ASSUME NEW t \in Tasks, pid'[t] = NoPid PROVE Unused(t, st, sq, wait_queue')
  <2>1. Unused(t, status, sleep_queue, wait_queue)
    BY <1>1, <1>10 DEF QueueInv, Owners
  <2>2. t # cur
    BY <1>2, <2>1 DEF Unused, Active
  <2> QED
    BY <1>1, <1>4, <1>6, <1>7, <2>1, <2>2 DEF Unused
<1>11. ChoiceLeft(st)
  BY <1>1, <1>6 DEF QueueInv, SomeoneFits, ShellRuns, ChoiceLeft
<1>12. \A t \in PCBs : st[t] = "RUNNING" => t = current_running
  BY <1>2, <1>6
<1>13. InOrder' /\ Owners' /\ SomeoneFits' /\ Settled(st, sq)
  BY <1>1, <1>4, <1>5, <1>6, <1>7, <1>8, <1>9, <1>10, <1>11, <1>12, QueueTypes, SchedulerKeepsOrder
<1> QED
  BY <1>4, <1>5, <1>13 DEF st, sq

(* So does every other call.                                               *)
LEMMA SchedCallQueues ==
  ASSUME QueueInv, SchedCall
  PROVE  QueueInv'
<1>0. TypeOK' 
  BY SchedCallTypes DEF QueueInv
<1>1. CASE Yield
  BY <1>0, <1>1, PreemptQueues DEF Yield, QueueInv, pcbVars
<1>2. ASSUME NEW d \in 0 .. MaxSleep, Sleep(d)
      PROVE  QueueInv'
  BY <1>0, <1>2, SleepQueues DEF QueueInv
<1>3. ASSUME NEW p \in 1 .. MaxPid, Waitpid(p)
      PROVE  QueueInv'
  BY <1>0, <1>3, DoBlockQueues DEF Waitpid, InCall, QueueInv, pcbVars, Queues
<1>4. ASSUME current_running \in Tasks, NEW i \in Tasks, NEW m,
             NEW k \in Masks \cup {mask[current_running]}, NEW dir, NewTask(i, m, k, dir)
      PROVE  QueueInv'
  BY <1>0, <1>4, NewTaskQueues DEF QueueInv
<1>5. ASSUME NEW k \in Masks, NEW p \in 1 .. MaxPid, TasksetP(k, p)
      PROVE  QueueInv'
  <2>1. PICK i \in Workers : i \in Tasks /\ mask' = [mask EXCEPT ![i] = k]
    BY <1>5 DEF TasksetP
  <2>2. /\ \A t \in Tasks : mask'[t] = IF t = i THEN k ELSE mask[t]
        /\ UNCHANGED <<pid, status, ready_queue, sleep_queue, wait_queue, current_running>>
    BY <1>5, <2>1, PCBFacts DEF TasksetP, runVars, QueueInv, TypeOK
  <2>3. ShellRuns => ShellRuns'
    BY <2>1, <2>2, PCBFacts DEF ShellRuns
  <2>4. AllFit => AllFit'
    BY <2>2 DEF AllFit, Fits
  <2> QED
    BY <1>0, <2>2, <2>3, <2>4 DEF QueueInv, InOrder, Owners, SomeoneFits
<1> QED
  BY <1>1, <1>2, <1>3, <1>4, <1>5
     DEF SchedCall, SomeSpawn, Spawn, Exec, Taskset, MthreadCreate, InCall

(* So does timer_check.                                                    *)
LEMMA TimerQueues ==
  ASSUME QueueInv, TimerInterrupt
  PROVE  QueueInv'
BY TimerTypes, PreemptQueues DEF TimerInterrupt, QueueInv, pcbVars

(* So does the clock.                                                      *)
LEMMA TickQueues ==
  ASSUME QueueInv, Tick
  PROVE  QueueInv'
<1>1. TypeOK'
  BY TickTypes DEF QueueInv
<1> QED
  BY <1>1 DEF Tick, QueueInv, InOrder, Owners, SomeoneFits, ShellRuns, AllFit, Fits, pcbVars

(* Status and queues agree at the start.                                   *)
LEMMA InitQueues == NobodyStranded /\ Init => QueueInv
<1> SUFFICES ASSUME NobodyStranded, Init PROVE QueueInv
  OBVIOUS
<1> DEFINE one == <<0>>
<1>1. ready_queue = one /\ ToSet(one) = {0} /\ IsInjective(one)
  BY DEF Init, ToSet, IsInjective
<1> HIDE DEF one
<1>2. sleep_queue = <<>> /\ \A q \in Queues : wait_queue[q] = <<>>
  BY DEF Init, Queues
<1>3. /\ \A t \in PCBs : status[t] = IF t = Pid0 THEN "RUNNING"
                                     ELSE IF t = 0 THEN "READY" ELSE "BLOCKED"
      /\ current_running = Pid0 /\ pid[0] = 1 /\ mask[0] = 3
      /\ \A t \in Tasks : pid[t] = NoPid <=> t # 0
  BY PCBFacts DEF Init, NoPid
<1>4. InOrder
  BY <1>1, <1>2, <1>3, PCBFacts, EmptyQueue DEF InOrder, Ordered, Placed, OneRuns
<1>5. Owners
  BY <1>1, <1>2, <1>3, PCBFacts, EmptyQueue DEF Owners, Unused, Active
<1>6. SomeoneFits
  <2>1. 0 \notin Workers => ShellRuns
    BY <1>3, PCBFacts DEF ShellRuns, Active, NoPid
  <2>2. Masks \subseteq {1, 3} => AllFit
    BY <1>3 DEF AllFit, Fits
  <2> QED
    BY <2>1, <2>2 DEF NobodyStranded, SomeoneFits
<1> QED
  BY <1>4, <1>5, <1>6, InitTypes DEF QueueInv

(* Nobody is forgotten: a task that is blocked sleeps or waits.  It rests on *)
(* two facts that the scheduler alone keeps: nobody waits for a free slot,   *)
(* whose list NewTask empties, and nobody dies.                              *)
Remembered ==
  \A t \in Tasks :
    /\ status[t] \notin Dead
    /\ pid[t] = NoPid => wait_queue[t] = <<>>
    /\ pid[t] # NoPid /\ status[t] = "BLOCKED" =>
         t \in ToSet(sleep_queue) \/ \E q \in Queues : t \in ToSet(wait_queue[q])

(* A deadline is running for sleepers only.                                 *)
Counted == \A t \in Tasks : timer[t] > 0 => t \in ToSet(sleep_queue)

SchedInv == QueueInv /\ Remembered

(* A new task is behind everyone who is ready.                             *)
LEMMA NewTaskRemembers ==
  ASSUME SchedInv, NEW i \in Tasks, NEW m, NEW k, NEW dir, NewTask(i, m, k, dir)
  PROVE  Remembered'
<1>1. /\ pid[i] = NoPid 
      /\ process_id + 1 # NoPid
      /\ pid' = [pid EXCEPT ![i] = process_id + 1]
      /\ status' = [status EXCEPT ![i] = "READY"]
      /\ wait_queue' = [wait_queue EXCEPT ![i] = <<>>]
      /\ sleep_queue' = sleep_queue
  BY DEF NewTask, SchedInv, QueueInv, TypeOK, NoPid
<1>2. wait_queue[i] = <<>>
  BY <1>1 DEF SchedInv, Remembered
<1>3. wait_queue' = wait_queue
  BY <1>1, <1>2, QueueTypes DEF SchedInv, Queues
<1> QED
  BY <1>1, <1>3, QueueTypes, PCBFacts DEF SchedInv, Remembered, Dead

(* Every step keeps the invariant of the scheduler.                        *)
LEMMA SchedStepInv ==
  ASSUME SchedInv, [Next]_schedVars
  PROVE  SchedInv'
<1>0. QueueInv
  BY DEF SchedInv
<1>1. QueueInv'
  <2>1. CASE UNCHANGED schedVars
    BY <1>0, <2>1 DEF QueueInv, TypeOK, InOrder, Owners, SomeoneFits, ShellRuns, AllFit, Fits,
         schedVars, pcbVars, runVars
  <2> QED
    BY <1>0, <2>1, SchedCallQueues, TimerQueues, TickQueues DEF Next
<1>2. CASE DoScheduler(status, ready_queue, sleep_queue, timer) /\ UNCHANGED <<pcbVars, wait_queue>>
  <2>1. Settled(status, sleep_queue) /\ UNCHANGED <<pid, wait_queue>>
    BY <1>0, <1>2, PreemptQueues DEF pcbVars
  <2>2. Remembered'
    BY <2>1 DEF SchedInv, Remembered, Settled
  <2> QED
    BY <1>1, <2>2 DEF SchedInv
<1>3. ASSUME NEW d \in 0 .. MaxSleep, Sleep(d) PROVE SchedInv'
  <2> DEFINE st == [status EXCEPT ![current_running] = "BLOCKED"]
             sq == Append(sleep_queue, current_running)
  <2>1. Settled(st, sq) /\ UNCHANGED <<pid, wait_queue>> /\ current_running \in Tasks
    BY <1>0, <1>3, SleepQueues DEF Sleep, InCall, pcbVars
  <2>2. ToSet(sq) = ToSet(sleep_queue) \cup {current_running}
    BY <1>0, <2>1, QueueTypes, AppendQueue
  <2>3. \A t \in Tasks : st[t] = IF t = current_running THEN "BLOCKED" ELSE status[t]
    BY <1>0, <2>1, QueueTypes, PCBFacts
  <2> HIDE DEF st, sq
  <2>4. Remembered'
    BY <2>1, <2>2, <2>3 DEF SchedInv, Remembered, Settled, Dead
  <2> QED
    BY <1>1, <2>4 DEF SchedInv
<1>4. ASSUME NEW p \in 1 .. MaxPid, Waitpid(p) PROVE SchedInv'
  <2>1. PICK i \in Tasks : pid[i] = p /\ DoBlock(i)
    BY <1>4 DEF Waitpid
  <2> DEFINE st == [status EXCEPT ![current_running] = "BLOCKED"]
  <2>2. /\ current_running \in Tasks /\ current_running \in Workers /\ i \in Queues
        /\ UNCHANGED <<pid, mask>> /\ pid[i] # NoPid
    BY <1>4, <2>1, PCBFacts DEF Waitpid, InCall, pcbVars, Queues
  <2>3. Settled(st, sleep_queue)
    BY <1>0, <2>1, <2>2, DoBlockQueues
  <2>4. \A t \in Tasks : st[t] = IF t = current_running THEN "BLOCKED" ELSE status[t]
    BY <1>0, <2>2, QueueTypes, PCBFacts
  <2>5. /\ \A q \in Queues : q # i => wait_queue'[q] = wait_queue[q]
        /\ wait_queue'[i] = Append(wait_queue[i], current_running)
    BY <1>0, <2>1, <2>2, QueueTypes DEF DoBlock, Queues
  <2>6. ToSet(wait_queue'[i]) = ToSet(wait_queue[i]) \cup {current_running}
    BY <1>0, <2>2, <2>5, QueueTypes, AppendQueue
  <2> HIDE DEF st
  <2>7. ASSUME NEW t \in Tasks
        PROVE  /\ status'[t] \notin Dead
               /\ pid'[t] = NoPid => wait_queue'[t] = <<>>
    BY <2>2, <2>3, <2>4, <2>5 DEF SchedInv, Remembered, Settled, Dead, Queues
  <2>8. ASSUME NEW t \in Tasks, pid'[t] # NoPid, status'[t] = "BLOCKED"
        PROVE  t \in ToSet(sleep_queue') \/ \E q \in Queues : t \in ToSet(wait_queue'[q])
    <3>1. CASE t = current_running
      BY <2>2, <2>6, <3>1
    <3>2. CASE t # current_running
      <4>1. status[t] = "BLOCKED" /\ (t \in ToSet(sleep_queue) => t \in ToSet(sleep_queue'))
        BY <2>3, <2>4, <2>8, <3>2 DEF Settled
      <4>2. \A q \in Queues : t \in ToSet(wait_queue[q]) => t \in ToSet(wait_queue'[q])
        BY <2>5, <2>6
      <4> QED
        BY <2>2, <2>8, <4>1, <4>2 DEF SchedInv, Remembered
    <3> QED
      BY <3>1, <3>2
  <2>9. Remembered'
    BY <2>7, <2>8 DEF Remembered
  <2> QED
    BY <1>1, <2>9 DEF SchedInv
<1>5. ASSUME NEW i \in Tasks, NEW m, NEW k, NEW dir, NewTask(i, m, k, dir) PROVE SchedInv'
  BY <1>1, <1>5, NewTaskRemembers DEF SchedInv
<1>6. CASE UNCHANGED <<pid, status, wait_queue, sleep_queue>>
  BY <1>1, <1>6 DEF SchedInv, Remembered
<1>7. ASSUME NEW k \in Masks, NEW p \in 1 .. MaxPid, TasksetP(k, p)
      PROVE  UNCHANGED <<pid, status, wait_queue, sleep_queue>>
  BY <1>7 DEF TasksetP, runVars
<1>8. CASE Tick \/ UNCHANGED schedVars
  BY <1>6, <1>8 DEF Tick, pcbVars, schedVars, runVars
<1> QED
  BY <1>2, <1>3, <1>4, <1>5, <1>6, <1>7, <1>8
     DEF Next, SchedCall, SomeSpawn, TimerInterrupt, Yield, Spawn, Exec, Taskset, MthreadCreate

(* The invariant gives what a reader of ps expects.                        *)
LEMMA SchedInvMatches == SchedInv => StatusMatchesQueue
<1> SUFFICES ASSUME SchedInv PROVE StatusMatchesQueue
  OBVIOUS
<1>1. \A t \in Tasks : status[t] = "READY" <=> t \in ToSet(ready_queue)
  BY DEF SchedInv, QueueInv, InOrder, Placed
<1>2. \A t \in PCBs : status[t] = "RUNNING" <=> t = current_running
  BY DEF SchedInv, QueueInv, InOrder, OneRuns
<1>3. ASSUME NEW t \in Tasks
      PROVE  Alive(t) /\ status[t] = "BLOCKED" <=> t \in ToSet(sleep_queue) \cup Waiting
  <2>1. t \in ToSet(sleep_queue) \cup Waiting =>
          status[t] = "BLOCKED" /\ ~Unused(t, status, sleep_queue, wait_queue)
    BY WaitingIn DEF SchedInv, QueueInv, InOrder, Placed, Unused
  <2>2. t \in ToSet(sleep_queue) \cup Waiting => Alive(t) /\ status[t] = "BLOCKED"
    BY <2>1 DEF SchedInv, QueueInv, Owners, Alive, Dead
  <2>3. Alive(t) /\ status[t] = "BLOCKED" => t \in ToSet(sleep_queue) \cup Waiting
    BY WaitingIn DEF SchedInv, Remembered, Alive
  <2> QED
    BY <2>2, <2>3
<1> QED
  BY <1>1, <1>2, <1>3 DEF StatusMatchesQueue

(* It holds at the start.                                                  *)
LEMMA InitSchedInv == NobodyStranded /\ Init => SchedInv
<1> SUFFICES ASSUME NobodyStranded, Init PROVE SchedInv
  OBVIOUS
<1>1. \A t \in Tasks : /\ status[t] = IF t = 0 THEN "READY" ELSE "BLOCKED"
                       /\ wait_queue[t] = <<>> /\ pid[t] = IF t = 0 THEN 1 ELSE NoPid
  BY PCBFacts DEF Init
<1>2. Remembered
  BY <1>1 DEF Remembered, Dead
<1> QED
  BY <1>2, InitQueues DEF SchedInv

(* A task is in the queue its status names and in no other, for every      *)
(* process table and workload: do_block, do_unblock, do_sleep,             *)
(* timer_check, do_exec and the scheduler together never lose a task and   *)
(* never list one twice.                                                   *)
THEOREM NoTaskLost ==
  ASSUME NobodyStranded
  PROVE  Spec => []StatusMatchesQueue
<1>1. SchedInv /\ [Next]_schedVars => SchedInv'
  BY SchedStepInv
<1> QED
  BY <1>1, InitSchedInv, SchedInvMatches, PTL DEF Spec

DeadlineStep ==
  /\ \A t \in Tasks : timer'[t] > 0 => t \in ToSet(sleep_queue')
  /\ current_running' # current_running => \A t \in ToSet(sleep_queue') : timer'[t] > 0

(* do_scheduler leaves the sleepers alone.                                 *)
LEMMA SchedulerKeepsDeadlines ==
  ASSUME NEW st \in [PCBs -> Statuses], NEW rq, NEW sq \in Seq(Tasks),
         NEW tm \in [Tasks -> 0 .. MaxSleep],
         \A t \in Tasks : tm[t] > 0 => t \in ToSet(sq),
         DoScheduler(st, rq, sq, tm)
  PROVE  DeadlineStep
<1>1. Due(sq, tm) \in SUBSET Tasks /\ ToSet(sq) \ Due(sq, tm) \in SUBSET Tasks
  BY ToSetInTasks DEF Due
<1>2. PICK asleep \in Listing(sq, ToSet(sq) \ Due(sq, tm)) : sleep_queue' = asleep /\ timer' = tm
  BY DEF DoScheduler, Asleep
<1>3. ToSet(sleep_queue') = ToSet(sq) \ Due(sq, tm)
  BY <1>1, <1>2, ListingQueue
<1>4. \A t \in ToSet(sq) \ Due(sq, tm) : t \in Tasks /\ tm[t] > 0
  BY <1>1 DEF Due
<1>5. \A t \in Due(sq, tm) : tm[t] = 0
  BY DEF Due
<1> QED
  BY <1>2, <1>3, <1>4, <1>5 DEF DeadlineStep

(* Every step keeps the sleepers and their deadlines in step.              *)
LEMMA DeadlineStepKept ==
  ASSUME SchedInv, Counted, [Next]_schedVars
  PROVE  DeadlineStep
<1>0. /\ QueueInv /\ timer \in [Tasks -> 0 .. MaxSleep]
      /\ status \in [PCBs -> Statuses] /\ sleep_queue \in Seq(Tasks)
  BY DEF SchedInv, QueueInv, TypeOK
<1>1. CASE DoScheduler(status, ready_queue, sleep_queue, timer)
  BY <1>0, <1>1, SchedulerKeepsDeadlines DEF Counted
<1>2. ASSUME NEW d \in 0 .. MaxSleep, Sleep(d) PROVE DeadlineStep
  <2> DEFINE st == [status EXCEPT ![current_running] = "BLOCKED"]
             sq == Append(sleep_queue, current_running)
             tm == [timer EXCEPT ![current_running] = d]
  <2>1. DoScheduler(st, ready_queue, sq, tm) /\ current_running \in Tasks
    BY <1>0, <1>2, SleepQueues DEF Sleep, InCall
  <2>2. sq \in Seq(Tasks) /\ ToSet(sq) = ToSet(sleep_queue) \cup {current_running}
    BY <1>0, <2>1, AppendQueue
  <2>3. /\ tm \in [Tasks -> 0 .. MaxSleep]
        /\ \A t \in Tasks : t # current_running => tm[t] = timer[t]
    BY <1>0, <2>1
  <2>4. st \in [PCBs -> Statuses]
    BY <1>0 DEF Statuses
  <2> HIDE DEF st, sq, tm
  <2>5. \A t \in Tasks : tm[t] > 0 => t \in ToSet(sq)
    BY <2>2, <2>3 DEF Counted
  <2> QED
    BY <2>1, <2>2, <2>3, <2>4, <2>5, SchedulerKeepsDeadlines
<1>3. ASSUME NEW p \in 1 .. MaxPid, Waitpid(p) PROVE DeadlineStep
  <2> DEFINE st == [status EXCEPT ![current_running] = "BLOCKED"]
  <2>1. DoScheduler(st, ready_queue, sleep_queue, timer)
    BY <1>3 DEF Waitpid, DoBlock
  <2>2. st \in [PCBs -> Statuses]
    BY <1>0 DEF Statuses
  <2> HIDE DEF st
  <2> QED
    BY <1>0, <2>1, <2>2, SchedulerKeepsDeadlines DEF Counted
<1>4. CASE Tick
  BY <1>0, <1>4 DEF Tick, Counted, DeadlineStep
<1>5. CASE UNCHANGED <<timer, sleep_queue, current_running>>
  BY <1>5 DEF Counted, DeadlineStep
<1>6. ASSUME NEW i \in Tasks, NEW m, NEW k, NEW dir, NewTask(i, m, k, dir)
      PROVE  UNCHANGED <<timer, sleep_queue, current_running>>
  BY <1>6 DEF NewTask
<1>7. ASSUME NEW k \in Masks, NEW p \in 1 .. MaxPid, TasksetP(k, p)
      PROVE  UNCHANGED <<timer, sleep_queue, current_running>>
  BY <1>7 DEF TasksetP, runVars
<1>8. CASE UNCHANGED schedVars
  BY <1>5, <1>8 DEF schedVars, runVars
<1> QED
  BY <1>1, <1>2, <1>3, <1>4, <1>5, <1>6, <1>7, <1>8
     DEF Next, SchedCall, SomeSpawn, TimerInterrupt, Yield, Spawn, Exec, Taskset, MthreadCreate

(* Nobody leaves the sleep queue of do_sleep before the deadline, and when *)
(* do_scheduler hands the hart over nobody is left in it whose deadline    *)
(* has passed, for every number of sleepers and every time.                *)
THEOREM SleepersOnTime ==
  ASSUME NobodyStranded
  PROVE  Spec => DeadlinesKept
<1> DEFINE Inv == SchedInv /\ Counted
<1>1. NobodyStranded /\ Init => Inv
  BY InitSchedInv DEF Init, Counted
<1>2. Inv /\ [Next]_schedVars => Inv'
  BY SchedStepInv, DeadlineStepKept DEF Counted, DeadlineStep
<1>3. Inv /\ [Next]_schedVars => [DeadlineStep]_schedVars
  BY DeadlineStepKept
<1>4. Inv /\ [Next]_schedVars
        => [/\ \A t \in Tasks : timer'[t] > 0 => t \in ToSet(sleep_queue')
            /\ current_running' # current_running =>
                 \A t \in ToSet(sleep_queue') : timer'[t] > 0]_schedVars
  BY <1>3 DEF DeadlineStep
<1> QED
  BY <1>1, <1>2, <1>4, PTL DEF Spec, DeadlinesKept

NextInLine ==
  current_running' # current_running =>
    \A i \in DOMAIN ready_queue :
      Fits(ready_queue[i]) => \E j \in 1 .. i : current_running' = ready_queue[j]

(* do_scheduler takes the first task of the ready queue that may run.      *)
LEMMA SchedulerTakesNext ==
  ASSUME current_running \in PCBs, ready_queue \in Seq(Tasks),
         NEW st, NEW sq \in Seq(Tasks), NEW tm,
         DoScheduler(st, ready_queue, sq, tm)
  PROVE  NextInLine
<1> DEFINE due == Due(sq, tm)
           back == Requeued(Awaken(st, due))
           rq == ready_queue
<1>1. due \in SUBSET Tasks
  BY ToSetInTasks DEF Due
<1>2. PICK woken \in Listing(sq, due) : Dispatch(Preempt(Awaken(st, due)), rq \o woken \o back)
  BY DEF DoScheduler, Queued
<1>3. woken \in Seq(Tasks)
  BY <1>1, ListingQueue
<1>4. back \in Seq(Tasks)
  BY DEF Requeued, PCBs
<1> HIDE DEF back, due
<1> DEFINE tail == woken \o back
           all == rq \o tail
<1>5. rq \o woken \o back = all /\ tail \in Seq(Tasks)
  BY <1>3, <1>4
<1> HIDE DEF tail
<1>6. \A i \in DOMAIN rq : i \in DOMAIN all /\ all[i] = rq[i]
  BY <1>5
<1>7. DOMAIN all = 1 .. Len(all) /\ Len(all) \in Nat
  BY <1>5
<1>8. DOMAIN rq = 1 .. Len(rq) /\ Len(rq) \in Nat
  OBVIOUS
<1> HIDE DEF all
<1>9. SUFFICES ASSUME current_running' # current_running,
                      NEW i \in DOMAIN rq, Fits(rq[i])
               PROVE  \E j \in 1 .. i : current_running' = rq[j]
  BY DEF NextInLine
<1>10. PICK k \in DOMAIN all : FirstFit(all, k) /\ current_running' = all[k]
  <2>1. Fits(all[i]) /\ all # <<>> /\ i \in DOMAIN all
    BY <1>6, <1>9
  <2> QED
    BY <1>2, <1>5, <2>1 DEF Dispatch, SwitchTo
<1>11. k <= i
  BY <1>6, <1>7, <1>8, <1>9, <1>10 DEF FirstFit
<1> QED
  BY <1>6, <1>7, <1>8, <1>10, <1>11

(* Every step keeps the order of those who are ready.                      *)
LEMMA NextInLineKept ==
  ASSUME SchedInv, [Next]_schedVars
  PROVE  NextInLine
<1>0. /\ QueueInv /\ current_running \in PCBs
      /\ ready_queue \in Seq(Tasks) /\ sleep_queue \in Seq(Tasks)
  BY DEF SchedInv, QueueInv, TypeOK
<1>1. ASSUME NEW st, NEW tm, DoScheduler(st, ready_queue, sleep_queue, tm)
      PROVE  NextInLine
  BY <1>0, <1>1, SchedulerTakesNext
<1>2. ASSUME NEW d \in 0 .. MaxSleep, Sleep(d) PROVE NextInLine
  <2>1. DoScheduler([status EXCEPT ![current_running] = "BLOCKED"], ready_queue,
                    Append(sleep_queue, current_running),
                    [timer EXCEPT ![current_running] = d])
    BY <1>0, <1>2, SleepQueues
  <2>2. Append(sleep_queue, current_running) \in Seq(Tasks)
    BY <1>0, <1>2 DEF Sleep, InCall
  <2> QED
    BY <1>0, <2>1, <2>2, SchedulerTakesNext
<1>3. CASE current_running' = current_running
  BY <1>3 DEF NextInLine
<1>4. ASSUME NEW i \in Tasks, NEW m, NEW k, NEW dir, NewTask(i, m, k, dir)
      PROVE  current_running' = current_running
  BY <1>4 DEF NewTask
<1>5. ASSUME NEW k \in Masks, NEW p \in 1 .. MaxPid, TasksetP(k, p)
      PROVE  current_running' = current_running
  BY <1>5 DEF TasksetP, runVars
<1>6. CASE Tick \/ UNCHANGED schedVars
  BY <1>3, <1>6 DEF Tick, schedVars, runVars
<1> QED
  BY <1>1, <1>2, <1>3, <1>4, <1>5, <1>6
     DEF Next, SchedCall, SomeSpawn, TimerInterrupt, Yield, Waitpid, DoBlock,
         Spawn, Exec, Taskset, MthreadCreate

(* When the hart changes hands, nobody in the ready queue who could have   *)
(* it is overtaken, by a later task or by a sleeper that timer_check       *)
(* wakes.                                                                  *)
THEOREM RoundRobin ==
  ASSUME NobodyStranded
  PROVE  Spec => NoOvertaking
<1>1. SchedInv /\ [Next]_schedVars => SchedInv'
  BY SchedStepInv
<1>2. SchedInv /\ [Next]_schedVars => [NextInLine]_schedVars
  BY NextInLineKept
<1>3. SchedInv /\ [Next]_schedVars
        => [current_running' # current_running =>
              \A i \in DOMAIN ready_queue :
                Fits(ready_queue[i]) => \E j \in 1 .. i : current_running' = ready_queue[j]
           ]_schedVars
  BY <1>2 DEF NextInLine
<1> QED
  BY <1>1, <1>3, InitSchedInv, PTL DEF Spec, NoOvertaking
=============================================================================
