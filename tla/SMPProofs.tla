------------------------------ MODULE SMPProofs ------------------------------
(***************************************************************************)
(* What holds of the kernel on two harts for every size of the process     *)
(* table, every set of masks and locks, and all programs that are Careful. *)
(***************************************************************************)
EXTENDS SchedSMP, FiniteSetTheorems, SequenceTheorems, TLAPS

USE SizeAssumption, MaskAssumption, LockAssumption

(* The programs do none of what SchedSMP calls stray, roam or kill_holder. *)
Careful == {"stray", "roam", "kill_holder"} \cap Calls = {}

-----------------------------------------------------------------------------
(* Queues.                                                                 *)

(* The process table is finite.                                            *)
LEMMA TasksFinite == IsFiniteSet(Tasks)
  BY FS_Interval DEF Tasks

(* An enumeration of a set of tasks is a queue of tasks.                   *)
LEMMA SetToSeqsIsSeq ==
  ASSUME NEW S \in SUBSET Tasks, NEW w \in SetToSeqs(S)
  PROVE  w \in Seq(Tasks) /\ IsInjective(w)
<1>1. Cardinality(S) \in Nat
  BY TasksFinite, FS_Subset, FS_CardinalityType
<1>2. w \in [1 .. Cardinality(S) -> S] /\ \A i, j \in 1 .. Cardinality(S) : i # j => w[i] # w[j]
  BY DEF SetToSeqs
<1> QED
  BY <1>1, <1>2 DEF IsInjective

(* Deleting the element at i leaves all the others, in their order.        *)
LEMMA RemoveAtElements ==
  ASSUME NEW S, NEW q \in Seq(S), NEW i \in DOMAIN q
  PROVE  LET r == RemoveAt(q, i)
         IN  /\ r \in Seq(S) /\ Len(r) = Len(q) - 1
             /\ \A k \in 1 .. Len(r) : r[k] = IF k < i THEN q[k] ELSE q[k + 1]
<1> DEFINE a == SubSeq(q, 1, i - 1)
           b == SubSeq(q, i + 1, Len(q))
           r == RemoveAt(q, i)
<1>0. Len(q) \in Nat /\ i \in 1 .. Len(q)
  OBVIOUS
<1>1. a \in Seq(S) /\ Len(a) = i - 1 /\ \A k \in 1 .. i - 1 : a[k] = q[k]
  BY <1>0
<1>2. b \in Seq(S) /\ Len(b) = Len(q) - i /\ \A k \in 1 .. Len(q) - i : b[k] = q[k + i]
  BY <1>0
<1>3. r = a \o b
  BY DEF RemoveAt
<1> HIDE DEF a, b, r
<1>4. /\ r \in Seq(S) /\ Len(r) = Len(q) - 1
      /\ \A k \in 1 .. Len(r) : r[k] = IF k <= Len(a) THEN a[k] ELSE b[k - Len(a)]
  <2>1. /\ r \in Seq(S) /\ Len(r) = Len(a) + Len(b)
        /\ \A k \in 1 .. Len(a) + Len(b) : r[k] = IF k <= Len(a) THEN a[k] ELSE b[k - Len(a)]
    <3>1. a \in Seq(S) /\ b \in Seq(S)
      BY <1>1, <1>2
    <3> QED
      BY <1>3, <3>1, ConcatProperties
  <2>2. Len(a) + Len(b) = Len(q) - 1
    BY <1>0, <1>1, <1>2
  <2> QED
    BY <2>1, <2>2
<1>5. ASSUME NEW k \in 1 .. Len(r)
      PROVE  r[k] = IF k < i THEN q[k] ELSE q[k + 1]
  <2>1. CASE k < i
    <3>1. k <= Len(a) /\ k \in 1 .. i - 1
      BY <1>0, <1>1, <1>4, <2>1
    <3> QED
      BY <1>1, <1>4, <2>1, <3>1
  <2>2. CASE ~(k < i)
    <3>1. k - (i - 1) \in 1 .. Len(q) - i /\ (k - (i - 1)) + i = k + 1
      BY <1>0, <1>4, <2>2
    <3>2. b[k - (i - 1)] = q[k + 1]
      BY <1>2, <3>1
    <3> QED
      BY <1>0, <1>1, <1>4, <2>2, <3>2
  <2> QED
    BY <2>1, <2>2
<1> QED
  BY <1>4, <1>5 DEF r

(* A queue that lists nobody twice still does, and lists all but q[i].     *)
LEMMA RemoveAtQueue ==
  ASSUME NEW S, NEW q \in Seq(S), NEW i \in DOMAIN q, IsInjective(q)
  PROVE  /\ RemoveAt(q, i) \in Seq(S)
         /\ IsInjective(RemoveAt(q, i))
         /\ ToSet(RemoveAt(q, i)) = ToSet(q) \ {q[i]}
<1> DEFINE r == RemoveAt(q, i)
           g(k) == IF k < i THEN k ELSE k + 1
<1>1. /\ r \in Seq(S) /\ Len(r) = Len(q) - 1
      /\ \A k \in 1 .. Len(r) : r[k] = IF k < i THEN q[k] ELSE q[k + 1]
  BY RemoveAtElements
<1> HIDE DEF r
<1>2. DOMAIN r = 1 .. Len(r) /\ DOMAIN q = 1 .. Len(q) /\ Len(q) \in Nat
  BY <1>1
<1>3. \A k \in 1 .. Len(r) : g(k) \in DOMAIN q /\ g(k) # i /\ r[k] = q[g(k)]
  BY <1>1, <1>2
<1>4. \A k, m \in 1 .. Len(r) : g(k) = g(m) => k = m
  BY <1>2
<1> HIDE DEF g
<1>5. IsInjective(r)
  BY <1>2, <1>3, <1>4 DEF IsInjective
<1>6. ToSet(r) \subseteq ToSet(q) \ {q[i]}
  BY <1>2, <1>3 DEF IsInjective, ToSet
<1>7. ASSUME NEW y \in ToSet(q) \ {q[i]} PROVE y \in ToSet(r)
  <2>1. PICK k \in DOMAIN q : q[k] = y
    BY <1>7 DEF ToSet
  <2>2. k # i
    BY <1>7, <2>1
  <2>3. CASE k < i
    BY <1>1, <1>2, <2>1, <2>3 DEF ToSet
  <2>4. CASE k > i
    <3>1. k - 1 \in 1 .. Len(r) /\ ~(k - 1 < i) /\ (k - 1) + 1 = k
      BY <1>1, <1>2, <2>4
    <3>2. r[k - 1] = y
      BY <1>1, <2>1, <3>1
    <3> QED
      BY <1>2, <3>1, <3>2 DEF ToSet
  <2> QED
    BY <1>2, <2>2, <2>3, <2>4
<1> QED
  BY <1>1, <1>5, <1>6, <1>7 DEF r

(* delete_element takes out one task and leaves the others.                *)
LEMMA WithoutElements ==
  ASSUME NEW S, NEW q \in Seq(S), NEW x, IsInjective(q)
  PROVE  /\ Without(q, x) \in Seq(S)
         /\ IsInjective(Without(q, x))
         /\ ToSet(Without(q, x)) = ToSet(q) \ {x}
<1>1. CASE x \in ToSet(q)
  <2> DEFINE i == CHOOSE j \in DOMAIN q : q[j] = x
  <2>1. i \in DOMAIN q /\ q[i] = x
    BY <1>1 DEF ToSet
  <2>2. Without(q, x) = RemoveAt(q, i)
    BY <1>1 DEF Without
  <2> HIDE DEF i
  <2> QED
    BY <2>1, <2>2, RemoveAtQueue
<1>2. CASE x \notin ToSet(q)
  BY <1>2 DEF Without
<1> QED
  BY <1>1, <1>2

(* The empty queue lists nobody.                                           *)
LEMMA EmptyQueue ==
  /\ IsInjective(<<>>)
  /\ ToSet(<<>>) = {}
BY DEF IsInjective, ToSet

(* A queue behind another lists the tasks of both.                         *)
LEMMA ConcatQueues ==
  ASSUME NEW S, NEW q \in Seq(S), NEW r \in Seq(S)
  PROVE  /\ q \o r \in Seq(S)
         /\ ToSet(q \o r) = ToSet(q) \cup ToSet(r)
         /\ IsInjective(q) /\ IsInjective(r) /\ ToSet(q) \cap ToSet(r) = {} => IsInjective(q \o r)
<1> DEFINE s == q \o r
<1>1. /\ s \in Seq(S) /\ Len(s) = Len(q) + Len(r)
      /\ \A k \in 1 .. Len(q) + Len(r) : s[k] = IF k <= Len(q) THEN q[k] ELSE r[k - Len(q)]
  BY ConcatProperties
<1>2. /\ Len(q) \in Nat /\ Len(r) \in Nat
      /\ DOMAIN q = 1 .. Len(q) /\ DOMAIN r = 1 .. Len(r) /\ DOMAIN s = 1 .. Len(q) + Len(r)
  BY <1>1
<1> HIDE DEF s
<1>3. \A k \in DOMAIN q : k \in DOMAIN s /\ s[k] = q[k]
  BY <1>1, <1>2
<1>4. ASSUME NEW k \in DOMAIN r PROVE k + Len(q) \in DOMAIN s /\ s[k + Len(q)] = r[k]
  <2>1. k + Len(q) \in 1 .. Len(q) + Len(r) /\ ~(k + Len(q) <= Len(q)) /\ (k + Len(q)) - Len(q) = k
    BY <1>2
  <2> QED
    BY <1>1, <1>2, <2>1
<1>5. \A k \in DOMAIN s : \/ k \in DOMAIN q /\ s[k] = q[k]
                          \/ k \notin DOMAIN q /\ k - Len(q) \in DOMAIN r /\ s[k] = r[k - Len(q)]
  BY <1>1, <1>2
<1>6. ToSet(s) = ToSet(q) \cup ToSet(r)
  BY <1>3, <1>4, <1>5 DEF ToSet
<1>7. ASSUME IsInjective(q), IsInjective(r), ToSet(q) \cap ToSet(r) = {}
      PROVE  IsInjective(s)
  <2> SUFFICES ASSUME NEW k \in DOMAIN s, NEW m \in DOMAIN s, s[k] = s[m] PROVE k = m
    BY DEF IsInjective
  <2>1. \A i \in DOMAIN q, j \in DOMAIN r : q[i] # r[j]
    BY <1>7 DEF ToSet
  <2>2. CASE k \in DOMAIN q /\ m \in DOMAIN q
    BY <1>5, <1>7, <2>2 DEF IsInjective
  <2>3. CASE k \notin DOMAIN q /\ m \notin DOMAIN q
    <3>1. k - Len(q) = m - Len(q)
      BY <1>5, <1>7, <2>3 DEF IsInjective
    <3> QED
      BY <1>2, <3>1
  <2> QED
    BY <1>5, <2>1, <2>2, <2>3
<1> QED
  BY <1>1, <1>6, <1>7 DEF s

(* A task added at the end of a queue that does not list it.               *)
LEMMA AppendQueue ==
  ASSUME NEW S, NEW q \in Seq(S), NEW x \in S
  PROVE  /\ Append(q, x) \in Seq(S)
         /\ ToSet(Append(q, x)) = ToSet(q) \cup {x}
         /\ IsInjective(q) /\ x \notin ToSet(q) => IsInjective(Append(q, x))
<1> DEFINE one == <<x>>
<1>1. Append(q, x) = q \o one /\ one \in Seq(S)
  BY AppendIsConcat
<1>2. ToSet(one) = {x} /\ IsInjective(one)
  BY DEF ToSet, IsInjective
<1> HIDE DEF one
<1>3. /\ q \o one \in Seq(S)
      /\ ToSet(q \o one) = ToSet(q) \cup ToSet(one)
      /\ IsInjective(q) /\ IsInjective(one) /\ ToSet(q) \cap ToSet(one) = {} => IsInjective(q \o one)
  BY <1>1, ConcatQueues
<1> QED
  BY <1>1, <1>2, <1>3

(* timer_check's sublists of the sleep queue are queues too.               *)
LEMMA ListingQueue ==
  ASSUME NEW s, NEW S \in SUBSET Tasks, NEW w \in Listing(s, S)
  PROVE  w \in Seq(Tasks) /\ IsInjective(w) /\ ToSet(w) = S
BY SetToSeqsIsSeq DEF Listing

(* One list, or two, one behind the other.                                 *)
LEMMA FlattenOne ==
  ASSUME NEW S, NEW s \in Seq(Seq(S)), Len(s) = 1
  PROVE  FlattenSeq(s) = s[1]
<1> DEFINE step(f) == [i \in 1 .. Len(s) |-> IF i = 1 THEN s[i] ELSE f[i - 1] \o s[i]]
           g == [i \in 1 .. 1 |-> s[1]]
           flat == CHOOSE f : f = step(f)
<1>1. g = step(g)
  OBVIOUS
<1>2. flat = step(flat)
  <2> HIDE DEF g
  <2> QED
    BY <1>1, Zenon
<1>3. flat[1] = s[1]
  <2>1. step(flat)[1] = s[1]
    OBVIOUS
  <2> HIDE DEF step, flat
  <2> QED
    BY <1>2, <2>1
<1>4. FlattenSeq(s) = flat[Len(s)]
  BY DEF FlattenSeq
<1> HIDE DEF flat
<1> QED
  BY <1>3, <1>4

(* Two lists, one behind the other.                                        *)
LEMMA FlattenTwo ==
  ASSUME NEW S, NEW s \in Seq(Seq(S)), Len(s) = 2
  PROVE  FlattenSeq(s) = s[1] \o s[2]
<1> DEFINE step(f) == [i \in 1 .. Len(s) |-> IF i = 1 THEN s[i] ELSE f[i - 1] \o s[i]]
           g == [i \in 1 .. 2 |-> IF i = 1 THEN s[1] ELSE s[1] \o s[2]]
           flat == CHOOSE f : f = step(f)
<1>1. g = step(g)
  OBVIOUS
<1>2. flat = step(flat)
  <2> HIDE DEF g
  <2> QED
    BY <1>1, Zenon
<1>3. step(flat)[1] = s[1] /\ step(flat)[2] = flat[1] \o s[2]
  <2> HIDE DEF flat
  <2>1. 1 \in 1 .. Len(s) /\ 2 \in 1 .. Len(s)
    OBVIOUS
  <2> QED
    BY <2>1
<1>4. flat[1] = s[1] /\ flat[2] = flat[1] \o s[2]
  <2> HIDE DEF step, flat
  <2> QED
    BY <1>2, <1>3
<1>5. FlattenSeq(s) = flat[Len(s)]
  BY DEF FlattenSeq
<1> HIDE DEF flat
<1> QED
  BY <1>4, <1>5

(* A queue with no members is empty.                                       *)
LEMMA NoMembers ==
  ASSUME NEW q \in Seq(Tasks), ToSet(q) = {}
  PROVE  q = <<>>
<1>1. Len(q) \in Nat /\ DOMAIN q = 1 .. Len(q)
  OBVIOUS
<1>2. CASE Len(q) = 0
  BY <1>2, EmptySeq
<1>3. CASE Len(q) # 0
  <2>1. q[1] \in ToSet(q)
    BY <1>1, <1>3 DEF ToSet
  <2> QED
    BY <2>1
<1> QED
  BY <1>2, <1>3

(* A queue that lists nobody twice lists each of its members once.         *)
LEMMA OnceInQueue ==
  ASSUME NEW q \in Seq(Tasks), IsInjective(q), NEW t \in ToSet(q)
  PROVE  Once(t, q)
<1>1. PICK i \in DOMAIN q : q[i] = t
  BY DEF ToSet
<1>2. {j \in DOMAIN q : q[j] = t} = {i}
  BY <1>1 DEF IsInjective
<1> QED
  BY <1>2, FS_Singleton DEF Once

-----------------------------------------------------------------------------
(* The invariant, in four parts.  Outside is where a hart may be without   *)
(* the kernel lock.                                                        *)
Outside == {"user", "enter", "restore"}
Within == {"call", "schedule", "pick", "switch", "retry", "leave"}

(* A task that was killed while it ran and runs on.                        *)
Undead(h) ==
  /\ current_running[h] \in Tasks
  /\ status[current_running[h]] = Dead /\ used[current_running[h]]

Running(h) == status[current_running[h]] = "RUNNING"

HartOK(h) ==
  /\ phase[h] \in Outside \cup Within
  /\ current_running[h] \in Tasks \cup {Pid0(h)}
  /\ phase[h] # "switch" => stack[h] = current_running[h]
  /\ phase[h] \in Outside \cup {"call", "leave"} => Running(h) \/ Undead(h)
  /\ phase[h] \in {"switch", "retry"} => Running(h)
  /\ phase[h] = "schedule" =>
       \/ Running(h)
       \/ current_running[h] \in Tasks /\ status[current_running[h]] \in {"BLOCKED", Dead}
  /\ phase[h] = "pick" => ~Running(h)

(* One hart at most is in the kernel, and the harts are with tasks and on  *)
(* kernel stacks of their own.                                             *)
HartInv ==
  /\ phase \in [Harts -> Outside \cup Within]
  /\ current_running \in [Harts -> PCBs] /\ stack \in [Harts -> PCBs]
  /\ \A h \in Harts : HartOK(h)
  /\ \A h \in Harts : phase[h] \in Within => phase[1 - h] \in Outside
  /\ kernel_lock <=> \E h \in Harts : phase[h] \in Within
  /\ current_running[0] # current_running[1]
  /\ \A h \in Harts : stack[h] # current_running[1 - h]

Statuses == {"READY", "RUNNING", "BLOCKED", Dead}
Lists == Tasks \cup Locks

(* Each task is in one place of one queue at most, as its status says.     *)
Ordered(rq, sq, wq) ==
  /\ rq \in Seq(Tasks) /\ IsInjective(rq)
  /\ sq \in Seq(Tasks) /\ IsInjective(sq)
  /\ wq \in [Lists -> Seq(Tasks)] /\ \A q \in Lists : IsInjective(wq[q])

Placed(st, rq, sq, wq) ==
  /\ \A t \in Tasks : t \in ToSet(rq) <=> st[t] = "READY"
  /\ \A t \in Tasks : t \in ToSet(sq) \/ (\E q \in Lists : t \in ToSet(wq[q])) <=> st[t] = "BLOCKED"
  /\ \A q \in Lists : ToSet(wq[q]) \cap ToSet(sq) = {}
  /\ \A q, r \in Lists : q # r => ToSet(wq[q]) \cap ToSet(wq[r]) = {}

QueueInv ==
  /\ status \in [PCBs -> Statuses]
  /\ Ordered(ready_queue, sleep_queue, wait_queue)
  /\ Placed(status, ready_queue, sleep_queue, wait_queue)

(* A task that runs has a hart, and nobody waits for one that has ended.   *)
LifeInv ==
  /\ used \in [Tasks -> BOOLEAN]
  /\ \A t \in Tasks :
       /\ status[t] = "RUNNING" => \E h \in Harts : current_running[h] = t
       /\ status[t] # Dead => used[t]
       /\ wait_queue[t] # <<>> => status[t] # Dead

(* A hart that has to find another task finds one that fits, or has just   *)
(* blocked its own before a lock that is taken.                            *)
SomeFit(rq, h) == rq = <<>> \/ \E t \in ToSet(rq) : Fits(t, h)

Awaits(c) ==
  /\ c \in Tasks /\ acquiring[c] \in Locks /\ lock_status[acquiring[c]] = "LOCKED"
  /\ c \in ToSet(wait_queue[acquiring[c]])

MaskInv ==
  /\ mask \in [PCBs -> 1 .. 3]
  /\ \A h \in Harts :
       /\ mask[Pid0(h)] = 3
       /\ Fits(current_running[h], h)
       /\ phase[h] = "schedule" =>
            Running(h) \/ Undead(h) \/ SomeFit(ready_queue, h) \/ Awaits(current_running[h])
       /\ phase[h] = "pick" =>
            \/ current_running[h] = Pid0(h) \/ Undead(h)
            \/ SomeFit(ready_queue, h) \/ Awaits(current_running[h])
  /\ \A t \in ToSet(sleep_queue) : mask[t] = 3

(* Who awaits a lock is bound to the hart on which it asked for it; who    *)
(* holds one neither sleeps nor waits.                                     *)
LockTypes ==
  /\ lock_status \in [Locks -> {"LOCKED", "UNLOCKED"}]
  /\ cpu \in [PCBs -> Harts]
  /\ lock_list \in [PCBs -> Seq(Locks)] /\ held \in [Tasks -> SUBSET Locks]
  /\ acquiring \in [PCBs -> Locks \cup {NoLock}]

LockInv ==
  /\ LockTypes
  /\ \A h \in Harts :
       /\ lock_list[Pid0(h)] = <<>> /\ acquiring[Pid0(h)] = NoLock
       /\ phase[h] = "retry" => acquiring[current_running[h]] # NoLock
       /\ phase[h] \in Outside \cup {"call", "leave"} => acquiring[current_running[h]] = NoLock
  /\ \A t \in Tasks :
       /\ \/ lock_list[t] = <<>> /\ held[t] = {}
          \/ \E l \in Locks : lock_list[t] = <<l>> /\ held[t] = {l}
       /\ held[t] # {} => status[t] \in {"READY", "RUNNING"}
       /\ acquiring[t] # NoLock =>
            mask[t] = cpu[t] + 1 /\ held[t] = {} /\ status[t] # Dead
  /\ \A t, u \in Tasks : t # u => held[t] \cap held[u] = {}
  /\ \A l \in Locks : lock_status[l] = "LOCKED" <=> \E t \in Tasks : l \in held[t]

SMPInv == HartInv /\ QueueInv /\ LifeInv /\ MaskInv /\ LockInv

(* The entries of the process table, and the harts.                        *)
LEMMA PCBFacts ==
  /\ PCBs = Tasks \cup {Pid0(0), Pid0(1)} /\ Tasks \subseteq PCBs
  /\ Pid0(0) # Pid0(1) /\ Pid0(0) \notin Tasks /\ Pid0(1) \notin Tasks
  /\ 0 \in Tasks
  /\ Harts = {0, 1} /\ 1 - 0 = 1 /\ 1 - 1 = 0
  /\ Tasks \subseteq Lists /\ Locks \subseteq Lists /\ NoLock \notin Locks
  /\ Tasks \cap Locks = {}
BY DEF PCBs, Tasks, Pid0, Harts, Lists

(* A task is in Waiting when some list of waiters has it.                  *)
LEMMA WaitingIn ==
  ASSUME NEW t
  PROVE  t \in Waiting <=> \E q \in Lists : t \in ToSet(wait_queue[q])
BY DEF Waiting, Lists

(* A step of a hart that has the kernel lock leaves the other hart alone,  *)
(* unless it kills the task that runs there.                               *)
LEMMA KernelStep ==
  ASSUME HartInv, NEW h \in Harts, phase[h] \in Within,
         NEW to \in Within, phase' = [phase EXCEPT ![h] = to],
         UNCHANGED <<stack, current_running, kernel_lock>>,
         LET c == current_running[1 - h]
         IN  /\ status'[c] = status[c] \/ (c \in Tasks /\ status'[c] = Dead)
             /\ c \in Tasks => used'[c],
         HartOK(h)'
  PROVE  HartInv'
<1>1. Within \cap Outside = {} /\ phase[1 - h] \in Outside /\ 1 - h \in Harts /\ h # 1 - h /\ 1 - (1 - h) = h
  BY PCBFacts DEF HartInv, Within, Outside
<1>2. Harts = {h, 1 - h}
  BY PCBFacts
<1>3. phase' \in [Harts -> Outside \cup Within] /\ phase'[h] = to /\ phase'[1 - h] = phase[1 - h]
  BY <1>1 DEF HartInv
<1>4. HartOK(1 - h)'
  BY <1>1, <1>3 DEF HartInv, HartOK, Running, Undead, Within, Outside
<1>5. \A i \in Harts : HartOK(i)'
  BY <1>2, <1>4
<1>6. \A i \in Harts : phase'[i] \in Within => phase'[1 - i] \in Outside
  BY <1>1, <1>2, <1>3
<1>7. kernel_lock' <=> \E i \in Harts : phase'[i] \in Within
  BY <1>3 DEF HartInv
<1> QED
  BY <1>3, <1>5, <1>6, <1>7 DEF HartInv

(* While a hart is in the kernel the task of the other one runs or was     *)
(* killed, and keeps its slot.                                             *)
LEMMA OtherHart ==
  ASSUME SMPInv, NEW h \in Harts, phase[h] \in Within
  PROVE  LET d == current_running[1 - h]
         IN  /\ 1 - h \in Harts /\ h # 1 - h /\ Harts = {h, 1 - h}
             /\ phase[1 - h] \in Outside
             /\ d \in Tasks \cup {Pid0(1 - h)} /\ d # current_running[h]
             /\ status[d] = "RUNNING" \/ (d \in Tasks /\ status[d] = Dead)
             /\ d \in Tasks => used[d]
<1>1. 1 - h \in Harts /\ h # 1 - h /\ Harts = {h, 1 - h}
  BY PCBFacts
<1>2. phase[1 - h] \in Outside /\ current_running[h] # current_running[1 - h]
  BY <1>1 DEF SMPInv, HartInv, Harts
<1>3. HartOK(1 - h)
  BY <1>1 DEF SMPInv, HartInv
<1>4. \A t \in Tasks : status[t] # Dead => used[t]
  BY DEF SMPInv, LifeInv
<1> QED
  BY <1>1, <1>2, <1>3, <1>4 DEF HartOK, Running, Undead, Dead

(* Traps, the kernel lock, the timer and the way back change the phase of  *)
(* their hart alone.                                                       *)
LEMMA MovesKeepInv ==
  ASSUME SMPInv, NEW h \in Harts,
         Trap(h) \/ LockKernel(h) \/ TimerInterrupt(h) \/ UnlockKernel(h) \/ Restore(h)
  PROVE  SMPInv'
<1> USE DEF Within, Outside
<1>1. /\ UNCHANGED <<stack, current_running, used, status, mask, queues, lockVars>>
      /\ phase' = [phase EXCEPT ![h] = phase'[h]]
      /\ phase' \in [Harts -> Outside \cup Within]
      /\ phase \in [Harts -> Outside \cup Within]
  BY DEF Trap, LockKernel, TimerInterrupt, UnlockKernel, Restore, Goto, SMPInv, HartInv
<1>2. /\ phase'[h] \in Outside \cup Within
      /\ phase'[h] \notin {"switch", "retry", "pick"}
      /\ phase[h] \in Outside \cup {"call", "leave"}
      /\ phase'[h] = "schedule" => phase[h] = "call"
  BY <1>1 DEF Trap, LockKernel, TimerInterrupt, UnlockKernel, Restore, Goto
<1>3. QueueInv' /\ LifeInv'
  BY <1>1 DEF SMPInv, QueueInv, LifeInv, queues
<1>4. MaskInv'
  BY <1>1, <1>2 DEF SMPInv, MaskInv, HartInv, HartOK, Running, Undead, SomeFit, Fits, Awaits, queues, lockVars
<1>5. LockInv'
  BY <1>1, <1>2 DEF SMPInv, LockInv, LockTypes, lockVars
<1>6. HartInv'
  <2>1. ASSUME NEW i \in Harts PROVE HartOK(i)'
    <3>1. HartOK(i) /\ HartOK(h)
      BY DEF SMPInv, HartInv
    <3>2. CASE i = h
      <4>1. /\ stack[h] = current_running[h] /\ (Running(h) \/ Undead(h))
            /\ current_running[h] \in Tasks \cup {Pid0(h)}
        BY <1>2, <3>1 DEF HartOK
      <4>2. UNCHANGED <<stack, current_running, status, used>>
        BY <1>1
      <4> QED
        BY <1>2, <3>2, <4>1, <4>2 DEF HartOK, Running, Undead
    <3>3. CASE i # h
      <4>1. phase'[i] = phase[i]
        BY <1>1, <3>3
      <4> QED
        BY <1>1, <3>1, <4>1 DEF HartOK, Running, Undead
    <3> QED
      BY <3>2, <3>3
  <2>2. /\ \A i \in Harts : phase'[i] \in Within => phase'[1 - i] \in Outside
        /\ kernel_lock' <=> \E i \in Harts : phase'[i] \in Within
    <3>1. CASE Trap(h)
      BY <1>1, <3>1, PCBFacts DEF Trap, Goto, SMPInv, HartInv
    <3>2. CASE LockKernel(h)
      BY <1>1, <3>2, PCBFacts DEF LockKernel, Goto, SMPInv, HartInv
    <3>3. CASE TimerInterrupt(h)
      BY <1>1, <3>3, PCBFacts DEF TimerInterrupt, Goto, SMPInv, HartInv
    <3>4. CASE UnlockKernel(h)
      BY <1>1, <3>4, PCBFacts DEF UnlockKernel, Goto, SMPInv, HartInv
    <3>5. CASE Restore(h)
      BY <1>1, <3>5, PCBFacts DEF Restore, Goto, SMPInv, HartInv
    <3> QED
      BY <3>1, <3>2, <3>3, <3>4, <3>5
  <2> QED
    BY <1>1, <1>2, <2>1, <2>2, Zenon DEF SMPInv, HartInv
<1> QED
  BY <1>3, <1>4, <1>5, <1>6 DEF SMPInv

(* switch_to changes the stack only.                                       *)
LEMMA SwitchKeepsInv ==
  ASSUME SMPInv, NEW h \in Harts, SwitchTo(h)
  PROVE  SMPInv'
<1> DEFINE to == IF acquiring[Caller(h)] = NoLock THEN "leave" ELSE "retry"
           c == current_running[h]
<1>1. /\ UNCHANGED <<kernel_lock, current_running, used, status, mask, queues, lockVars>>
      /\ phase[h] = "switch" /\ phase' = [phase EXCEPT ![h] = to]
      /\ stack' = [stack EXCEPT ![h] = c]
  BY DEF SwitchTo, Goto, Caller
<1>2. to \in {"leave", "retry"} /\ (to = "retry" <=> acquiring[c] # NoLock)
  BY DEF Caller
<1>3. phase[h] \in Within /\ to \in Within /\ to \notin Outside /\ Within \cap Outside = {}
  BY <1>1, <1>2 DEF Within, Outside
<1>4. /\ 1 - h \in Harts /\ h # 1 - h /\ Harts = {h, 1 - h} /\ 1 - (1 - h) = h
      /\ phase[1 - h] \in Outside
  BY <1>3, OtherHart, PCBFacts
<1> HIDE DEF to
<1>5. /\ phase'[h] = to /\ phase'[1 - h] = phase[1 - h] /\ phase' \in [Harts -> Outside \cup Within]
      /\ stack'[h] = c /\ stack'[1 - h] = stack[1 - h] /\ stack' \in [Harts -> PCBs]
      /\ c \in PCBs
  BY <1>1, <1>3, <1>4 DEF SMPInv, HartInv
<1>6. QueueInv' /\ LifeInv'
  BY <1>1 DEF SMPInv, QueueInv, LifeInv, queues
<1>7. MaskInv'
  BY <1>1, <1>2, <1>4, <1>5 DEF SMPInv, MaskInv, Running, Undead, SomeFit, Fits, Awaits, queues, lockVars
<1>8. LockInv'
  <2>1. \A i \in Harts :
          /\ phase'[i] = "retry" => acquiring[current_running[i]] # NoLock
          /\ phase'[i] \in Outside \cup {"call", "leave"} => acquiring[current_running[i]] = NoLock
    BY <1>2, <1>3, <1>4, <1>5 DEF SMPInv, LockInv
  <2>2. UNCHANGED <<lockVars, current_running, status, mask>>
    BY <1>1
  <2> QED
    BY <2>1, <2>2 DEF SMPInv, LockInv, LockTypes, lockVars
<1>9. HartInv'
  <2>1. HartOK(h)'
    <3>1. HartOK(h)
      BY DEF SMPInv, HartInv
    <3> QED
      BY <1>1, <1>2, <1>5, <3>1 DEF HartOK, Running, Undead, Outside, Within
  <2>2. HartOK(1 - h)'
    <3>1. HartOK(1 - h)
      BY <1>4 DEF SMPInv, HartInv
    <3> QED
      BY <1>1, <1>4, <1>5, <3>1 DEF HartOK, Running, Undead
  <2>3. c # current_running[1 - h]
    BY <1>3, OtherHart
  <2>4. stack'[1 - h] # c /\ stack'[h] # current_running[1 - h]
    BY <1>4, <1>5, <2>3 DEF SMPInv, HartInv, HartOK, Outside
  <2>5. \A i \in Harts : HartOK(i)' /\ stack'[i] # current_running'[1 - i]
    BY <1>1, <1>4, <2>1, <2>2, <2>4
  <2>6. /\ \A i \in Harts : phase'[i] \in Within => phase'[1 - i] \in Outside
        /\ kernel_lock' <=> \E i \in Harts : phase'[i] \in Within
    BY <1>1, <1>3, <1>4, <1>5 DEF SMPInv, HartInv
  <2> QED
    BY <1>1, <1>5, <2>5, <2>6 DEF SMPInv, HartInv
<1> QED
  BY <1>6, <1>7, <1>8, <1>9 DEF SMPInv

(* do_scheduler up to the choice: timer_check, and the caller goes to the  *)
(* ready queue if it still runs.                                           *)
LEMMA RequeueLists ==
  ASSUME SMPInv, NEW h \in Harts, Requeue(h)
  PROVE  LET c == current_running[h]
             again == IF c \in Tasks /\ status[c] = "RUNNING" THEN {c} ELSE {}
         IN  \E due \in SUBSET ToSet(sleep_queue) :
               /\ Ordered(ready_queue', sleep_queue', wait_queue)
               /\ ToSet(ready_queue') = ToSet(ready_queue) \cup due \cup again
               /\ ToSet(sleep_queue') = ToSet(sleep_queue) \ due
               /\ \A t \in PCBs : status'[t] = IF t \in due \cup again \/ (t = c /\ status[c] = "RUNNING")
                                              THEN "READY" ELSE status[t]
               /\ status' \in [PCBs -> Statuses]
<1> DEFINE c == current_running[h]
           again == IF c \in Tasks /\ status[c] = "RUNNING" THEN {c} ELSE {}
           req == IF status[c] = "RUNNING" /\ c \in Tasks THEN <<c>> ELSE <<>>
<1>1. PICK due \in SUBSET ToSet(sleep_queue) :
        \E woken \in Listing(sleep_queue, due), asleep \in Listing(sleep_queue, ToSet(sleep_queue) \ due) :
           /\ ToSet(req) \cap Linked = {}
           /\ sleep_queue' = asleep
           /\ ready_queue' = ready_queue \o woken \o req
           /\ status' = [Ready(status, woken) EXCEPT ![c] = IF status[c] = "RUNNING" THEN "READY" ELSE @]
  BY DEF Requeue, Caller
<1>2. PICK woken \in Listing(sleep_queue, due), asleep \in Listing(sleep_queue, ToSet(sleep_queue) \ due) :
           /\ ToSet(req) \cap Linked = {}
           /\ sleep_queue' = asleep
           /\ ready_queue' = ready_queue \o woken \o req
           /\ status' = [Ready(status, woken) EXCEPT ![c] = IF status[c] = "RUNNING" THEN "READY" ELSE @]
  BY <1>1
<1>3. /\ Ordered(ready_queue, sleep_queue, wait_queue)
      /\ Placed(status, ready_queue, sleep_queue, wait_queue)
      /\ status \in [PCBs -> Statuses] /\ c \in PCBs /\ Tasks \subseteq PCBs
  BY PCBFacts DEF SMPInv, QueueInv, HartInv
<1>4. ToSet(sleep_queue) \in SUBSET Tasks
  BY <1>3 DEF Ordered, ToSet
<1>5. /\ woken \in Seq(Tasks) /\ IsInjective(woken) /\ ToSet(woken) = due
      /\ asleep \in Seq(Tasks) /\ IsInjective(asleep) /\ ToSet(asleep) = ToSet(sleep_queue) \ due
  BY <1>4, ListingQueue
<1>6. req \in Seq(Tasks) /\ IsInjective(req) /\ ToSet(req) = again
  BY EmptyQueue DEF IsInjective, ToSet
<1>7. again \cap (ToSet(ready_queue) \cup ToSet(sleep_queue)) = {}
  BY <1>2, <1>6 DEF Linked
<1> HIDE DEF req, again
<1>8. due \cap ToSet(ready_queue) = {}
  BY <1>3, <1>4 DEF Placed
<1> DEFINE r == ready_queue \o woken
<1>9. r \in Seq(Tasks) /\ IsInjective(r) /\ ToSet(r) = ToSet(ready_queue) \cup due
  BY <1>3, <1>5, <1>8, ConcatQueues DEF Ordered
<1> HIDE DEF r
<1>10. ToSet(r) \cap ToSet(req) = {}
  BY <1>6, <1>7, <1>9
<1>11. r \o req \in Seq(Tasks) /\ IsInjective(r \o req) /\ ToSet(r \o req) = ToSet(r) \cup ToSet(req)
  BY <1>6, <1>9, <1>10, ConcatQueues
<1>12. ready_queue' = r \o req
  BY <1>2 DEF r
<1>13. /\ Ordered(ready_queue', sleep_queue', wait_queue)
       /\ ToSet(ready_queue') = ToSet(ready_queue) \cup due \cup again
       /\ ToSet(sleep_queue') = ToSet(sleep_queue) \ due
  BY <1>2, <1>3, <1>5, <1>6, <1>9, <1>11, <1>12 DEF Ordered
<1>14. /\ \A t \in PCBs : status'[t] = IF t \in due \cup again \/ (t = c /\ status[c] = "RUNNING")
                                        THEN "READY" ELSE status[t]
       /\ status' \in [PCBs -> Statuses]
  BY <1>2, <1>3, <1>5 DEF Ready, again, Statuses
<1> QED
  BY <1>13, <1>14 DEF again

(* do_scheduler up to the choice keeps the invariant: due sleepers and the *)
(* preempted task are queued, none of whom was in the ready queue.         *)
LEMMA RequeueKeepsInv ==
  ASSUME SMPInv, NEW h \in Harts, Requeue(h)
  PROVE  SMPInv'
<1> DEFINE c == current_running[h]
           d == current_running[1 - h]
           again == IF c \in Tasks /\ status[c] = "RUNNING" THEN {c} ELSE {}
<1>1. /\ phase[h] = "schedule" /\ phase' = [phase EXCEPT ![h] = "pick"]
      /\ UNCHANGED <<stack, kernel_lock, current_running, used, mask, wait_queue, lockVars>>
      /\ phase[h] \in Within
  BY DEF Requeue, Goto, Within
<1>2. PICK due \in SUBSET ToSet(sleep_queue) :
        /\ Ordered(ready_queue', sleep_queue', wait_queue)
        /\ ToSet(ready_queue') = ToSet(ready_queue) \cup due \cup again
        /\ ToSet(sleep_queue') = ToSet(sleep_queue) \ due
        /\ \A t \in PCBs : status'[t] = IF t \in due \cup again \/ (t = c /\ status[c] = "RUNNING")
                                        THEN "READY" ELSE status[t]
        /\ status' \in [PCBs -> Statuses]
  BY RequeueLists
<1>3. /\ Ordered(ready_queue, sleep_queue, wait_queue)
      /\ Placed(status, ready_queue, sleep_queue, wait_queue)
      /\ c \in Tasks \cup {Pid0(h)} /\ c \in PCBs /\ Tasks \subseteq PCBs /\ Pid0(h) \notin Tasks
  BY PCBFacts DEF SMPInv, QueueInv, HartInv, HartOK, Harts
<1>4. /\ ToSet(sleep_queue) \in SUBSET Tasks /\ ToSet(ready_queue) \in SUBSET Tasks
      /\ \A q \in Lists : ToSet(wait_queue[q]) \in SUBSET Tasks
  BY <1>3 DEF Ordered, ToSet
<1>5. \A t \in due : status[t] = "BLOCKED" /\ t \in Tasks
  BY <1>3, <1>4 DEF Placed
<1>6. /\ d \in PCBs /\ d # c /\ status[d] # "BLOCKED"
      /\ d \in Tasks => used[d]
  BY <1>1, OtherHart, PCBFacts DEF Dead, SMPInv, HartInv
<1> HIDE DEF c, d
<1>7. again \subseteq {c} /\ (again # {} => c \in Tasks /\ status[c] = "RUNNING") /\ (c \in Tasks /\ status[c] = "RUNNING" => again = {c})
  OBVIOUS
<1> HIDE DEF again
<1>8. Placed(status', ready_queue', sleep_queue', wait_queue)
  <2>1. \A t \in Tasks : t \in ToSet(ready_queue') <=> status'[t] = "READY"
    BY <1>2, <1>3, <1>5, <1>7 DEF Placed
  <2>2. \A t \in Tasks : t \in ToSet(sleep_queue') \/ (\E q \in Lists : t \in ToSet(wait_queue[q])) <=> status'[t] = "BLOCKED"
    BY <1>2, <1>3, <1>5, <1>7 DEF Placed
  <2> QED
    BY <1>2, <1>3, <2>1, <2>2 DEF Placed
<1>9. QueueInv'
  BY <1>1, <1>2, <1>8 DEF QueueInv
<1>10. LifeInv'
  <2>1. \A t \in Tasks : /\ status'[t] = "RUNNING" => status[t] = "RUNNING"
                         /\ status'[t] = Dead <=> status[t] = Dead
    BY <1>2, <1>3, <1>5, <1>7 DEF Dead
  <2> QED
    BY <1>1, <2>1 DEF SMPInv, LifeInv
<1>11. HartInv'
  <2>1. status'[c] # "RUNNING" /\ status'[d] = status[d]
    BY <1>2, <1>3, <1>5, <1>6, <1>7
  <2>2. phase'[h] = "pick"
    BY <1>1 DEF SMPInv, HartInv
  <2>3. stack[h] = c
    BY <1>1 DEF SMPInv, HartInv, HartOK, c
  <2>4. HartOK(h)'
    BY <1>1, <1>3, <2>1, <2>2, <2>3 DEF HartOK, Running, Undead, Outside, Within, c
  <2> QED
    BY <1>1, <1>6, <2>1, <2>4, KernelStep DEF SMPInv, Within, d
<1>12. MaskInv'
  <2>1. \A i \in Harts \ {h} : phase'[i] \notin {"schedule", "pick"}
    BY <1>1, OtherHart DEF SMPInv, HartInv, Outside
  <2>2. Running(h) \/ Undead(h) \/ SomeFit(ready_queue, h) \/ Awaits(c)
    BY <1>1 DEF SMPInv, MaskInv, c
  <2>3. Fits(c, h) /\ \A t \in due : mask[t] = 3
    BY <1>2 DEF SMPInv, MaskInv, c
  <2>4. c = Pid0(h) \/ Undead(h)' \/ SomeFit(ready_queue, h)' \/ Awaits(c)'
    <3>1. CASE Running(h)
      <4>1. c \in Tasks => c \in ToSet(ready_queue')
        BY <1>2, <1>7, <3>1 DEF Running, c
      <4>2. mask'[c] \in {3, h + 1}
        BY <1>1, <2>3 DEF Fits
      <4> QED
        BY <1>3, <4>1, <4>2 DEF SomeFit, Fits
    <3>2. CASE Undead(h)
      <4>1. status[c] = Dead /\ c \in Tasks /\ c \notin due
        BY <1>5, <3>2 DEF Undead, c, Dead
      <4>2. status'[c] = Dead
        BY <1>2, <1>3, <1>7, <4>1 DEF Dead
      <4> QED
        BY <1>1, <3>2, <4>2 DEF Undead, c
    <3>3. CASE SomeFit(ready_queue, h) /\ ~Running(h)
      <4>1. CASE ready_queue = <<>> /\ due = {}
        <5>1. again = {}
          BY <1>7, <3>3 DEF Running, c
        <5>2. ToSet(ready_queue') = {}
          BY <1>2, <4>1, <5>1, EmptyQueue
        <5>3. ready_queue' = <<>>
          <6>1. ready_queue' \in Seq(Tasks)
            BY <1>2 DEF Ordered
          <6> QED
            BY <5>2, <6>1, NoMembers
        <5> QED
          BY <5>3 DEF SomeFit
      <4>2. CASE due # {}
        <5>1. PICK t \in due : TRUE
          BY <4>2
        <5>2. t \in ToSet(ready_queue') /\ Fits(t, h)'
          BY <1>1, <1>2, <2>3, <5>1 DEF Fits
        <5> QED
          BY <5>2 DEF SomeFit
      <4>3. CASE ready_queue # <<>>
        <5>1. PICK t \in ToSet(ready_queue) : Fits(t, h)
          BY <3>3, <4>3 DEF SomeFit
        <5>2. t \in ToSet(ready_queue') /\ Fits(t, h)'
          BY <1>1, <1>2, <5>1 DEF Fits
        <5> QED
          BY <5>2 DEF SomeFit
      <4> QED
        BY <4>1, <4>2, <4>3
    <3>4. CASE Awaits(c)
      <4>1. UNCHANGED <<current_running, acquiring, lock_status, wait_queue>>
        BY <1>1 DEF lockVars
      <4> QED
        BY <3>4, <4>1 DEF Awaits, c
    <3> QED
      BY <2>2, <3>1, <3>2, <3>3, <3>4
  <2>5. \A t \in ToSet(sleep_queue') : mask[t] = 3
    BY <1>2 DEF SMPInv, MaskInv
  <2>6. phase'[h] = "pick"
    BY <1>1 DEF SMPInv, HartInv
  <2> QED
    BY <1>1, <2>1, <2>4, <2>5, <2>6 DEF SMPInv, MaskInv, Fits, c
<1>13. LockInv'
  <2>1. \A t \in Tasks : /\ status[t] \in {"READY", "RUNNING"} => status'[t] \in {"READY", "RUNNING"}
                         /\ status[t] # Dead => status'[t] # Dead
    BY <1>2, <1>3 DEF Dead
  <2>2. \A i \in Harts : phase'[i] = phase[i] \/ phase'[i] = "pick"
    BY <1>1 DEF SMPInv, HartInv
  <2>3. UNCHANGED <<lockVars, mask, current_running>>
    BY <1>1
  <2>4. LockTypes'
    BY <2>3 DEF SMPInv, LockInv, LockTypes, lockVars
  <2>5. \A i \in Harts :
          /\ phase'[i] = "retry" => acquiring[current_running[i]] # NoLock
          /\ phase'[i] \in Outside \cup {"call", "leave"} => acquiring[current_running[i]] = NoLock
    BY <2>2 DEF SMPInv, LockInv, Outside
  <2> QED
    BY <2>1, <2>3, <2>4, <2>5 DEF SMPInv, LockInv, lockVars
<1> QED
  BY <1>9, <1>10, <1>11, <1>12, <1>13 DEF SMPInv

(* A hart that blocked its task before a lock that is taken, with only     *)
(* tasks of the other hart ready, goes on with that task.  It has the      *)
(* kernel lock and comes to no end; the other hart does not get in.        *)
Spins(h) ==
  LET c == current_running[h]
  IN  /\ phase \in [Harts -> Outside \cup Within] /\ kernel_lock
      /\ phase[h] \in {"switch", "retry"} /\ phase[1 - h] \in Outside
      /\ Awaits(c) /\ current_running[cpu[c]] = c
      /\ stack \in [Harts -> PCBs] /\ stack[h] = c /\ stack[1 - h] # c
      /\ \A t, u \in Tasks : t # u => held[t] \cap held[u] = {}
      /\ NobodyWaitsForTheDead

(* The next task is the idle one of the hart, a ready one that fits, or    *)
(* the caller because none fits: one that was killed, or one that waits    *)
(* for a lock.                                                             *)
LEMMA PickChoice ==
  ASSUME SMPInv, NEW h \in Harts, Pick(h)
  PROVE  \/ /\ Awaits(current_running[h]) /\ status[current_running[h]] = "BLOCKED"
            /\ Run(h, current_running[h], ready_queue)
         \/ \E next \in PCBs :
           /\ current_running' = [current_running EXCEPT ![h] = next]
           /\ status' = [status EXCEPT ![next] = "RUNNING"]
           /\ Ordered(ready_queue', sleep_queue, wait_queue)
           /\ ToSet(ready_queue') = ToSet(ready_queue) \ {next}
           /\ Fits(next, h)
           /\ \/ next = Pid0(h)
              \/ next \in Tasks /\ status[next] = "READY"
              \/ next = current_running[h] /\ Undead(h)
<1> DEFINE c == current_running[h]
<1>1. /\ Ordered(ready_queue, sleep_queue, wait_queue)
      /\ Placed(status, ready_queue, sleep_queue, wait_queue)
      /\ c \in PCBs /\ Tasks \subseteq PCBs /\ Pid0(h) \in PCBs /\ Pid0(h) \notin Tasks
      /\ mask[Pid0(h)] = 3 /\ Fits(c, h)
  BY PCBFacts DEF SMPInv, QueueInv, HartInv, MaskInv
<1>2. ToSet(ready_queue) \in SUBSET Tasks
  BY <1>1 DEF Ordered, ToSet
<1>3. c = Pid0(h) \/ Undead(h) \/ SomeFit(ready_queue, h) \/ (Awaits(c) /\ status[c] = "BLOCKED")
  <2>1. c = Pid0(h) \/ Undead(h) \/ SomeFit(ready_queue, h) \/ Awaits(c)
    BY DEF SMPInv, MaskInv, Pick, Goto
  <2>2. Awaits(c) => status[c] = "BLOCKED"
    BY <1>1, PCBFacts DEF Awaits, Placed
  <2> QED
    BY <2>1, <2>2
<1>4. CASE ready_queue = <<>> /\ Run(h, Pid0(h), <<>>)
  BY <1>1, <1>2, <1>4 DEF Run, Fits, Ordered
<1>5. ASSUME NEW i \in DOMAIN ready_queue, FirstFit(i, h), Run(h, ready_queue[i], RemoveAt(ready_queue, i))
      PROVE  \E next \in PCBs :
           /\ current_running' = [current_running EXCEPT ![h] = next]
           /\ status' = [status EXCEPT ![next] = "RUNNING"]
           /\ Ordered(ready_queue', sleep_queue, wait_queue)
           /\ ToSet(ready_queue') = ToSet(ready_queue) \ {next}
           /\ Fits(next, h)
           /\ \/ next = Pid0(h)
              \/ next \in Tasks /\ status[next] = "READY"
              \/ next = current_running[h] /\ Undead(h)
  <2> DEFINE next == ready_queue[i]
             r == RemoveAt(ready_queue, i)
  <2>1. next \in ToSet(ready_queue)
    BY DEF ToSet
  <2>2. next \in Tasks /\ status[next] = "READY" /\ next \in PCBs
    BY <1>1, <1>2, <2>1 DEF Placed
  <2>3. r \in Seq(Tasks) /\ IsInjective(r) /\ ToSet(r) = ToSet(ready_queue) \ {next}
    BY <1>1, RemoveAtQueue DEF Ordered
  <2>4. ready_queue' = r /\ Fits(next, h)
        /\ current_running' = [current_running EXCEPT ![h] = next]
        /\ status' = [status EXCEPT ![next] = "RUNNING"]
    BY <1>5 DEF Run, FirstFit
  <2> HIDE DEF next, r
  <2> QED
    BY <1>1, <2>2, <2>3, <2>4 DEF Ordered
<1>6. CASE /\ ready_queue # <<>> /\ \A i \in DOMAIN ready_queue : ~Fits(ready_queue[i], h)
           /\ Run(h, c, ready_queue)
  <2>1. c = Pid0(h) \/ Undead(h) \/ (Awaits(c) /\ status[c] = "BLOCKED")
    BY <1>3, <1>6 DEF SomeFit, ToSet
  <2>2. CASE c = Pid0(h) \/ Undead(h)
    <3>1. c \notin ToSet(ready_queue)
      BY <1>1, <1>2, <2>2 DEF Placed, Undead, Dead
    <3> QED
      BY <1>1, <1>6, <2>2, <3>1 DEF Run
  <2> QED
    BY <1>6, <2>1, <2>2
<1> QED
  BY <1>4, <1>5, <1>6 DEF Pick, Caller

(* The task that goes on although it waits is in front of its lock for     *)
(* good.                                                                   *)
LEMMA PickSpins ==
  ASSUME SMPInv, NEW h \in Harts, Pick(h),
         Awaits(current_running[h]), Run(h, current_running[h], ready_queue)
  PROVE  Spins(h)'
<1> DEFINE c == current_running[h]
<1>1. /\ phase[h] = "pick" /\ phase' = [phase EXCEPT ![h] = "switch"]
      /\ UNCHANGED <<stack, kernel_lock, used, mask, sleep_queue, wait_queue, lockVars>>
      /\ phase[h] \in Within
  BY DEF Pick, Goto, Within
<1>2. /\ 1 - h \in Harts /\ h # 1 - h /\ phase[1 - h] \in Outside
      /\ phase \in [Harts -> Outside \cup Within] /\ stack \in [Harts -> PCBs]
      /\ stack[h] = c /\ stack[1 - h] # c /\ kernel_lock /\ c \in Tasks
  <2>1. /\ 1 - h \in Harts /\ h # 1 - h /\ 1 - (1 - h) = h /\ phase[1 - h] \in Outside
    BY <1>1, OtherHart, PCBFacts
  <2>2. stack[h] = c
    BY <1>1 DEF SMPInv, HartInv, HartOK
  <2>3. stack[1 - h] # c
    BY <2>1 DEF SMPInv, HartInv
  <2>4. kernel_lock /\ phase \in [Harts -> Outside \cup Within] /\ stack \in [Harts -> PCBs]
    BY <1>1 DEF SMPInv, HartInv
  <2> QED
    BY <2>1, <2>2, <2>3, <2>4 DEF Awaits
<1>3. /\ phase'[h] = "switch" /\ phase'[1 - h] = phase[1 - h]
      /\ phase' \in [Harts -> Outside \cup Within]
  BY <1>1, <1>2 DEF Within
<1>4. current_running' = current_running /\ \A t \in Tasks \ {c} : status'[t] = status[t]
  <2>1. current_running' = [current_running EXCEPT ![h] = c] /\ status' = [status EXCEPT ![c] = "RUNNING"]
    BY DEF Run
  <2> QED
    BY <2>1, PCBFacts DEF SMPInv, HartInv, QueueInv
<1>5. cpu[c] = h
  <2>1. mask[c] = cpu[c] + 1 /\ cpu[c] \in {0, 1}
    BY <1>2, PCBFacts DEF SMPInv, LockInv, LockTypes, Harts, Awaits
  <2> QED
    BY <2>1 DEF SMPInv, MaskInv, Fits, Harts
<1>6. status[c] # Dead /\ \A t \in Tasks : wait_queue[t] # <<>> => used[t] /\ status[t] # Dead
  <2>1. acquiring[c] # NoLock
    BY PCBFacts DEF Awaits
  <2> QED
    BY <1>2, <2>1 DEF SMPInv, LifeInv, LockInv
<1>7. NobodyWaitsForTheDead'
  <2> SUFFICES ASSUME NEW t \in Tasks, wait_queue[t] # <<>> PROVE used[t] /\ status'[t] # Dead
    BY <1>1 DEF NobodyWaitsForTheDead
  <2>1. status'[c] = "RUNNING"
    BY <1>2, PCBFacts DEF Run, SMPInv, QueueInv
  <2> QED
    BY <1>4, <1>6, <2>1 DEF Dead
<1>8. UNCHANGED <<lock_status, acquiring, cpu, held, wait_queue, stack, kernel_lock>>
  BY <1>1 DEF lockVars
<1>9. Awaits(c)' /\ \A t, u \in Tasks : t # u => held'[t] \cap held'[u] = {}
  BY <1>4, <1>8 DEF Awaits, SMPInv, LockInv
<1>10. current_running'[h] = c /\ current_running'[cpu'[c]] = c
  BY <1>4, <1>5, <1>8
<1> QED
  BY <1>2, <1>3, <1>7, <1>8, <1>9, <1>10 DEF Spins

(* The choice of the next task keeps the invariant: the first that fits is *)
(* in no other queue and on no other hart; the hart is still on the stack  *)
(* of the task it leaves.                                                  *)
LEMMA PickKeepsInv ==
  ASSUME SMPInv, NEW h \in Harts, Pick(h), ~Spins(h)'
  PROVE  SMPInv'
<1> DEFINE c == current_running[h]
           d == current_running[1 - h]
<1>1. /\ phase[h] = "pick" /\ phase' = [phase EXCEPT ![h] = "switch"]
      /\ UNCHANGED <<stack, kernel_lock, used, mask, sleep_queue, wait_queue, lockVars>>
      /\ phase[h] \in Within
  BY DEF Pick, Goto, Within
<1>2. PICK next \in PCBs :
           /\ current_running' = [current_running EXCEPT ![h] = next]
           /\ status' = [status EXCEPT ![next] = "RUNNING"]
           /\ Ordered(ready_queue', sleep_queue, wait_queue)
           /\ ToSet(ready_queue') = ToSet(ready_queue) \ {next}
           /\ Fits(next, h)
           /\ \/ next = Pid0(h)
              \/ next \in Tasks /\ status[next] = "READY"
              \/ next = c /\ Undead(h)
  BY PickChoice, PickSpins
<1>3. /\ Ordered(ready_queue, sleep_queue, wait_queue)
      /\ Placed(status, ready_queue, sleep_queue, wait_queue)
      /\ c \in PCBs /\ Tasks \subseteq PCBs /\ Pid0(h) \notin Tasks /\ Pid0(h) # Pid0(1 - h)
      /\ status \in [PCBs -> Statuses] /\ current_running \in [Harts -> PCBs]
  BY PCBFacts DEF SMPInv, QueueInv, HartInv
<1>4. /\ 1 - h \in Harts /\ h # 1 - h /\ Harts = {h, 1 - h} /\ 1 - (1 - h) = h
      /\ phase[1 - h] \in Outside /\ phase \in [Harts -> Outside \cup Within]
      /\ d \in Tasks \cup {Pid0(1 - h)} /\ d # c
      /\ status[d] = "RUNNING" \/ (d \in Tasks /\ status[d] = Dead)
      /\ stack[h] = c /\ stack[1 - h] = d /\ stack \in [Harts -> PCBs]
      /\ ~Running(h)
  BY <1>1, OtherHart, PCBFacts DEF SMPInv, HartInv, HartOK, Outside
<1>5. next # d
  BY <1>2, <1>3, <1>4 DEF Dead
<1>6. /\ status'[next] = "RUNNING" /\ \A t \in PCBs \ {next} : status'[t] = status[t]
      /\ status' \in [PCBs -> Statuses]
      /\ current_running'[h] = next /\ current_running'[1 - h] = d /\ current_running' \in [Harts -> PCBs]
      /\ phase'[h] = "switch" /\ phase'[1 - h] = phase[1 - h] /\ phase' \in [Harts -> Outside \cup Within]
  BY <1>1, <1>2, <1>3, <1>4 DEF Statuses, Within
<1>7. next \in Tasks => used[next] /\ status[next] \in {"READY", Dead} /\ (status[next] = Dead => next = c)
  BY <1>2, <1>3 DEF SMPInv, LifeInv, Undead, Dead
<1>8. QueueInv'
  <2>1. Placed(status', ready_queue', sleep_queue, wait_queue)
    BY <1>2, <1>3, <1>6, <1>7 DEF Placed, Dead
  <2> QED
    BY <1>1, <1>2, <1>6, <2>1 DEF QueueInv
<1>9. LifeInv'
  <2>1. ASSUME NEW t \in Tasks, status'[t] = "RUNNING" PROVE \E i \in Harts : current_running'[i] = t
    <3>1. CASE t = next
      BY <1>6, <3>1
    <3>2. CASE t # next
      <4>1. PICK i \in Harts : current_running[i] = t
        BY <1>3, <1>6, <2>1, <3>2 DEF SMPInv, LifeInv
      <4>2. i # h
        BY <1>3, <1>4, <1>6, <2>1, <3>2, <4>1 DEF Running
      <4> QED
        BY <1>4, <1>6, <4>1, <4>2
    <3> QED
      BY <3>1, <3>2
  <2>2. ASSUME NEW t \in Tasks
        PROVE  /\ status'[t] # Dead => used[t]
               /\ wait_queue[t] # <<>> => status'[t] # Dead
    BY <1>3, <1>6, <1>7 DEF SMPInv, LifeInv, Dead
  <2> QED
    BY <1>1, <2>1, <2>2 DEF SMPInv, LifeInv
<1>10. HartInv'
  <2>1. HartOK(h)'
    BY <1>2, <1>6, <1>4, <1>1 DEF HartOK, Running, Undead, Within, Outside
  <2>2. HartOK(1 - h)'
    <3>1. HartOK(1 - h)
      BY <1>4 DEF SMPInv, HartInv
    <3>2. status'[d] = status[d]
      BY <1>4, <1>5, <1>6, PCBFacts
    <3> QED
      BY <1>1, <1>4, <1>6, <3>1, <3>2 DEF HartOK, Running, Undead, Outside, Within
  <2>3. \A i \in Harts : HartOK(i)' /\ stack'[i] # current_running'[1 - i]
    BY <1>1, <1>4, <1>5, <1>6, <2>1, <2>2
  <2>4. /\ \A i \in Harts : phase'[i] \in Within => phase'[1 - i] \in Outside
        /\ kernel_lock' <=> \E i \in Harts : phase'[i] \in Within
    BY <1>1, <1>4, <1>6 DEF SMPInv, HartInv, Within, Outside
  <2>5. current_running'[0] # current_running'[1]
    BY <1>4, <1>5, <1>6, PCBFacts
  <2> QED
    BY <1>1, <1>4, <1>6, <2>3, <2>4, <2>5 DEF HartInv
<1>11. MaskInv'
  <2>1. \A i \in Harts : phase'[i] \notin {"schedule", "pick"}
    BY <1>4, <1>6 DEF Outside
  <2>2. \A i \in Harts : mask[current_running'[i]] \in {3, i + 1}
    BY <1>2, <1>4, <1>6 DEF SMPInv, MaskInv, Fits
  <2> QED
    BY <1>1, <2>1, <2>2 DEF SMPInv, MaskInv, Fits
<1>12. LockInv'
  <2>1. \A t \in Tasks : /\ status[t] \in {"READY", "RUNNING"} => status'[t] \in {"READY", "RUNNING"}
                         /\ status[t] # Dead => status'[t] # Dead
    BY <1>3, <1>6 DEF Dead
  <2>2. LockTypes'
    BY <1>1 DEF SMPInv, LockInv, LockTypes, lockVars
  <2>3. \A i \in Harts :
          /\ phase'[i] = "retry" => acquiring[current_running'[i]] # NoLock
          /\ phase'[i] \in Outside \cup {"call", "leave"} => acquiring[current_running'[i]] = NoLock
    BY <1>4, <1>6 DEF SMPInv, LockInv, Outside
  <2>4. UNCHANGED <<lock_status, lock_list, acquiring, cpu, held, mask>>
    BY <1>1 DEF lockVars
  <2> QED
    BY <2>1, <2>2, <2>3, <2>4 DEF SMPInv, LockInv
<1> QED
  BY <1>8, <1>9, <1>10, <1>11, <1>12 DEF SMPInv

(* A caller that blocks, in the sleep queue or in a list: the hart finds   *)
(* another task, or the caller waits for a lock that is taken.             *)
LEMMA BlockKeepsInv ==
  ASSUME SMPInv, NEW h \in Harts, phase[h] \in {"call", "retry"}, current_running[h] \in Tasks,
         current_running[h] \notin Linked, held[current_running[h]] = {},
         \/ SomeFit(ready_queue, h)
         \/ \E l \in Locks :
              /\ lock_status[l] = "LOCKED" /\ acquiring'[current_running[h]] = l
              /\ wait_queue' = [wait_queue EXCEPT ![l] = Append(@, current_running[h])],
         phase' = [phase EXCEPT ![h] = "schedule"],
         status' = [status EXCEPT ![current_running[h]] = "BLOCKED"],
         \/ /\ sleep_queue' = Append(sleep_queue, current_running[h])
            /\ mask[current_running[h]] = 3 /\ wait_queue' = wait_queue
         \/ \E q \in Lists :
              /\ wait_queue' = [wait_queue EXCEPT ![q] = Append(@, current_running[h])]
              /\ q \in Tasks => status[q] # Dead
              /\ sleep_queue' = sleep_queue,
         UNCHANGED <<stack, kernel_lock, current_running, used, mask, ready_queue>>,
         UNCHANGED <<lock_status, lock_list, held>>,
         acquiring' \in [PCBs -> Locks \cup {NoLock}], cpu' \in [PCBs -> Harts],
         \A t \in PCBs \ {current_running[h]} : acquiring'[t] = acquiring[t] /\ cpu'[t] = cpu[t],
         acquiring'[current_running[h]] # NoLock =>
           mask[current_running[h]] = cpu'[current_running[h]] + 1
  PROVE  SMPInv'
<1> DEFINE c == current_running[h]
           d == current_running[1 - h]
<1>1. /\ Ordered(ready_queue, sleep_queue, wait_queue)
      /\ Placed(status, ready_queue, sleep_queue, wait_queue)
      /\ status \in [PCBs -> Statuses] /\ Tasks \subseteq PCBs /\ c \in PCBs
      /\ Pid0(0) \notin Tasks /\ Pid0(1) \notin Tasks /\ Tasks \subseteq Lists
  BY PCBFacts DEF SMPInv, QueueInv
<1>2. phase[h] \in Within /\ phase[h] \in {"call", "retry"} /\ "schedule" \in Within
  BY DEF Within
<1>3. /\ 1 - h \in Harts /\ h # 1 - h /\ Harts = {h, 1 - h}
      /\ phase[1 - h] \in Outside /\ d \in PCBs /\ d # c /\ (d \in Tasks => used[d])
  BY <1>2, OtherHart, PCBFacts DEF SMPInv, HartInv
<1>4. used[c] /\ stack[h] = c
  <2>1. HartOK(h)
    BY DEF SMPInv, HartInv
  <2>2. (Running(h) => used[c]) /\ (Undead(h) => used[c])
    BY DEF SMPInv, LifeInv, Running, Undead, Dead
  <2> QED
    BY <1>2, <2>1, <2>2 DEF HartOK
<1>5. c \notin ToSet(ready_queue) /\ c \notin ToSet(sleep_queue) /\ \A q \in Lists : c \notin ToSet(wait_queue[q])
  BY WaitingIn DEF Linked
<1>6. /\ status'[c] = "BLOCKED" /\ \A t \in PCBs \ {c} : status'[t] = status[t]
      /\ status' \in [PCBs -> Statuses]
      /\ phase'[h] = "schedule" /\ phase'[1 - h] = phase[1 - h]
  BY <1>1, <1>3 DEF Statuses, SMPInv, HartInv
<1>7. ASSUME sleep_queue' = Append(sleep_queue, c), mask[c] = 3, wait_queue' = wait_queue
      PROVE  /\ Ordered(ready_queue', sleep_queue', wait_queue')
             /\ Placed(status', ready_queue', sleep_queue', wait_queue')
             /\ \A t \in ToSet(sleep_queue') : mask[t] = 3
             /\ \A t \in Tasks : wait_queue'[t] # <<>> => status[t] # Dead
  <2> DEFINE sq == Append(sleep_queue, c)
  <2>1. sq \in Seq(Tasks) /\ IsInjective(sq) /\ ToSet(sq) = ToSet(sleep_queue) \cup {c}
    BY <1>1, <1>5, AppendQueue DEF Ordered
  <2> HIDE DEF sq
  <2>2. Ordered(ready_queue, sq, wait_queue)
    BY <1>1, <2>1 DEF Ordered
  <2> HIDE DEF c
  <2>3. Placed(status', ready_queue, sq, wait_queue)
    <3>1. \A t \in Tasks : t \in ToSet(ready_queue) <=> status'[t] = "READY"
      BY <1>1, <1>5, <1>6 DEF Placed
    <3>2. \A t \in Tasks :
            t \in ToSet(sq) \/ (\E q \in Lists : t \in ToSet(wait_queue[q])) <=> status'[t] = "BLOCKED"
      BY <1>1, <1>6, <2>1 DEF Placed
    <3>3. \A q \in Lists : ToSet(wait_queue[q]) \cap ToSet(sq) = {}
      BY <1>1, <1>5, <2>1 DEF Placed
    <3> QED
      BY <1>1, <3>1, <3>2, <3>3 DEF Placed
  <2>4. \A t \in ToSet(sq) : mask[t] = 3
    BY <1>7, <2>1 DEF SMPInv, MaskInv
  <2>5. sleep_queue' = sq /\ ready_queue' = ready_queue
    BY <1>7 DEF sq
  <2> QED
    BY <1>7, <2>2, <2>3, <2>4, <2>5 DEF SMPInv, LifeInv
<1>8. ASSUME NEW q \in Lists, wait_queue' = [wait_queue EXCEPT ![q] = Append(@, c)],
             q \in Tasks => status[q] # Dead, sleep_queue' = sleep_queue
      PROVE  /\ Ordered(ready_queue', sleep_queue', wait_queue')
             /\ Placed(status', ready_queue', sleep_queue', wait_queue')
             /\ \A t \in ToSet(sleep_queue') : mask[t] = 3
             /\ \A t \in Tasks : wait_queue'[t] # <<>> => status[t] # Dead
  <2> DEFINE l == Append(wait_queue[q], c)
             wq == [wait_queue EXCEPT ![q] = Append(@, c)]
  <2>1. l \in Seq(Tasks) /\ IsInjective(l) /\ ToSet(l) = ToSet(wait_queue[q]) \cup {c}
    BY <1>1, <1>5, AppendQueue DEF Ordered
  <2>2. wq[q] = l /\ wq \in [Lists -> Seq(Tasks)] /\ \A r \in Lists \ {q} : wq[r] = wait_queue[r]
    BY <1>1, <2>1 DEF Ordered
  <2>3. wait_queue' = wq /\ ready_queue' = ready_queue /\ sleep_queue' = sleep_queue
    BY <1>8
  <2> HIDE DEF l, wq, c
  <2>4. Ordered(ready_queue, sleep_queue, wq)
    BY <1>1, <2>1, <2>2 DEF Ordered
  <2>5. Placed(status', ready_queue, sleep_queue, wq)
    <3>1. \A t \in Tasks : t \in ToSet(ready_queue) <=> status'[t] = "READY"
      BY <1>1, <1>5, <1>6 DEF Placed
    <3>2. \A t : (\E r \in Lists : t \in ToSet(wq[r])) <=> t = c \/ \E r \in Lists : t \in ToSet(wait_queue[r])
      <4>1. ToSet(wq[q]) = ToSet(wait_queue[q]) \cup {c}
        BY <2>1, <2>2
      <4>2. \A r \in Lists \ {q} : ToSet(wq[r]) = ToSet(wait_queue[r])
        BY <2>2
      <4> QED
        BY <4>1, <4>2
    <3>3. \A t \in Tasks :
            t \in ToSet(sleep_queue) \/ (\E r \in Lists : t \in ToSet(wq[r])) <=> status'[t] = "BLOCKED"
      BY <1>1, <1>6, <3>2 DEF Placed
    <3> DEFINE W(r) == ToSet(wait_queue[r])
               V(r) == ToSet(wq[r])
    <3>6. V(q) = W(q) \cup {c} /\ \A r \in Lists \ {q} : V(r) = W(r)
      BY <2>1, <2>2
    <3>7. \A r \in Lists : c \notin W(r) /\ W(r) \cap ToSet(sleep_queue) = {}
      BY <1>1, <1>5 DEF Placed
    <3>8. \A r, s \in Lists : r # s => W(r) \cap W(s) = {}
      BY <1>1 DEF Placed
    <3> HIDE DEF W, V
    <3>4. \A r \in Lists : V(r) \cap ToSet(sleep_queue) = {}
      BY <1>5, <3>6, <3>7
    <3>5. \A r, s \in Lists : r # s => V(r) \cap V(s) = {}
      BY <3>6, <3>7, <3>8
    <3> QED
      BY <1>1, <3>1, <3>3, <3>4, <3>5 DEF Placed, V
  <2>6. \A t \in Tasks : wq[t] # <<>> => status[t] # Dead
    BY <1>1, <1>8, <2>2 DEF SMPInv, LifeInv
  <2> QED
    BY <2>3, <2>4, <2>5, <2>6 DEF SMPInv, MaskInv
<1>9. /\ Ordered(ready_queue', sleep_queue', wait_queue')
      /\ Placed(status', ready_queue', sleep_queue', wait_queue')
      /\ \A t \in ToSet(sleep_queue') : mask[t] = 3
      /\ \A t \in Tasks : wait_queue'[t] # <<>> => status[t] # Dead
  BY <1>7, <1>8
<1>10. QueueInv'
  BY <1>6, <1>9 DEF QueueInv
<1>11. LifeInv'
  <2>1. \A t \in Tasks : status'[t] = "RUNNING" => status[t] = "RUNNING"
    BY <1>1, <1>6
  <2>2. \A t \in Tasks : status'[t] # Dead => used[t]
    BY <1>1, <1>4, <1>6 DEF SMPInv, LifeInv
  <2>3. \A t \in Tasks : status'[t] = Dead => status[t] = Dead
    BY <1>1, <1>6 DEF Dead
  <2> QED
    BY <1>9, <2>1, <2>2, <2>3 DEF SMPInv, LifeInv
<1>12. HartInv'
  <2>1. HartOK(h)'
    BY <1>3, <1>4, <1>6 DEF HartOK, Running, Undead, Outside, Within
  <2>2. status'[d] = status[d] /\ (d \in Tasks => used'[d])
    BY <1>3, <1>6
  <2> QED
    BY <1>2, <2>1, <2>2, KernelStep DEF SMPInv
<1>13. MaskInv'
  <2>1. \A i \in Harts : phase'[i] = "schedule" => i = h
    BY <1>3, <1>6 DEF Outside
  <2>2. \A i \in Harts : phase'[i] # "pick"
    BY <1>3, <1>6 DEF Outside
  <2>3. SomeFit(ready_queue, h)' \/ Awaits(c)'
    <3>1. CASE SomeFit(ready_queue, h)
      BY <3>1 DEF SomeFit, Fits
    <3>2. ASSUME NEW l \in Locks, lock_status[l] = "LOCKED", acquiring'[c] = l,
                 wait_queue' = [wait_queue EXCEPT ![l] = Append(@, c)]
          PROVE  Awaits(c)'
      <4>1. wait_queue'[l] = Append(wait_queue[l], c) /\ wait_queue[l] \in Seq(Tasks)
        BY <1>1, <3>2, PCBFacts DEF Ordered
      <4>2. c \in ToSet(wait_queue'[l])
        BY <4>1, AppendQueue
      <4> QED
        BY <3>2, <4>2 DEF Awaits
    <3> QED
      BY <3>1, <3>2
  <2>4. current_running' = current_running /\ mask' = mask
    OBVIOUS
  <2> QED
    BY <1>9, <2>1, <2>2, <2>3, <2>4 DEF SMPInv, MaskInv, Fits
<1>14. LockInv'
  <2>1. LockTypes'
    BY DEF SMPInv, LockInv, LockTypes
  <2>2. ASSUME NEW i \in Harts
        PROVE  /\ acquiring'[Pid0(i)] = NoLock
               /\ phase'[i] = "retry" => acquiring'[current_running[i]] # NoLock
               /\ phase'[i] \in Outside \cup {"call", "leave"} => acquiring'[current_running[i]] = NoLock
    <3>1. acquiring'[Pid0(i)] = acquiring[Pid0(i)]
      BY <1>1, PCBFacts
    <3>2. CASE i = h
      BY <1>6, <3>1, <3>2 DEF SMPInv, LockInv, Outside
    <3>3. CASE i = 1 - h
      <4>1. acquiring'[d] = acquiring[d]
        BY <1>3
      <4> QED
        BY <1>3, <1>6, <3>1, <3>3, <4>1 DEF SMPInv, LockInv
    <3> QED
      BY <1>3, <3>2, <3>3
  <2>3. ASSUME NEW t \in Tasks
        PROVE  /\ held[t] # {} => status'[t] \in {"READY", "RUNNING"}
               /\ acquiring'[t] # NoLock =>
                     mask[t] = cpu'[t] + 1 /\ held[t] = {} /\ status'[t] # Dead
    <3>1. CASE t = c
      BY <1>6, <3>1 DEF Dead
    <3>2. CASE t # c
      <4>1. status'[t] = status[t] /\ acquiring'[t] = acquiring[t] /\ cpu'[t] = cpu[t]
        BY <1>1, <1>6, <3>2
      <4> QED
        BY <4>1 DEF SMPInv, LockInv
    <3> QED
      BY <3>1, <3>2
  <2> QED
    BY <2>1, <2>2, <2>3 DEF SMPInv, LockInv
<1> QED
  BY <1>10, <1>11, <1>12, <1>13, <1>14 DEF SMPInv

(* A call that returns: the harts stay with their tasks.                   *)
LEMMA LeaveKeepsHarts ==
  ASSUME SMPInv, NEW h \in Harts, phase[h] \in {"call", "retry"},
         phase' = [phase EXCEPT ![h] = "leave"],
         UNCHANGED <<stack, kernel_lock, current_running>>,
         status'[current_running[h]] = status[current_running[h]],
         current_running[h] \in Tasks => used'[current_running[h]],
         \/ status'[current_running[1 - h]] = status[current_running[1 - h]]
         \/ current_running[1 - h] \in Tasks /\ status'[current_running[1 - h]] = Dead,
         current_running[1 - h] \in Tasks => used'[current_running[1 - h]]
  PROVE  /\ HartInv'
         /\ phase'[h] = "leave" /\ phase'[1 - h] = phase[1 - h]
         /\ \A i \in Harts : phase'[i] \notin {"schedule", "pick", "switch", "retry"}
<1>1. phase[h] \in Within /\ "leave" \in Within
  BY DEF Within
<1>2. 1 - h \in Harts /\ h # 1 - h /\ Harts = {h, 1 - h} /\ phase[1 - h] \in Outside
  BY <1>1, OtherHart
<1>3. phase'[h] = "leave" /\ phase'[1 - h] = phase[1 - h]
  BY <1>2 DEF SMPInv, HartInv
<1>4. HartOK(h)'
  <2>1. HartOK(h)
    BY DEF SMPInv, HartInv
  <2> QED
    BY <1>1, <1>3, <2>1 DEF HartOK, Running, Undead, Outside, Within
<1>5. HartInv'
  BY <1>1, <1>4, KernelStep DEF SMPInv
<1> QED
  BY <1>2, <1>3, <1>5 DEF Outside

(* The caller has its slot.                                                *)
LEMMA CallerUsed ==
  ASSUME SMPInv, NEW h \in Harts, phase[h] \in Outside \cup {"call", "leave", "switch", "retry"}
  PROVE  /\ Running(h) \/ Undead(h)
         /\ current_running[h] \in Tasks => used[current_running[h]]
<1>1. HartOK(h)
  BY DEF SMPInv, HartInv
<1>2. (Running(h) /\ current_running[h] \in Tasks => used[current_running[h]]) /\ (Undead(h) => used[current_running[h]])
  BY DEF SMPInv, LifeInv, Running, Undead, Dead
<1>3. Running(h) \/ Undead(h)
  BY <1>1 DEF HartOK
<1> QED
  BY <1>2, <1>3 DEF Running, Undead

(* do_taskset_p changes the mask of one task that neither sleeps nor uses  *)
(* a lock, and that may stay where it runs.                                *)
LEMMA TasksetPKeepsInv ==
  ASSUME SMPInv, Careful, NEW h \in Harts, NEW t \in Tasks, NEW k \in Masks, TasksetP(h, t, k)
  PROVE  SMPInv'
<1>1. /\ phase[h] = "call" /\ phase' = [phase EXCEPT ![h] = "leave"]
      /\ mask' = [mask EXCEPT ![t] = k]
      /\ t \notin ToSet(sleep_queue) /\ held[t] = {} /\ acquiring[t] = NoLock
      /\ \A i \in Harts : current_running[i] = t => k \in {3, i + 1}
      /\ UNCHANGED <<stack, kernel_lock, current_running, used, status, queues, lockVars>>
  BY DEF TasksetP, Goto, Careful
<1>2. phase[h] \in Within
  BY <1>1 DEF Within
<1>3. current_running[1 - h] \in Tasks => used[current_running[1 - h]]
  BY <1>2, OtherHart
<1>4. current_running[h] \in Tasks => used[current_running[h]]
  BY <1>1, CallerUsed
<1>5. /\ HartInv' /\ phase'[h] = "leave" /\ phase'[1 - h] = phase[1 - h]
      /\ \A i \in Harts : phase'[i] \notin {"schedule", "pick", "switch", "retry"}
  BY <1>1, <1>3, <1>4, LeaveKeepsHarts
<1>6. k \in 1 .. 3 /\ Pid0(0) # t /\ Pid0(1) # t /\ t \in PCBs /\ Harts = {0, 1}
  BY PCBFacts
<1>7. QueueInv' /\ LifeInv'
  BY <1>1 DEF SMPInv, QueueInv, LifeInv, queues
<1>8. mask' \in [PCBs -> 1 .. 3] /\ mask'[t] = k /\ \A u \in PCBs \ {t} : mask'[u] = mask[u]
  BY <1>1, <1>6 DEF SMPInv, MaskInv
<1>9. MaskInv'
  <2>1. \A i \in Harts : mask'[Pid0(i)] = 3
    BY <1>6, <1>8, PCBFacts DEF SMPInv, MaskInv
  <2>2. \A i \in Harts : mask'[current_running[i]] \in {3, i + 1}
    BY <1>1, <1>8 DEF SMPInv, MaskInv, HartInv, Fits
  <2>3. \A u \in ToSet(sleep_queue) : mask'[u] = 3
    <3>1. ToSet(sleep_queue) \in SUBSET PCBs
      BY PCBFacts DEF SMPInv, QueueInv, Ordered, ToSet
    <3> QED
      BY <1>1, <1>8, <3>1 DEF SMPInv, MaskInv
  <2> QED
    BY <1>1, <1>5, <1>8, <2>1, <2>2, <2>3 DEF MaskInv, Fits, queues
<1>10. LockInv'
  <2>1. /\ lock_status' = lock_status /\ lock_list' = lock_list /\ acquiring' = acquiring
        /\ cpu' = cpu /\ held' = held /\ status' = status /\ current_running' = current_running
    BY <1>1 DEF lockVars
  <2>2. \A u \in Tasks : mask'[u] = mask[u] \/ (held[u] = {} /\ acquiring[u] = NoLock)
    BY <1>1, <1>8, PCBFacts
  <2>3. \A i \in Harts : phase'[i] \in Outside \cup {"call", "leave"} =>
                           acquiring[current_running[i]] = NoLock
    BY <1>1, <1>5, OtherHart, <1>2 DEF SMPInv, LockInv
  <2> QED
    BY <1>5, <2>1, <2>2, <2>3 DEF SMPInv, LockInv, LockTypes
<1> QED
  BY <1>5, <1>7, <1>9, <1>10 DEF SMPInv

(* do_mutex_lock_acquire by a living task that holds nothing, and that is  *)
(* bound to the hart it asked on if it has to wait.                        *)
LEMMA TryKeepsInv ==
  ASSUME SMPInv, NEW h \in Harts, phase[h] \in {"call", "retry"}, NEW l \in Locks,
         current_running[h] \in Tasks, TryAcquire(h, l, current_running[h]),
         held[current_running[h]] = {}, Running(h),
         lock_status[l] = "LOCKED" => mask[current_running[h]] = cpu'[current_running[h]] + 1,
         cpu' \in [PCBs -> Harts],
         \A t \in PCBs \ {current_running[h]} : cpu'[t] = cpu[t],
         UNCHANGED <<stack, kernel_lock, current_running, used, mask, ready_queue, sleep_queue>>
  PROVE  SMPInv'
<1> DEFINE c == current_running[h]
<1>1. c \in PCBs /\ l \in Lists /\ l \notin Tasks /\ l # NoLock /\ phase[h] \in Within
  BY PCBFacts DEF Within
<1>2. LockTypes
  BY DEF SMPInv, LockInv
<1>3. CASE /\ lock_status[l] = "LOCKED" /\ Block(h, c, l)
           /\ phase' = [phase EXCEPT ![h] = "schedule"]
           /\ acquiring' = [acquiring EXCEPT ![c] = l]
           /\ UNCHANGED <<lock_status, lock_list, held>>
  <2>1. /\ c \notin Linked /\ status' = [status EXCEPT ![c] = "BLOCKED"]
        /\ wait_queue' = [wait_queue EXCEPT ![l] = Append(@, c)]
    BY <1>3 DEF Block
  <2>2. /\ acquiring' \in [PCBs -> Locks \cup {NoLock}]
        /\ \A t \in PCBs \ {c} : acquiring'[t] = acquiring[t]
    BY <1>1, <1>2, <1>3 DEF LockTypes
  <2>3. acquiring'[c] = l /\ mask[c] = cpu'[c] + 1
    BY <1>1, <1>2, <1>3 DEF LockTypes
  <2> QED
    BY <1>1, <1>3, <2>1, <2>2, <2>3, BlockKeepsInv
<1>4. CASE /\ lock_status[l] = "UNLOCKED"
           /\ lock_status' = [lock_status EXCEPT ![l] = "LOCKED"]
           /\ lock_list' = [lock_list EXCEPT ![c] = Append(@, l)]
           /\ held' = [held EXCEPT ![c] = @ \cup {l}]
           /\ phase' = [phase EXCEPT ![h] = "leave"]
           /\ acquiring' = [acquiring EXCEPT ![c] = NoLock]
           /\ UNCHANGED <<status, wait_queue>>
  <2>1. /\ current_running[1 - h] \in Tasks => used[current_running[1 - h]]
        /\ c \in Tasks => used[c]
        /\ Harts = {h, 1 - h} /\ phase[1 - h] \in Outside
    BY <1>1, OtherHart, CallerUsed
  <2>2. /\ HartInv' /\ phase'[h] = "leave" /\ phase'[1 - h] = phase[1 - h]
        /\ \A i \in Harts : phase'[i] \notin {"schedule", "pick", "switch", "retry"}
    BY <1>4, <2>1, LeaveKeepsHarts
  <2>3. QueueInv' /\ LifeInv' /\ MaskInv'
    BY <1>4, <2>2 DEF SMPInv, QueueInv, LifeInv, MaskInv, Fits
  <2>4. lock_list[c] = <<>> /\ \A t \in Tasks : l \notin held[t]
    BY <1>1, <1>4 DEF SMPInv, LockInv
  <2>5. /\ lock_list'[c] = <<l>> /\ held'[c] = {l} /\ acquiring'[c] = NoLock
        /\ \A t \in PCBs \ {c} : lock_list'[t] = lock_list[t] /\ acquiring'[t] = acquiring[t]
        /\ \A t \in Tasks \ {c} : held'[t] = held[t]
        /\ lock_status'[l] = "LOCKED" /\ \A m \in Locks \ {l} : lock_status'[m] = lock_status[m]
    BY <1>1, <1>2, <1>4, <2>4 DEF LockTypes
  <2>6. LockTypes'
    <3>1. Append(<<>>, l) \in Seq(Locks)
      OBVIOUS
    <3> QED
      BY <1>1, <1>2, <1>4, <2>4, <3>1 DEF LockTypes
  <2>7. /\ status' = status /\ mask' = mask /\ current_running' = current_running
        /\ status[c] = "RUNNING"
    BY <1>4 DEF Running
  <2>8. \A i \in Harts :
          /\ lock_list'[Pid0(i)] = <<>> /\ acquiring'[Pid0(i)] = NoLock
          /\ phase'[i] \in Outside \cup {"call", "leave"} => acquiring'[current_running[i]] = NoLock
    <3>1. \A i \in Harts : Pid0(i) \in PCBs /\ Pid0(i) # c /\ current_running[i] \in PCBs
      BY PCBFacts DEF SMPInv, HartInv
    <3> QED
      BY <2>1, <2>2, <2>5, <3>1 DEF SMPInv, LockInv
  <2>9. \A t \in Tasks :
          /\ \/ lock_list'[t] = <<>> /\ held'[t] = {}
             \/ \E m \in Locks : lock_list'[t] = <<m>> /\ held'[t] = {m}
          /\ held'[t] # {} => status[t] \in {"READY", "RUNNING"}
          /\ acquiring'[t] # NoLock =>
               mask[t] = cpu'[t] + 1 /\ held'[t] = {} /\ status[t] # Dead
    <3> SUFFICES ASSUME NEW t \in Tasks
        PROVE /\ \/ lock_list'[t] = <<>> /\ held'[t] = {}
                 \/ \E m \in Locks : lock_list'[t] = <<m>> /\ held'[t] = {m}
              /\ held'[t] # {} => status[t] \in {"READY", "RUNNING"}
              /\ acquiring'[t] # NoLock =>
                   mask[t] = cpu'[t] + 1 /\ held'[t] = {} /\ status[t] # Dead
      OBVIOUS
    <3>1. CASE t = c
      BY <2>5, <2>7, <3>1
    <3>2. CASE t # c
      <4>1. /\ lock_list'[t] = lock_list[t] /\ acquiring'[t] = acquiring[t] /\ held'[t] = held[t]
            /\ cpu'[t] = cpu[t]
        BY <2>5, <3>2, PCBFacts
      <4> QED
        BY <4>1 DEF SMPInv, LockInv
    <3> QED
      BY <3>1, <3>2
  <2>10. \A t, u \in Tasks : t # u => held'[t] \cap held'[u] = {}
    BY <2>4, <2>5 DEF SMPInv, LockInv
  <2>11. \A m \in Locks : lock_status'[m] = "LOCKED" <=> \E t \in Tasks : m \in held'[t]
    <3> SUFFICES ASSUME NEW m \in Locks
                 PROVE  lock_status'[m] = "LOCKED" <=> \E t \in Tasks : m \in held'[t]
      OBVIOUS
    <3>1. CASE m = l
      BY <2>5, <3>1
    <3>2. CASE m # l
      <4>1. \A t \in Tasks : m \in held'[t] <=> m \in held[t]
        BY <2>5, <3>2
      <4> QED
        BY <2>5, <3>2, <4>1 DEF SMPInv, LockInv
    <3> QED
      BY <3>1, <3>2
  <2>12. LockInv'
    BY <2>2, <2>6, <2>7, <2>8, <2>9, <2>10, <2>11 DEF LockInv
  <2> QED
    BY <2>2, <2>3, <2>12 DEF SMPInv
<1> QED
  BY <1>3, <1>4 DEF TryAcquire, Caller

(* do_scheduler finds a task when a Careful program lets it be called.     *)
LEMMA ReplaceableFit ==
  ASSUME Careful, NEW h, NEW rq \in Seq(Tasks), Replaceable(h, rq)
  PROVE  SomeFit(rq, h)
BY DEF Careful, Replaceable, SomeFit, ToSet

(* do_sleep blocks the caller in the sleep queue.                          *)
LEMMA SleepKeepsInv ==
  ASSUME SMPInv, Careful, NEW h \in Harts, Sleep(h)
  PROVE  SMPInv'
<1> DEFINE c == current_running[h]
<1>1. /\ phase[h] = "call" /\ c \in Tasks /\ Replaceable(h, ready_queue) /\ mask[c] = 3
      /\ held[c] = {} /\ c \notin Linked
      /\ phase' = [phase EXCEPT ![h] = "schedule"]
      /\ status' = [status EXCEPT ![c] = "BLOCKED"]
      /\ sleep_queue' = Append(sleep_queue, c)
      /\ UNCHANGED <<stack, kernel_lock, current_running, used, mask, ready_queue, wait_queue, lockVars>>
  BY DEF Sleep, InCall, Goto, Caller, Careful
<1>2. SomeFit(ready_queue, h)
  BY <1>1, ReplaceableFit DEF SMPInv, QueueInv, Ordered
<1>3. acquiring[c] = NoLock
  BY <1>1 DEF SMPInv, LockInv
<1>4. /\ acquiring' \in [PCBs -> Locks \cup {NoLock}] /\ cpu' \in [PCBs -> Harts]
      /\ acquiring' = acquiring /\ cpu' = cpu /\ UNCHANGED <<lock_status, lock_list, held>>
  BY <1>1 DEF SMPInv, LockInv, LockTypes, lockVars
<1> QED
  BY <1>1, <1>2, <1>3, <1>4, BlockKeepsInv

(* do_waitpid blocks the caller in the list of a task that is alive.       *)
LEMMA WaitpidKeepsInv ==
  ASSUME SMPInv, Careful, NEW h \in Harts, NEW t \in Tasks, Waitpid(h, t)
  PROVE  SMPInv'
<1> DEFINE c == current_running[h]
<1>1. /\ phase[h] = "call" /\ c \in Tasks /\ Replaceable(h, ready_queue)
      /\ held[c] = {} /\ c \notin Linked /\ status[t] # Dead
      /\ phase' = [phase EXCEPT ![h] = "schedule"]
      /\ status' = [status EXCEPT ![c] = "BLOCKED"]
      /\ wait_queue' = [wait_queue EXCEPT ![t] = Append(@, c)]
      /\ UNCHANGED <<stack, kernel_lock, current_running, used, mask, ready_queue, sleep_queue, lockVars>>
  BY DEF Waitpid, InCall, Goto, Caller, Block
<1>2. SomeFit(ready_queue, h)
  BY <1>1, ReplaceableFit DEF SMPInv, QueueInv, Ordered
<1>3. acquiring[c] = NoLock
  BY <1>1 DEF SMPInv, LockInv
<1>4. /\ acquiring' \in [PCBs -> Locks \cup {NoLock}] /\ cpu' \in [PCBs -> Harts]
      /\ acquiring' = acquiring /\ cpu' = cpu /\ UNCHANGED <<lock_status, lock_list, held>>
  BY <1>1 DEF SMPInv, LockInv, LockTypes, lockVars
<1>5. t \in Lists
  BY PCBFacts
<1> QED
  BY <1>1, <1>2, <1>3, <1>4, <1>5, BlockKeepsInv

(* do_mutex_lock_acquire takes a free lock, or blocks the caller in its    *)
(* list.                                                                   *)
LEMMA AcquireKeepsInv ==
  ASSUME SMPInv, Careful, NEW h \in Harts, NEW l \in Locks, Acquire(h, l)
  PROVE  SMPInv'
<1> DEFINE c == current_running[h]
<1>1. /\ phase[h] = "call" /\ c \in Tasks /\ held[c] = {} /\ status[c] # Dead
      /\ lock_status[l] = "LOCKED" => mask[c] = h + 1
      /\ TryAcquire(h, l, c)
      /\ cpu' = [cpu EXCEPT ![c] = h]
      /\ UNCHANGED <<stack, kernel_lock, current_running, used, mask, ready_queue, sleep_queue>>
  BY DEF Acquire, InCall, Caller, Careful
<1>2. Running(h)
  BY <1>1, CallerUsed DEF Undead
<1>3. /\ cpu' \in [PCBs -> Harts] /\ cpu'[c] = h /\ c \in PCBs
      /\ \A t \in PCBs \ {c} : cpu'[t] = cpu[t]
  BY <1>1, PCBFacts DEF SMPInv, LockInv, LockTypes
<1> QED
  BY <1>1, <1>2, <1>3, TryKeepsInv

(* A waiter that was woken tests the lock again, on the hart to which it   *)
(* is bound and where it blocked, and takes it or blocks once more.        *)
LEMMA RetryKeepsInv ==
  ASSUME SMPInv, NEW h \in Harts, Retry(h)
  PROVE  SMPInv'
<1> DEFINE c == current_running[h]
           l == acquiring[c]
<1>1. /\ phase[h] = "retry"
      /\ TryAcquire(h, l, current_running[cpu[c]])
      /\ UNCHANGED <<cpu, stack, kernel_lock, current_running, used, mask, ready_queue, sleep_queue>>
  BY DEF Retry, Caller
<1>2. c \in PCBs /\ l # NoLock
  BY <1>1 DEF SMPInv, LockInv, HartInv
<1>3. c \in Tasks /\ l \in Locks
  BY <1>2, PCBFacts DEF SMPInv, LockInv, LockTypes
<1>4. mask[c] = cpu[c] + 1 /\ cpu[c] \in {0, 1} /\ held[c] = {}
  BY <1>2, <1>3 DEF SMPInv, LockInv, LockTypes, Harts
<1>5. cpu[c] = h
  BY <1>4 DEF SMPInv, MaskInv, Fits, Harts
<1>6. Running(h)
  BY <1>1 DEF SMPInv, HartInv, HartOK
<1>7. TryAcquire(h, l, c)
  BY <1>1, <1>5
<1>8. cpu' \in [PCBs -> Harts] /\ cpu' = cpu
  BY <1>1 DEF SMPInv, LockInv, LockTypes
<1> HIDE DEF l
<1> QED
  BY <1>1, <1>3, <1>4, <1>6, <1>7, <1>8, TryKeepsInv

(* do_spawn and do_taskset: the slot is nobody's, and nothing is left in it. *)
LEMMA NewTaskKeepsInv ==
  ASSUME SMPInv, NEW h \in Harts, NEW t \in Tasks, NEW k \in 1 .. 3, NewTask(h, t, k)
  PROVE  SMPInv'
<1>1. /\ ~used[t]
      /\ phase[h] = "call" /\ phase' = [phase EXCEPT ![h] = "leave"]
      /\ used' = [used EXCEPT ![t] = TRUE]
      /\ status' = [status EXCEPT ![t] = "READY"]
      /\ mask' = [mask EXCEPT ![t] = k]
      /\ wait_queue' = [wait_queue EXCEPT ![t] = <<>>]
      /\ lock_list' = [lock_list EXCEPT ![t] = <<>>]
      /\ held' = [held EXCEPT ![t] = {}]
      /\ ready_queue' = Append(ready_queue, t)
      /\ UNCHANGED <<stack, kernel_lock, current_running, sleep_queue, lock_status, acquiring, cpu>>
  BY DEF NewTask, Goto
<1>2. /\ phase[h] \in Within /\ Harts = {0, 1} /\ Pid0(0) # t /\ Pid0(1) # t
      /\ t \in PCBs /\ Tasks \subseteq PCBs /\ t \in Lists
  BY <1>1, PCBFacts DEF Within
<1>3. /\ Ordered(ready_queue, sleep_queue, wait_queue)
      /\ Placed(status, ready_queue, sleep_queue, wait_queue)
      /\ status \in [PCBs -> Statuses] /\ used \in [Tasks -> BOOLEAN] /\ mask \in [PCBs -> 1 .. 3]
      /\ LockTypes
  BY DEF SMPInv, QueueInv, LifeInv, MaskInv, LockInv
<1>4. status[t] = Dead /\ wait_queue[t] = <<>>
  BY <1>1 DEF SMPInv, LifeInv
<1>5. held[t] = {} /\ lock_list[t] = <<>> /\ acquiring[t] = NoLock
  BY <1>4 DEF SMPInv, LockInv, Dead
<1>6. UNCHANGED <<wait_queue, lock_list, held>>
  <2>1. DOMAIN wait_queue = Lists /\ wait_queue = [q \in Lists |-> wait_queue[q]]
    BY <1>3 DEF Ordered
  <2>2. lock_list = [u \in PCBs |-> lock_list[u]] /\ held = [u \in Tasks |-> held[u]]
    BY <1>3 DEF LockTypes
  <2>3. wait_queue' = wait_queue
    BY <1>1, <1>2, <1>4, <2>1
  <2> QED
    BY <1>1, <1>2, <1>5, <2>2, <2>3
<1>7. \A i \in Harts : current_running[i] # t /\ (current_running[i] \in Tasks => used[current_running[i]])
  <2>1. current_running[h] \in Tasks => used[current_running[h]]
    BY <1>1, CallerUsed
  <2>2. (current_running[1 - h] \in Tasks => used[current_running[1 - h]]) /\ Harts = {h, 1 - h}
    BY <1>2, OtherHart
  <2> QED
    BY <1>1, <2>1, <2>2
<1>8. /\ status'[t] = "READY" /\ \A u \in PCBs \ {t} : status'[u] = status[u]
      /\ status' \in [PCBs -> Statuses]
      /\ used'[t] /\ \A u \in Tasks \ {t} : used'[u] = used[u]
      /\ used' \in [Tasks -> BOOLEAN]
      /\ mask'[t] = k /\ \A u \in PCBs \ {t} : mask'[u] = mask[u]
      /\ mask' \in [PCBs -> 1 .. 3]
  BY <1>1, <1>2, <1>3 DEF Statuses
<1>9. \A i \in Harts : LET c == current_running[i]
                       IN  c \in PCBs /\ status'[c] = status[c] /\ mask'[c] = mask[c] /\ (c \in Tasks => used'[c])
  BY <1>7, <1>8 DEF SMPInv, HartInv
<1>10. /\ HartInv' /\ phase'[h] = "leave" /\ phase'[1 - h] = phase[1 - h]
       /\ \A i \in Harts : phase'[i] \notin {"schedule", "pick", "switch", "retry"}
  <2>1. 1 - h \in Harts
    BY <1>2, OtherHart
  <2> QED
    BY <1>1, <1>9, <2>1, LeaveKeepsHarts
<1>11. /\ t \notin ToSet(ready_queue) /\ t \notin ToSet(sleep_queue)
       /\ \A q \in Lists : t \notin ToSet(wait_queue[q])
       /\ ToSet(sleep_queue) \in SUBSET Tasks
  <2>1. /\ t \notin ToSet(ready_queue) /\ t \notin ToSet(sleep_queue)
        /\ \A q \in Lists : t \notin ToSet(wait_queue[q])
    BY <1>3, <1>4 DEF Placed, Dead
  <2>2. sleep_queue \in Seq(Tasks)
    BY <1>3 DEF Ordered
  <2>3. ToSet(sleep_queue) \in SUBSET Tasks
    BY <2>2 DEF ToSet
  <2> QED
    BY <2>1, <2>3
<1>12. QueueInv'
  <2> DEFINE rq == Append(ready_queue, t)
  <2>1. rq \in Seq(Tasks) /\ IsInjective(rq) /\ ToSet(rq) = ToSet(ready_queue) \cup {t}
    BY <1>3, <1>11, AppendQueue DEF Ordered
  <2>2. ready_queue' = rq
    BY <1>1
  <2> HIDE DEF rq
  <2>3. Ordered(rq, sleep_queue, wait_queue)
    BY <1>3, <2>1 DEF Ordered
  <2>4. \A u \in Tasks : u \in ToSet(rq) <=> status'[u] = "READY"
    BY <1>2, <1>3, <1>8, <2>1 DEF Placed
  <2>5. \A u \in Tasks : status'[u] = "BLOCKED" <=> status[u] = "BLOCKED"
    BY <1>2, <1>4, <1>8 DEF Dead
  <2>6. Placed(status', rq, sleep_queue, wait_queue)
    BY <1>3, <2>4, <2>5 DEF Placed
  <2> QED
    BY <1>1, <1>6, <1>8, <2>2, <2>3, <2>6 DEF QueueInv
<1>13. LifeInv'
  BY <1>1, <1>2, <1>6, <1>8, <1>4 DEF SMPInv, LifeInv
<1>14. MaskInv'
  <2>1. \A i \in Harts : mask'[Pid0(i)] = 3
    BY <1>2, <1>8, PCBFacts DEF SMPInv, MaskInv
  <2>2. \A i \in Harts : mask'[current_running[i]] \in {3, i + 1}
    BY <1>9 DEF SMPInv, MaskInv, Fits
  <2>3. \A u \in ToSet(sleep_queue) : mask'[u] = 3
    BY <1>2, <1>8, <1>11 DEF SMPInv, MaskInv
  <2> QED
    BY <1>1, <1>8, <1>10, <2>1, <2>2, <2>3 DEF MaskInv, Fits
<1>15. LockInv'
  <2>1. \A i \in Harts : phase'[i] \in Outside \cup {"call", "leave"} => acquiring[current_running[i]] = NoLock
    BY <1>1, <1>2, <1>10, OtherHart DEF SMPInv, LockInv
  <2>2. \A u \in Tasks :
          /\ held[u] # {} => status'[u] \in {"READY", "RUNNING"}
          /\ acquiring[u] # NoLock => mask'[u] = cpu[u] + 1 /\ held[u] = {} /\ status'[u] # Dead
    <3> SUFFICES ASSUME NEW u \in Tasks
        PROVE  /\ held[u] # {} => status'[u] \in {"READY", "RUNNING"}
               /\ acquiring[u] # NoLock => mask'[u] = cpu[u] + 1 /\ held[u] = {} /\ status'[u] # Dead
      OBVIOUS
    <3>1. CASE u = t
      BY <1>5, <3>1
    <3>2. CASE u # t
      BY <1>2, <1>8, <3>2 DEF SMPInv, LockInv
    <3> QED
      BY <3>1, <3>2
  <2>3. UNCHANGED <<lock_status, lock_list, acquiring, cpu, held, current_running>>
    BY <1>1, <1>6
  <2> QED
    BY <1>10, <2>1, <2>2, <2>3 DEF SMPInv, LockInv, LockTypes
<1> QED
  BY <1>10, <1>12, <1>13, <1>14, <1>15 DEF SMPInv

(* Those who wait in the lists Q, in the order of woken, are put behind the *)
(* ready queue.                                                            *)
Wakes(st, rq, wq, Q, woken, st2, rq2, wq2) ==
  /\ woken \in Seq(Tasks) /\ IsInjective(woken)
  /\ \A t : t \in ToSet(woken) <=> \E q \in Q : t \in ToSet(wq[q])
  /\ rq2 = rq \o woken
  /\ \A t \in Tasks : st2[t] = IF t \in ToSet(woken) THEN "READY" ELSE st[t]
  /\ wq2 \in [Lists -> Seq(Tasks)]
  /\ \A q \in Lists : wq2[q] = IF q \in Q THEN <<>> ELSE wq[q]

(* Waking keeps every task in one place.                                   *)
LEMMA WakeLists ==
  ASSUME NEW st, NEW rq, NEW sq, NEW wq, Ordered(rq, sq, wq), Placed(st, rq, sq, wq),
         NEW Q \in SUBSET Lists, NEW woken, NEW rq2, NEW st2, NEW wq2,
         Wakes(st, rq, wq, Q, woken, st2, rq2, wq2)
  PROVE  /\ Ordered(rq2, sq, wq2) /\ Placed(st2, rq2, sq, wq2)
         /\ ToSet(rq2) = ToSet(rq) \cup ToSet(woken)
         /\ \A t \in ToSet(woken) : t \in Tasks /\ st[t] = "BLOCKED"
<1> DEFINE W == ToSet(woken)
           X(q) == ToSet(wq[q])
           Y(q) == ToSet(wq2[q])
<1>0. W \in SUBSET Tasks
  BY DEF Wakes, ToSet
<1>1. \A t \in W : t \in Tasks /\ \E q \in Q : t \in X(q)
  BY <1>0 DEF Wakes
<1>2. \A t \in W : st[t] = "BLOCKED" /\ t \notin ToSet(sq) /\ t \notin ToSet(rq)
  BY <1>1 DEF Placed
<1>3. IsInjective(rq2) /\ rq2 \in Seq(Tasks) /\ ToSet(rq2) = ToSet(rq) \cup W
  BY <1>2, ConcatQueues DEF Ordered, Wakes
<1>4. \A q \in Lists : \A t : t \in Y(q) <=> q \notin Q /\ t \in X(q)
  BY EmptyQueue DEF Wakes
<1>5. \A q \in Lists : IsInjective(wq2[q])
  BY EmptyQueue DEF Ordered, Wakes
<1>6. Ordered(rq2, sq, wq2)
  BY <1>3, <1>5 DEF Ordered, Wakes
<1>7. /\ \A q, r \in Lists : q # r => X(q) \cap X(r) = {}
      /\ \A q \in Lists : X(q) \cap ToSet(sq) = {}
      /\ \A t \in Tasks : t \in ToSet(sq) \/ (\E q \in Lists : t \in X(q)) <=> st[t] = "BLOCKED"
      /\ \A t \in Tasks : t \in ToSet(rq) <=> st[t] = "READY"
  BY DEF Placed
<1>8. \A q \in Q : X(q) \subseteq W
  BY DEF Wakes
<1> HIDE DEF W, X, Y
<1>9. /\ \A q, r \in Lists : q # r => Y(q) \cap Y(r) = {}
      /\ \A q \in Lists : Y(q) \cap ToSet(sq) = {}
  BY <1>4, <1>7
<1>10. \A t \in Tasks : (\E q \in Lists : t \in Y(q)) <=> t \notin W /\ \E q \in Lists : t \in X(q)
  <2>1. \A t \in W : \A q \in Lists : t \in X(q) => q \in Q
    BY <1>1, <1>7
  <2> QED
    BY <1>4, <1>8, <2>1
<1>11. \A t \in Tasks : t \in ToSet(sq) \/ (\E q \in Lists : t \in Y(q)) <=> st2[t] = "BLOCKED"
  BY <1>1, <1>2, <1>7, <1>10 DEF W, Wakes
<1>12. \A t \in Tasks : t \in ToSet(rq2) <=> st2[t] = "READY"
  BY <1>1, <1>2, <1>3, <1>7 DEF W, Wakes
<1>13. Placed(st2, rq2, sq, wq2)
  BY <1>9, <1>11, <1>12 DEF Placed, Y
<1> QED
  BY <1>1, <1>2, <1>3, <1>6, <1>13 DEF W

(* What do_exit and do_kill do to t's status, to the lists it waits in, and *)
(* whom they wake.                                                         *)
Ending(st, t) == [st EXCEPT ![t] = Dead]
Unlinked(wq, t) == [q \in Lists |-> Without(wq[q], t)]
EndedIn(wq, t) == FlattenSeq([i \in DOMAIN Ended(t) |-> wq[Ended(t)[i]]])

(* delete_element for every list: a task that ends is in none.             *)
LEMMA UnlinkLists ==
  ASSUME NEW st, NEW rq, NEW sq, NEW wq, Ordered(rq, sq, wq), Placed(st, rq, sq, wq),
         NEW t \in Tasks,
         st \in [PCBs -> Statuses]
  PROVE  LET st2 == Ending(st, t)
             wq2 == Unlinked(wq, t)
         IN  /\ Ordered(Without(rq, t), Without(sq, t), wq2)
             /\ Placed(st2, Without(rq, t), Without(sq, t), wq2)
             /\ ToSet(Without(sq, t)) \subseteq ToSet(sq)
             /\ \A q \in Lists : ToSet(wq2[q]) = ToSet(wq[q]) \ {t}
<1> DEFINE st2 == Ending(st, t)
           wq2 == Unlinked(wq, t)
<1>0. st2[t] = Dead /\ \A u \in Tasks \ {t} : st2[u] = st[u]
  BY PCBFacts DEF Ending
<1> HIDE DEF st2
<1> DEFINE X(q) == ToSet(wq[q])
           Y(q) == ToSet(wq2[q])
           r == Without(rq, t)
           s == Without(sq, t)
<1>1. /\ r \in Seq(Tasks) /\ IsInjective(r) /\ ToSet(r) = ToSet(rq) \ {t}
      /\ s \in Seq(Tasks) /\ IsInjective(s) /\ ToSet(s) = ToSet(sq) \ {t}
  BY WithoutElements DEF Ordered
<1>2. ASSUME NEW q \in Lists
      PROVE  wq2[q] \in Seq(Tasks) /\ IsInjective(wq2[q]) /\ Y(q) = X(q) \ {t}
  <2>1. wq[q] \in Seq(Tasks) /\ IsInjective(wq[q]) /\ wq2[q] = Without(wq[q], t)
    BY DEF Ordered, Unlinked
  <2> QED
    BY <2>1, WithoutElements
<1>3. Ordered(r, s, wq2)
  BY <1>1, <1>2 DEF Ordered, Unlinked
<1>4. /\ \A q, p \in Lists : q # p => X(q) \cap X(p) = {}
      /\ \A q \in Lists : X(q) \cap ToSet(sq) = {}
      /\ \A u \in Tasks : u \in ToSet(sq) \/ (\E q \in Lists : u \in X(q)) <=> st[u] = "BLOCKED"
      /\ \A u \in Tasks : u \in ToSet(rq) <=> st[u] = "READY"
  BY DEF Placed
<1>5. \A q \in Lists : Y(q) = X(q) \ {t}
  BY <1>2
<1> HIDE DEF X, Y, r, s
<1>6. /\ \A q, p \in Lists : q # p => Y(q) \cap Y(p) = {}
      /\ \A q \in Lists : Y(q) \cap ToSet(s) = {}
  BY <1>1, <1>4, <1>5
<1>7. \A u \in Tasks : u \in ToSet(s) \/ (\E q \in Lists : u \in Y(q)) <=> st2[u] = "BLOCKED"
  <2>1. \A u \in Tasks : (\E q \in Lists : u \in Y(q)) <=> u # t /\ \E q \in Lists : u \in X(q)
    BY <1>5
  <2> QED
    BY <1>0, <1>1, <1>4, <2>1 DEF Dead
<1>8. \A u \in Tasks : u \in ToSet(r) <=> st2[u] = "READY"
  BY <1>0, <1>1, <1>4 DEF Dead
<1>9. Placed(st2, r, s, wq2)
  BY <1>6, <1>7, <1>8 DEF Placed, Y
<1> QED
  BY <1>1, <1>3, <1>5, <1>9 DEF r, s, X, Y, st2

(* The locks of a task are those it has recorded.                          *)
LEMMA RecordedHeld ==
  ASSUME LockInv, NEW t \in Tasks, NEW l \in Locks
  PROVE  l \in ToSet(lock_list[t]) <=> l \in held[t]
<1>1. CASE lock_list[t] = <<>> /\ held[t] = {}
  BY <1>1, EmptyQueue
<1>2. ASSUME NEW m \in Locks, lock_list[t] = <<m>>, held[t] = {m}
      PROVE  l \in ToSet(lock_list[t]) <=> l \in held[t]
  <2>1. ToSet(<<m>>) = {m}
    BY DEF ToSet
  <2> QED
    BY <1>2, <2>1
<1> QED
  BY <1>1, <1>2 DEF LockInv

(* The record of a lock is taken out of the list of its holder.            *)
LEMMA RecordRemoved ==
  ASSUME NEW l \in Locks
  PROVE  Without(<<l>>, l) = <<>> /\ Without(<<>>, l) = <<>>
<1> DEFINE one == <<l>>
<1>1. one \in Seq(Locks) /\ Len(one) = 1 /\ DOMAIN one = {1} /\ one[1] = l /\ ToSet(one) = {l}
  BY DEF ToSet
<1>2. (CHOOSE i \in DOMAIN one : one[i] = l) = 1
  BY <1>1
<1>3. /\ RemoveAt(one, 1) \in Seq(Locks) /\ Len(RemoveAt(one, 1)) = 0
  <2> HIDE DEF one
  <2>1. 1 \in DOMAIN one /\ Len(one) - 1 = 0
    BY <1>1
  <2> QED
    BY <1>1, <2>1, RemoveAtElements
<1>4. RemoveAt(one, 1) = <<>>
  BY <1>3, EmptySeq
<1>5. l \in ToSet(one)
  BY <1>1
<1> HIDE DEF one
<1>6. Without(one, l) = <<>>
  BY <1>2, <1>4, <1>5 DEF Without
<1>7. Without(<<>>, l) = <<>>
  BY EmptyQueue DEF Without
<1> QED
  BY <1>6, <1>7 DEF one

(* do_mutex_lock_release frees the lock and wakes all that wait for it.    *)
LEMMA ReleaseKeepsInv ==
  ASSUME SMPInv, NEW h \in Harts, NEW l \in Locks, Release(h, l)
  PROVE  SMPInv'
<1> DEFINE c == current_running[h]
           W == ToSet(wait_queue[l])
<1>1. /\ phase[h] = "call" /\ phase' = [phase EXCEPT ![h] = "leave"]
      /\ c \in Tasks /\ l \in held[c]
      /\ held' = [held EXCEPT ![c] = @ \ {l}]
      /\ lock_status' = [lock_status EXCEPT ![l] = "UNLOCKED"]
      /\ lock_list' = [t \in PCBs |-> Without(lock_list[t], l)]
      /\ ready_queue' = ready_queue \o wait_queue[l]
      /\ status' = Ready(status, wait_queue[l])
      /\ wait_queue' = [wait_queue EXCEPT ![l] = <<>>]
      /\ UNCHANGED <<stack, kernel_lock, current_running, used, mask, sleep_queue, acquiring, cpu>>
  BY DEF Release, InCall, Goto, Caller
<1>2. phase[h] \in Within /\ l \in Lists /\ l \notin Tasks /\ Tasks \subseteq PCBs /\ Harts = {0, 1}
  BY <1>1, PCBFacts DEF Within
<1>3. /\ Ordered(ready_queue, sleep_queue, wait_queue)
      /\ Placed(status, ready_queue, sleep_queue, wait_queue)
      /\ status \in [PCBs -> Statuses] /\ used \in [Tasks -> BOOLEAN] /\ LockTypes /\ LockInv
  BY DEF SMPInv, QueueInv, LifeInv, LockInv
<1>4. \A t \in PCBs : status'[t] = IF t \in W THEN "READY" ELSE status[t]
  BY <1>1 DEF Ready
<1>5. /\ Ordered(ready_queue', sleep_queue, wait_queue')
      /\ Placed(status', ready_queue', sleep_queue, wait_queue')
      /\ \A t \in W : t \in Tasks /\ status[t] = "BLOCKED"
  <2> DEFINE Q == {l}
             woken == wait_queue[l]
  <2>1. woken \in Seq(Tasks) /\ IsInjective(woken) /\ \A t : t \in ToSet(woken) <=> \E q \in Q : t \in ToSet(wait_queue[q])
    BY <1>2, <1>3 DEF Ordered
  <2>2. /\ wait_queue' \in [Lists -> Seq(Tasks)] /\ Q \in SUBSET Lists
        /\ \A q \in Lists : wait_queue'[q] = IF q \in Q THEN <<>> ELSE wait_queue[q]
    BY <1>1, <1>2, <1>3 DEF Ordered
  <2>3. \A t \in Tasks : status'[t] = IF t \in ToSet(woken) THEN "READY" ELSE status[t]
    BY <1>2, <1>4
  <2>4. W = ToSet(woken) /\ ready_queue' = ready_queue \o woken
    BY <1>1
  <2> DEFINE rq == ready_queue'
             st == status'
             wq == wait_queue'
  <2>5. /\ wq \in [Lists -> Seq(Tasks)] /\ Q \in SUBSET Lists /\ rq = ready_queue \o woken
        /\ \A q \in Lists : wq[q] = IF q \in Q THEN <<>> ELSE wait_queue[q]
        /\ \A t \in Tasks : st[t] = IF t \in ToSet(woken) THEN "READY" ELSE status[t]
    BY <2>2, <2>3, <2>4
  <2> HIDE DEF Q, W, woken, rq, st, wq
  <2>6. /\ Ordered(rq, sleep_queue, wq) /\ Placed(st, rq, sleep_queue, wq)
        /\ \A t \in ToSet(woken) : t \in Tasks /\ status[t] = "BLOCKED"
    <3>1. Ordered(ready_queue, sleep_queue, wait_queue) /\ Placed(status, ready_queue, sleep_queue, wait_queue)
      BY <1>3
    <3>2. Wakes(status, ready_queue, wait_queue, Q, woken, st, rq, wq)
      BY <2>1, <2>5 DEF Wakes
    <3> QED
      BY <2>5, <3>1, <3>2, WakeLists
  <2> QED
    BY <2>4, <2>6 DEF rq, st, wq
<1> HIDE DEF W
<1>6. status' \in [PCBs -> Statuses]
  <2>1. DOMAIN status' = PCBs /\ status' = [t \in PCBs |-> status'[t]]
    BY <1>1 DEF Ready
  <2> QED
    BY <1>3, <1>4, <2>1 DEF Statuses
<1>7. \A i \in Harts : LET d == current_running[i]
                       IN  d \in PCBs /\ d \notin W /\ status'[d] = status[d] /\ (d \in Tasks => used[d])
  <2>1. current_running[h] \notin W /\ (current_running[h] \in Tasks => used[current_running[h]])
    BY <1>1, <1>5, CallerUsed DEF Running, Undead, Dead
  <2>2. /\ current_running[1 - h] \notin W /\ Harts = {h, 1 - h}
        /\ (current_running[1 - h] \in Tasks => used[current_running[1 - h]])
    BY <1>2, <1>5, OtherHart DEF Dead
  <2>3. \A i \in Harts : current_running[i] \in PCBs
    BY DEF SMPInv, HartInv
  <2> QED
    BY <1>4, <2>1, <2>2, <2>3
<1>8. /\ HartInv' /\ phase'[h] = "leave" /\ phase'[1 - h] = phase[1 - h]
      /\ \A i \in Harts : phase'[i] \notin {"schedule", "pick", "switch", "retry"}
  <2>1. 1 - h \in Harts
    BY <1>2, OtherHart
  <2> QED
    BY <1>1, <1>7, <2>1, LeaveKeepsHarts
<1>9. QueueInv'
  BY <1>1, <1>5, <1>6 DEF QueueInv
<1>10. \A t \in Tasks : /\ status'[t] = "RUNNING" => status[t] = "RUNNING"
                        /\ status'[t] = Dead <=> status[t] = Dead
                        /\ status[t] \in {"READY", "RUNNING"} => status'[t] \in {"READY", "RUNNING"}
  BY <1>2, <1>4, <1>5 DEF Dead
<1>11. LifeInv'
  <2>1. \A t \in Tasks : wait_queue'[t] = wait_queue[t]
    BY <1>1, <1>2, <1>3 DEF Ordered
  <2> QED
    BY <1>1, <1>10, <2>1 DEF SMPInv, LifeInv
<1>12. MaskInv'
  BY <1>1, <1>8 DEF SMPInv, MaskInv, Fits
<1>13. LockInv'
  <2>1. lock_list[c] = <<l>> /\ held[c] = {l} /\ \A t \in Tasks \ {c} : l \notin held[t]
    BY <1>1 DEF SMPInv, LockInv
  <2>2. /\ held'[c] = {} /\ \A t \in Tasks \ {c} : held'[t] = held[t]
        /\ held' \in [Tasks -> SUBSET Locks]
        /\ lock_status'[l] = "UNLOCKED" /\ \A m \in Locks \ {l} : lock_status'[m] = lock_status[m]
        /\ lock_status' \in [Locks -> {"LOCKED", "UNLOCKED"}]
    BY <1>1, <1>3, <2>1 DEF LockTypes
  <2>3. lock_list'[c] = <<>>
    BY <1>1, <1>2, <2>1, RecordRemoved
  <2>4. \A t \in Tasks \ {c} : lock_list'[t] = lock_list[t]
    <3> SUFFICES ASSUME NEW t \in Tasks \ {c} PROVE Without(lock_list[t], l) = lock_list[t]
      BY <1>1, <1>2
    <3>1. l \notin ToSet(lock_list[t])
      BY <1>3, <2>1, RecordedHeld
    <3> QED
      BY <3>1 DEF Without
  <2>5. \A i \in Harts : lock_list'[Pid0(i)] = <<>>
    <3> SUFFICES ASSUME NEW i \in Harts PROVE lock_list'[Pid0(i)] = <<>>
      OBVIOUS
    <3>1. Pid0(i) \in PCBs
      BY <1>2, PCBFacts
    <3>2. lock_list[Pid0(i)] = <<>>
      BY <1>3 DEF LockInv
    <3>3. lock_list'[Pid0(i)] = Without(lock_list[Pid0(i)], l)
      BY <1>1, <3>1
    <3> QED
      BY <3>2, <3>3, RecordRemoved
  <2>6. lock_list' \in [PCBs -> Seq(Locks)]
    <3>1. \A t \in PCBs : lock_list'[t] \in Seq(Locks)
      <4>1. <<>> \in Seq(Locks)
        OBVIOUS
      <4>2. \A t \in PCBs : t = c \/ t \in Tasks \ {c} \/ t = Pid0(0) \/ t = Pid0(1)
        BY PCBFacts
      <4>3. \A t \in PCBs : lock_list[t] \in Seq(Locks)
        BY <1>3 DEF LockTypes
      <4> QED
        BY <1>2, <2>3, <2>4, <2>5, <4>1, <4>2, <4>3
    <3> QED
      BY <1>1, <3>1
  <2>7. LockTypes'
    BY <1>1, <1>3, <2>2, <2>6 DEF LockTypes
  <2>8. \A i \in Harts : phase'[i] \in Outside \cup {"call", "leave"} => acquiring[current_running[i]] = NoLock
    BY <1>1, <1>2, <1>8, OtherHart DEF SMPInv, LockInv
  <2>9. \A t \in Tasks :
          /\ \/ lock_list'[t] = <<>> /\ held'[t] = {}
             \/ \E m \in Locks : lock_list'[t] = <<m>> /\ held'[t] = {m}
          /\ held'[t] # {} => status'[t] \in {"READY", "RUNNING"}
          /\ acquiring[t] # NoLock => mask[t] = cpu[t] + 1 /\ held'[t] = {} /\ status'[t] # Dead
    BY <1>10, <2>2, <2>3, <2>4 DEF SMPInv, LockInv
  <2>10. \A t, u \in Tasks : t # u => held'[t] \cap held'[u] = {}
    BY <2>2 DEF SMPInv, LockInv
  <2>11. \A m \in Locks : lock_status'[m] = "LOCKED" <=> \E t \in Tasks : m \in held'[t]
    <3> SUFFICES ASSUME NEW m \in Locks
                 PROVE  lock_status'[m] = "LOCKED" <=> \E t \in Tasks : m \in held'[t]
      OBVIOUS
    <3>1. CASE m = l
      BY <2>1, <2>2, <3>1
    <3>2. CASE m # l
      <4>1. \A t \in Tasks : m \in held'[t] <=> m \in held[t]
        BY <2>1, <2>2, <3>2
      <4> QED
        BY <2>2, <3>2, <4>1 DEF SMPInv, LockInv
    <3> QED
      BY <3>1, <3>2
  <2>12. UNCHANGED <<current_running, mask, acquiring, cpu>>
    BY <1>1
  <2>13. \A i \in Harts : acquiring[Pid0(i)] = NoLock
    BY <1>3 DEF LockInv
  <2> QED
    BY <1>8, <2>5, <2>7, <2>8, <2>9, <2>10, <2>11, <2>12, <2>13 DEF LockInv
<1> QED
  BY <1>8, <1>9, <1>11, <1>12, <1>13 DEF SMPInv

(* The waiters of a task that ends, and of the lock it may hold, each once. *)
LEMMA EndedWaiters ==
  ASSUME LockInv, NEW t \in Tasks, NEW u \in [Lists -> Seq(Tasks)],
         \A q \in Lists : IsInjective(u[q]),
         \A q, p \in Lists : q # p => ToSet(u[q]) \cap ToSet(u[p]) = {}
  PROVE  LET w == EndedIn(u, t)
         IN  /\ ToSet(Ended(t)) \in SUBSET Lists
             /\ \A q \in ToSet(Ended(t)) : q \in Tasks <=> q = t
             /\ t \in ToSet(Ended(t))
             /\ w \in Seq(Tasks) /\ IsInjective(w)
             /\ \A x : x \in ToSet(w) <=> \E q \in ToSet(Ended(t)) : x \in ToSet(u[q])
<1> DEFINE e == Ended(t)
           s == [i \in DOMAIN e |-> u[e[i]]]
           w == FlattenSeq(s)
<1>0. t \in Lists /\ Locks \subseteq Lists /\ Locks \cap Tasks = {}
  BY PCBFacts
<1>1. CASE lock_list[t] = <<>>
  <2>1. e = <<t>>
    BY <1>1 DEF Ended
  <2>2. ToSet(e) = {t} /\ DOMAIN e = 1 .. 1 /\ e[1] = t
    BY <2>1 DEF ToSet
  <2>3. s \in Seq(Seq(Tasks)) /\ Len(s) = 1 /\ s[1] = u[t]
    <3> HIDE DEF e
    <3>1. s = [i \in 1 .. 1 |-> u[e[i]]] /\ \A i \in 1 .. 1 : e[i] = t
      BY <2>2
    <3> HIDE DEF s
    <3> QED
      BY <1>0, <3>1
  <2> HIDE DEF s, e
  <2>4. w = u[t]
    BY <2>3, FlattenOne
  <2> HIDE DEF w
  <2> QED
    BY <1>0, <2>2, <2>4 DEF e, s, w, EndedIn
<1>2. ASSUME NEW l \in Locks, lock_list[t] = <<l>>
      PROVE  /\ ToSet(e) \in SUBSET Lists
             /\ \A q \in ToSet(e) : q \in Tasks <=> q = t
             /\ t \in ToSet(e)
             /\ w \in Seq(Tasks) /\ IsInjective(w)
             /\ \A x : x \in ToSet(w) <=> \E q \in ToSet(e) : x \in ToSet(u[q])
  <2>1. DOMAIN e = 1 .. 2 /\ e[1] = t /\ e[2] = l
    <3> DEFINE a == <<t>>
               b == <<l>>
    <3>1. a \in Seq(Lists) /\ b \in Seq(Lists) /\ Len(a) = 1 /\ Len(b) = 1 /\ a[1] = t /\ b[1] = l
      BY <1>0
    <3>2. e = a \o b
      BY <1>2 DEF Ended
    <3> HIDE DEF a, b, e
    <3>3. /\ e \in Seq(Lists) /\ Len(e) = Len(a) + Len(b)
          /\ \A i \in 1 .. Len(a) + Len(b) : e[i] = IF i <= Len(a) THEN a[i] ELSE b[i - Len(a)]
      <4>1. a \in Seq(Lists) /\ b \in Seq(Lists)
        BY <3>1
      <4> QED
        BY <3>2, <4>1, ConcatProperties
    <3>4. Len(e) = 2 /\ e[1] = a[1] /\ e[2] = b[1]
      BY <3>1, <3>3
    <3>5. DOMAIN e = 1 .. Len(e)
      BY <3>3
    <3> QED
      BY <3>1, <3>4, <3>5
  <2>2. ToSet(e) = {t, l} /\ DOMAIN e = 1 .. 2 /\ e[1] = t /\ e[2] = l
    <3> HIDE DEF e
    <3> QED
      BY <2>1 DEF ToSet
  <2>3. s \in Seq(Seq(Tasks)) /\ Len(s) = 2 /\ s[1] = u[t] /\ s[2] = u[l]
    <3> HIDE DEF e
    <3>1. s = [i \in 1 .. 2 |-> u[e[i]]] /\ \A i \in 1 .. 2 : e[i] \in Lists
      BY <1>0, <2>2
    <3> HIDE DEF s
    <3> QED
      BY <1>0, <2>2, <3>1
  <2>4. /\ u[t] \in Seq(Tasks) /\ IsInjective(u[t]) /\ u[l] \in Seq(Tasks) /\ IsInjective(u[l])
        /\ ToSet(u[t]) \cap ToSet(u[l]) = {}
    BY <1>0
  <2> HIDE DEF s, e
  <2>5. w = u[t] \o u[l]
    BY <2>3, FlattenTwo
  <2>6. w \in Seq(Tasks) /\ IsInjective(w) /\ ToSet(w) = ToSet(u[t]) \cup ToSet(u[l])
    BY <2>4, <2>5, ConcatQueues
  <2> HIDE DEF w
  <2> QED
    BY <1>0, <2>2, <2>6
<1> QED
  BY <1>1, <1>2 DEF LockInv, EndedIn

(* The lists after the end of a task.                                      *)
LEMMA TerminateLists ==
  ASSUME SMPInv, NEW h \in Harts, NEW t \in Tasks, Terminate(h, t)
  PROVE  \E W \in SUBSET Tasks :
           /\ Ordered(ready_queue', sleep_queue', wait_queue')
           /\ Placed(status', ready_queue', sleep_queue', wait_queue')
           /\ ToSet(sleep_queue') \subseteq ToSet(sleep_queue)
           /\ \A u \in PCBs : status'[u] = IF u = t THEN Dead ELSE IF u \in W THEN "READY" ELSE status[u]
           /\ \A u \in W : u # t /\ status[u] = "BLOCKED"
           /\ wait_queue'[t] = <<>>
           /\ \A u \in Tasks : wait_queue'[u] # <<>> => wait_queue[u] # <<>>
           /\ status' \in [PCBs -> Statuses]
           /\ t = current_running[h] => Replaceable(h, ready_queue')
<1> DEFINE unlinked == Unlinked(wait_queue, t)
           woken == EndedIn(unlinked, t)
           rq0 == Without(ready_queue, t)
           sq0 == Without(sleep_queue, t)
           st0 == Ending(status, t)
           rq == rq0 \o woken
           st == Ready(st0, woken)
           wq == [q \in Lists |-> IF q \in ToSet(Ended(t)) THEN <<>> ELSE unlinked[q]]
<1>1. /\ t = current_running[h] => Replaceable(h, rq)
      /\ status' = st /\ ready_queue' = rq /\ sleep_queue' = sq0 /\ wait_queue' = wq
  BY DEF Terminate, Caller, Lists, Unlinked, EndedIn, Ending
<1>2. /\ Ordered(ready_queue, sleep_queue, wait_queue)
      /\ Placed(status, ready_queue, sleep_queue, wait_queue)
      /\ status \in [PCBs -> Statuses] /\ LockInv /\ Tasks \subseteq PCBs
  BY PCBFacts DEF SMPInv, QueueInv
<1>3. st0[t] = Dead /\ \A u \in PCBs \ {t} : st0[u] = status[u]
  BY <1>2 DEF Ending
<1>4. /\ Ordered(rq0, sq0, unlinked) /\ Placed(st0, rq0, sq0, unlinked)
      /\ ToSet(sq0) \subseteq ToSet(sleep_queue)
      /\ \A q \in Lists : ToSet(unlinked[q]) = ToSet(wait_queue[q]) \ {t}
  BY <1>2, UnlinkLists
<1>5. \A q \in Lists : wait_queue[q] = <<>> => unlinked[q] = <<>>
  BY EmptyQueue DEF Without, Unlinked
<1>6. /\ ToSet(Ended(t)) \in SUBSET Lists
      /\ \A q \in ToSet(Ended(t)) : q \in Tasks <=> q = t
      /\ t \in ToSet(Ended(t))
      /\ woken \in Seq(Tasks) /\ IsInjective(woken)
      /\ \A x : x \in ToSet(woken) <=> \E q \in ToSet(Ended(t)) : x \in ToSet(unlinked[q])
  <2> DEFINE ul == unlinked
  <2>1. ul \in [Lists -> Seq(Tasks)] /\ \A q \in Lists : IsInjective(ul[q])
    BY <1>4 DEF Ordered
  <2>2. \A q, p \in Lists : q # p => ToSet(ul[q]) \cap ToSet(ul[p]) = {}
    BY <1>4 DEF Placed
  <2> HIDE DEF ul
  <2>3. LET w == EndedIn(ul, t)
         IN  /\ ToSet(Ended(t)) \in SUBSET Lists
             /\ \A q \in ToSet(Ended(t)) : q \in Tasks <=> q = t
             /\ t \in ToSet(Ended(t))
             /\ w \in Seq(Tasks) /\ IsInjective(w)
             /\ \A x : x \in ToSet(w) <=> \E q \in ToSet(Ended(t)) : x \in ToSet(ul[q])
    BY <1>2, <2>1, <2>2, EndedWaiters
  <2> QED
    BY <2>3 DEF ul
<1>7. \A u \in PCBs : st[u] = IF u \in ToSet(woken) THEN "READY" ELSE st0[u]
  BY DEF Ready
<1>8. \A x \in ToSet(woken) : x # t /\ x \in Tasks
  <2>1. \A q \in Lists : t \notin ToSet(unlinked[q])
    BY <1>4
  <2> HIDE DEF woken, unlinked
  <2>2. ToSet(woken) \in SUBSET Tasks
    BY <1>6 DEF ToSet
  <2> QED
    BY <1>6, <2>1, <2>2
<1>9. wq \in [Lists -> Seq(Tasks)] /\ \A q \in Lists : wq[q] = IF q \in ToSet(Ended(t)) THEN <<>> ELSE unlinked[q]
  BY <1>4 DEF Ordered
<1>10. DOMAIN st = PCBs /\ st = [u \in PCBs |-> st[u]]
  BY DEF Ready
<1> HIDE DEF unlinked, woken, rq0, sq0, st0, st, wq
<1>11. Wakes(st0, rq0, unlinked, ToSet(Ended(t)), woken, st, rq, wq)
  BY <1>2, <1>6, <1>7, <1>9 DEF Wakes
<1>12. /\ Ordered(rq, sq0, wq) /\ Placed(st, rq, sq0, wq)
       /\ \A u \in ToSet(woken) : u \in Tasks /\ st0[u] = "BLOCKED"
  BY <1>4, <1>6, <1>11, WakeLists
<1> HIDE DEF rq
<1>13. \A u \in ToSet(woken) : u # t /\ status[u] = "BLOCKED"
  BY <1>2, <1>3, <1>8, <1>12
<1>14. \A u \in PCBs : st[u] = IF u = t THEN Dead ELSE IF u \in ToSet(woken) THEN "READY" ELSE status[u]
  BY <1>3, <1>7, <1>8
<1>15. st \in [PCBs -> Statuses]
  BY <1>2, <1>10, <1>14 DEF Statuses
<1>16. wq[t] = <<>> /\ \A u \in Tasks : wq[u] # <<>> => wait_queue[u] # <<>>
  BY <1>5, <1>6, <1>9, PCBFacts
<1>17. ToSet(woken) \in SUBSET Tasks
  BY <1>8
<1> DEFINE W == ToSet(woken)
<1> HIDE DEF W
<1>18. /\ W \in SUBSET Tasks
       /\ Ordered(ready_queue', sleep_queue', wait_queue')
       /\ Placed(status', ready_queue', sleep_queue', wait_queue')
       /\ ToSet(sleep_queue') \subseteq ToSet(sleep_queue)
       /\ \A u \in PCBs : status'[u] = IF u = t THEN Dead ELSE IF u \in W THEN "READY" ELSE status[u]
       /\ \A u \in W : u # t /\ status[u] = "BLOCKED"
       /\ wait_queue'[t] = <<>>
       /\ \A u \in Tasks : wait_queue'[u] # <<>> => wait_queue[u] # <<>>
       /\ status' \in [PCBs -> Statuses]
       /\ t = current_running[h] => Replaceable(h, ready_queue')
  BY <1>1, <1>4, <1>12, <1>13, <1>14, <1>15, <1>16, <1>17 DEF W
<1> QED
  BY <1>18

(* do_exit and do_kill: what dies gives back its lock and leaves every     *)
(* list; a task that runs on the other hart holds none.                    *)
LEMMA TerminateKeepsInv ==
  ASSUME SMPInv, Careful, NEW h \in Harts, NEW t \in Tasks, Terminate(h, t),
         t = current_running[1 - h] => held[t] = {} /\ used'[t],
         used' \in [Tasks -> BOOLEAN], \A u \in Tasks \ {t} : used'[u] = used[u]
  PROVE  SMPInv'
<1> DEFINE c == current_running[h]
           d == current_running[1 - h]
           to == IF t = c THEN "schedule" ELSE "leave"
<1>1. /\ phase[h] = "call" /\ phase' = [phase EXCEPT ![h] = to]
      /\ lock_status' = [l \in Locks |-> IF l \in ToSet(lock_list[t]) THEN "UNLOCKED" ELSE lock_status[l]]
      /\ lock_list' = [lock_list EXCEPT ![t] = <<>>]
      /\ acquiring' = [acquiring EXCEPT ![t] = NoLock]
      /\ held' = IF t = d THEN held ELSE [held EXCEPT ![t] = {}]
      /\ UNCHANGED <<stack, kernel_lock, current_running, mask, cpu>>
  BY DEF Terminate, Goto, Caller
<1>2. PICK W \in SUBSET Tasks :
        /\ Ordered(ready_queue', sleep_queue', wait_queue')
        /\ Placed(status', ready_queue', sleep_queue', wait_queue')
        /\ ToSet(sleep_queue') \subseteq ToSet(sleep_queue)
        /\ \A u \in PCBs : status'[u] = IF u = t THEN Dead ELSE IF u \in W THEN "READY" ELSE status[u]
        /\ \A u \in W : u # t /\ status[u] = "BLOCKED"
        /\ wait_queue'[t] = <<>>
        /\ \A u \in Tasks : wait_queue'[u] # <<>> => wait_queue[u] # <<>>
        /\ status' \in [PCBs -> Statuses]
        /\ t = c => Replaceable(h, ready_queue')
  BY TerminateLists
<1>3. /\ phase[h] \in Within /\ Tasks \subseteq PCBs /\ Harts = {0, 1} /\ t \in PCBs
      /\ Pid0(0) # t /\ Pid0(1) # t /\ LockTypes /\ LockInv /\ phase \in [Harts -> Outside \cup Within]
      /\ c \in PCBs
  BY <1>1, PCBFacts DEF Within, SMPInv, LockInv, HartInv
<1>4. /\ 1 - h \in Harts /\ h # 1 - h /\ Harts = {h, 1 - h} /\ phase[1 - h] \in Outside
      /\ d \in PCBs /\ d # c /\ status[d] # "BLOCKED" /\ (d \in Tasks => used[d])
      /\ status[c] # "BLOCKED" /\ (c \in Tasks => used[c]) /\ stack[h] = c
      /\ Running(h) \/ Undead(h)
  <2>1. d \in PCBs
    BY <1>3, OtherHart DEF SMPInv, HartInv
  <2>2. stack[h] = c
    BY <1>1 DEF SMPInv, HartInv, HartOK
  <2> QED
    BY <1>1, <1>3, <2>1, <2>2, OtherHart, CallerUsed DEF Running, Undead, Dead
<1>5. to \in {"schedule", "leave"} /\ to \in Within /\ (to = "schedule" <=> t = c) /\ to \notin Outside
  BY DEF Within, Outside
<1>6. phase'[h] = to /\ phase'[1 - h] = phase[1 - h] /\ to \in Outside \cup Within
  BY <1>1, <1>3, <1>4, <1>5
<1> HIDE DEF to, c, d
<1>7. QueueInv'
  BY <1>2 DEF QueueInv
<1>8. \A u \in Tasks : /\ status'[u] = "RUNNING" => status[u] = "RUNNING"
                       /\ status'[u] # Dead => status[u] # Dead /\ u # t
                       /\ u # t /\ status[u] # Dead => status'[u] # Dead
                       /\ u # t /\ status[u] \in {"READY", "RUNNING"} => status'[u] \in {"READY", "RUNNING"}
  BY <1>2, <1>3 DEF Dead
<1>9. LifeInv'
  <2>1. \A u \in Tasks : status'[u] # Dead => used'[u]
    BY <1>8 DEF SMPInv, LifeInv
  <2>2. \A u \in Tasks : wait_queue'[u] # <<>> => status'[u] # Dead
    BY <1>2, <1>8 DEF SMPInv, LifeInv
  <2>3. \A u \in Tasks : status'[u] = "RUNNING" => \E i \in Harts : current_running'[i] = u
    BY <1>1, <1>8 DEF SMPInv, LifeInv
  <2> QED
    BY <2>1, <2>2, <2>3 DEF LifeInv
<1>10. HartInv'
  <2>1. status'[d] = status[d] \/ (d \in Tasks /\ status'[d] = Dead)
    BY <1>2, <1>4
  <2>2. d \in Tasks => used'[d]
    BY <1>4 DEF d
  <2>3. HartOK(h)'
    <3>1. HartOK(h)
      BY DEF SMPInv, HartInv
    <3>2. CASE t = c
      <4>1. /\ phase'[h] = "schedule" /\ current_running'[h] = c /\ stack'[h] = c
            /\ c \in Tasks /\ status'[c] = Dead
        BY <1>1, <1>2, <1>3, <1>4, <1>5, <1>6, <3>2 DEF c
      <4> QED
        BY <4>1 DEF HartOK, Running, Undead, Outside, Within, Dead
    <3>3. CASE t # c
      <4>1. phase'[h] = "leave" /\ status'[c] = status[c] /\ (c \in Tasks => used'[c])
            /\ current_running'[h] = c /\ stack'[h] = c
        BY <1>1, <1>2, <1>3, <1>4, <1>5, <1>6, <3>3 DEF c
      <4> QED
        BY <1>1, <1>4, <3>1, <4>1 DEF HartOK, Running, Undead, Outside, Within, c
    <3> QED
      BY <3>2, <3>3
  <2> QED
    BY <1>1, <1>3, <1>5, <2>1, <2>2, <2>3, KernelStep DEF SMPInv, d
<1>11. MaskInv'
  <2>1. \A i \in Harts : phase'[i] # "pick" /\ (phase'[i] = "schedule" => i = h /\ t = c)
    BY <1>4, <1>5, <1>6 DEF Outside
  <2>2. t = c => SomeFit(ready_queue', h)
    BY <1>2, ReplaceableFit DEF Ordered
  <2>3. t = c => SomeFit(ready_queue, h)'
    BY <1>1, <2>2 DEF SomeFit, Fits
  <2>4. \A u \in ToSet(sleep_queue') : mask[u] = 3
    BY <1>2 DEF SMPInv, MaskInv
  <2> QED
    BY <1>1, <2>1, <2>3, <2>4 DEF SMPInv, MaskInv, Fits
<1>12. LockInv'
  <2>1. held'[t] = {} /\ (\A u \in Tasks \ {t} : held'[u] = held[u]) /\ held' \in [Tasks -> SUBSET Locks]
    <3>1. CASE t = d
      BY <1>1, <1>3, <3>1 DEF LockTypes, d
    <3>2. CASE t # d
      BY <1>1, <1>3, <3>2 DEF LockTypes
    <3> QED
      BY <3>1, <3>2
  <2>2. \A l \in Locks : lock_status'[l] = IF l \in held[t] THEN "UNLOCKED" ELSE lock_status[l]
    BY <1>1, <1>3, RecordedHeld
  <2>3. /\ lock_list'[t] = <<>> /\ acquiring'[t] = NoLock
        /\ \A u \in PCBs \ {t} : lock_list'[u] = lock_list[u] /\ acquiring'[u] = acquiring[u]
    BY <1>1, <1>3 DEF LockTypes
  <2>4. LockTypes'
    <3>1. lock_status' \in [Locks -> {"LOCKED", "UNLOCKED"}]
      BY <1>1, <1>3 DEF LockTypes
    <3>2. <<>> \in Seq(Locks)
      OBVIOUS
    <3> QED
      BY <1>1, <1>3, <2>1, <3>1, <3>2 DEF LockTypes
  <2>5. \A i \in Harts :
          /\ lock_list'[Pid0(i)] = <<>> /\ acquiring'[Pid0(i)] = NoLock
          /\ phase'[i] # "retry"
          /\ phase'[i] \in Outside \cup {"call", "leave"} => acquiring'[current_running'[i]] = NoLock
    <3>1. \A i \in Harts : Pid0(i) \in PCBs \ {t} /\ current_running[i] \in PCBs
      BY <1>3, PCBFacts DEF SMPInv, HartInv
    <3>2. \A i \in Harts : phase[i] \in Outside \cup {"call", "leave"}
      BY <1>1, <1>4
    <3> QED
      BY <1>1, <1>3, <1>4, <1>5, <1>6, <2>3, <3>1, <3>2 DEF LockInv, Outside
  <2>6. \A u \in Tasks :
          /\ \/ lock_list'[u] = <<>> /\ held'[u] = {}
             \/ \E l \in Locks : lock_list'[u] = <<l>> /\ held'[u] = {l}
          /\ held'[u] # {} => status'[u] \in {"READY", "RUNNING"}
          /\ acquiring'[u] # NoLock => mask[u] = cpu[u] + 1 /\ held'[u] = {} /\ status'[u] # Dead
    <3> SUFFICES ASSUME NEW u \in Tasks
        PROVE /\ \/ lock_list'[u] = <<>> /\ held'[u] = {}
                 \/ \E l \in Locks : lock_list'[u] = <<l>> /\ held'[u] = {l}
              /\ held'[u] # {} => status'[u] \in {"READY", "RUNNING"}
              /\ acquiring'[u] # NoLock => mask[u] = cpu[u] + 1 /\ held'[u] = {} /\ status'[u] # Dead
      OBVIOUS
    <3>1. CASE u = t
      BY <2>1, <2>3, <3>1
    <3>2. CASE u # t
      <4>1. lock_list'[u] = lock_list[u] /\ acquiring'[u] = acquiring[u] /\ held'[u] = held[u]
        BY <1>3, <2>1, <2>3, <3>2
      <4> QED
        BY <1>3, <1>8, <3>2, <4>1 DEF LockInv
    <3> QED
      BY <3>1, <3>2
  <2>7. \A u, v \in Tasks : u # v => held'[u] \cap held'[v] = {}
    BY <1>3, <2>1 DEF LockInv
  <2>8. \A l \in Locks : lock_status'[l] = "LOCKED" <=> \E u \in Tasks : l \in held'[u]
    <3> SUFFICES ASSUME NEW l \in Locks
                 PROVE  lock_status'[l] = "LOCKED" <=> \E u \in Tasks : l \in held'[u]
      OBVIOUS
    <3>1. CASE l \in held[t]
      BY <1>3, <2>1, <2>2, <3>1 DEF LockInv
    <3>2. CASE l \notin held[t]
      BY <1>3, <2>1, <2>2, <3>2 DEF LockInv
    <3> QED
      BY <3>1, <3>2
  <2>9. UNCHANGED <<mask, cpu>>
    BY <1>1
  <2> QED
    BY <2>4, <2>5, <2>6, <2>7, <2>8, <2>9 DEF LockInv
<1> QED
  BY <1>7, <1>9, <1>10, <1>11, <1>12 DEF SMPInv

(* do_kill ends a task that holds nothing while it runs on the other hart, *)
(* and leaves it its slot.                                                 *)
LEMMA KillKeepsInv ==
  ASSUME SMPInv, Careful, NEW h \in Harts, NEW t \in Tasks, Kill(h, t)
  PROVE  SMPInv'
<1>1. /\ phase[h] = "call" /\ used[t] /\ Terminate(h, t) /\ used' = used
      /\ t = current_running[1 - h] => held[t] = {}
  BY DEF Kill, InCall, Caller, Careful
<1>2. used' \in [Tasks -> BOOLEAN]
  BY <1>1 DEF SMPInv, LifeInv
<1> QED
  BY <1>1, <1>2, TerminateKeepsInv

(* do_exit ends the caller and frees its slot.                             *)
LEMMA ExitKeepsInv ==
  ASSUME SMPInv, Careful, NEW h \in Harts, Exit(h)
  PROVE  SMPInv'
<1> DEFINE t == current_running[h]
<1>1. phase[h] = "call" /\ t \in Tasks /\ Terminate(h, t) /\ used' = [used EXCEPT ![t] = FALSE]
  BY DEF Exit, InCall, Caller
<1>2. t # current_running[1 - h]
  BY <1>1, OtherHart DEF Within
<1>3. used' \in [Tasks -> BOOLEAN] /\ \A u \in Tasks \ {t} : used'[u] = used[u]
  BY <1>1 DEF SMPInv, LifeInv
<1> QED
  BY <1>1, <1>2, <1>3, TerminateKeepsInv

(* do_spawn gives the new task the mask of the caller.                     *)
LEMMA SpawnKeepsInv ==
  ASSUME SMPInv, NEW h \in Harts, NEW t \in Tasks, Spawn(h, t)
  PROVE  SMPInv'
<1>1. mask[Caller(h)] \in 1 .. 3 /\ NewTask(h, t, mask[Caller(h)])
  BY DEF Spawn, Caller, SMPInv, HartInv, MaskInv
<1> QED
  BY <1>1, NewTaskKeepsInv

(* do_taskset gives it a mask of its own.                                  *)
LEMMA TasksetKeepsInv ==
  ASSUME SMPInv, NEW h \in Harts, NEW t \in Tasks, NEW k \in Masks, Taskset(h, t, k)
  PROVE  SMPInv'
<1>1. k \in 1 .. 3 /\ NewTask(h, t, k)
  BY DEF Taskset
<1> QED
  BY <1>1, NewTaskKeepsInv

-----------------------------------------------------------------------------
(* The invariant holds of the booted system: both harts idle, the shell is *)
(* ready and nobody has or wants a lock.                                   *)
LEMMA InitSMP == Init => SMPInv
<1> SUFFICES ASSUME Init PROVE SMPInv
  OBVIOUS
<1>1. 0 \in Tasks /\ (\A t \in Tasks : ~(t < 0)) /\ \A h \in Harts : Pid0(h) < 0 /\ Pid0(h) \in PCBs
  BY DEF Tasks, Pid0, Harts, PCBs
<1>2. \A h \in Harts : /\ phase[h] = "user" /\ stack[h] = Pid0(h) /\ current_running[h] = Pid0(h)
                       /\ status[Pid0(h)] = "RUNNING"
  BY <1>1 DEF Init
<1>3. \A t \in Tasks : status[t] = IF t = 0 THEN "READY" ELSE Dead
  BY <1>1, PCBFacts DEF Init
<1>4. \A q \in Lists : wait_queue[q] = <<>>
  BY DEF Init, Lists
<1>5. HartInv
  <2>1. phase \in [Harts -> Outside \cup Within] /\ current_running \in [Harts -> PCBs]
        /\ stack \in [Harts -> PCBs] /\ ~kernel_lock
    BY <1>1 DEF Init, Outside
  <2>2. \A h \in Harts : HartOK(h)
    BY <1>2 DEF HartOK, Running, Outside
  <2> QED
    BY <1>2, <2>1, <2>2, PCBFacts DEF HartInv, Outside, Within
<1>6. QueueInv
  <2> DEFINE first == <<0>>
  <2>1. first \in Seq(Tasks) /\ IsInjective(first) /\ ToSet(first) = {0}
    BY <1>1 DEF IsInjective, ToSet
  <2> HIDE DEF first
  <2>2. ready_queue = first /\ sleep_queue = <<>> /\ <<>> \in Seq(Tasks)
    BY DEF Init, first
  <2>3. wait_queue \in [Lists -> Seq(Tasks)]
    BY DEF Init, Lists
  <2>4. Ordered(ready_queue, sleep_queue, wait_queue)
    BY <1>4, <2>1, <2>2, <2>3, EmptyQueue DEF Ordered
  <2>5. Placed(status, ready_queue, sleep_queue, wait_queue)
    BY <1>3, <1>4, <2>1, <2>2, EmptyQueue DEF Placed, Dead
  <2>6. status \in [PCBs -> Statuses]
    BY DEF Init, Statuses
  <2> QED
    BY <2>4, <2>5, <2>6 DEF QueueInv
<1>7. LifeInv
  <2>1. used = [t \in Tasks |-> t = 0]
    BY DEF Init
  <2>2. used \in [Tasks -> BOOLEAN] /\ \A t \in Tasks : used[t] <=> t = 0
    BY <2>1, Zenon
  <2> QED
    BY <1>3, <1>4, <2>2, PCBFacts DEF LifeInv, Dead
<1>8. MaskInv
  BY <1>2, <1>1, EmptyQueue DEF Init, MaskInv, Fits
<1>9. LockInv
  <2>1. LockTypes
    BY PCBFacts DEF Init, LockTypes
  <2>2. \A t \in PCBs : lock_list[t] = <<>> /\ acquiring[t] = NoLock
    BY DEF Init
  <2>3. (\A t \in Tasks : held[t] = {}) /\ \A l \in Locks : lock_status[l] = "UNLOCKED"
    BY DEF Init
  <2> QED
    BY <1>1, <1>2, <2>1, <2>2, <2>3, PCBFacts DEF LockInv
<1> QED
  BY <1>5, <1>6, <1>7, <1>8, <1>9 DEF SMPInv

(* Each step of a hart keeps the invariant, but for the choice after which *)
(* the hart spins.                                                         *)
LEMMA StepSMP ==
  ASSUME Careful, SMPInv, [Next]_vars, \A i \in Harts : ~Spins(i)'
  PROVE  SMPInv'
<1> SUFFICES SMPInv'
  OBVIOUS
<1>1. CASE UNCHANGED vars
  <2>1. /\ UNCHANGED <<phase, stack, kernel_lock, current_running, used, status, mask>>
        /\ UNCHANGED <<ready_queue, sleep_queue, wait_queue>>
        /\ UNCHANGED <<lock_status, lock_list, acquiring, cpu, held>>
    BY <1>1 DEF vars, hartVars, queues, lockVars
  <2>2. HartInv' /\ LifeInv'
    BY <2>1 DEF SMPInv, HartInv, HartOK, Running, Undead, LifeInv
  <2>3. QueueInv'
    BY <2>1 DEF SMPInv, QueueInv
  <2>4. MaskInv'
    BY <2>1 DEF SMPInv, MaskInv, Running, Undead, SomeFit, Fits, Awaits
  <2>5. LockInv'
    BY <2>1 DEF SMPInv, LockInv, LockTypes
  <2> QED
    BY <2>2, <2>3, <2>4, <2>5 DEF SMPInv
<1>2. CASE Next
  <2>1. PICK h \in Harts :
          Trap(h) \/ LockKernel(h) \/ TimerInterrupt(h) \/ SystemCall(h) \/ InKernel(h)
    BY <1>2 DEF Next
  <2>2. CASE Trap(h) \/ LockKernel(h) \/ TimerInterrupt(h)
    BY <2>2, MovesKeepInv
  <2>3. CASE SystemCall(h)
    <3>1. CASE Sleep(h)
      BY <3>1, SleepKeepsInv
    <3>2. ASSUME NEW t \in Tasks, Waitpid(h, t) PROVE SMPInv'
      BY <3>2, WaitpidKeepsInv
    <3>3. ASSUME NEW t \in Tasks, Spawn(h, t) PROVE SMPInv'
      BY <3>3, SpawnKeepsInv
    <3>4. ASSUME NEW t \in Tasks, Kill(h, t) PROVE SMPInv'
      BY <3>4, KillKeepsInv
    <3>5. ASSUME NEW t \in Tasks, NEW k \in Masks, Taskset(h, t, k) PROVE SMPInv'
      BY <3>5, TasksetKeepsInv
    <3>6. ASSUME NEW t \in Tasks, NEW k \in Masks, TasksetP(h, t, k) PROVE SMPInv'
      BY <3>6, TasksetPKeepsInv
    <3>7. ASSUME NEW l \in Locks, Acquire(h, l) PROVE SMPInv'
      BY <3>7, AcquireKeepsInv
    <3>8. ASSUME NEW l \in Locks, Release(h, l) PROVE SMPInv'
      BY <3>8, ReleaseKeepsInv
    <3>9. CASE Exit(h)
      BY <3>9, ExitKeepsInv
    <3> QED
      BY <2>3, <3>1, <3>2, <3>3, <3>4, <3>5, <3>6, <3>7, <3>8, <3>9 DEF SystemCall
  <2>4. CASE InKernel(h)
    <3>1. CASE Requeue(h)
      BY <3>1, RequeueKeepsInv
    <3>2. CASE Pick(h)
      BY <3>2, PickKeepsInv
    <3>3. CASE SwitchTo(h)
      BY <3>3, SwitchKeepsInv
    <3>4. CASE Retry(h)
      BY <3>4, RetryKeepsInv
    <3>5. CASE UnlockKernel(h) \/ Restore(h)
      BY <3>5, MovesKeepInv
    <3> QED
      BY <2>4, <3>1, <3>2, <3>3, <3>4, <3>5 DEF InKernel
  <2> QED
    BY <2>1, <2>2, <2>3, <2>4
<1> QED
  BY <1>1, <1>2

(* Calls are for harts in the phase call.                                  *)
LEMMA CallPhase ==
  ASSUME NEW h, TimerInterrupt(h) \/ SystemCall(h)
  PROVE  phase[h] = "call"
BY DEF TimerInterrupt, SystemCall, Goto, InCall, Sleep, Waitpid, Spawn, Kill, Taskset, TasksetP,
       Acquire, Release, Exit

(* A hart that spins goes on, and the other one gets as far as the lock.   *)
LEMMA SpinsOn ==
  ASSUME NEW h \in Harts, Spins(h), [Next]_vars
  PROVE  Spins(h)'
<1> DEFINE c == current_running[h]
<1>1. /\ phase \in [Harts -> Outside \cup Within] /\ kernel_lock
      /\ phase[h] \in {"switch", "retry"} /\ phase[1 - h] \in Outside
      /\ Awaits(c) /\ current_running[cpu[c]] = c
      /\ stack \in [Harts -> PCBs] /\ stack[h] = c /\ stack[1 - h] # c
      /\ \A t, u \in Tasks : t # u => held[t] \cap held[u] = {}
      /\ NobodyWaitsForTheDead
  BY DEF Spins
<1>2. 1 - h \in Harts /\ h # 1 - h /\ Harts = {h, 1 - h}
  BY PCBFacts
<1>3. CASE UNCHANGED vars
  BY <1>1, <1>3 DEF Spins, Awaits, NobodyWaitsForTheDead, vars, hartVars, queues, lockVars
<1>4. ASSUME /\ UNCHANGED <<kernel_lock, current_running, used, status, mask, queues, lockVars>>
             /\ stack' = stack
             /\ phase' \in [Harts -> Outside \cup Within]
             /\ phase'[h] \in {"switch", "retry"} /\ phase'[1 - h] \in Outside
      PROVE  Spins(h)'
  <2>1. Awaits(c)' /\ NobodyWaitsForTheDead'
    BY <1>1, <1>4 DEF Awaits, NobodyWaitsForTheDead, queues, lockVars
  <2>2. /\ current_running'[h] = c /\ current_running'[cpu'[c]] = c /\ held' = held
        /\ kernel_lock' /\ stack' = stack
    BY <1>1, <1>4 DEF lockVars
  <2> QED
    BY <1>1, <1>4, <2>1, <2>2 DEF Spins
<1>5. CASE SwitchTo(h)
  <2>1. stack' = stack
    BY <1>1, <1>5 DEF SwitchTo, Caller
  <2>2. /\ phase' \in [Harts -> Outside \cup Within]
        /\ phase'[h] \in {"switch", "retry"} /\ phase'[1 - h] = phase[1 - h]
    <3>1. acquiring[c] # NoLock
      BY <1>1, PCBFacts DEF Awaits
    <3> QED
      BY <1>1, <1>2, <1>5, <3>1 DEF SwitchTo, Goto, Caller, Within
  <2> QED
    BY <1>1, <1>4, <1>5, <2>1, <2>2 DEF SwitchTo
<1>6. CASE Trap(1 - h) \/ Restore(1 - h)
  <2>1. /\ phase' = [phase EXCEPT ![1 - h] = phase'[1 - h]] /\ phase'[1 - h] \in Outside
        /\ phase' \in [Harts -> Outside \cup Within]
    BY <1>1, <1>2, <1>6 DEF Trap, Restore, Goto, Outside
  <2>2. phase'[h] = phase[h]
    BY <1>1, <1>2, <2>1
  <2> QED
    BY <1>1, <1>4, <1>6, <2>1, <2>2 DEF Trap, Restore
<1>7. ~Retry(h)
  <2> SUFFICES ASSUME Retry(h) PROVE FALSE
    OBVIOUS
  <2>1. TryAcquire(h, acquiring[c], c)
    BY <1>1 DEF Retry, Caller
  <2>2. c \notin Linked
    BY <1>1, <2>1 DEF TryAcquire, Block, Awaits
  <2>3. acquiring[c] \in Lists /\ c \in ToSet(wait_queue[acquiring[c]])
    BY <1>1, PCBFacts DEF Awaits
  <2> QED
    BY <2>2, <2>3, WaitingIn DEF Linked
<1>8. CASE Next
  <2>1. PICK i \in Harts :
          Trap(i) \/ LockKernel(i) \/ TimerInterrupt(i) \/ SystemCall(i) \/ InKernel(i)
    BY <1>8 DEF Next
  <2>2. phase[i] # "call"
    BY <1>1, <1>2 DEF Outside
  <2>3. ~LockKernel(i)
    BY <1>1 DEF LockKernel
  <2>4. Trap(i) \/ InKernel(i)
    BY <2>1, <2>2, <2>3, CallPhase
  <2>5. CASE i = h
    BY <1>1, <1>5, <1>7, <2>4, <2>5 DEF Trap, InKernel, Requeue, Pick, UnlockKernel, Restore, Goto
  <2>6. CASE i = 1 - h
    BY <1>1, <1>6, <2>4, <2>6 DEF InKernel, Requeue, Pick, SwitchTo, Retry, UnlockKernel, Goto, Outside
  <2> QED
    BY <1>2, <2>5, <2>6
<1> QED
  BY <1>3, <1>8

(* For careful programs the invariant holds in every state until a hart    *)
(* spins, and then that hart spins for ever.                               *)
Sound == SMPInv \/ \E h \in Harts : Spins(h)

LEMMA SMPInvariant ==
  ASSUME Careful
  PROVE  Spec => []Sound
<1>1. Init => Sound
  BY InitSMP DEF Sound
<1>2. Sound /\ [Next]_vars => Sound'
  <2> SUFFICES ASSUME Sound, [Next]_vars PROVE Sound'
    OBVIOUS
  <2>1. CASE SMPInv
    BY <2>1, StepSMP DEF Sound
  <2>2. ASSUME NEW h \in Harts, Spins(h) PROVE Sound'
    BY <2>2, SpinsOn DEF Sound
  <2> QED
    BY <2>1, <2>2 DEF Sound
<1> QED
  BY <1>1, <1>2, PTL DEF Spec

-----------------------------------------------------------------------------
(* The two harts are never on the kernel stack of the same task: switch_to *)
(* comes after the next task is current, and until then nobody else gets   *)
(* into the kernel to pick the one that is being left.                     *)
THEOREM StacksApart ==
  ASSUME Careful
  PROVE  Spec => []StacksAreOwn
<1>1. SMPInv => StacksAreOwn
  <2> SUFFICES ASSUME SMPInv PROVE StacksAreOwn
    OBVIOUS
  <2>1. phase[0] # "switch" \/ phase[1] # "switch"
    BY PCBFacts DEF SMPInv, HartInv, Outside, Within
  <2> QED
    BY <2>1, PCBFacts DEF SMPInv, HartInv, HartOK, StacksAreOwn
<1>2. ASSUME NEW h \in Harts, Spins(h) PROVE StacksAreOwn
  BY <1>2, PCBFacts DEF Spins, StacksAreOwn
<1>3. Sound => StacksAreOwn
  BY <1>1, <1>2 DEF Sound
<1> QED
  BY <1>3, SMPInvariant, PTL

(* Whenever no hart is in the kernel every READY task is queued once, every *)
(* BLOCKED one sleeps or waits in one list, and every RUNNING one has a    *)
(* hart, whatever timer interrupts, calls and kills came before.           *)
THEOREM NobodyLostOnTwoHarts ==
  ASSUME Careful
  PROVE  Spec => []NobodyLost
<1>1. SMPInv => NobodyLost
  <2> SUFFICES ASSUME SMPInv, ~kernel_lock PROVE NobodyLost
    BY DEF NobodyLost
  <2>1. \A t \in Tasks : status[t] = "READY" => Once(t, ready_queue)
    BY OnceInQueue DEF SMPInv, QueueInv, Ordered, Placed
  <2>2. ASSUME NEW t \in Tasks, status[t] = "BLOCKED"
        PROVE  Once(t, sleep_queue) \/ \E q \in Tasks \cup Locks : Once(t, wait_queue[q])
    <3>1. CASE t \in ToSet(sleep_queue)
      BY <3>1, OnceInQueue DEF SMPInv, QueueInv, Ordered
    <3>2. CASE t \notin ToSet(sleep_queue)
      <4>1. PICK q \in Lists : t \in ToSet(wait_queue[q])
        BY <2>2, <3>2 DEF SMPInv, QueueInv, Placed
      <4>2. wait_queue[q] \in Seq(Tasks) /\ IsInjective(wait_queue[q])
        BY DEF SMPInv, QueueInv, Ordered
      <4>3. Once(t, wait_queue[q])
        BY <4>1, <4>2, OnceInQueue
      <4> QED
        BY <4>3 DEF Lists
    <3> QED
      BY <3>1, <3>2
  <2>3. ASSUME NEW t \in Linked PROVE status[t] \in {"READY", "BLOCKED"} /\ used[t]
    <3>1. t \in ToSet(ready_queue) \/ t \in ToSet(sleep_queue) \/ \E q \in Lists : t \in ToSet(wait_queue[q])
      BY WaitingIn DEF Linked
    <3>2. t \in Tasks
      <4>1. /\ ready_queue \in Seq(Tasks) /\ sleep_queue \in Seq(Tasks)
            /\ \A q \in Lists : wait_queue[q] \in Seq(Tasks)
        BY DEF SMPInv, QueueInv, Ordered
      <4>2. \A q \in Seq(Tasks) : ToSet(q) \subseteq Tasks
        BY DEF ToSet
      <4> QED
        BY <3>1, <4>1, <4>2
    <3>3. status[t] \in {"READY", "BLOCKED"}
      BY <3>1, <3>2 DEF SMPInv, QueueInv, Placed
    <3> QED
      BY <3>2, <3>3 DEF SMPInv, LifeInv, Dead
  <2>4. \A t \in Tasks : status[t] = "RUNNING" => \E h \in Harts : current_running[h] = t
    BY DEF SMPInv, LifeInv
  <2>5. \A h \in Harts : stack[h] = current_running[h] /\ status[stack[h]] \in {"RUNNING", Dead}
    <3>1. \A h \in Harts : phase[h] \in Outside
      BY DEF SMPInv, HartInv
    <3> QED
      BY <3>1 DEF SMPInv, HartInv, HartOK, Running, Undead, Outside
  <2> QED
    BY <2>1, <2>2, <2>3, <2>4, <2>5 DEF NobodyLost
<1>2. ASSUME NEW h \in Harts, Spins(h) PROVE NobodyLost
  BY <1>2 DEF Spins, NobodyLost
<1>3. Sound => NobodyLost
  BY <1>1, <1>2 DEF Sound
<1> QED
  BY <1>3, SMPInvariant, PTL

(* Two programs, on one hart or on both, are never inside the critical     *)
(* section of one lock together, through blocking, retries and the end of  *)
(* those that held or wanted it.                                           *)
THEOREM LocksExcludeOnTwoHarts ==
  ASSUME Careful
  PROVE  Spec => []LockExcludes
<1>1. SMPInv => LockExcludes
  <2> SUFFICES ASSUME SMPInv PROVE LockExcludes
    OBVIOUS
  <2>1. \A t \in Tasks : Inside(t) \subseteq held[t]
    BY DEF Inside
  <2> QED
    BY <2>1 DEF SMPInv, LockInv, LockExcludes
<1>2. ASSUME NEW h \in Harts, Spins(h) PROVE LockExcludes
  <2>1. \A t \in Tasks : Inside(t) \subseteq held[t]
    BY DEF Inside
  <2> QED
    BY <1>2, <2>1 DEF Spins, LockExcludes
<1>3. Sound => LockExcludes
  BY <1>1, <1>2 DEF Sound
<1> QED
  BY <1>3, SMPInvariant, PTL

(* Whoever is in the wait list of a task waits for one that is alive: exit *)
(* and kill empty the list, and a new task starts with an empty one.       *)
THEOREM DeadKeepNobodyWaiting ==
  ASSUME Careful
  PROVE  Spec => []NobodyWaitsForTheDead
<1>1. SMPInv => NobodyWaitsForTheDead
  BY DEF SMPInv, LifeInv, NobodyWaitsForTheDead
<1>2. Sound => NobodyWaitsForTheDead
  BY <1>1 DEF Sound, Spins
<1> QED
  BY <1>2, SMPInvariant, PTL
=============================================================================
