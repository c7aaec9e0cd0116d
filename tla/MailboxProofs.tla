--------------------------- MODULE MailboxProofs ---------------------------
(***************************************************************************)
(* What holds of a mailbox for every number of senders and receivers, all  *)
(* lengths of messages and every size of the box, with tasks killed while  *)
(* they wait.                                                              *)
(***************************************************************************)
EXTENDS Mailbox, LocksProofs

(* Numbers modulo Stamps.                                                  *)
LEMMA ModUnique ==
  ASSUME NEW s \in Nat, s > 0, NEW k \in Int, NEW r \in 0 .. s - 1
  PROVE  (s * k + r) % s = r
OBVIOUS

(* Quotient and remainder.                                                 *)
LEMMA ModQuotient ==
  ASSUME NEW s \in Nat, s > 0, NEW a \in Int
  PROVE  a = s * (a \div s) + (a % s) /\ a % s \in 0 .. s - 1 /\ a \div s \in Int
<1>1. a = s * (a \div s) + (a % s)
  OBVIOUS
<1>2. a % s \in 0 .. s - 1
  OBVIOUS
<1>3. a \div s \in Int
  OBVIOUS
<1> QED
  BY <1>1, <1>2, <1>3

(* A multiple of the modulus does not count.                               *)
LEMMA ModShift ==
  ASSUME NEW s \in Nat, s > 0, NEW k \in Int, NEW r \in Int
  PROVE  (s * k + r) % s = r % s
<1> DEFINE d == r \div s
           m == r % s
<1>1. r = s * d + m /\ m \in 0 .. s - 1 /\ d \in Int
  BY ModQuotient
<1> HIDE DEF d, m
<1>2. s * k + r = s * (k + d) + m
  BY <1>1
<1>3. (s * (k + d) + m) % s = m
  BY <1>1, ModUnique
<1> QED
  BY <1>2, <1>3 DEF m

(* The remainder of a sum is that of the sum of the remainders.            *)
LEMMA ModAdd ==
  ASSUME NEW s \in Nat, s > 0, NEW a \in Int, NEW b \in Int
  PROVE  ((a % s) + b) % s = (a + b) % s
<1> DEFINE k == a \div s
           c == (a % s) + b
<1>1. k \in Int /\ c \in Int /\ a = s * k + (a % s) /\ a % s \in Int
  BY ModQuotient
<1>2. a + b = s * k + c
  BY <1>1
<1> HIDE DEF k, c
<1>3. (s * k + c) % s = c % s
  BY <1>1, ModShift
<1> QED
  BY <1>2, <1>3 DEF c

USE SizeAssumption, MaskAssumption, ModeAssumption

-----------------------------------------------------------------------------
BoxQueues == {full_queue, empty_queue}

BoxTypeOK ==
  /\ opened \in BOOLEAN
  /\ msg \in Seq(Nat)
  /\ pending \in [Tasks -> Nat]
  /\ sent \in Nat /\ received \in Nat

(* Who is listed in a queue of the box is in the call that waits there.    *)
CallersQueued == \A q \in BoxQueues : \A t \in ToSet(wait_queue[q]) : acquiring[t] = q

ClosedUnused == ~opened => ~InUse

BoxInv == KernelInv /\ BoxTypeOK /\ CallersQueued /\ ClosedUnused

BoxSafe == StreamIntact /\ NoSleeperWithoutReason

(* The types of what the proofs speak of.                                  *)
LEMMA BoxFacts ==
  /\ \A q \in BoxQueues : q \in Objects \ Locks /\ q \in Queues /\ q # NoObject
  /\ full_queue # empty_queue
  /\ SendLengths \subseteq Nat /\ RecvLengths \subseteq Nat
  /\ Stamps \in Nat /\ Stamps > 0 /\ MAX_MBOX_LENGTH \in Nat
BY MailboxAssumption, ObjectNoTask DEF BoxQueues

(* The byte j places behind the one numbered a.                            *)
LEMMA StampsAdd ==
  ASSUME NEW a \in Nat, NEW b \in Int, NEW c, c = a + b
  PROVE  ((a % Stamps) + b) % Stamps = c % Stamps
<1>1. Stamps \in Nat /\ Stamps > 0 /\ a \in Int
  BY BoxFacts
<1>2. ((a % Stamps) + b) % Stamps = (a + b) % Stamps
  BY <1>1, ModAdd, Zenon
<1> QED
  BY <1>2, Zenon

(* The stamps of the bytes are numbers.                                    *)
LEMMA StampIsNat ==
  ASSUME NEW a \in Int
  PROVE  a % Stamps \in Nat
BY BoxFacts, ModQuotient

(* n bytes put in behind the others.                                       *)
LEMMA SendKeepsStream ==
  ASSUME BoxTypeOK, StreamIntact, NEW n \in Nat,
         msg' = msg \o NextBytes(n), sent' = (sent + n) % Stamps, UNCHANGED received
  PROVE  /\ StreamIntact' /\ msg' \in Seq(Nat) /\ sent' \in Nat
         /\ Len(msg') = Len(msg) + n
<1> DEFINE new == NextBytes(n)
<1>0. /\ msg \in Seq(Nat) /\ sent \in Nat /\ received \in Nat /\ Len(msg) \in Nat
      /\ Stamps \in Nat /\ Stamps > 0
  BY BoxFacts DEF BoxTypeOK
<1>1. /\ new \in Seq(Nat) /\ Len(new) = n
      /\ \A i \in 1 .. n : new[i] = (sent + i - 1) % Stamps
  <2>1. \A i \in 1 .. n : (sent + i - 1) % Stamps \in Nat
    BY <1>0, StampIsNat
  <2> QED
    BY <2>1 DEF NextBytes
<1> HIDE DEF new
<1>2. /\ msg' \in Seq(Nat) /\ Len(msg') = Len(msg) + n
      /\ \A i \in 1 .. Len(msg) + n : msg'[i] = IF i <= Len(msg) THEN msg[i] ELSE new[i - Len(msg)]
  BY <1>0, <1>1, ConcatProperties DEF new
<1>3. sent = (received + Len(msg)) % Stamps
  BY DEF StreamIntact
<1>4. ASSUME NEW i \in 1 .. Len(msg) + n PROVE msg'[i] = (received + i - 1) % Stamps
  <2>1. CASE i <= Len(msg)
    <3>1. i \in DOMAIN msg /\ msg'[i] = msg[i]
      BY <1>0, <1>2, <2>1
    <3> QED
      BY <3>1 DEF StreamIntact
  <2>2. CASE i > Len(msg)
    <3> DEFINE a == received + Len(msg)
               b == i - Len(msg) - 1
               c == received + i - 1
    <3>1. a \in Nat /\ b \in Int /\ c = a + b /\ sent = a % Stamps
      BY <1>0, <1>3
    <3>2. i - Len(msg) \in 1 .. n /\ sent + (i - Len(msg)) - 1 = sent + b
      BY <1>0, <2>2
    <3>3. msg'[i] = (sent + b) % Stamps
      BY <1>0, <1>1, <1>2, <2>2, <3>2
    <3> HIDE DEF a, b, c
    <3>4. (sent + b) % Stamps = c % Stamps
      BY <3>1, StampsAdd
    <3> QED
      BY <3>3, <3>4 DEF c
  <2>3. i <= Len(msg) \/ i > Len(msg)
    BY <1>0
  <2> QED
    BY <2>1, <2>2, <2>3, Zenon
<1>5. sent' = (received + Len(msg')) % Stamps
  <2> DEFINE a == received + Len(msg)
             c == received + Len(msg')
  <2>1. a \in Nat /\ c = a + n /\ sent = a % Stamps
    BY <1>0, <1>2, <1>3
  <2> HIDE DEF a, c
  <2>2. (sent + n) % Stamps = c % Stamps
    BY <2>1, StampsAdd
  <2> QED
    BY <2>2 DEF c
<1>6. sent' \in Nat
  BY <1>0, StampIsNat
<1>7. DOMAIN msg' = 1 .. Len(msg) + n
  BY <1>0, <1>2
<1> QED
  BY <1>2, <1>4, <1>5, <1>6, <1>7 DEF StreamIntact

(* What is left of a call after a part of it.                              *)
LEMMA RestOf ==
  ASSUME msg \in Seq(Nat), NEW n \in Nat, Len(msg) >= n
  PROVE  /\ Rest(n) \in Seq(Nat) /\ Len(Rest(n)) = Len(msg) - n
         /\ \A i \in 1 .. Len(msg) - n : Rest(n)[i] = msg[n + i]
<1> DEFINE m == n + 1
           last == Len(msg)
<1>1. m \in Int /\ last \in Int /\ \A k \in m .. last : msg[k] \in Nat
  OBVIOUS
<1>2. last - m + 1 = Len(msg) - n /\ (m <= last \/ Len(msg) - n = 0)
  OBVIOUS
<1>3. \A i \in 1 .. Len(msg) - n : m + i - 1 = n + i
  OBVIOUS
<1>4. Rest(n) = SubSeq(msg, m, last)
  BY DEF Rest
<1> HIDE DEF m, last
<1>5. /\ Rest(n) \in Seq(Nat) /\ Len(Rest(n)) = (IF m <= last THEN last - m + 1 ELSE 0)
      /\ \A i \in 1 .. last - m + 1 : Rest(n)[i] = msg[m + i - 1]
  BY <1>1, <1>4, SubSeqProperties
<1>6. Len(msg) \in Nat /\ m \in Int /\ last \in Int
  BY <1>1
<1> QED
  BY <1>2, <1>3, <1>5, <1>6

(* n bytes taken from the front.                                           *)
LEMMA RecvKeepsStream ==
  ASSUME BoxTypeOK, StreamIntact, NEW n \in Nat, Len(msg) >= n,
         msg' = Rest(n), received' = (received + n) % Stamps, UNCHANGED sent
  PROVE  /\ StreamIntact' /\ msg' \in Seq(Nat) /\ received' \in Nat
         /\ Len(msg') = Len(msg) - n
<1>0. /\ msg \in Seq(Nat) /\ sent \in Nat /\ received \in Nat /\ Len(msg) \in Nat
      /\ Stamps \in Nat /\ Stamps > 0 /\ DOMAIN msg = 1 .. Len(msg)
  BY BoxFacts DEF BoxTypeOK
<1>1. /\ msg' \in Seq(Nat) /\ Len(msg') = Len(msg) - n
      /\ \A i \in 1 .. Len(msg) - n : msg'[i] = msg[n + i]
  BY <1>0, RestOf
<1>2. ASSUME NEW i \in 1 .. Len(msg) - n PROVE msg'[i] = (received' + i - 1) % Stamps
  <2>1. n + i \in DOMAIN msg
    BY <1>0
  <2>2. msg'[i] = (received + (n + i) - 1) % Stamps
    BY <1>1, <2>1 DEF StreamIntact
  <2> DEFINE a == received + n
             b == i - 1
             c == received + (n + i) - 1
  <2>3. a \in Nat /\ b \in Int /\ c = a + b /\ received' = a % Stamps
    BY <1>0
  <2>4. received' \in Nat
    BY <1>0, StampIsNat
  <2>5. received' + b = received' + i - 1
    BY <2>4
  <2> HIDE DEF a, b, c
  <2>6. (received' + b) % Stamps = c % Stamps
    BY <2>3, StampsAdd
  <2> QED
    BY <2>2, <2>5, <2>6 DEF c
<1>3. (received' + Len(msg')) % Stamps = sent'
  <2> DEFINE a == received + n
             b == Len(msg')
             c == received + Len(msg)
  <2>1. a \in Nat /\ b \in Int /\ c = a + b /\ received' = a % Stamps
    BY <1>0, <1>1
  <2>2. c % Stamps = sent'
    BY DEF StreamIntact
  <2> HIDE DEF a, b, c
  <2>3. (received' + b) % Stamps = c % Stamps
    BY <2>1, StampsAdd
  <2> QED
    BY <2>2, <2>3 DEF b
<1>4. received' \in Nat /\ DOMAIN msg' = 1 .. Len(msg) - n
  BY <1>0, <1>1, StampIsNat
<1> QED
  BY <1>1, <1>2, <1>3, <1>4 DEF StreamIntact

-----------------------------------------------------------------------------
(* Who is in a queue of the box waits in one of them only, and the box is  *)
(* in use.                                                                 *)
LEMMA QueuedUse ==
  ASSUME BoxInv, NEW q \in BoxQueues, NEW t \in ToSet(wait_queue[q])
  PROVE  t \in Tasks /\ t # current_running /\ InUse
<1>1. t \in Tasks /\ t # current_running /\ Alive(t)
  BY BoxFacts, WaiterFacts DEF BoxInv
<1> QED
  BY <1>1 DEF BoxInv, CallersQueued, InUse, BoxQueues

(* A call that succeeds: the queue q of the others is emptied.             *)
LEMMA FinishKept ==
  ASSUME BoxInv, NEW q \in BoxQueues, Finish(q), current_running \in Tasks,
         UNCHANGED <<pcbVars, lockOnly>>
  PROVE  /\ KernelInv' /\ CallersQueued' /\ UNCHANGED pending
         /\ ToSet(wait_queue'[q]) = {}
         /\ \A k \in BoxQueues : k # q => wait_queue'[k] = wait_queue[k]
<1>1. /\ acquiring' = [acquiring EXCEPT ![current_running] = NoObject]
      /\ ready_queue' = ready_queue \o wait_queue[q]
      /\ status' = Awaken(status, ToSet(wait_queue[q]))
      /\ wait_queue' = [wait_queue EXCEPT ![q] = <<>>]
      /\ UNCHANGED <<timer, sleep_queue, current_running, satp, pending>>
  BY DEF Finish, WakeAll
<1>2. q \in Objects
  BY BoxFacts
<1>3. KernelInv'
  BY <1>1, <1>2, WakeKeepsKernel DEF BoxInv, lockOnly
<1>4. /\ wait_queue \in [Queues -> Seq(Tasks)]
      /\ acquiring \in [PCBs -> Objects \cup {NoObject}] /\ Tasks \subseteq PCBs
  BY QueueTypes, PCBFacts DEF BoxInv, KernelInv, EndInv, LockTypeOK
<1>5. ToSet(wait_queue'[q]) = {} /\ \A k \in BoxQueues : k # q => wait_queue'[k] = wait_queue[k]
  BY <1>1, <1>4, BoxFacts, EmptyQueue
<1>6. CallersQueued'
  <2> SUFFICES ASSUME NEW k \in BoxQueues, NEW t \in ToSet(wait_queue'[k])
               PROVE  acquiring'[t] = k
    BY DEF CallersQueued
  <2>1. t \in ToSet(wait_queue[k])
    BY <1>5
  <2>2. t \in Tasks /\ t # current_running /\ acquiring[t] = k
    BY <2>1, QueuedUse DEF BoxInv, CallersQueued
  <2> QED
    BY <1>1, <1>4, <2>2
<1> QED
  BY <1>1, <1>3, <1>5, <1>6

(* A call that cannot go on: the caller joins those in q.                  *)
LEMMA WaitKept ==
  ASSUME BoxInv, NEW q \in BoxQueues, NEW n \in Nat, Wait(q, n),
         current_running \in Tasks, current_running \in Workers,
         UNCHANGED <<pcbVars, lockOnly>>
  PROVE  /\ KernelInv' /\ CallersQueued' /\ pending' \in [Tasks -> Nat]
         /\ \A k \in BoxQueues : \A t \in ToSet(wait_queue'[k]) :
              \/ t = current_running /\ k = q /\ pending'[t] = n
              \/ t \in ToSet(wait_queue[k]) /\ pending'[t] = pending[t]
<1>1. /\ acquiring' = [acquiring EXCEPT ![current_running] = q]
      /\ pending' = [pending EXCEPT ![current_running] = n]
      /\ DoBlock(q)
  BY DEF Wait
<1>2. /\ KernelInv'
      /\ ToSet(wait_queue'[q]) = ToSet(wait_queue[q]) \cup {current_running}
      /\ \A k \in Queues : k # q => wait_queue'[k] = wait_queue[k]
  BY <1>1, BoxFacts, BlockKeepsKernel DEF BoxInv, lockOnly
<1>3. /\ acquiring \in [PCBs -> Objects \cup {NoObject}] /\ Tasks \subseteq PCBs
      /\ pending \in [Tasks -> Nat]
  BY PCBFacts DEF BoxInv, KernelInv, EndInv, LockTypeOK, BoxTypeOK
<1>4. ASSUME NEW k \in BoxQueues, NEW t \in ToSet(wait_queue'[k])
      PROVE  \/ t = current_running /\ k = q
             \/ t \in ToSet(wait_queue[k]) /\ t \in Tasks /\ t # current_running
  <2>1. CASE k = q
    BY <1>2, <1>4, <2>1, QueuedUse
  <2>2. CASE k # q
    <3>1. t \in ToSet(wait_queue[k])
      BY <1>2, <1>4, <2>2, BoxFacts
    <3> QED
      BY <3>1, QueuedUse
  <2> QED
    BY <2>1, <2>2
<1>5. /\ acquiring'[current_running] = q /\ pending'[current_running] = n
      /\ \A t \in Tasks : t # current_running =>
           acquiring'[t] = acquiring[t] /\ pending'[t] = pending[t]
  BY <1>1, <1>3
<1>6. CallersQueued'
  BY <1>4, <1>5 DEF BoxInv, CallersQueued
<1> QED
  BY <1>1, <1>2, <1>3, <1>4, <1>5, <1>6

(* One turn of the loop of do_mbox_send.                                   *)
LEMMA TrySendKept ==
  ASSUME BoxInv, BoxSafe, NEW n \in Nat, TrySend(n), opened,
         current_running \in Tasks, current_running \in Workers,
         UNCHANGED <<pcbVars, lockOnly, opened>>
  PROVE  BoxInv' /\ BoxSafe'
<1>0. /\ full_queue \in BoxQueues /\ empty_queue \in BoxQueues /\ full_queue # empty_queue
      /\ BoxTypeOK /\ StreamIntact /\ NoSleeperWithoutReason /\ MAX_MBOX_LENGTH \in Nat
      /\ Len(msg) \in Nat
  BY BoxFacts DEF BoxQueues, BoxInv, BoxSafe, BoxTypeOK
<1>1. CASE Room(n) /\ Finish(empty_queue) /\ msg' = msg \o NextBytes(n)
           /\ sent' = (sent + n) % Stamps /\ UNCHANGED received
  <2>1. /\ StreamIntact' /\ msg' \in Seq(Nat) /\ sent' \in Nat
        /\ Len(msg') = Len(msg) + n
    BY <1>0, <1>1, SendKeepsStream
  <2>2. /\ KernelInv' /\ CallersQueued' /\ UNCHANGED pending
        /\ ToSet(wait_queue'[empty_queue]) = {}
        /\ wait_queue'[full_queue] = wait_queue[full_queue]
    BY <1>0, <1>1, FinishKept
  <2>3. NoSleeperWithoutReason'
    <3> SUFFICES ASSUME NEW t \in ToSet(wait_queue'[full_queue]) PROVE ~Room(pending[t])'
      BY <2>2 DEF NoSleeperWithoutReason
    <3>1. t \in Tasks /\ ~Room(pending[t])
      BY <1>0, <2>2, QueuedUse DEF NoSleeperWithoutReason
    <3>2. pending'[t] = pending[t] /\ pending[t] \in Nat
      BY <1>0, <2>2, <3>1 DEF BoxTypeOK
    <3>3. Len(msg) + pending[t] > MAX_MBOX_LENGTH
      BY <1>0, <3>1, <3>2 DEF Room
    <3> QED
      BY <1>0, <2>1, <3>2, <3>3 DEF Room
  <2>4. BoxTypeOK' /\ ClosedUnused'
    BY <1>0, <1>1, <2>1, <2>2 DEF BoxTypeOK, ClosedUnused
  <2> QED
    BY <2>1, <2>2, <2>3, <2>4 DEF BoxInv, BoxSafe
<1>2. CASE ~Room(n) /\ Wait(full_queue, n)
  <2>1. /\ KernelInv' /\ CallersQueued' /\ pending' \in [Tasks -> Nat]
        /\ \A k \in BoxQueues : \A t \in ToSet(wait_queue'[k]) :
             \/ t = current_running /\ k = full_queue /\ pending'[t] = n
             \/ t \in ToSet(wait_queue[k]) /\ pending'[t] = pending[t]
    BY <1>0, <1>2, WaitKept
  <2>2. UNCHANGED <<msg, sent, received>>
    BY <1>2 DEF Wait
  <2>3. NoSleeperWithoutReason'
    BY <1>0, <1>2, <2>1, <2>2 DEF NoSleeperWithoutReason, Room
  <2>4. BoxTypeOK' /\ ClosedUnused' /\ StreamIntact'
    BY <1>0, <2>1, <2>2 DEF BoxTypeOK, ClosedUnused, StreamIntact
  <2> QED
    BY <2>1, <2>3, <2>4 DEF BoxInv, BoxSafe
<1> QED
  BY <1>1, <1>2 DEF TrySend

(* One turn of the loop of do_mbox_recv.                                   *)
LEMMA TryRecvKept ==
  ASSUME BoxInv, BoxSafe, NEW n \in Nat, TryRecv(n), opened,
         current_running \in Tasks, current_running \in Workers,
         UNCHANGED <<pcbVars, lockOnly, opened>>
  PROVE  BoxInv' /\ BoxSafe'
<1>0. /\ full_queue \in BoxQueues /\ empty_queue \in BoxQueues /\ full_queue # empty_queue
      /\ BoxTypeOK /\ StreamIntact /\ NoSleeperWithoutReason /\ Len(msg) \in Nat
  BY BoxFacts DEF BoxQueues, BoxInv, BoxSafe, BoxTypeOK
<1>1. CASE Len(msg) >= n /\ Finish(full_queue) /\ msg' = Rest(n)
           /\ received' = (received + n) % Stamps /\ UNCHANGED sent
  <2>1. /\ StreamIntact' /\ msg' \in Seq(Nat) /\ received' \in Nat
        /\ Len(msg') = Len(msg) - n
    BY <1>0, <1>1, RecvKeepsStream
  <2>2. /\ KernelInv' /\ CallersQueued' /\ UNCHANGED pending
        /\ ToSet(wait_queue'[full_queue]) = {}
        /\ wait_queue'[empty_queue] = wait_queue[empty_queue]
    BY <1>0, <1>1, FinishKept
  <2>3. NoSleeperWithoutReason'
    <3> SUFFICES ASSUME NEW t \in ToSet(wait_queue'[empty_queue]) PROVE Len(msg') < pending'[t]
      BY <2>2 DEF NoSleeperWithoutReason
    <3>1. t \in Tasks /\ Len(msg) < pending[t]
      BY <1>0, <2>2, QueuedUse DEF NoSleeperWithoutReason
    <3>2. pending'[t] = pending[t] /\ pending[t] \in Nat
      BY <1>0, <2>2, <3>1 DEF BoxTypeOK
    <3> QED
      BY <1>0, <2>1, <3>1, <3>2
  <2>4. BoxTypeOK' /\ ClosedUnused'
    BY <1>0, <1>1, <2>1, <2>2 DEF BoxTypeOK, ClosedUnused
  <2> QED
    BY <2>1, <2>2, <2>3, <2>4 DEF BoxInv, BoxSafe
<1>2. CASE Len(msg) < n /\ Wait(empty_queue, n)
  <2>1. /\ KernelInv' /\ CallersQueued' /\ pending' \in [Tasks -> Nat]
        /\ \A k \in BoxQueues : \A t \in ToSet(wait_queue'[k]) :
             \/ t = current_running /\ k = empty_queue /\ pending'[t] = n
             \/ t \in ToSet(wait_queue[k]) /\ pending'[t] = pending[t]
    BY <1>0, <1>2, WaitKept
  <2>2. UNCHANGED <<msg, sent, received>>
    BY <1>2 DEF Wait
  <2>3. NoSleeperWithoutReason'
    BY <1>0, <1>2, <2>1, <2>2 DEF NoSleeperWithoutReason, Room
  <2>4. BoxTypeOK' /\ ClosedUnused' /\ StreamIntact'
    BY <1>0, <2>1, <2>2 DEF BoxTypeOK, ClosedUnused, StreamIntact
  <2> QED
    BY <2>1, <2>3, <2>4 DEF BoxInv, BoxSafe
<1> QED
  BY <1>1, <1>2 DEF TryRecv

(* Opening finds the queues of a free slot empty: nobody is forgotten.     *)
LEMMA OpenKept ==
  ASSUME BoxInv, BoxSafe, Open
  PROVE  BoxInv' /\ BoxSafe'
<1>1. /\ ~opened /\ opened' = TRUE /\ msg' = <<>> /\ sent' = 0 /\ received' = 0
      /\ wait_queue' = [wait_queue EXCEPT ![full_queue] = <<>>, ![empty_queue] = <<>>]
      /\ UNCHANGED <<pcbVars, runVars, lockVars, pending>>
  BY DEF Open
<1>2. \A q \in BoxQueues : ToSet(wait_queue[q]) = {} /\ wait_queue[q] \in Seq(Tasks)
  <2>1. \A q \in BoxQueues : ToSet(wait_queue[q]) = {}
    BY <1>1, QueuedUse DEF BoxInv, ClosedUnused
  <2> QED
    BY <2>1, BoxFacts, QueueTypes DEF BoxInv, KernelInv, EndInv
<1>3. \A q \in BoxQueues : wait_queue[q] = <<>>
  <2> SUFFICES ASSUME NEW q \in BoxQueues PROVE wait_queue[q] = <<>>
    OBVIOUS
  <2> DEFINE w == wait_queue[q]
  <2>1. w \in Seq(Tasks) /\ ToSet(w) = {}
    BY <1>2
  <2> HIDE DEF w
  <2>2. DOMAIN w = 1 .. Len(w) /\ Len(w) \in Nat
    BY <2>1
  <2>3. 1 \notin DOMAIN w
    BY <2>1 DEF ToSet
  <2>4. Len(w) = 0
    BY <2>2, <2>3
  <2> QED
    BY <2>1, <2>4, EmptySeq DEF w
<1>4. wait_queue' = wait_queue
  <2>1. wait_queue \in [Queues -> Seq(Tasks)]
    BY QueueTypes DEF BoxInv, KernelInv, EndInv
  <2> QED
    BY <1>1, <1>3, <2>1, BoxFacts DEF BoxQueues
<1>5. KernelInv'
  BY <1>1, <1>4, VarsKeepKernel DEF BoxInv, vars, schedVars
<1>6. BoxTypeOK' /\ ClosedUnused'
  BY <1>1 DEF BoxInv, BoxTypeOK, ClosedUnused
<1>7. CallersQueued' /\ NoSleeperWithoutReason'
  BY <1>2, <1>4 DEF CallersQueued, NoSleeperWithoutReason, BoxQueues
<1>8. StreamIntact'
  <2>1. 0 % Stamps = 0 /\ Len(msg') = 0 /\ DOMAIN msg' = {}
    BY <1>1, BoxFacts
  <2> QED
    BY <1>1, <2>1 DEF StreamIntact
<1> QED
  BY <1>5, <1>6, <1>7, <1>8 DEF BoxInv, BoxSafe

(* Closing an empty, unused mailbox keeps the invariant.                   *)
LEMMA CloseKept ==
  ASSUME BoxInv, BoxSafe, Close
  PROVE  BoxInv' /\ BoxSafe'
<1>1. ~InUse /\ opened' = FALSE /\ UNCHANGED <<vars, msg, pending, sent, received>>
  BY DEF Close
<1>2. KernelInv' /\ UNCHANGED <<pid, status, wait_queue, acquiring>>
  BY <1>1, VarsKeepKernel DEF BoxInv, vars, schedVars, pcbVars, runVars, lockVars
<1> QED
  BY <1>1, <1>2 DEF BoxInv, BoxSafe, BoxTypeOK, CallersQueued, ClosedUnused, InUse, Alive,
                    StreamIntact, NoSleeperWithoutReason, Room

(* So does every call that has nothing to do with mailboxes.               *)
LEMMA OtherCallsKept ==
  ASSUME BoxInv, BoxSafe, LockNext, UNCHANGED boxVars
  PROVE  BoxInv' /\ BoxSafe'
<1>1. KernelInv' /\ OnlyNewAwake
  BY LockStepKeepsKernel DEF BoxInv
<1>2. \A q \in BoxQueues : LeavesAlone(q)
  BY BoxFacts, LockStepLeavesAlone DEF BoxInv, KernelInv
<1>3. ASSUME NEW q \in BoxQueues, NEW t \in ToSet(wait_queue'[q])
      PROVE  t \in ToSet(wait_queue[q]) /\ t \in Tasks
  BY <1>2, <1>3, QueuedUse DEF LeavesAlone
<1>4. CallersQueued'
  BY <1>2, <1>3 DEF BoxInv, CallersQueued, LeavesAlone
<1>5. BoxTypeOK' /\ StreamIntact'
  BY DEF BoxInv, BoxSafe, boxVars, BoxTypeOK, StreamIntact
<1>6. NoSleeperWithoutReason'
  BY <1>3 DEF BoxSafe, boxVars, NoSleeperWithoutReason, Room, BoxQueues
<1>7. ClosedUnused'
  <2> SUFFICES ASSUME ~opened, InUse' PROVE FALSE
    BY DEF boxVars, ClosedUnused
  <2>1. ~InUse
    BY DEF BoxInv, ClosedUnused
  <2>2. PICK t \in Tasks : Alive(t)' /\ acquiring'[t] \in BoxQueues
    BY DEF InUse, BoxQueues
  <2>3. acquiring[t] \in BoxQueues
    BY <1>2, <2>2 DEF LeavesAlone
  <2>4. pid[t] = NoPid
    BY <1>1, <2>1, <2>2, <2>3 DEF OnlyNewAwake, InUse, BoxQueues
  <2> QED
    BY <2>3, <2>4, BoxFacts DEF BoxInv, KernelInv, FreshAcquireNothing
<1> QED
  BY <1>1, <1>4, <1>5, <1>6, <1>7 DEF BoxInv, BoxSafe

(* Every step keeps the invariant.                                         *)
LEMMA MailboxStep ==
  ASSUME BoxInv, BoxSafe, [MailboxNext]_allVars
  PROVE  BoxInv' /\ BoxSafe'
<1>0. Senders \cup Receivers \subseteq Workers
  BY MailboxAssumption
<1>1. ASSUME NEW n \in SendLengths, Send(n) \/ Mulmail(n) PROVE BoxInv' /\ BoxSafe'
  <2>1. n \in Nat /\ (TrySend(n) \/ TryRecv(n)) /\ opened
        /\ current_running \in Tasks /\ current_running \in Workers
        /\ UNCHANGED <<pcbVars, lockOnly, opened>>
    BY <1>0, <1>1, BoxFacts DEF Send, Mulmail, BoxCall, InCall
  <2> QED
    BY <2>1, TrySendKept, TryRecvKept
<1>2. ASSUME NEW n \in RecvLengths, Recv(n) PROVE BoxInv' /\ BoxSafe'
  <2>1. n \in Nat /\ TryRecv(n) /\ opened
        /\ current_running \in Tasks /\ current_running \in Workers
        /\ UNCHANGED <<pcbVars, lockOnly, opened>>
    BY <1>0, <1>2, BoxFacts DEF Recv, BoxCall, InCall
  <2> QED
    BY <2>1, TryRecvKept
<1>3. CASE Resume
  <2>1. acquiring[current_running] \in BoxQueues
    BY <1>3 DEF Resume, BoxQueues
  <2>2. current_running \in Tasks /\ current_running \in Workers
    BY <2>1, BoxFacts, ResumedCaller DEF BoxInv
  <2>3. opened
    BY <2>1, <2>2, CallerFacts DEF BoxInv, ClosedUnused, InUse, BoxQueues
  <2>4. /\ pending[current_running] \in Nat /\ UNCHANGED <<pcbVars, lockOnly, opened>>
        /\ TrySend(pending[current_running]) \/ TryRecv(pending[current_running])
    BY <1>3, <2>2 DEF Resume, BoxInv, BoxTypeOK
  <2> QED
    BY <2>2, <2>3, <2>4, TrySendKept, TryRecvKept
<1>4. CASE UNCHANGED allVars
  <2>1. UNCHANGED vars /\ UNCHANGED boxVars /\ UNCHANGED <<pid, status, wait_queue, acquiring>>
    BY <1>4 DEF allVars, vars, schedVars, pcbVars, runVars, lockVars
  <2>2. KernelInv'
    BY <2>1, VarsKeepKernel DEF BoxInv
  <2> QED
    BY <2>1, <2>2 DEF boxVars, BoxInv, BoxSafe, BoxTypeOK, CallersQueued, ClosedUnused, InUse,
                      Alive, StreamIntact, NoSleeperWithoutReason, Room
<1> QED
  BY <1>1, <1>2, <1>3, <1>4, OtherCallsKept, OpenKept, CloseKept
     DEF MailboxNext, SomeSend, SomeRecv

(* The invariant holds before the mailbox is opened.                       *)
LEMMA MailboxInitInv == NobodyStranded /\ MailboxInit => BoxInv /\ BoxSafe
<1> SUFFICES ASSUME NobodyStranded, MailboxInit PROVE BoxInv /\ BoxSafe
  OBVIOUS
<1>1. EndInv
  BY LockInitEnds DEF MailboxInit
<1>2. FreshAcquireNothing /\ \A t \in Tasks : acquiring[t] = NoObject
  BY PCBFacts DEF MailboxInit, LockInit, FreshAcquireNothing
<1>3. \A q \in BoxQueues : ToSet(wait_queue[q]) = {}
  BY BoxFacts, EmptyQueue DEF MailboxInit, LockInit, Init, Queues
<1>4. BoxTypeOK
  <2>1. msg \in Seq(Nat) /\ pending \in [Tasks -> Nat]
    BY DEF MailboxInit
  <2> QED
    BY <2>1 DEF MailboxInit, BoxTypeOK
<1>5. CallersQueued /\ ClosedUnused
  BY <1>2, <1>3, BoxFacts DEF CallersQueued, ClosedUnused, InUse, BoxQueues
<1>6. StreamIntact
  <2>1. 0 % Stamps = 0 /\ Len(msg) = 0 /\ DOMAIN msg = {}
    BY BoxFacts DEF MailboxInit
  <2> QED
    BY <2>1 DEF MailboxInit, StreamIntact
<1>7. NoSleeperWithoutReason
  BY <1>3 DEF NoSleeperWithoutReason, BoxQueues
<1> QED
  BY <1>1, <1>2, <1>4, <1>5, <1>6, <1>7 DEF BoxInv, BoxSafe, KernelInv

(* The bytes of a mailbox come out in the order in which they went in,     *)
(* none lost and none twice: head, tail and the byte count of do_mbox_send *)
(* and do_mbox_recv agree at every moment, for every size of the box and   *)
(* of the messages.                                                        *)
THEOREM StreamKept ==
  ASSUME NobodyStranded
  PROVE  MailboxSpec => []StreamIntact
<1>1. BoxInv /\ BoxSafe /\ [MailboxNext]_allVars => BoxInv' /\ BoxSafe'
  BY MailboxStep
<1>2. BoxSafe => StreamIntact
  BY DEF BoxSafe
<1>3. MailboxInit => BoxInv /\ BoxSafe
  BY MailboxInitInv
<1> QED
  BY <1>1, <1>2, <1>3, PTL DEF MailboxSpec

(* A sender sleeps only while its bytes do not fit and a receiver only     *)
(* while its bytes are not there, or they have been woken: no order of     *)
(* calls, and no task killed among the sleepers, loses a wake-up.          *)
THEOREM NobodySleepsInVain ==
  ASSUME NobodyStranded
  PROVE  MailboxSpec => []NoSleeperWithoutReason
<1>1. BoxInv /\ BoxSafe /\ [MailboxNext]_allVars => BoxInv' /\ BoxSafe'
  BY MailboxStep
<1>2. BoxSafe => NoSleeperWithoutReason
  BY DEF BoxSafe
<1>3. MailboxInit => BoxInv /\ BoxSafe
  BY MailboxInitInv
<1> QED
  BY <1>1, <1>2, <1>3, PTL DEF MailboxSpec

=============================================================================
