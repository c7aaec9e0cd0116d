------------------------------ MODULE NetProofs ------------------------------
(***************************************************************************)
(* The receive path for every number of tasks and of descriptors, whatever *)
(* the device and the tasks do in whatever order.                          *)
(***************************************************************************)
EXTENDS Net, SequenceTheorems, TLAPS

USE SizeAssumption, TaskAssumption

Indices(t) == 0 .. Batch(t) - 1

NetTypeOK ==
  /\ pc \in [Tasks -> {"user", "flag", "setup", "recv", "send"}]
  /\ remain \in [Receivers -> Nat]
  /\ recv_flag \in BOOLEAN
  /\ kernel \in Receivers \cup {Free, Irq}
  /\ nextBd \in Nat
  /\ bd \in [Bds -> [new : BOOLEAN, wrap : BOOLEAN, frame : Nat]]
  /\ delivered \in Seq(Nat)
  /\ rxen \in BOOLEAN /\ rxq \in Nat /\ stored \in Nat

(* The task that prepares descriptors is the one the hart runs.            *)
SetupRuns == \A r \in Receivers : pc[r] = "setup" <=> kernel = r

Asked == \A r \in Receivers : pc[r] \in {"flag", "setup", "recv"} => remain[r] >= 1

FlagInv == NetTypeOK /\ SetupRuns /\ Asked /\ OneReceiver

(* Receivers, senders and the marks of the hart are different things.      *)
LEMMA TaskFacts ==
  /\ Receivers \subseteq Tasks /\ Senders \subseteq Tasks /\ Tasks = Receivers \cup Senders
  /\ Free # Irq /\ Free \notin Tasks /\ Irq \notin Tasks /\ Receivers \cap Senders = {}
BY DEF Tasks, Free, Irq

(* A batch is what is asked for, as far as there are descriptors.          *)
LEMMA BatchFacts ==
  ASSUME NEW t, remain[t] \in Nat
  PROVE  /\ Batch(t) \in Nat /\ Batch(t) <= BdCount /\ Batch(t) <= remain[t]
         /\ remain[t] >= 1 => Batch(t) >= 1
         /\ remain[t] > BdCount => Batch(t) = BdCount
         /\ Indices(t) \subseteq Bds
BY DEF Batch, Min2, Indices, Bds

(* The loop on recv_flag lets nobody to the descriptors while one is       *)
(* there.                                                                  *)
LEMMA TestFlagKept ==
  ASSUME FlagInv, NEW t \in Receivers, pc[t] \in {"user", "flag"}, kernel = Free,
         TestFlag(t), remain' \in [Receivers -> Nat], remain'[t] >= 1,
         \A r \in Receivers \ {t} : remain'[r] = remain[r],
         UNCHANGED <<delivered, bd, rxen, rxq, stored>>
  PROVE  FlagInv'
<1>1. /\ pc \in [Tasks -> {"user", "flag", "setup", "recv", "send"}] /\ t \in Tasks
      /\ Receivers \subseteq Tasks /\ Free \notin Receivers
      /\ \A r \in Receivers : pc[r] # "setup"
  BY TaskFacts DEF FlagInv, NetTypeOK, SetupRuns
<1>2. CASE /\ recv_flag /\ pc' = [pc EXCEPT ![t] = "flag"]
           /\ UNCHANGED <<recv_flag, kernel, nextBd>>
  <2>1. InUse' = InUse
    BY <1>1, <1>2 DEF InUse
  <2>2. NetTypeOK'
    BY <1>1, <1>2 DEF FlagInv, NetTypeOK
  <2>3. SetupRuns' /\ Asked'
    BY <1>1, <1>2 DEF FlagInv, SetupRuns, Asked
  <2>4. OneReceiver'
    BY <1>2, <2>1 DEF FlagInv, OneReceiver
  <2> QED
    BY <2>2, <2>3, <2>4 DEF FlagInv
<1>3. CASE ~recv_flag /\ recv_flag' = TRUE /\ Prepare(t)
  <2>1. kernel' = t /\ pc' = [pc EXCEPT ![t] = "setup"] /\ nextBd' = 0
    BY <1>3 DEF Prepare
  <2>2. InUse' = {t}
    BY <1>1, <1>3, <2>1 DEF InUse, FlagInv, OneReceiver
  <2>3. NetTypeOK'
    BY <1>1, <1>3, <2>1 DEF FlagInv, NetTypeOK
  <2>4. SetupRuns' /\ Asked'
    BY <1>1, <1>3, <2>1 DEF FlagInv, SetupRuns, Asked
  <2>5. OneReceiver'
    BY <1>3, <2>2 DEF OneReceiver
  <2> QED
    BY <2>3, <2>4, <2>5 DEF FlagInv
<1> QED
  BY <1>2, <1>3 DEF TestFlag

(* The end of a round keeps the flag, the end of a call takes it down.     *)
LEMMA ReceiveKeepsFlag ==
  ASSUME FlagInv, NEW t \in Receivers, Receive(t)
  PROVE  FlagInv'
<1>1. /\ kernel = Free /\ pc[t] = "recv"
      /\ delivered' = delivered \o [i \in 1 .. Batch(t) |-> bd[i - 1].frame]
      /\ remain' = [remain EXCEPT ![t] = @ - Batch(t)]
      /\ UNCHANGED <<bd, rxen, rxq, stored>>
  BY DEF Receive, rxVars
<1>2. /\ pc \in [Tasks -> {"user", "flag", "setup", "recv", "send"}] /\ t \in Tasks
      /\ Receivers \subseteq Tasks /\ Free \notin Receivers
      /\ \A r \in Receivers : pc[r] # "setup"
      /\ t \in InUse /\ InUse = {t} /\ remain[t] \in Nat /\ remain[t] >= 1
      /\ remain \in [Receivers -> Nat]
  BY <1>1, TaskFacts DEF FlagInv, NetTypeOK, SetupRuns, OneReceiver, InUse, Asked
<1>3. /\ remain'[t] = remain[t] - Batch(t) /\ remain' \in [Receivers -> Nat]
      /\ \A r \in Receivers \ {t} : remain'[r] = remain[r]
      /\ remain[t] > BdCount => remain'[t] >= 1
  <2>1. remain[t] - Batch(t) \in Nat /\ (remain[t] > BdCount => remain[t] - Batch(t) >= 1)
    BY <1>2, BatchFacts
  <2> QED
    BY <1>1, <1>2, <2>1
<1>4. delivered' \in Seq(Nat)
  <2>1. [i \in 1 .. Batch(t) |-> bd[i - 1].frame] \in Seq(Nat)
    <3>1. \A i \in 1 .. Batch(t) : i - 1 \in Bds
      BY <1>2, BatchFacts DEF Bds
    <3>2. \A i \in 1 .. Batch(t) : bd[i - 1].frame \in Nat
      BY <3>1 DEF FlagInv, NetTypeOK
    <3> DEFINE n == Batch(t)
               f == [i \in 1 .. n |-> bd[i - 1].frame]
    <3>3. n \in Nat
      BY <1>2, BatchFacts
    <3>4. f \in [1 .. n -> Nat]
      BY <3>2
    <3> HIDE DEF n, f
    <3>5. f \in Seq(Nat)
      BY <3>3, <3>4
    <3> QED
      BY <3>5 DEF n, f
  <2> QED
    BY <1>1, <2>1, ConcatProperties DEF FlagInv, NetTypeOK
<1>5. CASE Prepare(t) /\ remain[t] > BdCount /\ UNCHANGED <<recv_flag, recv_block_queue>>
  <2>1. kernel' = t /\ pc' = [pc EXCEPT ![t] = "setup"] /\ nextBd' = 0
    BY <1>5 DEF Prepare
  <2>2. InUse' = {t}
    BY <1>2, <2>1 DEF InUse
  <2>3. NetTypeOK'
    BY <1>1, <1>2, <1>3, <1>4, <1>5, <2>1 DEF FlagInv, NetTypeOK
  <2>4. SetupRuns' /\ Asked'
    BY <1>2, <1>3, <1>5, <2>1 DEF FlagInv, SetupRuns, Asked
  <2>5. OneReceiver'
    BY <1>2, <1>5, <2>2 DEF FlagInv, OneReceiver
  <2> QED
    BY <2>3, <2>4, <2>5 DEF FlagInv
<1>6. CASE /\ pc' = [pc EXCEPT ![t] = "user"] /\ recv_flag' = FALSE
           /\ recv_block_queue' = <<>> /\ UNCHANGED <<kernel, nextBd>>
  <2>1. InUse' = {}
    BY <1>2, <1>6 DEF InUse
  <2>2. NetTypeOK'
    BY <1>1, <1>2, <1>3, <1>4, <1>6 DEF FlagInv, NetTypeOK
  <2>3. SetupRuns' /\ Asked'
    BY <1>1, <1>2, <1>3, <1>6 DEF FlagInv, SetupRuns, Asked
  <2>4. OneReceiver'
    BY <1>6, <2>1 DEF OneReceiver
  <2> QED
    BY <2>2, <2>3, <2>4 DEF FlagInv
<1> QED
  BY <1>5, <1>6 DEF Receive

(* What the device stores, field by field.                                 *)
LEMMA StoredFrame ==
  ASSUME NetTypeOK, StoreFrame
  PROVE  /\ bd' \in [Bds -> [new : BOOLEAN, wrap : BOOLEAN, frame : Nat]]
         /\ bd'[rxq].new /\ bd'[rxq].wrap = bd[rxq].wrap /\ bd'[rxq].frame = stored + 1
         /\ \A i \in Bds \ {rxq} : bd'[i] = bd[i]
<1> DEFINE b == bd[rxq]
           c == [b EXCEPT !.new = TRUE, !.frame = stored + 1]
<1>1. rxq \in Bds /\ b \in [new : BOOLEAN, wrap : BOOLEAN, frame : Nat] /\ stored + 1 \in Nat
  BY DEF StoreFrame, NetTypeOK
<1>2. bd' = [bd EXCEPT ![rxq] = c]
  BY DEF StoreFrame, NetTypeOK
<1>3. /\ c \in [new : BOOLEAN, wrap : BOOLEAN, frame : Nat]
      /\ c.new /\ c.wrap = b.wrap /\ c.frame = stored + 1
  <2> HIDE DEF b
  <2> QED
    BY <1>1
<1> HIDE DEF c
<1>4. bd'[rxq] = c /\ \A i \in Bds \ {rxq} : bd'[i] = bd[i]
  BY <1>1, <1>2 DEF NetTypeOK
<1>5. bd' \in [Bds -> [new : BOOLEAN, wrap : BOOLEAN, frame : Nat]]
  BY <1>2, <1>3 DEF NetTypeOK
<1> QED
  BY <1>3, <1>4, <1>5

(* Every step keeps the flag and the only user of the descriptors in step. *)
LEMMA FlagStep ==
  ASSUME FlagInv, [Next]_vars
  PROVE  FlagInv'
<1>0. /\ Receivers \subseteq Tasks /\ Senders \subseteq Tasks /\ Free \notin Receivers /\ Irq \notin Receivers
      /\ pc \in [Tasks -> {"user", "flag", "setup", "recv", "send"}]
      /\ remain \in [Receivers -> Nat]
  BY TaskFacts DEF FlagInv, NetTypeOK
<1>1. ASSUME UNCHANGED <<pc, remain, recv_flag, recv_block_queue>>, NetTypeOK',
             kernel = kernel' \/ {kernel, kernel'} \subseteq {Free, Irq}
      PROVE  FlagInv'
  <2>1. InUse' = InUse
    BY <1>1 DEF InUse
  <2> QED
    BY <1>0, <1>1, <2>1 DEF FlagInv, SetupRuns, Asked, OneReceiver
<1>2. ASSUME NEW t \in Receivers, NEW n \in 1 .. MaxPackets, NetRecv(t, n) PROVE FlagInv'
  <2>1. /\ remain' \in [Receivers -> Nat] /\ remain'[t] >= 1
        /\ \A r \in Receivers \ {t} : remain'[r] = remain[r]
    BY <1>0, <1>2 DEF NetRecv
  <2> QED
    BY <1>2, <2>1, TestFlagKept DEF NetRecv
<1>3. ASSUME NEW t \in Receivers, Retest(t) PROVE FlagInv'
  <2>1. remain'[t] >= 1 /\ UNCHANGED remain
    BY <1>3 DEF Retest, FlagInv, Asked
  <2> QED
    BY <1>0, <1>3, <2>1, TestFlagKept DEF Retest
<1>4. ASSUME NEW t \in Receivers, SetBd(t) PROVE FlagInv'
  <2>1. BdForDevice(t) \in [new : BOOLEAN, wrap : BOOLEAN, frame : Nat]
    BY DEF BdForDevice
  <2>2. /\ bd' = [bd EXCEPT ![nextBd] = BdForDevice(t)] /\ nextBd' = nextBd + 1
        /\ UNCHANGED <<pc, remain, recv_flag, recv_block_queue, delivered, kernel, rxen, rxq, stored>>
    BY <1>4 DEF SetBd, taskVars
  <2> DEFINE new == BdForDevice(t)
  <2> HIDE DEF new
  <2>3. bd' \in [Bds -> [new : BOOLEAN, wrap : BOOLEAN, frame : Nat]]
    BY <2>1, <2>2 DEF FlagInv, NetTypeOK, new
  <2>4. NetTypeOK'
    BY <2>2, <2>3 DEF FlagInv, NetTypeOK
  <2> QED
    BY <1>1, <2>2, <2>4
<1>5. ASSUME NEW t \in Receivers, SetQueueBase(t) PROVE FlagInv'
  <2>1. /\ kernel = t /\ pc[t] = "setup" /\ pc' = [pc EXCEPT ![t] = "recv"] /\ kernel' = Free
        /\ UNCHANGED <<remain, recv_flag, recv_block_queue, delivered, nextBd, bd, stored>>
        /\ rxq' = 0 /\ rxen' = TRUE
    BY <1>5 DEF SetQueueBase, FlagInv, SetupRuns
  <2>2. InUse' = InUse
    BY <1>0, <2>1 DEF InUse
  <2>3. NetTypeOK'
    BY <1>0, <2>1 DEF FlagInv, NetTypeOK
  <2>4. SetupRuns' /\ Asked'
    BY <1>0, <2>1 DEF FlagInv, SetupRuns, Asked
  <2> QED
    BY <2>1, <2>2, <2>3, <2>4 DEF FlagInv, OneReceiver
<1>6. ASSUME NEW t \in Senders, NetSend(t) \/ NetSent(t) PROVE FlagInv'
  <2>1. \/ pc' = [pc EXCEPT ![t] = "send"]
        \/ pc' = [pc EXCEPT ![t] = "user"]
    BY <1>6 DEF NetSend, NetSent
  <2>2. \A r \in Receivers : pc'[r] = pc[r]
    BY <1>0, <2>1
  <2>3. InUse' = InUse
    BY <2>2 DEF InUse
  <2>4. UNCHANGED <<remain, recv_flag, recv_block_queue, delivered, kernel, nextBd, bd, rxen, rxq, stored>>
    BY <1>6 DEF NetSend, NetSent, rxVars
  <2> QED
    BY <1>0, <2>1, <2>2, <2>3, <2>4 DEF FlagInv, NetTypeOK, SetupRuns, Asked, OneReceiver
<1>7. CASE \/ RecvReadIsr \/ RecvClearIsr \/ RecvWake \/ SendReadIsr \/ SendWake \/ TakeIrq
           \/ Claim \/ CompleteTransmission \/ UNCHANGED vars
  <2>1. /\ UNCHANGED <<taskVars, nextBd, bd, rxen, rxq, stored>>
        /\ kernel = kernel' \/ {kernel, kernel'} \subseteq {Free, Irq}
    BY <1>7 DEF RecvReadIsr, RecvClearIsr, RecvWake, SendReadIsr, SendWake, TakeIrq,
                Claim, CompleteTransmission, IrqStep, vars, rxVars, taskVars
  <2>2. kernel' \in Receivers \cup {Free, Irq}
    BY <2>1 DEF FlagInv, NetTypeOK
  <2> QED
    BY <1>1, <2>1, <2>2 DEF taskVars, FlagInv, NetTypeOK
<1>8. CASE StoreFrame
  <2>1. /\ stored' = stored + 1 /\ rxq' \in {0, rxq + 1}
        /\ UNCHANGED <<pc, remain, recv_flag, recv_block_queue, delivered, kernel, nextBd, rxen>>
    BY <1>8 DEF StoreFrame, taskVars
  <2>2. bd' \in [Bds -> [new : BOOLEAN, wrap : BOOLEAN, frame : Nat]]
    BY <1>8, StoredFrame DEF FlagInv
  <2>3. NetTypeOK'
    BY <2>1, <2>2 DEF FlagInv, NetTypeOK
  <2> QED
    BY <1>1, <2>1, <2>3
<1> QED
  BY <1>2, <1>3, <1>4, <1>5, <1>6, <1>7, <1>8, ReceiveKeepsFlag
     DEF Next, Resume, InKernel, Tasks

(* At the start nobody uses the descriptors.                               *)
LEMMA FlagInit == Init => FlagInv
<1> SUFFICES ASSUME Init PROVE FlagInv
  OBVIOUS
<1>1. InUse = {}
  BY TaskFacts DEF Init, InUse
<1>2. NetTypeOK
  <2>1. [new |-> FALSE, wrap |-> FALSE, frame |-> 0] \in [new : BOOLEAN, wrap : BOOLEAN, frame : Nat]
    OBVIOUS
  <2>2. bd \in [Bds -> [new : BOOLEAN, wrap : BOOLEAN, frame : Nat]]
    BY <2>1 DEF Init
  <2>3. pc \in [Tasks -> {"user", "flag", "setup", "recv", "send"}] /\ remain \in [Receivers -> Nat]
    BY DEF Init
  <2>4. delivered \in Seq(Nat)
    BY EmptySeq DEF Init
  <2> QED
    BY <2>2, <2>3, <2>4 DEF Init, NetTypeOK
<1>3. SetupRuns /\ Asked
  BY TaskFacts DEF Init, SetupRuns, Asked
<1> QED
  BY <1>1, <1>2, <1>3 DEF Init, FlagInv, OneReceiver

(* Whatever the device does and however the scheduler orders the tasks,    *)
(* recv_flag lets one do_net_recv at a time use descriptors and buffers,   *)
(* is up exactly while one does, and leaves nobody waiting when it is      *)
(* down.                                                                   *)
THEOREM ReceiversExclude == Spec => []OneReceiver
<1>1. FlagInv /\ [Next]_vars => FlagInv'
  BY FlagStep
<1>2. FlagInv => OneReceiver
  BY DEF FlagInv
<1> QED
  BY <1>1, <1>2, FlagInit, PTL DEF Spec

-----------------------------------------------------------------------------
(* From here on: frames, which may come while descriptors are prepared.    *)

FullRing(r) == \A i \in Indices(r) : bd[i].new

(* The frames in the first n descriptors came one after the other, after   *)
(* everything delivered before.                                            *)
FreshFrames(n) ==
  /\ \A i \in 0 .. n - 1 : bd[i].new =>
       bd[i].frame \in 1 .. stored /\ \A k \in DOMAIN delivered : delivered[k] < bd[i].frame
  /\ \A i, j \in 0 .. n - 1 : bd[i].new /\ bd[j].new /\ i < j => bd[i].frame < bd[j].frame

(* The device is at a descriptor that is not its own, and stores nothing.  *)
Stuck == rxq = 0 /\ bd[0].new

(* A receiver that waits, or is about to go on: the device fills its       *)
(* descriptors from the first to the one that wraps, and then stops.       *)
Ring(r) ==
  /\ rxq \in Indices(r)
  /\ \A i \in Indices(r) : bd[i].wrap <=> i = Batch(r) - 1
  /\ Stuck \/ \A i \in Indices(r) : bd[i].new <=> i < rxq
  /\ r \notin ToSet(recv_queue) => FullRing(r)
  /\ FreshFrames(Batch(r))

(* A receiver in EmacPsRecv: the descriptors before nextBd are set.  When  *)
(* the device has filled the first of them it may have gone anywhere       *)
(* behind those it filled, out of the ring too.                            *)
Prepared(r) ==
  /\ nextBd <= Batch(r)
  /\ nextBd = 0 => rxq = 0 /\ (rxen => bd[0].new)
  /\ \A i \in 0 .. nextBd - 1 : bd[i].wrap <=> i = Batch(r) - 1
  /\ \/ rxq = 0 /\ \A i \in 0 .. nextBd - 1 : ~bd[i].new
     \/ /\ bd[0].new
        /\ rxq = 0 \/ \A i \in 0 .. nextBd - 1 : bd[i].new => i < rxq
  /\ FreshFrames(nextBd)

(* Nobody receives: the device meets a descriptor that is not its own.     *)
Idle == rxq = 0 /\ (rxen => bd[0].new)

WaitsAlone ==
  /\ recv_queue = <<>> \/ \E r \in Receivers : pc[r] = "recv" /\ recv_queue = <<r>>
  /\ kernel = Irq /\ step \in {"recv_read", "recv_clear", "recv_wake"} => recv_queue # <<>>

InOrder ==
  /\ \A i \in DOMAIN delivered : delivered[i] \in 1 .. stored
  /\ \A i, j \in DOMAIN delivered : i < j => delivered[i] < delivered[j]

RingInv ==
  /\ FlagInv /\ WaitsAlone /\ InOrder
  /\ InUse = {} => Idle
  /\ \A r \in Receivers : (pc[r] = "setup" => Prepared(r)) /\ (pc[r] = "recv" => Ring(r))

(* What every part of RingInv speaks of, for the receivers of the moment.  *)
LEMMA RingFacts ==
  ASSUME RingInv
  PROVE  /\ NetTypeOK /\ OneReceiver /\ SetupRuns /\ BdCount \in Nat /\ rxq \in Nat /\ stored \in Nat
         /\ \A r \in Receivers : pc[r] \in {"setup", "recv"} =>
              /\ Batch(r) \in Nat /\ Batch(r) >= 1 /\ Indices(r) \subseteq Bds /\ InUse = {r}
              /\ \A i \in Indices(r) : bd[i] \in [new : BOOLEAN, wrap : BOOLEAN, frame : Nat]
<1>1. NetTypeOK /\ OneReceiver /\ SetupRuns /\ Asked
  BY DEF RingInv, FlagInv
<1>2. ASSUME NEW r \in Receivers, pc[r] \in {"setup", "recv"}
      PROVE  /\ Batch(r) \in Nat /\ Batch(r) >= 1 /\ Indices(r) \subseteq Bds /\ InUse = {r}
             /\ \A i \in Indices(r) : bd[i] \in [new : BOOLEAN, wrap : BOOLEAN, frame : Nat]
  <2>1. remain[r] \in Nat /\ remain[r] >= 1
    BY <1>1, <1>2 DEF NetTypeOK, Asked
  <2>2. InUse = {r}
    BY <1>1, <1>2 DEF OneReceiver, InUse
  <2>3. Batch(r) \in Nat /\ Batch(r) >= 1 /\ Indices(r) \subseteq Bds
    BY <2>1, BatchFacts
  <2> QED
    BY <1>1, <2>2, <2>3 DEF NetTypeOK
<1> QED
  BY <1>1, <1>2 DEF NetTypeOK

(* Where the device is when it is not in the middle of a preparation.      *)
LEMMA RxStaysWithin == RingInv => RxWithinBatch
BY RingFacts DEF RingInv, RxWithinBatch, Ring, Idle, Indices, Bds

(* Steps that leave descriptors and device alone, and move no receiver to  *)
(* the descriptors or away from them.                                      *)
LEMMA RingSame ==
  ASSUME RingInv, FlagInv', UNCHANGED <<bd, rxq, rxen, nextBd, delivered, stored, recv_queue>>,
         \A r \in Receivers : pc[r] \in {"setup", "recv"} \/ pc'[r] \in {"setup", "recv"}
                                => pc'[r] = pc[r] /\ remain'[r] = remain[r],
         kernel' = Irq /\ step' \in {"recv_read", "recv_clear", "recv_wake"} => recv_queue # <<>>
  PROVE  RingInv'
<1>1. InUse' = InUse
  BY DEF InUse
<1>2. WaitsAlone' /\ InOrder' /\ (InUse' = {} => Idle')
  BY <1>1 DEF RingInv, WaitsAlone, InOrder, Idle
<1>3. ASSUME NEW r \in Receivers, pc'[r] \in {"setup", "recv"}
      PROVE  (pc'[r] = "setup" => Prepared(r)') /\ (pc'[r] = "recv" => Ring(r)')
  <2>1. pc'[r] = pc[r] /\ Batch(r)' = Batch(r)
    BY <1>3 DEF Batch
  <2>2. Indices(r)' = Indices(r)
    BY <2>1 DEF Indices
  <2> QED
    BY <1>3, <2>1, <2>2 DEF RingInv, Prepared, Ring, FullRing, FreshFrames, Stuck
<1> QED
  BY <1>2, <1>3 DEF RingInv

(* The descriptors begin to be prepared, with nobody else at them.         *)
LEMMA RingPrepare ==
  ASSUME RingInv, FlagInv', NEW t \in Receivers, InUse' = {t}, pc'[t] = "setup",
         nextBd' = 0, Idle', InOrder', WaitsAlone'
  PROVE  RingInv'
<1>1. \A r \in Receivers : pc'[r] \in {"setup", "recv"} => r = t
  BY DEF InUse
<1>2. Batch(t)' \in Nat
  <2>1. remain'[t] \in Nat
    BY DEF FlagInv, NetTypeOK
  <2> QED
    BY <2>1 DEF Batch, Min2
<1>3. Prepared(t)'
  <2>1. Batch(t)' >= 0 /\ \A i : i \notin 0 .. 0 - 1
    BY <1>2
  <2>2. FreshFrames(0)'
    BY <2>1 DEF FreshFrames
  <2> QED
    BY <2>1, <2>2 DEF Prepared, Idle
<1> QED
  BY <1>1, <1>3 DEF RingInv

(* The loop on recv_flag keeps the ring.                                   *)
LEMMA TestFlagKeepsRing ==
  ASSUME RingInv, FlagInv', NEW t \in Receivers, pc[t] \in {"user", "flag"}, kernel = Free, TestFlag(t),
         \A r \in Receivers \ {t} : remain'[r] = remain[r],
         UNCHANGED <<delivered, irqVars, recv_queue, bd, rxen, rxq, stored>>
  PROVE  RingInv'
<1>1. pc \in [Tasks -> {"user", "flag", "setup", "recv", "send"}] /\ t \in Tasks
  BY TaskFacts DEF RingInv, FlagInv, NetTypeOK
<1>2. CASE /\ recv_flag /\ pc' = [pc EXCEPT ![t] = "flag"]
           /\ UNCHANGED <<recv_flag, kernel, nextBd>>
  <2>1. \A r \in Receivers : pc[r] \in {"setup", "recv"} \/ pc'[r] \in {"setup", "recv"}
                                => pc'[r] = pc[r] /\ remain'[r] = remain[r]
    BY <1>1, <1>2, TaskFacts
  <2> QED
    BY <1>2, <2>1, RingSame DEF RingInv, WaitsAlone, irqVars
<1>3. CASE ~recv_flag /\ Prepare(t)
  <2>1. kernel' = t /\ pc' = [pc EXCEPT ![t] = "setup"] /\ nextBd' = 0
    BY <1>3 DEF Prepare
  <2>2. InUse = {}
    BY <1>3 DEF RingInv, FlagInv, OneReceiver
  <2>3. InUse' = {t}
    BY <1>1, <2>1, <2>2, TaskFacts DEF InUse
  <2>4. recv_queue = <<>>
    BY <2>2 DEF RingInv, WaitsAlone, InUse
  <2>5. WaitsAlone' /\ InOrder' /\ Idle'
    BY <2>1, <2>2, <2>4, TaskFacts DEF WaitsAlone, RingInv, InOrder, Idle
  <2> QED
    BY <1>1, <2>1, <2>3, <2>5, RingPrepare
<1> QED
  BY <1>2, <1>3 DEF TestFlag

(* One more descriptor is set.                                             *)
LEMMA SetBdKeepsRing ==
  ASSUME RingInv, FlagInv', NEW t \in Receivers, SetBd(t)
  PROVE  RingInv'
<1>1. /\ kernel = t /\ nextBd < Batch(t) /\ nextBd' = nextBd + 1
      /\ bd' = [bd EXCEPT ![nextBd] = BdForDevice(t)]
      /\ UNCHANGED <<pc, remain, delivered, kernel, recv_queue, rxen, rxq, stored>>
  BY DEF SetBd, taskVars
<1>2. pc[t] = "setup" /\ InUse = {t} /\ InUse' = {t} /\ Prepared(t)
  BY <1>1, RingFacts DEF SetupRuns, RingInv, InUse
<1>3. Batch(t)' = Batch(t) /\ Indices(t)' = Indices(t) /\ nextBd \in Nat
  BY <1>1, RingFacts DEF Batch, Indices, NetTypeOK
<1>4. \A i \in Bds : bd'[i] = IF i = nextBd THEN BdForDevice(t) ELSE bd[i]
  BY <1>1, RingFacts DEF NetTypeOK
<1>5. ~BdForDevice(t).new /\ (BdForDevice(t).wrap <=> nextBd = Batch(t) - 1)
  BY DEF BdForDevice
<1>6. Prepared(t)'
  <2>1. Indices(t) \subseteq Bds /\ Batch(t) \in Nat /\ Batch(t) >= 1
    BY <1>2, RingFacts
  <2>2. /\ \A i \in 0 .. nextBd - 1 : bd'[i] = bd[i]
        /\ bd'[nextBd] = BdForDevice(t)
        /\ \A i : i \in 0 .. nextBd + 1 - 1 <=> i \in 0 .. nextBd - 1 \/ i = nextBd
        /\ 0 \in 0 .. nextBd - 1 <=> nextBd # 0
    <3>1. \A i \in 0 .. nextBd : i \in Bds
      BY <1>1, <1>3, <2>1 DEF Indices
    <3>2. \A i \in 0 .. nextBd - 1 : i \in 0 .. nextBd /\ i # nextBd
      BY <1>3
    <3>3. nextBd \in 0 .. nextBd
      BY <1>3
    <3> QED
      BY <1>3, <1>4, <3>1, <3>2, <3>3
  <2>3. nextBd + 1 <= Batch(t) /\ nextBd + 1 # 0
    BY <1>1, <1>3, <2>1
  <2>4. \A i \in 0 .. nextBd + 1 - 1 : bd'[i].wrap <=> i = Batch(t) - 1
    BY <1>2, <1>5, <2>2 DEF Prepared
  <2>5. \A i \in 0 .. nextBd + 1 - 1 : bd'[i].new => i \in 0 .. nextBd - 1 /\ bd[i].new /\ bd'[i] = bd[i]
    BY <1>5, <2>2
  <2>6. FreshFrames(nextBd)'
    <3> DEFINE m == nextBd + 1
               n == nextBd
    <3>1. \A i \in 0 .. m - 1 : bd'[i].new => i \in 0 .. n - 1 /\ bd[i].new /\ bd'[i] = bd[i]
      BY <1>3, <2>5
    <3>2. FreshFrames(n)
      BY <1>2 DEF Prepared
    <3> HIDE DEF n, m
    <3>3. /\ \A i \in 0 .. m - 1 : bd'[i].new =>
               bd'[i].frame \in 1 .. stored /\ \A k \in DOMAIN delivered : delivered[k] < bd'[i].frame
          /\ \A i, j \in 0 .. m - 1 : bd'[i].new /\ bd'[j].new /\ i < j => bd'[i].frame < bd'[j].frame
      BY <3>1, <3>2 DEF FreshFrames
    <3>4. nextBd' = m
      BY <1>1 DEF m
    <3> QED
      BY <1>1, <3>3, <3>4 DEF FreshFrames
  <2>7. \/ rxq = 0 /\ \A i \in 0 .. nextBd + 1 - 1 : ~bd'[i].new
        \/ /\ bd'[0].new
           /\ rxq = 0 \/ \A i \in 0 .. nextBd + 1 - 1 : bd'[i].new => i < rxq
    <3>1. CASE nextBd = 0
      BY <1>2, <1>5, <2>2, <3>1 DEF Prepared
    <3>2. CASE nextBd # 0
      BY <1>2, <2>2, <2>5, <3>2 DEF Prepared
    <3> QED
      BY <3>1, <3>2
  <2> QED
    BY <1>1, <1>3, <2>3, <2>4, <2>6, <2>7 DEF Prepared, FreshFrames
<1>7. WaitsAlone' /\ InOrder'
  BY <1>1, TaskFacts DEF WaitsAlone, InOrder, RingInv
<1>8. \A r \in Receivers : pc'[r] \in {"setup", "recv"} => r = t
  BY <1>2 DEF InUse
<1> QED
  BY <1>1, <1>2, <1>6, <1>7, <1>8 DEF RingInv

(* The prepared descriptors are an empty ring.                             *)
LEMMA SetQueueBaseKeepsRing ==
  ASSUME RingInv, FlagInv', NEW t \in Receivers, SetQueueBase(t)
  PROVE  RingInv'
<1>1. /\ kernel = t /\ nextBd = Batch(t) /\ rxq' = 0 /\ recv_queue' = Append(recv_queue, t)
      /\ pc' = [pc EXCEPT ![t] = "recv"] /\ kernel' = Free
      /\ UNCHANGED <<remain, delivered, nextBd, bd, stored>>
  BY DEF SetQueueBase
<1>2. pc[t] = "setup" /\ InUse = {t} /\ Prepared(t)
  BY <1>1, RingFacts DEF SetupRuns, RingInv
<1>3. recv_queue = <<>>
  BY <1>2 DEF RingInv, WaitsAlone, InUse
<1>4. recv_queue' = <<t>> /\ t \in ToSet(recv_queue')
  BY <1>1, <1>3 DEF ToSet
<1>5. pc'[t] = "recv" /\ \A r \in Receivers : pc'[r] \in {"setup", "recv"} => r = t
  BY <1>1, <1>2, RingFacts, TaskFacts DEF InUse, NetTypeOK
<1>6. InUse' = {t}
  BY <1>5 DEF InUse
<1>7. /\ Batch(t)' = Batch(t) /\ Indices(t)' = Indices(t) /\ Batch(t) \in Nat /\ Batch(t) >= 1
  BY <1>1, <1>2, RingFacts DEF Batch, Indices
<1>9. Ring(t)'
  <2>1. 0 \in Indices(t) /\ \A i \in Indices(t) : ~(i < 0)
    BY <1>7 DEF Indices
  <2>2. FreshFrames(Batch(t))'
    BY <1>1, <1>2, <1>7 DEF FreshFrames, Prepared
  <2>3. Stuck' \/ \A i \in Indices(t) : bd'[i].new <=> i < rxq'
    BY <1>1, <1>2, <2>1 DEF Prepared, Stuck, Indices
  <2>4. \A i \in Indices(t) : bd'[i].wrap <=> i = Batch(t) - 1
    BY <1>1, <1>2 DEF Prepared, Indices
  <2> QED
    BY <1>1, <1>4, <1>7, <2>1, <2>2, <2>3, <2>4 DEF Ring
<1>10. WaitsAlone' /\ InOrder'
  BY <1>1, <1>4, <1>5, TaskFacts DEF WaitsAlone, InOrder, RingInv
<1> QED
  BY <1>5, <1>6, <1>9, <1>10 DEF RingInv

Rising(s, n) ==
  /\ \A i \in DOMAIN s : s[i] \in 1 .. n
  /\ \A i, j \in DOMAIN s : i < j => s[i] < s[j]

(* Two rising sequences, one after the other.                              *)
LEMMA RisingConcat ==
  ASSUME NEW n \in Nat, NEW s \in Seq(Nat), NEW u \in Seq(Nat), Rising(s, n), Rising(u, n),
         \A i \in DOMAIN s, j \in DOMAIN u : s[i] < u[j]
  PROVE  Rising(s \o u, n)
<1> DEFINE w == s \o u
           S == Len(s)
           U == Len(u)
<1>1. /\ w \in Seq(Nat) /\ Len(w) = S + U
      /\ \A i \in 1 .. S + U : w[i] = IF i <= S THEN s[i] ELSE u[i - S]
  BY ConcatProperties
<1>2. DOMAIN w = 1 .. S + U /\ DOMAIN s = 1 .. S /\ DOMAIN u = 1 .. U /\ S \in Nat /\ U \in Nat
  BY <1>1
<1> HIDE DEF w, S, U
<1>3. ASSUME NEW i \in 1 .. S + U PROVE IF i <= S THEN i \in 1 .. S ELSE i - S \in 1 .. U
  BY <1>2
<1>4. ASSUME NEW i \in 1 .. S + U PROVE w[i] \in 1 .. n
  BY <1>1, <1>2, <1>3 DEF Rising
<1>5. ASSUME NEW i \in 1 .. S + U, NEW j \in 1 .. S + U, i < j PROVE w[i] < w[j]
  <2>1. CASE j <= S
    <3>1. i <= S /\ i \in 1 .. S /\ j \in 1 .. S
      BY <1>2, <1>5, <2>1
    <3> QED
      BY <1>1, <1>2, <1>5, <2>1, <3>1 DEF Rising
  <2>2. CASE i <= S /\ ~(j <= S)
    BY <1>1, <1>2, <1>3, <2>2
  <2>3. CASE ~(i <= S) /\ ~(j <= S)
    <3>1. i - S < j - S
      BY <1>2, <1>5
    <3> QED
      BY <1>1, <1>2, <1>3, <2>3, <3>1 DEF Rising
  <2>4. ~(j <= S) \/ i <= S
    BY <1>2, <1>5
  <2> QED
    BY <2>1, <2>2, <2>3, <2>4
<1>6. Rising(w, n)
  BY <1>2, <1>4, <1>5 DEF Rising
<1> QED
  BY <1>6 DEF w

(* What a receiver takes away continues what was delivered.                *)
LEMMA TakenInOrder ==
  ASSUME RingInv, NEW t \in Receivers, pc[t] = "recv", FullRing(t), UNCHANGED stored,
         delivered' = delivered \o [i \in 1 .. Batch(t) |-> bd[i - 1].frame]
  PROVE  InOrder'
<1> DEFINE B == Batch(t)
           taken == [i \in 1 .. B |-> bd[i - 1].frame]
<1>1. B \in Nat /\ \A i \in 1 .. B : i - 1 \in Indices(t) /\ i - 1 \in Bds
  <2>1. B \in Nat /\ Indices(t) = 0 .. B - 1 /\ Indices(t) \subseteq Bds
    BY RingFacts DEF Indices
  <2> HIDE DEF B
  <2> QED
    BY <2>1
<1>2. \A i \in 1 .. B : taken[i] \in 1 .. stored /\ \A k \in DOMAIN delivered : delivered[k] < taken[i]
  BY <1>1 DEF RingInv, Ring, FreshFrames, FullRing, Indices
<1>3. \A i, j \in 1 .. B : i < j => taken[i] < taken[j]
  BY <1>1 DEF RingInv, Ring, FreshFrames, FullRing, Indices
<1>4. delivered \in Seq(Nat) /\ taken \in Seq(Nat) /\ DOMAIN taken = 1 .. B /\ stored \in Nat
  <2>1. taken \in [1 .. B -> Nat]
    BY <1>1, <1>2, RingFacts
  <2>2. taken \in Seq(Nat)
    <3> HIDE DEF taken, B
    <3> QED
      BY <1>1, <2>1
  <2> QED
    BY <1>1, <2>2, RingFacts DEF NetTypeOK
<1> HIDE DEF B, taken
<1>5. Rising(delivered, stored) /\ Rising(taken, stored)
  BY <1>2, <1>3, <1>4 DEF Rising, RingInv, InOrder
<1>6. Rising(delivered \o taken, stored)
  BY <1>2, <1>4, <1>5, RisingConcat
<1>7. delivered' = delivered \o taken
  BY DEF taken, B
<1>8. Rising(delivered', stored')
  BY <1>6, <1>7
<1> QED
  BY <1>8 DEF Rising, InOrder

(* The frames of a full ring are taken away.                               *)
LEMMA ReceiveKeepsRing ==
  ASSUME RingInv, FlagInv', NEW t \in Receivers, Receive(t)
  PROVE  RingInv'
<1>1. /\ kernel = Free /\ pc[t] = "recv" /\ t \notin ToSet(recv_queue)
      /\ delivered' = delivered \o [i \in 1 .. Batch(t) |-> bd[i - 1].frame]
      /\ UNCHANGED <<step, recv_queue, bd, rxen, rxq, stored>>
  BY DEF Receive, irqVars
<1>2. InUse = {t} /\ Ring(t) /\ FullRing(t) /\ pc \in [Tasks -> {"user", "flag", "setup", "recv", "send"}]
  BY <1>1, RingFacts DEF RingInv, Ring, NetTypeOK
<1>3. InOrder'
  BY <1>1, <1>2, TakenInOrder
<1>4. recv_queue = <<>>
  BY <1>1, <1>2 DEF RingInv, WaitsAlone, InUse, ToSet
<1>5. Stuck
  <2>1. ~(rxq < rxq)
    BY RingFacts
  <2> QED
    BY <1>2, <2>1 DEF Ring, FullRing
<1>6. CASE Prepare(t)
  <2>1. kernel' = t /\ pc' = [pc EXCEPT ![t] = "setup"] /\ nextBd' = 0
    BY <1>6 DEF Prepare
  <2>2. InUse' = {t} /\ pc'[t] = "setup"
    BY <1>2, <2>1, TaskFacts DEF InUse
  <2>3. WaitsAlone'
    BY <1>1, <1>4, <2>1, TaskFacts DEF WaitsAlone
  <2>4. Idle'
    BY <1>1, <1>5 DEF Idle, Stuck
  <2> QED
    BY <1>1, <1>3, <2>1, <2>2, <2>3, <2>4, RingPrepare
<1>7. CASE pc' = [pc EXCEPT ![t] = "user"] /\ UNCHANGED kernel
  <2>1. InUse' = {}
    BY <1>2, <1>7, TaskFacts DEF InUse
  <2>2. \A r \in Receivers : pc'[r] \notin {"setup", "recv"}
    BY <2>1 DEF InUse
  <2>3. WaitsAlone'
    BY <1>1, <1>4, <1>7 DEF WaitsAlone, Free, Irq
  <2>4. Idle'
    BY <1>1, <1>5 DEF Idle, Stuck
  <2> QED
    BY <1>3, <2>2, <2>3, <2>4 DEF RingInv
<1> QED
  BY <1>6, <1>7 DEF Receive

(* handle_irq wakes a receiver only when its descriptors are all used.     *)
LEMMA RecvWakeKeepsRing ==
  ASSUME RingInv, FlagInv', RecvWake
  PROVE  RingInv'
<1>1. /\ kernel = Irq /\ step = "recv_wake" /\ step' \in {"claim", "send_read"}
      /\ UNCHANGED <<pc, remain, delivered, nextBd, bd, rxen, rxq, stored>>
      /\ recv_queue' = recv_queue \/ (AllNew /\ recv_queue' = Tail(recv_queue))
  BY DEF RecvWake, IrqStep, taskVars
<1>2. CASE recv_queue' = recv_queue
  BY <1>1, <1>2, RingSame
<1>3. CASE AllNew /\ recv_queue' = Tail(recv_queue)
  <2>1. PICK r \in Receivers : pc[r] = "recv" /\ recv_queue = <<r>>
    BY <1>1 DEF RingInv, WaitsAlone
  <2>2. recv_queue' = <<>>
    BY <1>3, <2>1
  <2>3. Ring(r) /\ InUse = {r} /\ Batch(r) \in Nat
    BY <2>1, RingFacts DEF RingInv
  <2>4. FullRing(r)
    <3>1. PICK k \in Bds : bd[k].wrap /\ \A i \in 0 .. k : bd[i].new
      BY <1>3 DEF AllNew
    <3>2. k \in Indices(r) => k = Batch(r) - 1
      BY <2>3, <3>1 DEF Ring
    <3>3. Indices(r) \subseteq 0 .. k
      BY <2>3, <3>2 DEF Indices, Bds
    <3> QED
      BY <3>1, <3>3 DEF FullRing
  <2>5. Batch(r)' = Batch(r) /\ Indices(r)' = Indices(r)
    BY <1>1 DEF Batch, Indices
  <2>6. Ring(r)'
    BY <1>1, <2>3, <2>4, <2>5 DEF Ring, FullRing, FreshFrames, Stuck
  <2>7. \A s \in Receivers : pc'[s] \in {"setup", "recv"} => s = r /\ pc'[s] = "recv"
    BY <1>1, <2>1, <2>3 DEF InUse
  <2>8. InUse' # {} /\ WaitsAlone' /\ InOrder'
    BY <1>1, <2>1, <2>2 DEF InUse, WaitsAlone, InOrder, RingInv
  <2> QED
    BY <2>6, <2>7, <2>8 DEF RingInv
<1> QED
  BY <1>1, <1>2, <1>3

(* A frame is stored behind the frames there are among the first n         *)
(* descriptors: they stay in order.                                        *)
LEMMA StoreKeepsFresh ==
  ASSUME FlagInv, InOrder, StoreFrame, NEW n \in 0 .. BdCount, FreshFrames(n),
         \A i \in 0 .. n - 1 : bd[i].new => i < rxq
  PROVE  FreshFrames(n)'
<1>1. /\ rxq \in Bds /\ rxq \in Nat /\ ~bd[rxq].new /\ stored \in Nat
      /\ stored' = stored + 1 /\ UNCHANGED delivered
  BY DEF StoreFrame, taskVars, FlagInv, NetTypeOK
<1>2. /\ bd'[rxq].new /\ bd'[rxq].frame = stored + 1
      /\ \A i \in Bds \ {rxq} : bd'[i] = bd[i]
  BY StoredFrame DEF FlagInv
<1>3. 0 .. n - 1 \subseteq Bds
  BY DEF Bds
<1>4. ASSUME NEW i \in 0 .. n - 1, bd'[i].new
      PROVE  /\ bd'[i].frame \in 1 .. stored + 1
             /\ \A k \in DOMAIN delivered : delivered[k] < bd'[i].frame
  <2>1. CASE i = rxq
    BY <1>1, <1>2, <2>1 DEF InOrder
  <2>2. CASE i # rxq
    <3>1. bd'[i] = bd[i] /\ bd[i].new
      BY <1>2, <1>3, <1>4, <2>2
    <3>2. bd[i].frame \in 1 .. stored /\ \A k \in DOMAIN delivered : delivered[k] < bd[i].frame
      BY <3>1 DEF FreshFrames
    <3> QED
      BY <1>1, <3>1, <3>2
  <2> QED
    BY <2>1, <2>2
<1>5. ASSUME NEW i \in 0 .. n - 1, NEW j \in 0 .. n - 1, bd'[i].new, bd'[j].new, i < j
      PROVE  bd'[i].frame < bd'[j].frame
  <2>1. CASE j = rxq
    <3>1. i # rxq /\ bd'[i] = bd[i] /\ bd[i].new
      BY <1>2, <1>3, <1>5, <2>1
    <3>2. bd[i].frame \in 1 .. stored
      BY <3>1 DEF FreshFrames
    <3> QED
      BY <1>1, <1>2, <2>1, <3>1, <3>2
  <2>2. CASE j # rxq
    <3>1. bd'[j] = bd[j] /\ bd[j].new /\ j < rxq
      BY <1>2, <1>3, <1>5, <2>2
    <3>2. i # rxq
      BY <1>1, <1>5, <3>1
    <3>3. bd'[i] = bd[i] /\ bd[i].new
      BY <1>2, <1>3, <1>5, <3>2
    <3> QED
      BY <1>5, <3>1, <3>3 DEF FreshFrames
  <2> QED
    BY <2>1, <2>2
<1> QED
  BY <1>1, <1>4, <1>5 DEF FreshFrames

(* The device meets the descriptors while their receiver waits; it uses    *)
(* the next one, and behind the last it is at the first again.             *)
LEMMA StoreWhileWaiting ==
  ASSUME RingInv, StoreFrame, NEW r \in Receivers, pc[r] = "recv"
  PROVE  Ring(r)'
<1>1. /\ rxen /\ rxq \in Bds /\ ~bd[rxq].new
      /\ rxq' = (IF bd[rxq].wrap THEN 0 ELSE rxq + 1)
      /\ UNCHANGED <<pc, remain, delivered, recv_queue>>
  BY DEF StoreFrame, taskVars
<1>2. /\ bd'[rxq].new /\ bd'[rxq].wrap = bd[rxq].wrap
      /\ \A i \in Bds \ {rxq} : bd'[i] = bd[i]
  BY StoredFrame DEF RingInv, FlagInv
<1>3. /\ Ring(r) /\ rxq \in Nat
      /\ Batch(r) \in Nat /\ Batch(r) >= 1 /\ Indices(r) \subseteq Bds
      /\ \A i \in Indices(r) : bd[i] \in [new : BOOLEAN, wrap : BOOLEAN, frame : Nat]
  BY RingFacts DEF RingInv
<1>4. Batch(r)' = Batch(r) /\ Indices(r)' = Indices(r)
  BY <1>1 DEF Batch, Indices
<1>5. /\ rxq \in Indices(r) /\ r \in ToSet(recv_queue)
      /\ \A i \in Indices(r) : bd[i].new <=> i < rxq
  BY <1>1, <1>3 DEF Ring, FullRing, Stuck
<1>6. \A i \in Indices(r) : bd'[i].new <=> i <= rxq
  BY <1>2, <1>3, <1>5 DEF Indices
<1>7. \A i \in Indices(r) : bd'[i].wrap <=> i = Batch(r) - 1
  BY <1>2, <1>3 DEF Ring
<1>8. FreshFrames(Batch(r))'
  <2>1. Batch(r) \in 0 .. BdCount
    BY <1>1, RingFacts, BatchFacts DEF NetTypeOK
  <2>2. FreshFrames(Batch(r)) /\ \A i \in 0 .. Batch(r) - 1 : bd[i].new => i < rxq
    BY <1>3, <1>5 DEF Ring, Indices
  <2> DEFINE n == Batch(r)
  <2>3. n' = n
    BY <1>4
  <2> HIDE DEF n
  <2>4. FreshFrames(n)'
    BY <2>1, <2>2, <2>3, StoreKeepsFresh DEF RingInv, n
  <2> QED
    BY <2>3, <2>4 DEF n
<1>9. rxq' \in Indices(r) /\ (Stuck' \/ \A i \in Indices(r) : bd'[i].new <=> i < rxq')
  <2>1. CASE bd[rxq].wrap
    <3>1. rxq = Batch(r) - 1 /\ rxq' = 0 /\ 0 \in Indices(r) /\ 0 <= rxq
      BY <1>1, <1>3, <1>5, <2>1 DEF Ring, Indices
    <3> QED
      BY <1>6, <3>1 DEF Stuck
  <2>2. CASE ~bd[rxq].wrap
    <3>1. rxq # Batch(r) - 1 /\ rxq' = rxq + 1
      BY <1>1, <1>3, <1>5, <2>2 DEF Ring
    <3>2. \A i \in Indices(r) : i <= rxq <=> i < rxq + 1
      BY <1>3 DEF Indices
    <3>3. rxq + 1 \in Indices(r)
      BY <1>3, <1>5, <3>1 DEF Indices
    <3> QED
      BY <1>6, <3>1, <3>2, <3>3
  <2> QED
    BY <2>1, <2>2
<1> QED
  BY <1>1, <1>4, <1>5, <1>7, <1>8, <1>9 DEF Ring

(* It meets them in the middle of EmacPsRecv too: the first is filled, and *)
(* no later frame comes to lie before it.                                  *)
LEMMA StoreWhilePreparing ==
  ASSUME RingInv, StoreFrame, NEW r \in Receivers, pc[r] = "setup"
  PROVE  Prepared(r)'
<1>1. /\ rxen /\ rxq \in Bds /\ ~bd[rxq].new
      /\ rxq' = (IF bd[rxq].wrap THEN 0 ELSE rxq + 1)
      /\ UNCHANGED <<pc, remain, delivered, nextBd>>
  BY DEF StoreFrame, taskVars
<1>2. /\ bd'[rxq].new /\ bd'[rxq].wrap = bd[rxq].wrap
      /\ \A i \in Bds \ {rxq} : bd'[i] = bd[i]
  BY StoredFrame DEF RingInv, FlagInv
<1>3. /\ Prepared(r) /\ rxq \in Nat /\ nextBd \in Nat
      /\ Batch(r) \in Nat /\ Batch(r) <= BdCount
      /\ \A i \in 0 .. nextBd - 1 : i \in Bds /\ i \in Nat
  <2>1. /\ Prepared(r) /\ rxq \in Nat /\ nextBd \in Nat /\ remain[r] \in Nat
    BY RingFacts DEF RingInv, NetTypeOK
  <2>2. Batch(r) \in Nat /\ Batch(r) <= BdCount /\ nextBd <= Batch(r)
    BY <2>1, BatchFacts DEF Prepared
  <2> QED
    BY <2>1, <2>2 DEF Bds
<1>4. Batch(r)' = Batch(r)
  BY <1>1 DEF Batch
<1>5. nextBd # 0 /\ 0 \in Bds /\ 0 \in 0 .. nextBd - 1
  <2>1. nextBd # 0
    BY <1>1, <1>3 DEF Prepared
  <2> QED
    BY <1>3, <2>1 DEF Bds
<1>6. \A i \in 0 .. nextBd - 1 : bd[i].new => i < rxq
  BY <1>1, <1>3 DEF Prepared
<1>7. \A i \in 0 .. nextBd - 1 : bd'[i].wrap <=> i = Batch(r) - 1
  BY <1>2, <1>3 DEF Prepared
<1>8. FreshFrames(nextBd)'
  <2>1. nextBd \in 0 .. BdCount
    BY <1>3 DEF Prepared
  <2> DEFINE n == nextBd
  <2>2. n' = n
    BY <1>1
  <2>3. n \in 0 .. BdCount /\ FreshFrames(n) /\ \A i \in 0 .. n - 1 : bd[i].new => i < rxq
    BY <1>3, <1>6, <2>1 DEF Prepared
  <2> HIDE DEF n
  <2>4. FreshFrames(n)'
    BY <2>2, <2>3, StoreKeepsFresh DEF RingInv
  <2> QED
    BY <2>2, <2>4 DEF n
<1>9. bd'[0].new
  BY <1>1, <1>2, <1>3, <1>5 DEF Prepared
<1>10. rxq' = 0 \/ \A i \in 0 .. nextBd - 1 : bd'[i].new => i < rxq'
  <2>1. CASE rxq' = rxq + 1
    BY <1>2, <1>3, <1>6, <2>1
  <2> QED
    BY <1>1, <2>1
<1> QED
  BY <1>1, <1>3, <1>4, <1>5, <1>7, <1>8, <1>9, <1>10 DEF Prepared

(* A frame that is stored keeps the invariant, whenever it comes.          *)
LEMMA StoreKeepsRing ==
  ASSUME RingInv, FlagInv', StoreFrame
  PROVE  RingInv'
<1>1. /\ rxen /\ rxq \in Bds /\ ~bd[rxq].new
      /\ UNCHANGED <<pc, remain, kernel, step, recv_queue, delivered>> /\ stored' = stored + 1
  BY DEF StoreFrame, taskVars, irqVars
<1>2. InUse' = InUse /\ InUse # {}
  BY <1>1 DEF RingInv, Idle, InUse
<1>3. WaitsAlone'
  BY <1>1 DEF WaitsAlone, RingInv
<1>4. InOrder'
  BY <1>1, RingFacts DEF InOrder, RingInv
<1> QED
  BY <1>1, <1>2, <1>3, <1>4, StoreWhileWaiting, StoreWhilePreparing DEF RingInv

(* Every step keeps the invariant of the ring.                             *)
LEMMA RingStep ==
  ASSUME RingInv, [Next]_vars
  PROVE  RingInv'
<1>1. FlagInv'
  BY FlagStep DEF RingInv
<1>2. ASSUME NEW t \in Receivers, NEW n \in 1 .. MaxPackets, NetRecv(t, n) PROVE RingInv'
  <2>1. remain' = [remain EXCEPT ![t] = n] /\ remain \in [Receivers -> Nat]
    BY <1>2, RingFacts DEF NetRecv, NetTypeOK
  <2> QED
    BY <1>1, <1>2, <2>1, TestFlagKeepsRing DEF NetRecv
<1>3. ASSUME NEW t \in Receivers, Retest(t) PROVE RingInv'
  BY <1>1, <1>3, TestFlagKeepsRing DEF Retest
<1>4. ASSUME NEW t \in Senders, NetSend(t) \/ NetSent(t) PROVE RingInv'
  <2>1. \/ pc' = [pc EXCEPT ![t] = "send"]
        \/ pc' = [pc EXCEPT ![t] = "user"]
    BY <1>4 DEF NetSend, NetSent
  <2>2. \A r \in Receivers : pc'[r] = pc[r]
    BY <2>1, TaskFacts, RingFacts DEF NetTypeOK
  <2>3. UNCHANGED <<remain, delivered, kernel, step, rxVars>>
    BY <1>4 DEF NetSend, NetSent, irqVars
  <2> QED
    BY <1>1, <2>2, <2>3, RingSame DEF rxVars, RingInv, WaitsAlone
<1>5. CASE RecvReadIsr \/ RecvClearIsr \/ SendReadIsr \/ SendWake \/ TakeIrq \/ Claim
             \/ CompleteTransmission \/ UNCHANGED vars
  <2>1. /\ UNCHANGED <<taskVars, rxVars>>
        /\ kernel' = Irq /\ step' \in {"recv_read", "recv_clear", "recv_wake"} =>
             recv_queue # <<>> \/ (kernel = Irq /\ step \in {"recv_read", "recv_clear", "recv_wake"})
    BY <1>5 DEF RecvReadIsr, RecvClearIsr, SendReadIsr, SendWake, TakeIrq, Claim, CompleteTransmission,
                IrqStep, vars, irqVars, Free, Irq
  <2> QED
    BY <1>1, <2>1, RingSame DEF taskVars, rxVars, RingInv, WaitsAlone
<1> QED
  BY <1>1, <1>2, <1>3, <1>4, <1>5, SetBdKeepsRing, SetQueueBaseKeepsRing, ReceiveKeepsRing,
     RecvWakeKeepsRing, StoreKeepsRing DEF Next, Resume, InKernel, Tasks

(* It holds before the receiver is enabled.                                *)
LEMMA RingInit == Init => RingInv
<1> SUFFICES ASSUME Init PROVE RingInv
  OBVIOUS
<1>1. FlagInv
  BY FlagInit
<1>2. \A r \in Receivers : pc[r] = "user"
  BY TaskFacts DEF Init
<1>3. WaitsAlone /\ InOrder
  BY DEF Init, WaitsAlone, InOrder, Free, Irq
<1> QED
  BY <1>1, <1>2, <1>3 DEF Init, RingInv, Idle

(* Frames that come while descriptors are prepared, which "disable         *)
(* receiver" does not prevent, may lead the device out of the ring, but    *)
(* not for longer than the preparation: a receiver that waits has it       *)
(* within its batch, the last descriptor of which wraps, and a full batch  *)
(* stops it.                                                               *)
THEOREM DeviceStaysInBatch == Spec => []RxWithinBatch
<1>1. RingInv /\ [Next]_vars => RingInv'
  BY RingStep
<1> QED
  BY <1>1, RingInit, RxStaysWithin, PTL DEF Spec

(* Whenever they come, programs get the frames of the wire in the order    *)
(* they came, none twice, and never a buffer without a frame: a batch of   *)
(* do_net_recv is complete only when each of its descriptors was filled    *)
(* after it was prepared.                                                  *)
THEOREM FramesInOrder == Spec => []DeliveredInOrder
<1>1. RingInv /\ [Next]_vars => RingInv'
  BY RingStep
<1>2. RingInv => DeliveredInOrder
  BY RingFacts DEF RingInv, InOrder, DeliveredInOrder
<1> QED
  BY <1>1, <1>2, RingInit, PTL DEF Spec

=============================================================================
