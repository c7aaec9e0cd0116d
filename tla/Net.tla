--------------------------------- MODULE Net --------------------------------
(***************************************************************************)
(* Network calls of Project5-DeviceDriver in interrupt mode (sys_net_irq_  *)
(* mode(1)): drivers/net.c, EmacPsSend, EmacPsWaitSend, EmacPsRecv and     *)
(* EmacPsWaitRecv of drivers/emacps/xemacps_main.c, handle_irq of          *)
(* kernel/irq/irq.c.                                                       *)
(*                                                                         *)
(* One hart runs and interrupts are off inside the kernel, so that a       *)
(* handler is one step unless it meets the device, which receives and      *)
(* sends at any time: preparing descriptors and answering the interrupt    *)
(* take a step for each access to what the device shares.                  *)
(*                                                                         *)
(* A frame is its number; lengths and copies are left out.  RXBD_CNT is    *)
(* the constant BdCount.  A blocked task that was taken out of its queue   *)
(* goes on when the scheduler gives it the hart.                           *)
(***************************************************************************)
EXTENDS Integers, Sequences, SequencesExt

CONSTANTS
  Receivers, Senders,   \* tasks that call sys_net_recv, sys_net_send
  BdCount,              \* receive descriptors
  MaxPackets,           \* bound: frames asked for in one call
  MaxFrames,            \* bound: frames the device stores
  TakeTurns             \* programs do not send while one of them receives

ASSUME SizeAssumption == BdCount \in Nat \ {0} /\ {MaxPackets, MaxFrames} \subseteq Nat
ASSUME TurnAssumption == TakeTurns \in BOOLEAN

Tasks == Receivers \cup Senders
Free == "free"            \* the hart is in user mode
Irq == "irq"              \* the hart answers the interrupt of the device
ASSUME TaskAssumption == Receivers \cap Senders = {} /\ {Free, Irq} \cap Tasks = {}

Bds == 0 .. BdCount - 1
FRAMERX == "FRAMERX"
TXCOMPL == "TXCOMPL"

VARIABLES
  pc,           \* where a task is: user, flag, setup, recv or send
  remain,       \* num_packet - current_packet of a receiver
  recv_flag,
  recv_block_queue, recv_queue, send_queue,
  kernel,       \* who runs in the kernel: Free, Irq or a task in EmacPsRecv
  step, isrSeen,    \* of Irq: how far it is, and what it read
  nextBd,       \* of a task in EmacPsRecv: the descriptor to set
  bd,           \* bd_space: NEW and WRAP bits, and the frame stored
  delivered,    \* frames copied to programs so far
  rxen, rxq,    \* device: receiver enabled, descriptor to fill next
  isr, txsr,    \* device: interrupt status, transmission complete
  transmitting, \* device: a frame is being sent
  stored        \* device: frames stored so far

taskVars == <<pc, remain, recv_flag, recv_block_queue, delivered>>
irqVars == <<step, isrSeen>>
txVars == <<send_queue, txsr, transmitting>>
rxVars == <<recv_queue, nextBd, bd, rxen, rxq, stored>>
vars == <<taskVars, kernel, irqVars, txVars, rxVars, isr>>

-----------------------------------------------------------------------------
Min2(a, b) == IF a < b THEN a ELSE b

(* The number of frames one round of do_net_recv asks for.                  *)
Batch(t) == Min2(remain[t], BdCount)

(* The task runs on in the kernel, from the descriptors on.                 *)
Prepare(t) ==
  /\ kernel' = t
  /\ pc' = [pc EXCEPT ![t] = "setup"]
  /\ nextBd' = 0

(* The loop on recv_flag at the start of do_net_recv.                       *)
TestFlag(t) ==
  \/ /\ recv_flag
     /\ recv_block_queue' = Append(recv_block_queue, t)
     /\ pc' = [pc EXCEPT ![t] = "flag"]
     /\ UNCHANGED <<recv_flag, kernel, nextBd>>
  \/ /\ ~recv_flag
     /\ recv_flag' = TRUE
     /\ Prepare(t)
     /\ UNCHANGED recv_block_queue

NetRecv(t, n) ==
  /\ kernel = Free /\ pc[t] = "user"
  /\ TakeTurns => \A s \in Senders : pc[s] = "user"
  /\ remain' = [remain EXCEPT ![t] = n]
  /\ TestFlag(t)
  /\ UNCHANGED <<delivered, irqVars, txVars, recv_queue, bd, rxen, rxq, stored, isr>>

(* wrong: the flag is not looked at again. *)
RetestUnlooked(t) ==
  /\ kernel = Free /\ pc[t] = "flag" /\ t \notin ToSet(recv_block_queue)
  /\ recv_flag' = TRUE
  /\ Prepare(t)
  /\ UNCHANGED <<remain, recv_block_queue, delivered, irqVars, txVars,
                 recv_queue, bd, rxen, rxq, stored, isr>>

Retest(t) ==
  /\ kernel = Free /\ pc[t] = "flag" /\ t \notin ToSet(recv_block_queue)
  /\ TestFlag(t)
  /\ UNCHANGED <<remain, delivered, irqVars, txVars, recv_queue, bd, rxen, rxq, stored, isr>>

(* wrong: the last one does not wrap. *)
BdUnwrapped(t) == [new |-> FALSE, wrap |-> FALSE, frame |-> 0]

(* A descriptor handed to the device; the last one of the batch wraps.      *)
BdForDevice(t) == [new |-> FALSE, wrap |-> nextBd = Batch(t) - 1, frame |-> 0]

(* EmacPsRecv, the loop.  "disable receiver" at its start does nothing: it  *)
(* compares the enable bit, 4, with TRUE, so that from the second call on   *)
(* the device goes on storing while the descriptors are prepared.           *)
SetBd(t) ==
  /\ kernel = t /\ nextBd < Batch(t)
  /\ bd' = [bd EXCEPT ![nextBd] = BdForDevice(t)]
  /\ nextBd' = nextBd + 1
  /\ UNCHANGED <<taskVars, kernel, irqVars, txVars, recv_queue, rxen, rxq, stored, isr>>

(* EmacPsRecv, the rest, and do_block in EmacPsWaitRecv.                    *)
SetQueueBase(t) ==
  /\ kernel = t /\ nextBd = Batch(t)
  /\ rxq' = 0 /\ rxen' = TRUE
  /\ recv_queue' = Append(recv_queue, t)
  /\ pc' = [pc EXCEPT ![t] = "recv"]
  /\ kernel' = Free
  /\ UNCHANGED <<remain, recv_flag, recv_block_queue, delivered, irqVars, txVars, nextBd, bd,
                 stored, isr>>

(* Woken in EmacPsWaitRecv: the frames are copied out; the next round       *)
(* begins, or the call ends and wakes all that wait for the flag.           *)
Receive(t) ==
  /\ kernel = Free /\ pc[t] = "recv" /\ t \notin ToSet(recv_queue)
  /\ delivered' = delivered \o [i \in 1 .. Batch(t) |-> bd[i - 1].frame]
  /\ remain' = [remain EXCEPT ![t] = @ - Batch(t)]
  /\ IF remain[t] > BdCount
       THEN /\ Prepare(t)
            /\ UNCHANGED <<recv_flag, recv_block_queue>>
       ELSE /\ pc' = [pc EXCEPT ![t] = "user"]
            /\ recv_flag' = FALSE
            /\ recv_block_queue' = <<>>
            /\ UNCHANGED <<kernel, nextBd>>
  /\ UNCHANGED <<irqVars, txVars, recv_queue, bd, rxen, rxq, stored, isr>>

(* do_net_send up to the do_block in EmacPsWaitSend.                        *)
NetSend(t) ==
  /\ kernel = Free /\ pc[t] = "user"
  /\ TakeTurns => \A r \in Receivers : pc[r] = "user"
  /\ transmitting' = TRUE
  /\ send_queue' = Append(send_queue, t)
  /\ pc' = [pc EXCEPT ![t] = "send"]
  /\ UNCHANGED <<remain, recv_flag, recv_block_queue, delivered, kernel, irqVars, txsr, rxVars, isr>>

NetSent(t) ==
  /\ kernel = Free /\ pc[t] = "send" /\ t \notin ToSet(send_queue)
  /\ pc' = [pc EXCEPT ![t] = "user"]
  /\ UNCHANGED <<remain, recv_flag, recv_block_queue, delivered, kernel, irqVars, txVars, rxVars, isr>>

-----------------------------------------------------------------------------
(* plic_handle_irq claims the interrupt and calls handle_irq until none is  *)
(* pending.                                                                 *)
IrqStep(from, to) == kernel = Irq /\ step = from /\ step' = to /\ kernel' = Irq

TakeIrq ==
  /\ kernel = Free /\ isr # {}
  /\ kernel' = Irq /\ step' = "claim"
  /\ UNCHANGED <<taskVars, isrSeen, txVars, rxVars, isr>>

(* With both queues empty handle_irq clears no status: the same interrupt   *)
(* is claimed again, for ever.                                              *)
Claim ==
  /\ \/ /\ isr = {}
        /\ kernel = Irq /\ step = "claim"
        /\ kernel' = Free /\ step' = "idle"
     \/ /\ isr # {}
        /\ IrqStep("claim", IF recv_queue # <<>> THEN "recv_read"
                            ELSE IF send_queue # <<>> THEN "send_read" ELSE "claim")
  /\ UNCHANGED <<taskVars, isrSeen, txVars, rxVars, isr>>

RecvReadIsr ==
  /\ IrqStep("recv_read", "recv_clear")
  /\ isrSeen' = isr
  /\ UNCHANGED <<taskVars, txVars, rxVars, isr>>

RecvClearIsr ==
  /\ IrqStep("recv_clear", "recv_wake")
  /\ isr' = isr \ isrSeen
  /\ UNCHANGED <<taskVars, isrSeen, txVars, rxVars>>

(* wrong: the first frame wakes. *)
FirstNew == bd[0].new

(* wrong: the wrap bit of the first descriptor that is not NEW. *)
WrapBehind == \E k \in Bds : bd[k].wrap /\ ~bd[k].new /\ \A i \in 0 .. k - 1 : bd[i].new

(* The descriptors from 0 on that are NEW end with one that wraps.          *)
AllNew == \E k \in Bds : bd[k].wrap /\ (\A i \in 0 .. k : bd[i].new)
                           /\ (k + 1 \in Bds => ~bd[k + 1].new)

RecvWake ==
  /\ IrqStep("recv_wake", IF send_queue = <<>> THEN "claim" ELSE "send_read")
  /\ recv_queue' = IF FRAMERX \in isrSeen /\ AllNew THEN Tail(recv_queue) ELSE recv_queue
  /\ UNCHANGED <<taskVars, isrSeen, txVars, nextBd, bd, rxen, rxq, stored, isr>>

SendReadIsr ==
  /\ IrqStep("send_read", "send_wake")
  /\ isrSeen' = isr
  /\ UNCHANGED <<taskVars, txVars, rxVars, isr>>

SendWake ==
  /\ IrqStep("send_wake", "claim")
  /\ isr' = isr \ isrSeen
  /\ IF TXCOMPL \in isrSeen /\ txsr
       THEN txsr' = FALSE /\ send_queue' = Tail(send_queue)
       ELSE UNCHANGED <<txsr, send_queue>>
  /\ UNCHANGED <<taskVars, isrSeen, transmitting, rxVars>>

-----------------------------------------------------------------------------
(* The device.  It stores a frame where the next descriptor is free, and    *)
(* loses it otherwise.  Behind the last descriptor it is on foreign ground: *)
(* what it does there is not modelled.                                      *)
StoreFrame ==
  /\ rxen /\ rxq \in Bds /\ ~bd[rxq].new
  /\ stored < MaxFrames
  /\ stored' = stored + 1
  /\ bd' = [bd EXCEPT ![rxq].new = TRUE, ![rxq].frame = stored + 1]
  /\ rxq' = IF bd[rxq].wrap THEN 0 ELSE rxq + 1
  /\ isr' = isr \cup {FRAMERX}
  /\ UNCHANGED <<taskVars, kernel, irqVars, txVars, recv_queue, nextBd, rxen>>

CompleteTransmission ==
  /\ transmitting
  /\ transmitting' = FALSE
  /\ txsr' = TRUE
  /\ isr' = isr \cup {TXCOMPL}
  /\ UNCHANGED <<taskVars, kernel, irqVars, send_queue, rxVars>>

Init ==
  /\ pc = [t \in Tasks |-> "user"]
  /\ remain = [t \in Receivers |-> 0]
  /\ recv_flag = FALSE
  /\ recv_block_queue = <<>> /\ recv_queue = <<>> /\ send_queue = <<>>
  /\ kernel = Free /\ step = "idle" /\ isrSeen = {}
  /\ nextBd = 0
  /\ bd = [i \in Bds |-> [new |-> FALSE, wrap |-> FALSE, frame |-> 0]]
  /\ delivered = <<>>
  /\ rxen = FALSE /\ rxq = 0
  /\ isr = {} /\ txsr = FALSE
  /\ transmitting = FALSE
  /\ stored = 0

Resume(t) == IF t \in Receivers THEN Retest(t) \/ Receive(t) ELSE NetSent(t)

InKernel == \/ \E t \in Receivers : SetBd(t) \/ SetQueueBase(t)
            \/ Claim \/ RecvReadIsr \/ RecvClearIsr \/ RecvWake \/ SendReadIsr \/ SendWake

Next ==
  \/ \E t \in Receivers, n \in 1 .. MaxPackets : NetRecv(t, n)
  \/ \E t \in Senders : NetSend(t)
  \/ \E t \in Tasks : Resume(t)
  \/ InKernel \/ TakeIrq
  \/ StoreFrame \/ CompleteTransmission

Spec == Init /\ [][Next]_vars

(* The kernel runs on, an interrupt that is pending is taken in user     *)
(* mode, the scheduler runs every ready task, the device sends, and frames  *)
(* keep coming.                                                             *)
FairSpec ==
  /\ Spec
  /\ WF_vars(InKernel) /\ SF_vars(TakeIrq)
  /\ \A t \in Tasks : SF_vars(Resume(t))
  /\ WF_vars(CompleteTransmission) /\ WF_vars(StoreFrame)

-----------------------------------------------------------------------------
(* Two calls of do_net_recv never use the descriptors and buffers at once, *)
(* the flag is up exactly while one does, and no task waits for a flag that *)
(* is down.                                                                 *)
InUse == {r \in Receivers : pc[r] \in {"setup", "recv"}}
OneReceiver ==
  /\ \A r, s \in InUse : r = s
  /\ recv_flag <=> InUse # {}
  /\ recv_block_queue # <<>> => recv_flag

(* What programs get from do_net_recv are frames of the wire in the order   *)
(* they came, none twice, and never a buffer no frame was stored in.        *)
DeliveredInOrder ==
  /\ \A i \in DOMAIN delivered : delivered[i] > 0
  /\ \A i, j \in DOMAIN delivered : i < j => delivered[i] < delivered[j]

(* A receiver that waits has the device within the descriptors of its       *)
(* batch, and when nobody receives it is within bd_space: what a frame that *)
(* came early did to it is over when EmacPsRecv returns.                    *)
RxWithinBatch ==
  /\ \A r \in Receivers : pc[r] = "recv" => rxq \in 0 .. Batch(r) - 1
  /\ InUse = {} => rxq \in Bds

(* A receiver that sleeps though its frames have all been stored has an     *)
(* interrupt pending, or the handler has read the one of the last frame and *)
(* has yet to look at the descriptors: no order of frames and of the steps  *)
(* of handle_irq loses the wake-up of a receiver.                           *)
Filled(t) == pc[t] = "recv" /\ \A i \in 0 .. Batch(t) - 1 : bd[i].new
FullBatchIsNoticed ==
  \A t \in Receivers : Filled(t) /\ t \in ToSet(recv_queue) =>
    \/ FRAMERX \in isr
    \/ kernel = Irq /\ step = "recv_wake" /\ FRAMERX \in isrSeen

(* EmacPsWaitSend, "Wait for transmission to complete": do_net_send         *)
(* returns.                                                                 *)
SendersReturn == \A t \in Senders : pc[t] = "send" ~> pc[t] = "user"
=============================================================================
