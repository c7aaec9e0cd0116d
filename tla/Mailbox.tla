------------------------------- MODULE Mailbox -------------------------------
(***************************************************************************)
(* A mailbox of Project6-FileSystem (do_mbox_*, do_mulmail of              *)
(* kernel/sched/sched.c): a bounded stream of bytes between tasks.         *)
(*                                                                         *)
(* Each call holds mailbox_locks[id] between two points at which it gives  *)
(* the hart up, and interrupts are off in the kernel: the lock is never    *)
(* found taken, and a turn of a call's loop is one step.  pending is what  *)
(* the kernel stack of a blocked call remembers.                           *)
(*                                                                         *)
(* Bytes are numbered, modulo Stamps, in the order in which they were put  *)
(* into the box.  msg is the array up to index.  A mailbox's slot is used  *)
(* again after close; the programs close it when no call is under way.     *)
(***************************************************************************)
EXTENDS Locks

CONSTANTS
  full_queue, empty_queue,   \* the two lists of the mailbox
  MAX_MBOX_LENGTH,
  SendLengths, RecvLengths,  \* the message lengths of senders and receivers
  Senders, Receivers,        \* the workers that send, and those that receive
  Stamps                     \* bound: distinct byte numbers

ASSUME MailboxAssumption ==
  /\ {full_queue, empty_queue} \subseteq Objects \ Locks
  /\ full_queue # empty_queue
  /\ SendLengths \cup RecvLengths \subseteq 1 .. MAX_MBOX_LENGTH
  /\ Senders \cup Receivers \subseteq Workers
  /\ {MAX_MBOX_LENGTH, Stamps} \subseteq Nat /\ Stamps > MAX_MBOX_LENGTH

VARIABLES
  opened, msg, pending,
  sent, received    \* the numbers of the next byte to be sent, to be received

boxVars == <<opened, msg, pending, sent, received>>
allVars == <<vars, boxVars>>
lockOnly == <<valid, lock_status, lockid, overrun, held>>

-----------------------------------------------------------------------------
(* do_mbox_open: the box of that name, or a free slot made empty.           *)
Open ==
  /\ InCall("mbox_open") /\ ~opened
  /\ opened' = TRUE /\ msg' = <<>> /\ sent' = 0 /\ received' = 0
  /\ wait_queue' = [wait_queue EXCEPT ![full_queue] = <<>>, ![empty_queue] = <<>>]
  /\ UNCHANGED <<pcbVars, runVars, lockVars, pending>>

InUse == \E t \in Tasks : Alive(t) /\ acquiring[t] \in {full_queue, empty_queue}

Close ==
  /\ InCall("mbox_close") /\ opened /\ ~InUse
  /\ opened' = FALSE
  /\ UNCHANGED <<vars, msg, pending, sent, received>>

(* wrong: one task is woken. *)
WakeOne(q) ==
  /\ ready_queue' = ready_queue \o FirstOnly(wait_queue[q])
  /\ status' = Awaken(status, ToSet(FirstOnly(wait_queue[q])))
  /\ wait_queue' = [wait_queue EXCEPT ![q] = ButFirst(@)]

WakeAll(q) ==
  /\ ready_queue' = ready_queue \o wait_queue[q]
  /\ status' = Awaken(status, ToSet(wait_queue[q]))
  /\ wait_queue' = [wait_queue EXCEPT ![q] = <<>>]

(* The end of a call that wakes the tasks of q.                             *)
Finish(q) ==
  /\ acquiring' = [acquiring EXCEPT ![current_running] = NoObject]
  /\ WakeAll(q)
  /\ UNCHANGED <<timer, sleep_queue, current_running, satp, pending>>

Wait(q, n) ==
  /\ acquiring' = [acquiring EXCEPT ![current_running] = q]
  /\ pending' = [pending EXCEPT ![current_running] = n]
  /\ DoBlock(q)
  /\ UNCHANGED <<msg, sent, received>>

NextBytes(n) == [i \in 1 .. n |-> (sent + i - 1) % Stamps]

Room(n) == Len(msg) + n <= MAX_MBOX_LENGTH

(* One turn of the loop of do_mbox_send.                                    *)
TrySend(n) ==
  \/ /\ Room(n)
     /\ msg' = msg \o NextBytes(n)
     /\ sent' = (sent + n) % Stamps
     /\ Finish(empty_queue)
     /\ UNCHANGED received
  \/ ~Room(n) /\ Wait(full_queue, n)

(* wrong: the remaining bytes are moved from one place too far. *)
RestShifted(n) == SubSeq(msg, n + 1, Len(msg) - 1) \o <<0>>

(* What is left when n bytes are taken: the others move to the front.       *)
Rest(n) == SubSeq(msg, n + 1, Len(msg))

(* One turn of the loop of do_mbox_recv.                                    *)
TryRecv(n) ==
  \/ /\ Len(msg) >= n
     /\ msg' = Rest(n)
     /\ received' = (received + n) % Stamps
     /\ Finish(full_queue)
     /\ UNCHANGED sent
  \/ Len(msg) < n /\ Wait(empty_queue, n)

BoxCall(name, Who) == InCall(name) /\ opened /\ current_running \in Who

Send(n) ==
  /\ BoxCall("mbox_send", Senders) /\ TrySend(n)
  /\ UNCHANGED <<pcbVars, lockOnly, opened>>

Recv(n) ==
  /\ BoxCall("mbox_recv", Receivers) /\ TryRecv(n)
  /\ UNCHANGED <<pcbVars, lockOnly, opened>>

(* do_mulmail receives when it can at once, else it sends.                  *)
Mulmail(n) ==
  /\ BoxCall("mulmail", Senders)
  /\ IF Len(msg) >= n THEN TryRecv(n) ELSE TrySend(n)
  /\ UNCHANGED <<pcbVars, lockOnly, opened>>

Resume ==
  /\ Mapped
  /\ \/ acquiring[current_running] = full_queue /\ TrySend(pending[current_running])
     \/ acquiring[current_running] = empty_queue /\ TryRecv(pending[current_running])
  /\ UNCHANGED <<pcbVars, lockOnly, opened>>

-----------------------------------------------------------------------------
MailboxInit ==
  /\ LockInit
  /\ opened = FALSE
  /\ msg = <<>>
  /\ pending = [t \in Tasks |-> 0]
  /\ sent = 0 /\ received = 0

SomeSend == InUser /\ \E n \in SendLengths : Send(n) \/ Mulmail(n)
SomeRecv == InUser /\ \E n \in RecvLengths : Recv(n)

MailboxNext ==
  \/ LockNext /\ UNCHANGED boxVars
  \/ InUser /\ (Open \/ Close)
  \/ SomeSend
  \/ SomeRecv
  \/ Resume

MailboxSpec == MailboxInit /\ [][MailboxNext]_allVars

(* The timer fires, the kernel finishes what it resumes, the programs are   *)
(* started and go on sending and receiving.                                 *)
FairMailboxSpec ==
  /\ MailboxSpec
  /\ WF_allVars(InUser /\ TimerInterrupt /\ UNCHANGED <<lockVars, boxVars>>)
  /\ WF_allVars(Resume)
  /\ SF_allVars(InUser /\ SomeSpawn /\ UNCHANGED <<lockVars, boxVars>>)
  /\ SF_allVars(SomeSend) /\ SF_allVars(SomeRecv)

-----------------------------------------------------------------------------

(* The box holds exactly the bytes sent and not yet received, in order: no  *)
(* byte is lost, doubled or overtaken, whatever lengths are mixed and       *)
(* however often a call had to wait and start over.                         *)
StreamIntact ==
  /\ \A i \in DOMAIN msg : msg[i] = (received + i - 1) % Stamps
  /\ (received + Len(msg)) % Stamps = sent

(* A task sleeps in a queue of the box only while its own message does not  *)
(* fit, or is not there yet: between the test and the block no wake-up is   *)
(* lost, and a wake-up meant for several lengths reaches each of them.      *)
NoSleeperWithoutReason ==
  /\ \A t \in ToSet(wait_queue[full_queue]) : ~Room(pending[t])
  /\ \A t \in ToSet(wait_queue[empty_queue]) : Len(msg) < pending[t]

(* Senders and receivers do not come to wait for each other, and each wait  *)
(* ends, unless a task is killed on the other side: true of lengths of      *)
(* which two do not exceed the box by two, and of no others.                *)
TransferGoesOn ==
  /\ wait_queue[full_queue] # <<>> ~>
       wait_queue[full_queue] = <<>> \/ \E t \in Receivers : status[t] \in Dead
  /\ wait_queue[empty_queue] # <<>> ~>
       wait_queue[empty_queue] = <<>> \/ \E t \in Senders : status[t] \in Dead

=============================================================================
