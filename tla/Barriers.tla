------------------------------ MODULE Barriers ------------------------------
(***************************************************************************)
(* The barriers of Project6-FileSystem (sys_mthread_barrier_* of           *)
(* kernel/sched/sched.c, barrier_get of kernel/locking/lock.c).            *)
(*                                                                         *)
(* barrier_get picks an entry of whole_barriers from the address of the    *)
(* handle and returns 0, whatever entry it is: all later calls use entry   *)
(* 0, Handle here.                                                         *)
(*                                                                         *)
(* The Workers are the participants, and the goal is their number; each    *)
(* goes through the barrier MaxRounds times.  arrived and passed count the *)
(* calls a task has made and those it has come back from.                  *)
(***************************************************************************)
EXTENDS Locks

CONSTANTS
  Barriers,       \* the entries the addresses of the programs' handles map to
  Handle,         \* entry 0 of whole_barriers
  MaxRounds       \* bound: rounds of a participant

ASSUME BarrierAssumption ==
  Barriers \cup {Handle} \subseteq Objects \ Locks /\ MaxRounds \in Nat

VARIABLES bar_valid, goal, cur_num, arrived, passed

Entries == Barriers \cup {Handle}
barVars == <<bar_valid, goal, cur_num, arrived, passed>>
allBarVars == <<vars, barVars>>

-----------------------------------------------------------------------------
(* barrier_get probes for an entry that is not in use.                      *)
BarrierInit(b) ==
  /\ InCall("barrier_init") /\ ~bar_valid[b]
  /\ bar_valid' = [bar_valid EXCEPT ![b] = TRUE]
  /\ goal' = [goal EXCEPT ![b] = Cardinality(Workers)]
  /\ cur_num' = [cur_num EXCEPT ![b] = 0]
  /\ UNCHANGED <<vars, arrived, passed>>

Passed(S) == [t \in Tasks |-> passed[t] + IF t \in S THEN 1 ELSE 0]

Participates ==
  /\ InCall("barrier_wait") /\ current_running \in Workers
  /\ arrived[current_running] < MaxRounds
  /\ \E b \in Barriers : bar_valid[b]
  /\ arrived' = [arrived EXCEPT ![current_running] = @ + 1]

(* The last to arrive wakes the others and goes on.                         *)
Open ==
  /\ cur_num' = [cur_num EXCEPT ![Handle] = 0]
  /\ ready_queue' = ready_queue \o wait_queue[Handle]
  /\ status' = Awaken(status, ToSet(wait_queue[Handle]))
  /\ wait_queue' = [wait_queue EXCEPT ![Handle] = <<>>]
  /\ passed' = Passed(ToSet(wait_queue[Handle]) \cup {current_running})
  /\ UNCHANGED <<timer, sleep_queue, current_running, satp>>

(* wrong: the arrival is counted after the comparison, or one too many is   *)
(* expected before the barrier opens.                                       *)
LastOneEarly == cur_num[Handle] + 2 = goal[Handle]
LastOneLate == cur_num[Handle] = goal[Handle]

LastOne == cur_num[Handle] + 1 = goal[Handle]

(* sys_mthread_barrier_wait.  On an entry that is not valid the call fails  *)
(* and the program goes on.                                                 *)
BarrierWait ==
  /\ Participates
  /\ \/ bar_valid[Handle] /\ LastOne /\ Open
     \/ /\ bar_valid[Handle] /\ ~LastOne
        /\ cur_num' = [cur_num EXCEPT ![Handle] = @ + 1]
        /\ DoBlock(Handle)
        /\ UNCHANGED passed
     \/ /\ ~bar_valid[Handle]
        /\ passed' = Passed({current_running})
        /\ UNCHANGED <<cur_num, wait_queue, runVars>>
  /\ UNCHANGED <<pcbVars, lockVars, bar_valid, goal>>

(* The creator destroys the barrier when it has waited for every            *)
(* participant to end.                                                      *)
BarrierDestroy ==
  /\ InCall("barrier_destroy") /\ bar_valid[Handle]
  /\ \A t \in Workers : passed[t] = MaxRounds
  /\ bar_valid' = [bar_valid EXCEPT ![Handle] = FALSE]
  /\ UNCHANGED <<vars, goal, cur_num, arrived, passed>>

-----------------------------------------------------------------------------
BarriersInit ==
  /\ LockInit
  /\ bar_valid = [b \in Entries |-> FALSE]
  /\ goal = [b \in Entries |-> 0]
  /\ cur_num = [b \in Entries |-> 0]
  /\ arrived = [t \in Tasks |-> 0]
  /\ passed = [t \in Tasks |-> 0]

BarrierNext ==
  \/ LockNext /\ UNCHANGED barVars
  \/ InUser /\ \E b \in Barriers : BarrierInit(b)
  \/ InUser /\ BarrierWait
  \/ InUser /\ BarrierDestroy

BarrierSpec == BarriersInit /\ [][BarrierNext]_allBarVars

(* The timer fires, sleeps end, the creator starts all the participants,    *)
(* and each of them that gets the hart again and again comes to its next    *)
(* call.                                                                    *)
FairBarrierSpec ==
  /\ BarrierSpec
  /\ WF_allBarVars(InUser /\ TimerInterrupt /\ UNCHANGED <<lockVars, barVars>>)
  /\ WF_allBarVars(Tick /\ UNCHANGED <<lockVars, barVars>>)
  /\ SF_allBarVars(InUser /\ SomeSpawn /\ UNCHANGED <<lockVars, barVars>>)
  /\ \A t \in Workers : SF_allBarVars(InUser /\ current_running = t /\ BarrierWait)

-----------------------------------------------------------------------------

(* Nobody leaves a round before everybody has come to it, though a task may *)
(* be back at the barrier before those woken with it have run at all.       *)
BarrierSynchronises ==
  \A t, u \in Workers : passed[t] <= arrived[u]

(* A task that waits at the barrier is let through in the end: nobody is    *)
(* left behind when the others are rounds ahead.                            *)
BarrierOpens ==
  \A t \in Workers : t \in ToSet(wait_queue[Handle]) ~> t \notin ToSet(wait_queue[Handle])

=============================================================================
