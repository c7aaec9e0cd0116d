------------------------------- MODULE Sched -------------------------------
(***************************************************************************)
(* Process table and scheduler of the final kernel (Project6-FileSystem,   *)
(* kernel/sched/sched.c; Project4 and Project5 have the same code).        *)
(*                                                                         *)
(* Only hart 0 runs (init/main.c leaves wakeup_other_hart commented out)   *)
(* and interrupts are off inside the kernel, so one handler, from the trap *)
(* to the switch_to that ends it, is one step.  What interleaves is the    *)
(* order of traps: a timer interrupt may come before any system call.      *)
(*                                                                         *)
(* Data left out: cursors, stacks, registers, task type.  A deadline is    *)
(* kept as the number of ticks still to go, so that time stays bounded;    *)
(* the clock stands still within a handler.                                *)
(*                                                                         *)
(* A definition marked "wrong:" is the one below it with a plausible       *)
(* mistake; nothing uses it but the experiments that show that the         *)
(* properties notice the mistake.                                          *)
(***************************************************************************)
EXTENDS Integers, Sequences, FiniteSets, SequencesExt

CONSTANTS
  NUM_MAX_TASK,   \* size of the process table
  MaxPid,         \* bound: pids handed out in a behaviour
  MaxSleep,       \* bound: longest sleep, in ticks
  Masks,          \* affinity masks the programs pass to taskset
  Modes,          \* spawn modes the programs use
  Calls,          \* system calls the programs make
  Workers,        \* tasks whose programs block, end or are killed; the others
                  \* run for ever, as the shell does that polls its console
                  \* and is not told to exit, to wait or to kill itself
  Objects         \* locks, barriers...: whatever else tasks queue up on

ASSUME SizeAssumption == {NUM_MAX_TASK, MaxPid} \subseteq Nat \ {0} /\ MaxSleep \in Nat
ASSUME MaskAssumption == Masks \subseteq Nat
ASSUME ModeAssumption == Modes \subseteq {"ENTER_ZOMBIE_ON_EXIT", "AUTO_CLEANUP_ON_EXIT"}
ASSUME ObjectAssumption == Objects \cap (0 .. NUM_MAX_TASK - 1) = {}

Tasks == 0 .. NUM_MAX_TASK - 1      \* indices of pcb[]
Pid0 == -1                          \* pid0_pcb_core0, the boot stack's PCB
PCBs == Tasks \cup {Pid0}
NoPid == -1                         \* pid of a free slot

BootPgdir == NUM_MAX_TASK           \* the page table the boot code installs
NullPgdir == -1                     \* pgdir of pid0_pcb_core0: a null pointer

Dead == {"ZOMBIE", "EXITED"}
Statuses == {"BLOCKED", "RUNNING", "READY"} \cup Dead

VARIABLES
  pid, status, mode, mask, pgdir, timer,   \* fields of the PCBs
  wait_queue,     \* of task i: pcb[i].wait_list; of an object: its own list
  ready_queue, sleep_queue, current_running, process_id,
  satp            \* the page table the hart translates with

pcbVars == <<pid, mode, mask, pgdir, process_id>>
runVars == <<status, timer, ready_queue, sleep_queue, current_running, satp>>
schedVars == <<pcbVars, wait_queue, runVars>>

-----------------------------------------------------------------------------
Waiting == UNION {ToSet(wait_queue[q]) : q \in Tasks \cup Objects}
Linked == ToSet(ready_queue) \cup ToSet(sleep_queue) \cup Waiting

(* wrong: the first element goes. *)
WithoutHead(q, x) == IF x \in ToSet(q) THEN Tail(q) ELSE q

(* delete_element: what is in q is taken out of it.                         *)
Without(q, x) ==
  IF x \in ToSet(q) THEN RemoveAt(q, CHOOSE i \in DOMAIN q : q[i] = x) ELSE q

(* wrong, in what wakes the tasks of a queue: only the first one is woken.  *)
FirstOnly(q) == IF q = <<>> THEN q ELSE <<Head(q)>>
ButFirst(q) == IF q = <<>> THEN q ELSE Tail(q)

(* The sequences that list exactly the members of S, in the order of s.    *)
Listing(s, S) ==
  {w \in SetToSeqs(S) :
     /\ ToSet(w) = S
     /\ \A i, j \in DOMAIN w : i < j =>
          \E m, n \in DOMAIN s : m < n /\ s[m] = w[i] /\ s[n] = w[j]}

(* wrong: the page table stays. *)
SwitchToSameTable(next, st, rq) ==
  /\ current_running' = next
  /\ status' = [st EXCEPT ![next] = "RUNNING"]
  /\ ready_queue' = rq
  /\ satp' = satp

(* switch_to, with the page table of the next task when it differs.  Nobody *)
(* gives pid0_pcb_core0 a page directory.                                   *)
SwitchTo(next, st, rq) ==
  /\ current_running' = next
  /\ status' = [st EXCEPT ![next] = "RUNNING"]
  /\ ready_queue' = rq
  /\ satp' = IF pgdir[next] = pgdir[current_running] THEN satp ELSE pgdir[next]

Fits(t) == mask[t] = 3 \/ mask[t] = 1        \* cpu_id is 0

(* wrong: the last task that fits. *)
LastFit(rq, i) == Fits(rq[i]) /\ \A j \in i + 1 .. Len(rq) : ~Fits(rq[j])

FirstFit(rq, i) == Fits(rq[i]) /\ \A j \in 1 .. i - 1 : ~Fits(rq[j])

(* The choice of the next task.  A ready queue in which no mask fits leaves *)
(* current_running as it is and marks it RUNNING, whatever it was.          *)
Dispatch(st, rq) ==
  \/ rq = <<>> /\ SwitchTo(Pid0, st, rq)
  \/ \E i \in DOMAIN rq : FirstFit(rq, i) /\ SwitchTo(rq[i], st, RemoveAt(rq, i))
  \/ /\ rq # <<>> /\ \A i \in DOMAIN rq : ~Fits(rq[i])
     /\ SwitchTo(current_running, st, rq)

(* wrong: everybody, or nobody, is due. *)
AllDue(sq, tm) == ToSet(sq)
NoneDue(sq, tm) == {}

Due(sq, tm) == {t \in ToSet(sq) : tm[t] = 0}

Asleep(sq, due) == ToSet(sq) \ due

(* wrong: the status of a woken task stays BLOCKED. *)
AwakenBlocked(st, due) == st

Awaken(st, due) == [t \in PCBs |-> IF t \in due THEN "READY" ELSE st[t]]

Preempt(st) ==
  IF st[current_running] = "RUNNING" THEN [st EXCEPT ![current_running] = "READY"] ELSE st

Requeued(st) ==
  IF st[current_running] = "RUNNING" /\ current_running # Pid0
    THEN <<current_running>> ELSE <<>>

(* wrong: the woken tasks go ahead of those that are ready. *)
WokenFirst(rq, woken, requeued) == woken \o rq \o requeued

Queued(rq, woken, requeued) == rq \o woken \o requeued

(* do_scheduler, called with the status, queues and timers a handler leaves. *)
(* timer_check moves the due sleepers to the ready queue, then the running   *)
(* task is queued behind them.  Queueing a node that is Linked already       *)
(* breaks the lists, here and in the operations below; what follows is not   *)
(* modelled, the step does not exist.                                        *)
DoScheduler(st, rq, sq, tm) ==
  \E woken \in Listing(sq, Due(sq, tm)), asleep \in Listing(sq, Asleep(sq, Due(sq, tm))) :
    LET awake == Awaken(st, Due(sq, tm)) IN
      /\ ToSet(Requeued(awake)) \cap (ToSet(rq) \cup ToSet(sq) \cup Waiting) = {}
      /\ sleep_queue' = asleep
      /\ timer' = tm
      /\ Dispatch(Preempt(awake), Queued(rq, woken, Requeued(awake)))

(* do_block of the calling task in the list of q.                           *)
DoBlock(q) ==
  /\ current_running \notin Linked
  /\ wait_queue' = [wait_queue EXCEPT ![q] = Append(@, current_running)]
  /\ DoScheduler([status EXCEPT ![current_running] = "BLOCKED"], ready_queue,
                 sleep_queue, timer)

-----------------------------------------------------------------------------
(* With the page table of pid0 installed the kernel itself is not mapped:   *)
(* the hart faults on every fetch and takes no trap any more.               *)
Mapped == satp # NullPgdir

InCall(name) == name \in Calls /\ Mapped /\ current_running \in Tasks

TimerInterrupt ==       \* reset_irq_timer
  /\ Mapped
  /\ DoScheduler(status, ready_queue, sleep_queue, timer)
  /\ UNCHANGED <<pcbVars, wait_queue>>

Yield ==
  /\ InCall("yield")
  /\ DoScheduler(status, ready_queue, sleep_queue, timer)
  /\ UNCHANGED <<pcbVars, wait_queue>>

(* The shell (test/test_shell.c) has commands to wait and to end, none to   *)
(* sleep.                                                                   *)
Shell(t) == pid[t] = 1

(* do_sleep takes the node out of the list it may be linked in.             *)
Sleep(d) ==
  /\ InCall("sleep") /\ current_running \in Workers /\ ~Shell(current_running)
  /\ wait_queue' = [q \in Tasks \cup Objects |-> Without(wait_queue[q], current_running)]
  /\ DoScheduler([status EXCEPT ![current_running] = "BLOCKED"],
                 Without(ready_queue, current_running),
                 Append(Without(sleep_queue, current_running), current_running),
                 [timer EXCEPT ![current_running] = d])
  /\ UNCHANGED pcbVars

(* Waiting for a pid nobody has, or for a dead task, returns at once.       *)
Waitpid(p) ==
  /\ InCall("waitpid") /\ current_running \in Workers
  /\ \E i \in Tasks : pid[i] = p /\ status[i] \notin Dead /\ DoBlock(i)
  /\ UNCHANGED pcbVars

(* The first free slot becomes a new ready task.  With no free slot the     *)
(* code writes past pcb[]: the programs modelled never fill the table.      *)
NewTask(i, m, k, dir) ==
  /\ pid[i] = NoPid /\ \A j \in 0 .. i - 1 : pid[j] # NoPid
  /\ i \notin Linked
  /\ process_id < MaxPid
  /\ process_id' = process_id + 1
  /\ pid' = [pid EXCEPT ![i] = process_id + 1]
  /\ mode' = [mode EXCEPT ![i] = m]
  /\ mask' = [mask EXCEPT ![i] = k]
  /\ pgdir' = [pgdir EXCEPT ![i] = dir]
  /\ status' = [status EXCEPT ![i] = "READY"]
  /\ wait_queue' = [wait_queue EXCEPT ![i] = <<>>]
  /\ ready_queue' = Append(ready_queue, i)
  /\ UNCHANGED <<timer, sleep_queue, current_running, satp>>

Spawn(i, m) == InCall("spawn") /\ NewTask(i, m, mask[current_running], pgdir[i])

Exec(i, m) == InCall("exec") /\ NewTask(i, m, mask[current_running], pgdir[i])

Taskset(i, m, k) == InCall("taskset") /\ NewTask(i, m, k, pgdir[i])

MthreadCreate(i) ==
  /\ InCall("mthread_create")
  /\ NewTask(i, mode[current_running], mask[current_running], pgdir[current_running])

(* Programs rebind Workers only: with every ready task bound to the other   *)
(* hart a task that blocks goes on running, see Dispatch.                   *)
TasksetP(k, p) ==
  /\ InCall("taskset_p")
  /\ \E i \in Workers : i \in Tasks /\ pid[i] = p /\ mask' = [mask EXCEPT ![i] = k]
  /\ UNCHANGED <<pid, mode, pgdir, process_id, wait_queue, runVars>>

(* wrong: deadlines that have passed go on counting down. *)
TickBelowZero ==
  /\ \E t \in ToSet(sleep_queue) : timer[t] > 0
  /\ timer' = [t \in Tasks |-> timer[t] - 1]
  /\ UNCHANGED <<pcbVars, wait_queue, status, ready_queue, sleep_queue, current_running, satp>>

(* The clock: every sleeper's deadline comes one tick nearer.               *)
Tick ==
  /\ \E t \in ToSet(sleep_queue) : timer[t] > 0
  /\ timer' = [t \in Tasks |-> IF timer[t] > 0 THEN timer[t] - 1 ELSE 0]
  /\ UNCHANGED <<pcbVars, wait_queue, status, ready_queue, sleep_queue, current_running, satp>>

-----------------------------------------------------------------------------
(* init_pcb: the shell is pcb[0]; the boot code runs as pid0.               *)
Init ==
  /\ pid = [t \in Tasks |-> IF t = 0 THEN 1 ELSE NoPid]
  /\ status = [t \in PCBs |-> IF t = Pid0 THEN "RUNNING"
                              ELSE IF t = 0 THEN "READY" ELSE "BLOCKED"]
  /\ mode = [t \in Tasks |-> "ENTER_ZOMBIE_ON_EXIT"]
  /\ mask = [t \in PCBs |-> IF t \in {0, Pid0} THEN 3 ELSE 0]
  /\ pgdir = [t \in PCBs |-> IF t = Pid0 THEN NullPgdir ELSE t]
  /\ timer = [t \in Tasks |-> 0]
  /\ wait_queue = [q \in Tasks \cup Objects |-> <<>>]
  /\ ready_queue = <<0>>
  /\ sleep_queue = <<>>
  /\ current_running = Pid0
  /\ process_id = 1
  /\ satp = BootPgdir

SomeSpawn == \E i \in Tasks, m \in Modes : Spawn(i, m)

(* The system calls of sched.c that touch no lock.                          *)
SchedCall ==
  \/ Yield
  \/ \E d \in 0 .. MaxSleep : Sleep(d)
  \/ \E p \in 1 .. MaxPid : Waitpid(p)
  \/ SomeSpawn
  \/ \E i \in Tasks, m \in Modes : Exec(i, m)
  \/ \E i \in Tasks, m \in Modes, k \in Masks : Taskset(i, m, k)
  \/ \E i \in Tasks : MthreadCreate(i)
  \/ \E k \in Masks, p \in 1 .. MaxPid : TasksetP(k, p)

Next == TimerInterrupt \/ SchedCall \/ Tick

Spec == Init /\ [][Next]_schedVars

(* The timer goes on firing and time goes on passing.                       *)
FairSpec == Spec /\ WF_schedVars(TimerInterrupt) /\ WF_schedVars(Tick)

-----------------------------------------------------------------------------
TypeOK ==
  /\ pid \in [Tasks -> {NoPid} \cup (1 .. MaxPid)]
  /\ status \in [PCBs -> Statuses]
  /\ mode \in [Tasks -> {"ENTER_ZOMBIE_ON_EXIT", "AUTO_CLEANUP_ON_EXIT"}]
  /\ mask \in [PCBs -> Nat]
  /\ pgdir \in [PCBs -> {NullPgdir} \cup Tasks]
  /\ timer \in [Tasks -> 0 .. MaxSleep]
  /\ wait_queue \in [Tasks \cup Objects -> Seq(Tasks)]
  /\ ready_queue \in Seq(Tasks)
  /\ sleep_queue \in Seq(Tasks)
  /\ current_running \in PCBs
  /\ process_id \in Nat
  /\ satp \in {NullPgdir, BootPgdir} \cup Tasks

Alive(t) == pid[t] # NoPid /\ status[t] \notin Dead

(* No task is lost: READY tasks are those of the ready queue, live BLOCKED  *)
(* ones those that sleep or wait, and the hart runs the one RUNNING task.   *)
StatusMatchesQueue ==
  /\ \A t \in Tasks : status[t] = "READY" <=> t \in ToSet(ready_queue)
  /\ \A t \in Tasks : Alive(t) /\ status[t] = "BLOCKED"
                         <=> t \in ToSet(sleep_queue) \cup Waiting
  /\ \A t \in PCBs : status[t] = "RUNNING" <=> t = current_running

(* Nobody is out of the sleep queue before the deadline, not even in the    *)
(* do_scheduler that do_sleep itself calls, and a switch leaves nobody      *)
(* behind whose deadline has passed.                                        *)
DeadlinesKept ==
  [][/\ \A t \in Tasks : timer'[t] > 0 => t \in ToSet(sleep_queue')
     /\ current_running' # current_running =>
          \A t \in ToSet(sleep_queue') : timer'[t] > 0]_schedVars

(* Round robin: when the hart changes hands, nobody in the ready queue who  *)
(* could have it is overtaken, by later ones or by sleepers woken meanwhile. *)
NoOvertaking ==
  [][current_running' # current_running =>
       \A i \in DOMAIN ready_queue :
         Fits(ready_queue[i]) => \E j \in 1 .. i : current_running' = ready_queue[j]
     ]_schedVars

(* The hart translates with the page table of the task it runs: no task     *)
(* ever runs in the address space of another, and the null page table of    *)
(* pid0 is installed only while nobody is left to run.  The test in         *)
(* do_scheduler compares page tables and not tasks, and slots hand theirs   *)
(* on to threads and to the next program: both must be harmless.            *)
TranslatesOwnTable ==
  \/ satp = pgdir[current_running]
  \/ satp = BootPgdir /\ current_running = Pid0

(* The timer interrupt preempts, so a task in the ready queue is run, as    *)
(* long as it is not bound to the other hart.                               *)
ReadyTasksRun ==
  \A t \in Tasks : status[t] = "READY" /\ Fits(t) ~> status[t] = "RUNNING" \/ ~Fits(t)

(* do_sleep, "create a timer which calls do_unblock when timeout": again    *)
(* and again nobody is asleep whose deadline has passed, as long as the     *)
(* hart has a task to run.  When the last one that could run sleeps, waits  *)
(* or ends, the shell too, the hart goes to pid0 and stops.                 *)
SleepersWakeOrHartStops ==
  []<>((\A t \in ToSet(sleep_queue) : timer[t] > 0) \/ current_running = Pid0)

=============================================================================
