-------------------------------- MODULE Swap --------------------------------
(***************************************************************************)
(* Demand paging of Project4-VirtualMemory (kernel/irq/irq.c,              *)
(* handle_pagefault; kernel/mm/mm.c): every task may have two pages loaded *)
(* on demand; a third one sends the oldest to the SD card.                 *)
(*                                                                         *)
(* kmalloc hands out memory from memCurr on, which is where the page that  *)
(* allocPage returned last begins: the page_t of a page lies in the frame  *)
(* of that very page.  So the links of page_list and used_page_queue go to *)
(* the card with the page and come back as they were; the lists are        *)
(* modelled link by link.                                                  *)
(*                                                                         *)
(* Interrupts are off in the handler and one hart runs: a fault is one     *)
(* step.  Programs leave the page_t in their pages alone, and the upper    *)
(* page tables exist.  Frames are never given to another page, so a page   *)
(* stands for its frame and its page_t too.                                *)
(***************************************************************************)
EXTENDS Integers, FiniteSets

CONSTANTS
  Tasks,
  NumPages,    \* pages the program of a task touches
  Values,      \* what programs write
  Unwritten,   \* what a fresh frame holds
  MaxBlocks    \* bound: places used on the card

ASSUME SizeAssumption == {NumPages, MaxBlocks} \subseteq Nat /\ Unwritten \notin Values
ASSUME TaskAssumption == IsFiniteSet(Tasks) /\ {"page_list", "used_page_queue"} \cap Tasks = {}

Pages == Tasks \X (1 .. NumPages)
Owner(v) == v[1]

Resident(t) == <<"page_list", t>>
Swapped(t) == <<"used_page_queue", t>>
Nodes == Pages \cup {Resident(t) : t \in Tasks} \cup {Swapped(t) : t \in Tasks}

NoBlock == 0
PagesAtStart == 2     \* pagenum of a new PCB
PageLimit == 4

VARIABLES
  links,      \* next and prev of every node
  known,      \* pages that have a frame and a page_t
  present,    \* pages whose PTE has _PAGE_PRESENT
  pagenum,    \* of each task
  frame,      \* what programs wrote, in the frame of a page
  block,      \* page_t.block
  disk, bid   \* the images on the card, and the next free place

vars == <<links, known, present, pagenum, frame, block, disk, bid>>

-----------------------------------------------------------------------------
Init_list(l, n) == [next |-> [l.next EXCEPT ![n] = n], prev |-> [l.prev EXCEPT ![n] = n]]

Delete_element(l, n) ==
  Init_list([next |-> [l.next EXCEPT ![l.prev[n]] = l.next[n]],
             prev |-> [l.prev EXCEPT ![l.next[n]] = l.prev[n]]], n)

Add_element(l, n, head) ==
  [next |-> [l.next EXCEPT ![l.prev[head]] = n, ![n] = head],
   prev |-> [l.prev EXCEPT ![n] = l.prev[head], ![head] = n]]

(* The nodes the search of the used queue comes by, one after the other.    *)
Walk(t) ==
  LET w[i \in 0 .. Cardinality(Nodes)] ==
        IF i = 0 THEN links.next[Swapped(t)] ELSE links.next[w[i - 1]]
  IN  w

(* The search ends at the page, or at the head of the queue without it.     *)
Finds(v) ==
  LET w == Walk(Owner(v)) IN
    \E i \in DOMAIN w : w[i] = v /\ \A j \in 0 .. i - 1 : w[j] # Swapped(Owner(v))

FindsNothing(v) ==
  LET w == Walk(Owner(v)) IN
    \E i \in DOMAIN w : w[i] = Swapped(Owner(v)) /\ \A j \in 0 .. i - 1 : w[j] # v

(* What mem2disk writes: the data of the page, and the page_t in it.        *)
Image(e) == [data |-> frame[e], next |-> links.next[e], prev |-> links.prev[e]]

(* wrong: the page loaded last. *)
NewestPage(t) == links.prev[Resident(t)]

(* The page that goes to the card, the first of the page_list.  Nothing in  *)
(* the code asks whether that is a page.  If it is a list head, the code     *)
(* takes the PCB around it for a page_t: it writes whatever memory the       *)
(* fields there name to the card, clears the attributes of some PTE, and     *)
(* overwrites what lies around the head.  No outcome of that is modelled:    *)
(* the model has no further fault of that task, FaultsAreServed is violated, *)
(* and every other property speaks of what happened before.                  *)
Victim(t) == links.next[Resident(t)]

Full(t) == pagenum[t] = PageLimit

CanEvict(t) == Victim(t) \in Pages /\ bid <= MaxBlocks

Evicted(t) ==
  IF Full(t)
    THEN Add_element(Delete_element(links, Victim(t)), Victim(t), Swapped(t))
    ELSE links

(* wrong: every page goes to the same place. *)
SamePlace == bid

(* The place of the next image, eight sectors further on.                   *)
NextPlace == bid + 1

MakeRoom(t) ==
  IF Full(t)
    THEN /\ CanEvict(t)
         /\ disk' = [disk EXCEPT ![bid] = Image(Victim(t))]
         /\ bid' = NextPlace
         /\ UNCHANGED pagenum
    ELSE /\ pagenum' = [pagenum EXCEPT ![t] = @ + 1]
         /\ UNCHANGED <<disk, bid>>

BlocksAfter(t) == IF Full(t) THEN [block EXCEPT ![Victim(t)] = bid] ELSE block

PresentAfter(t) == IF Full(t) THEN present \ {Victim(t)} ELSE present

(* disk2mem, which brings the links of the page_t back as well; then the    *)
(* page moves from the list it believes to be in to the page_list.          *)
Restored(l, v, image) ==
  [next |-> [l.next EXCEPT ![v] = image.next], prev |-> [l.prev EXCEPT ![v] = image.prev]]

SwapIn(v) ==
  LET t == Owner(v)
      blocks == BlocksAfter(t)
  IN
  /\ v \notin present /\ Finds(v)
  /\ MakeRoom(t)
  /\ LET image == disk'[blocks[v]] IN
       /\ links' = Add_element(Delete_element(Restored(Evicted(t), v, image), v), v, Resident(t))
       /\ frame' = [frame EXCEPT ![v] = image.data]
  /\ block' = [blocks EXCEPT ![v] = NoBlock]
  /\ present' = PresentAfter(t) \cup {v}
  /\ UNCHANGED known

(* A page seen for the first time gets a new frame.                         *)
FirstTouch(v) ==
  LET t == Owner(v) IN
  /\ v \notin present /\ FindsNothing(v)
  /\ v \notin known
  /\ MakeRoom(t)
  /\ links' = Add_element(Evicted(t), v, Resident(t))
  /\ block' = [BlocksAfter(t) EXCEPT ![v] = NoBlock]
  /\ present' = PresentAfter(t) \cup {v}
  /\ known' = known \cup {v}
  /\ UNCHANGED frame

(* A program writes to a page the hart can translate.                       *)
Write(v, x) ==
  /\ v \in present
  /\ frame' = [frame EXCEPT ![v] = x]
  /\ UNCHANGED <<links, known, present, pagenum, block, disk, bid>>

Init ==
  /\ links = [next |-> [n \in Nodes |-> n], prev |-> [n \in Nodes |-> n]]
  /\ known = {} /\ present = {}
  /\ pagenum = [t \in Tasks |-> PagesAtStart]
  /\ frame = [v \in Pages |-> Unwritten]
  /\ block = [v \in Pages |-> NoBlock]
  /\ disk = [b \in 1 .. MaxBlocks |-> [data |-> Unwritten]]
  /\ bid = 1

Next ==
  \E v \in Pages : SwapIn(v) \/ FirstTouch(v) \/ \E x \in Values : Write(v, x)

Spec == Init /\ [][Next]_vars

-----------------------------------------------------------------------------
(* What a program would read in page v: from its frame, or from the copy on *)
(* the card that the next fault brings back.                                *)
Contents(v) ==
  IF v \in present \/ v \notin known THEN frame[v] ELSE disk[block[v]].data

M == INSTANCE Memory WITH content <- [v \in Pages |-> Contents(v)]

(* Paging is invisible to programs: whatever is sent to the card and brought *)
(* back, in whatever order the tasks fault, every page holds what was       *)
(* written to it last, and no task overwrites the copies of another.        *)
ImplementsMemory == M!Spec

(* handle_pagefault can serve the next fault, whichever page it is about:    *)
(* the search of used_page_queue ends, at the page if it was swapped out,    *)
(* and where room must be made page_list begins with a page.                 *)
FaultsAreServed ==
  \A v \in Pages \ present :
    /\ IF v \in known THEN Finds(v) ELSE FindsNothing(v)
    /\ Full(Owner(v)) => Victim(Owner(v)) \in Pages
=============================================================================
