----------------------------- MODULE SwapProofs -----------------------------
(***************************************************************************)
(* Demand paging keeps what programs write, for every number of tasks with *)
(* at most three pages each, every number of places on the card and every  *)
(* order of faults.  With a fourth page a list may begin with a list head  *)
(* when a page must go, handle_pagefault goes on with memory that is no    *)
(* page, and the model ends: FaultsServed says that three pages never lead *)
(* there, and only so far does the rest speak of the code.                 *)
(*                                                                         *)
(* A page keeps its frame, so that the copy on the card and the frame hold *)
(* the same whenever a fault copies one to the other.  What could go wrong *)
(* is that the search of used_page_queue finds a page that was never       *)
(* loaded, or that an image is overwritten before it is read.              *)
(***************************************************************************)
EXTENDS Swap, FiniteSetTheorems, WellFoundedInduction, TLAPS

USE SizeAssumption, TaskAssumption

-----------------------------------------------------------------------------
(* Natural numbers.                                                        *)

(* A set of numbers has a smallest one.                                    *)
LEMMA SmallestOf ==
  ASSUME NEW T \in SUBSET Nat, T # {}
  PROVE  \E n \in T : \A m \in T : n <= m
<1> DEFINE R == OpToRel(<, Nat)
<1>1. IsWellFoundedOn(R, Nat)
  BY NatLessThanWellFounded, Zenon
<1> HIDE DEF R
<1>2. PICK n \in T : \A m \in T : ~(<<m, n>> \in R)
  BY <1>1, WFMin
<1>3. \A m \in T : ~(m < n)
  <2>1. \A m \in Nat, k \in Nat : m < k => <<m, k>> \in R
    BY DEF R, OpToRel
  <2> QED
    BY <1>2, <2>1
<1> QED
  BY <1>2, <1>3

(* Induction, on a set instead of a predicate.                             *)
LEMMA AllNumbers ==
  ASSUME NEW S \in SUBSET Nat, 0 \in S, \A n \in S : n + 1 \in S
  PROVE  S = Nat
<1> SUFFICES ASSUME Nat \ S # {} PROVE FALSE
  OBVIOUS
<1>1. PICK n \in Nat \ S : \A m \in Nat \ S : n <= m
  BY SmallestOf
<1>2. n - 1 \in Nat /\ ~(n <= n - 1)
  BY <1>1
<1> QED
  BY <1>1, <1>2

(* u follows nx from a on, N times.                                        *)
Follows(u, N, nx, a) == u = [i \in 0 .. N |-> IF i = 0 THEN a ELSE nx[u[i - 1]]]

(* A function that follows nx from a on exists up to every length.         *)
LEMMA PathExists ==
  ASSUME NEW N \in Nat, NEW nx, NEW a
  PROVE  \E u : Follows(u, N, nx, a)
<1> DEFINE S == {n \in Nat : \E u : u = [i \in 0 .. n |-> IF i = 0 THEN a ELSE nx[u[i - 1]]]}
<1>1. 0 \in S
  <2>1. [i \in 0 .. 0 |-> a]
          = [i \in 0 .. 0 |-> IF i = 0 THEN a ELSE nx[[j \in 0 .. 0 |-> a][i - 1]]]
    OBVIOUS
  <2> QED
    BY <2>1
<1>2. ASSUME NEW n \in S PROVE n + 1 \in S
  <2>1. PICK u : u = [i \in 0 .. n |-> IF i = 0 THEN a ELSE nx[u[i - 1]]]
    OBVIOUS
  <2> DEFINE v == [i \in 0 .. n + 1 |-> IF i = n + 1 THEN nx[u[n]] ELSE u[i]]
  <2>2. \A i \in 0 .. n : u[i] = IF i = 0 THEN a ELSE nx[u[i - 1]]
    BY <2>1
  <2>3. ASSUME NEW i \in 0 .. n + 1 PROVE v[i] = IF i = 0 THEN a ELSE nx[v[i - 1]]
    <3>1. CASE i = n + 1
      BY <3>1
    <3>2. CASE i # n + 1
      BY <2>2, <3>2
    <3> QED
      BY <3>1, <3>2
  <2>4. v = [i \in 0 .. n + 1 |-> v[i]]
    OBVIOUS
  <2> HIDE DEF v
  <2>5. v = [i \in 0 .. n + 1 |-> IF i = 0 THEN a ELSE nx[v[i - 1]]]
    BY <2>3, <2>4
  <2>6. n + 1 \in Nat
    OBVIOUS
  <2>7. \E u1 : u1 = [i \in 0 .. n + 1 |-> IF i = 0 THEN a ELSE nx[u1[i - 1]]]
    BY <2>5
  <2> QED
    BY <2>6, <2>7, Zenon
<1> HIDE DEF S
<1>3. S = Nat
  <2>1. S \in SUBSET Nat
    BY DEF S
  <2> QED
    BY <1>1, <1>2, <2>1, AllNumbers
<1>4. \E u : u = [i \in 0 .. N |-> IF i = 0 THEN a ELSE nx[u[i - 1]]]
  BY <1>3 DEF S
<1> QED
  BY <1>4, Zenon DEF Follows

-----------------------------------------------------------------------------
(* Links.                                                                  *)

(* What lists may lead to: the heads, and pages that have a frame.         *)
Reached == Nodes \ (Pages \ known)

(* From nodes of R the links lead to nodes of R.                           *)
Closed(next, R) == next \in [Nodes -> Nodes] /\ \A n \in R : next[n] \in R

(* Pages and the heads of a task's lists are nodes.                        *)
LEMMA NodeFacts ==
  /\ Pages \subseteq Nodes /\ Reached \subseteq Nodes /\ Reached \cap Pages \subseteq known
  /\ \A v \in Pages : Owner(v) \in Tasks
  /\ \A t \in Tasks : {Resident(t), Swapped(t)} \subseteq Reached
<1>1. \A t \in Tasks : {Resident(t), Swapped(t)} \cap Pages = {}
  BY DEF Resident, Swapped, Pages
<1> QED
  BY <1>1 DEF Nodes, Reached, Owner, Pages

(* There are finitely many nodes.                                          *)
LEMMA AllNodesFinite == IsFiniteSet(Nodes)
<1>1. IsFiniteSet(1 .. NumPages)
  BY FS_Interval
<1>2. IsFiniteSet(Pages)
  BY <1>1, FS_Product DEF Pages
<1>3. IsFiniteSet({Resident(t) : t \in Tasks}) /\ IsFiniteSet({Swapped(t) : t \in Tasks})
  <2> DEFINE r == [t \in Tasks |-> Resident(t)]
             s == [t \in Tasks |-> Swapped(t)]
  <2>1. r \in Surjection(Tasks, {Resident(t) : t \in Tasks})
    BY DEF Surjection
  <2>2. s \in Surjection(Tasks, {Swapped(t) : t \in Tasks})
    BY DEF Surjection
  <2> QED
    BY <2>1, <2>2, FS_Surjection
<1> QED
  BY <1>2, <1>3, FS_Union DEF Nodes

LEMMA NodesFinite == Cardinality(Nodes) \in Nat
  BY AllNodesFinite, FS_CardinalityType

(* add_element leads from the nodes to the new one and from it to the head. *)
LEMMA AddClosed ==
  ASSUME NEW l, NEW R \in SUBSET Nodes, NEW n \in R, NEW head \in R,
         l.next \in [Nodes -> Nodes], \A m \in R \ {n} : l.next[m] \in R
  PROVE  Closed(Add_element(l, n, head).next, R)
<1>1. Add_element(l, n, head).next = [l.next EXCEPT ![l.prev[head]] = n, ![n] = head]
  BY DEF Add_element
<1> DEFINE p == l.prev[head]
           f == l.next
<1> HIDE DEF p, f
<1>2. Closed([f EXCEPT ![p] = n, ![n] = head], R)
  BY DEF Closed, f
<1> QED
  BY <1>1, <1>2 DEF p, f

(* delete_element leads past the node, and from it to itself.              *)
LEMMA DeleteClosed ==
  ASSUME NEW l, NEW R \in SUBSET Nodes, NEW n \in R, Closed(l.next, R)
  PROVE  Closed(Delete_element(l, n).next, R)
<1>1. Delete_element(l, n).next = [[l.next EXCEPT ![l.prev[n]] = l.next[n]] EXCEPT ![n] = n]
  BY DEF Delete_element, Init_list
<1> DEFINE p == l.prev[n]
           f == l.next
<1> HIDE DEF p, f
<1>2. Closed([[f EXCEPT ![p] = f[n]] EXCEPT ![n] = n], R)
  BY DEF Closed, f
<1> QED
  BY <1>1, <1>2 DEF p, f

-----------------------------------------------------------------------------
(* The search of used_page_queue.                                          *)

(* Walk follows its definition.                                            *)
LEMMA WalkSteps ==
  ASSUME NEW t
  PROVE  Walk(t) = [i \in 0 .. Cardinality(Nodes) |->
                      IF i = 0 THEN links.next[Swapped(t)] ELSE links.next[Walk(t)[i - 1]]]
<1> DEFINE N == Cardinality(Nodes)
           a == links.next[Swapped(t)]
           nx == links.next
           w[i \in 0 .. N] == IF i = 0 THEN a ELSE nx[w[i - 1]]
<1>1. Walk(t) = w
  BY DEF Walk
<1>2. N \in Nat
  BY NodesFinite
<1> HIDE DEF N, a, nx
<1>3. w = [i \in 0 .. N |-> IF i = 0 THEN a ELSE nx[w[i - 1]]]
  <2>1. \E u : Follows(u, N, nx, a)
    BY <1>2, PathExists
  <2> QED
    BY <2>1, Zenon DEF Follows
<1> QED
  BY <1>1, <1>3 DEF N, a, nx

(* It comes by nodes only that lists may lead to, so that no page without  *)
(* a frame is found.                                                       *)
LEMMA FoundIsKnown ==
  ASSUME Closed(links.next, Reached), NEW v \in Pages, Finds(v)
  PROVE  v \in known
<1> DEFINE t == Owner(v)
           w == Walk(t)
           N == Cardinality(Nodes)
           Bad == {i \in 0 .. N : w[i] \notin Reached}
<1>1. /\ N \in Nat /\ links.next[Swapped(t)] \in Reached
      /\ w = [i \in 0 .. N |-> IF i = 0 THEN links.next[Swapped(t)] ELSE links.next[w[i - 1]]]
  BY NodesFinite, NodeFacts, WalkSteps DEF Closed
<1> HIDE DEF w, N, t
<1>2. Bad = {}
  <2> SUFFICES ASSUME Bad # {} PROVE FALSE
    OBVIOUS
  <2>1. PICK i \in Bad : \A j \in Bad : i <= j
    <3>1. Bad \in SUBSET Nat
      BY <1>1
    <3> HIDE DEF Bad
    <3> QED
      BY <3>1, SmallestOf
  <2>2. w[i] = IF i = 0 THEN links.next[Swapped(t)] ELSE links.next[w[i - 1]]
    BY <1>1, <2>1
  <2>3. i # 0
    BY <1>1, <2>1, <2>2
  <2>4. i - 1 \in 0 .. N /\ ~(i <= i - 1)
    BY <1>1, <2>1, <2>3
  <2>5. w[i - 1] \in Reached
    BY <2>1, <2>4
  <2> QED
    BY <2>1, <2>2, <2>3, <2>5 DEF Closed
<1>3. PICK i \in DOMAIN w : w[i] = v
  BY DEF Finds, w, t
<1>4. i \in 0 .. N
  BY <1>1, <1>3
<1>5. v \in Reached
  BY <1>2, <1>3, <1>4
<1> QED
  BY <1>5, NodeFacts

-----------------------------------------------------------------------------
(* Copies.                                                                 *)

SwapTypeOK ==
  /\ known \subseteq Pages /\ present \subseteq Pages
  /\ frame \in [Pages -> Values \cup {Unwritten}]
  /\ block \in [Pages -> Nat]
  /\ bid \in 1 .. MaxBlocks + 1
  /\ disk = [b \in 1 .. MaxBlocks |-> disk[b]]

(* A page that was sent to the card has an image there that is its own     *)
(* frame, and whose links lead where lists may lead.                       *)
CopyOf(v) ==
  /\ block[v] \in 1 .. bid - 1
  /\ disk[block[v]].data = frame[v]
  /\ disk[block[v]].next \in Reached

SwapInv ==
  /\ SwapTypeOK /\ Closed(links.next, Reached)
  /\ \A v \in known \ present : CopyOf(v)

(* What a program would read is what is in the frame.                      *)
LEMMA FramesShow == SwapInv => [v \in Pages |-> Contents(v)] = frame
<1> SUFFICES ASSUME SwapInv PROVE [v \in Pages |-> Contents(v)] = frame
  OBVIOUS
<1>1. \A v \in Pages : Contents(v) = frame[v]
  BY DEF SwapInv, Contents, CopyOf
<1> QED
  BY <1>1 DEF SwapInv, SwapTypeOK

(* A page that is sent away has its copy, and the others keep theirs.      *)
LEMMA EvictionCopies ==
  ASSUME SwapInv, NEW t \in Tasks, MakeRoom(t)
  PROVE  /\ Closed(Evicted(t).next, Reached)
         /\ BlocksAfter(t) \in [Pages -> Nat] /\ bid' \in 1 .. MaxBlocks + 1 /\ PresentAfter(t) \subseteq present
         /\ disk' = [b \in 1 .. MaxBlocks |-> disk'[b]]
         /\ \A v \in known \ PresentAfter(t) :
              /\ BlocksAfter(t)[v] \in 1 .. bid' - 1
              /\ disk'[BlocksAfter(t)[v]].data = frame[v]
              /\ disk'[BlocksAfter(t)[v]].next \in Reached
<1>1. SwapTypeOK /\ Closed(links.next, Reached) /\ \A v \in known \ present : CopyOf(v)
  BY DEF SwapInv
<1>2. CASE ~Full(t)
  BY <1>1, <1>2 DEF MakeRoom, Evicted, BlocksAfter, PresentAfter, SwapTypeOK, CopyOf
<1>3. CASE Full(t)
  <2> DEFINE e == Victim(t)
             I == Image(e)
  <2>1. /\ e \in Pages /\ bid <= MaxBlocks /\ disk' = [disk EXCEPT ![bid] = I] /\ bid' = bid + 1
        /\ BlocksAfter(t) = [block EXCEPT ![e] = bid] /\ PresentAfter(t) = present \ {e}
        /\ Evicted(t) = Add_element(Delete_element(links, e), e, Swapped(t))
    BY <1>3 DEF MakeRoom, CanEvict, NextPlace, BlocksAfter, PresentAfter, Evicted
  <2>2. e \in Reached /\ e \in known
    BY <1>1, <2>1, NodeFacts DEF Victim, Closed
  <2>3. I.data = frame[e] /\ I.next \in Reached
    BY <1>1, <2>2 DEF Image, Closed
  <2> HIDE DEF e, I
  <2>4. Closed(Evicted(t).next, Reached)
    <3>1. Closed(Delete_element(links, e).next, Reached)
      BY <1>1, <2>2, NodeFacts, DeleteClosed
    <3>2. Swapped(t) \in Reached /\ Reached \in SUBSET Nodes
      BY NodeFacts
    <3> DEFINE l == Delete_element(links, e)
    <3>3. l.next \in [Nodes -> Nodes] /\ \A m \in Reached \ {e} : l.next[m] \in Reached
      BY <3>1 DEF Closed
    <3>4. Evicted(t) = Add_element(l, e, Swapped(t))
      BY <2>1
    <3> HIDE DEF l
    <3> QED
      BY <2>2, <3>2, <3>3, <3>4, AddClosed
  <2>5. bid \in 1 .. MaxBlocks /\ bid \in Nat /\ MaxBlocks \in Nat
    BY <1>1, <2>1 DEF SwapTypeOK
  <2>6. disk'[bid] = I /\ \A b \in 1 .. MaxBlocks : b # bid => disk'[b] = disk[b]
    BY <1>1, <2>1, <2>5 DEF SwapTypeOK
  <2>7. ASSUME NEW v \in known \ PresentAfter(t)
        PROVE  /\ BlocksAfter(t)[v] \in 1 .. bid' - 1
               /\ disk'[BlocksAfter(t)[v]].data = frame[v]
               /\ disk'[BlocksAfter(t)[v]].next \in Reached
    <3>1. CASE v = e
      BY <1>1, <2>1, <2>3, <2>5, <2>6, <3>1 DEF SwapTypeOK
    <3>2. CASE v # e
      <4>1. CopyOf(v) /\ v \in Pages
        BY <1>1, <2>1, <2>7, <3>2 DEF SwapTypeOK
      <4>2. BlocksAfter(t)[v] = block[v] /\ block[v] \in 1 .. bid - 1
        BY <1>1, <2>1, <3>2, <4>1 DEF SwapTypeOK, CopyOf
      <4>3. block[v] \in 1 .. MaxBlocks /\ block[v] # bid /\ block[v] \in 1 .. bid' - 1
        BY <2>1, <2>5, <4>2
      <4> QED
        BY <2>6, <4>1, <4>2, <4>3 DEF CopyOf
    <3> QED
      BY <3>1, <3>2
  <2>8. BlocksAfter(t) \in [Pages -> Nat] /\ bid' \in 1 .. MaxBlocks + 1
    BY <1>1, <2>1, <2>5 DEF SwapTypeOK
  <2>9. disk' = [b \in 1 .. MaxBlocks |-> disk'[b]]
    BY <1>1, <2>1 DEF SwapTypeOK
  <2> QED
    BY <2>1, <2>4, <2>7, <2>8, <2>9
<1> QED
  BY <1>2, <1>3

(* A fault on a page that was sent to the card: what comes back is the     *)
(* frame as it was.                                                        *)
LEMMA SwapInKeeps ==
  ASSUME SwapInv, NEW v \in Pages, SwapIn(v)
  PROVE  SwapInv' /\ UNCHANGED frame
<1> DEFINE t == Owner(v)
           image == disk'[BlocksAfter(t)[v]]
           back == Restored(Evicted(t), v, image)
<1>1. /\ v \notin present /\ Finds(v) /\ MakeRoom(t) /\ UNCHANGED known
      /\ links' = Add_element(Delete_element(back, v), v, Resident(t))
      /\ frame' = [frame EXCEPT ![v] = image.data]
      /\ block' = [BlocksAfter(t) EXCEPT ![v] = NoBlock]
      /\ present' = PresentAfter(t) \cup {v}
  BY DEF SwapIn
<1>2. SwapTypeOK /\ v \in known /\ t \in Tasks /\ Resident(t) \in Reached /\ v \in Reached
  BY <1>1, FoundIsKnown, NodeFacts DEF SwapInv, Reached
<1>3. /\ Closed(Evicted(t).next, Reached)
      /\ BlocksAfter(t) \in [Pages -> Nat] /\ bid' \in 1 .. MaxBlocks + 1 /\ PresentAfter(t) \subseteq present
      /\ disk' = [b \in 1 .. MaxBlocks |-> disk'[b]]
      /\ \A u \in known \ PresentAfter(t) :
           /\ BlocksAfter(t)[u] \in 1 .. bid' - 1
           /\ disk'[BlocksAfter(t)[u]].data = frame[u]
           /\ disk'[BlocksAfter(t)[u]].next \in Reached
  BY <1>1, <1>2, EvictionCopies
<1>4. image.data = frame[v] /\ image.next \in Reached
  BY <1>1, <1>2, <1>3
<1> HIDE DEF t, image
<1>5. Closed(back.next, Reached)
  <2>1. back.next = [Evicted(t).next EXCEPT ![v] = image.next]
    BY DEF Restored
  <2> QED
    BY <1>2, <1>3, <1>4, <2>1, NodeFacts DEF Closed
<1> HIDE DEF back
<1>6. Closed(links'.next, Reached)
  <2>1. Closed(Delete_element(back, v).next, Reached)
    BY <1>2, <1>5, NodeFacts, DeleteClosed
  <2> QED
    BY <1>1, <1>2, <2>1, NodeFacts, AddClosed DEF Closed
<1>7. UNCHANGED frame
  BY <1>1, <1>2, <1>4 DEF SwapTypeOK
<1>8. Reached' = Reached
  BY <1>1 DEF Reached
<1>9. SwapTypeOK'
  BY <1>1, <1>2, <1>3, <1>7 DEF SwapTypeOK, NoBlock
<1>10. ASSUME NEW u \in known' \ present' PROVE CopyOf(u)'
  <2>1. u # v /\ u \in Pages /\ u \in known \ PresentAfter(t)
    BY <1>1, <1>2, <1>10 DEF SwapTypeOK
  <2>2. block'[u] = BlocksAfter(t)[u]
    BY <1>1, <1>3, <2>1
  <2> QED
    BY <1>3, <1>7, <1>8, <2>1, <2>2 DEF CopyOf
<1> QED
  BY <1>6, <1>7, <1>8, <1>9, <1>10 DEF SwapInv

(* A page seen for the first time.                                         *)
LEMMA FirstTouchKeeps ==
  ASSUME SwapInv, NEW v \in Pages, FirstTouch(v)
  PROVE  SwapInv' /\ UNCHANGED frame
<1> DEFINE t == Owner(v)
<1>1. /\ v \notin known /\ MakeRoom(t)
      /\ links' = Add_element(Evicted(t), v, Resident(t))
      /\ block' = [BlocksAfter(t) EXCEPT ![v] = NoBlock]
      /\ present' = PresentAfter(t) \cup {v} /\ known' = known \cup {v}
      /\ UNCHANGED frame
  BY DEF FirstTouch
<1>2. SwapTypeOK /\ t \in Tasks /\ Resident(t) \in Reached /\ v \in Nodes
  BY NodeFacts DEF SwapInv
<1>3. /\ Closed(Evicted(t).next, Reached)
      /\ BlocksAfter(t) \in [Pages -> Nat] /\ bid' \in 1 .. MaxBlocks + 1 /\ PresentAfter(t) \subseteq present
      /\ disk' = [b \in 1 .. MaxBlocks |-> disk'[b]]
      /\ \A u \in known \ PresentAfter(t) :
           /\ BlocksAfter(t)[u] \in 1 .. bid' - 1
           /\ disk'[BlocksAfter(t)[u]].data = frame[u]
           /\ disk'[BlocksAfter(t)[u]].next \in Reached
  BY <1>1, <1>2, EvictionCopies
<1> HIDE DEF t
<1>4. Reached' = Reached \cup {v}
  BY <1>1, <1>2 DEF Reached
<1>5. Closed(links'.next, Reached')
  <2> DEFINE l == Evicted(t)
             R == Reached \cup {v}
  <2>1. l.next \in [Nodes -> Nodes] /\ \A m \in R \ {v} : l.next[m] \in R
    BY <1>3 DEF Closed
  <2>2. R \in SUBSET Nodes /\ v \in R /\ Resident(t) \in R
    BY <1>2, NodeFacts
  <2> HIDE DEF l, R
  <2>3. Closed(Add_element(l, v, Resident(t)).next, R)
    BY <2>1, <2>2, AddClosed
  <2> QED
    BY <1>1, <1>4, <2>3 DEF l, R
<1>6. SwapTypeOK'
  BY <1>1, <1>2, <1>3 DEF SwapTypeOK, NoBlock
<1>7. ASSUME NEW u \in known' \ present' PROVE CopyOf(u)'
  <2>1. u # v /\ u \in Pages /\ u \in known \ PresentAfter(t)
    BY <1>1, <1>2, <1>7 DEF SwapTypeOK
  <2>2. block'[u] = BlocksAfter(t)[u]
    BY <1>1, <1>3, <2>1
  <2> QED
    BY <1>1, <1>3, <1>4, <2>1, <2>2 DEF CopyOf
<1> QED
  BY <1>1, <1>5, <1>6, <1>7 DEF SwapInv

(* A program writes to a page it can reach.                                *)
LEMMA WriteKeeps ==
  ASSUME SwapInv, NEW v \in Pages, NEW x \in Values, Write(v, x)
  PROVE  SwapInv' /\ frame' = [frame EXCEPT ![v] = x]
<1>1. /\ v \in present /\ frame' = [frame EXCEPT ![v] = x]
      /\ UNCHANGED <<links, known, present, block, disk, bid>>
  BY DEF Write
<1>2. Reached' = Reached
  BY <1>1 DEF Reached
<1>3. SwapTypeOK'
  BY <1>1 DEF SwapInv, SwapTypeOK
<1>4. ASSUME NEW u \in known \ present PROVE CopyOf(u)'
  <2>1. frame'[u] = frame[u]
    BY <1>1 DEF SwapInv, SwapTypeOK
  <2> QED
    BY <1>1, <1>2, <2>1 DEF SwapInv, CopyOf
<1> QED
  BY <1>1, <1>2, <1>3, <1>4 DEF SwapInv

(* The invariant holds before any page is touched.                         *)
LEMMA SwapInit == Init => SwapInv
<1> SUFFICES ASSUME Init PROVE SwapInv
  OBVIOUS
<1>1. links.next = [n \in Nodes |-> n]
  BY DEF Init
<1>2. Closed(links.next, Reached)
  BY <1>1, NodeFacts DEF Closed
<1>3. SwapTypeOK /\ known = {}
  BY DEF Init, SwapTypeOK, NoBlock
<1> QED
  BY <1>2, <1>3 DEF SwapInv

(* Each step keeps it, and is a step of Memory or none.                    *)
LEMMA SwapStep ==
  ASSUME SwapInv, [Next]_vars
  PROVE  /\ SwapInv'
         /\ \/ UNCHANGED frame
            \/ \E v \in Pages, x \in Values : frame' = [frame EXCEPT ![v] = x]
<1>1. CASE UNCHANGED vars
  <2>1. Reached' = Reached
    BY <1>1 DEF vars, Reached
  <2> QED
    BY <1>1, <2>1 DEF vars, SwapInv, SwapTypeOK, CopyOf
<1> QED
  BY <1>1, SwapInKeeps, FirstTouchKeeps, WriteKeeps DEF Next

-----------------------------------------------------------------------------
(* Three pages.  The links that come back from the card are stale, but with *)
(* three pages a task passes through six shapes of its two lists only, and  *)
(* in each the next fault finds its page and a page to send away.           *)

Page(t, i) == <<t, i>>
Numbers == 1 .. NumPages

(* The nodes of a task's lists.                                            *)
OwnNodes(t) == {Resident(t), Swapped(t)} \cup {Page(t, i) : i \in Numbers}

Linked(l) == l.next = [n \in Nodes |-> l.next[n]] /\ l.prev = [n \in Nodes |-> l.prev[n]]

Between(l, n, p, m) == l.prev[n] = p /\ l.next[n] = m

Carries(v, p, m) == disk[block[v]].prev = p /\ disk[block[v]].next = m

Touched(t, K, Q) ==
  \A i \in Numbers : (Page(t, i) \in known <=> i \in K) /\ (Page(t, i) \in present <=> i \in Q)

Distinct(i, j, k) == i # j /\ i # k /\ j # k

NoneLoaded(t) ==
  /\ pagenum[t] = 2 /\ Touched(t, {}, {})
  /\ Between(links, Resident(t), Resident(t), Resident(t))
  /\ Between(links, Swapped(t), Swapped(t), Swapped(t))

OneLoaded(t, i) ==
  /\ pagenum[t] = 3 /\ Touched(t, {i}, {i})
  /\ Between(links, Resident(t), Page(t, i), Page(t, i))
  /\ Between(links, Page(t, i), Resident(t), Resident(t))
  /\ Between(links, Swapped(t), Swapped(t), Swapped(t))

TwoLoaded(t, i, j) ==
  /\ i # j /\ pagenum[t] = 4 /\ Touched(t, {i, j}, {i, j})
  /\ Between(links, Resident(t), Page(t, j), Page(t, i))
  /\ Between(links, Page(t, i), Resident(t), Page(t, j))
  /\ Between(links, Page(t, j), Page(t, i), Resident(t))
  /\ Between(links, Swapped(t), Swapped(t), Swapped(t))

(* j is on the card. *)
OneSwapped(t, i, j, k) ==
  /\ Distinct(i, j, k) /\ pagenum[t] = 4 /\ Touched(t, {i, j, k}, {i, k})
  /\ Between(links, Resident(t), Page(t, k), Page(t, i))
  /\ Between(links, Page(t, i), Resident(t), Page(t, k))
  /\ Between(links, Page(t, k), Page(t, i), Resident(t))
  /\ Between(links, Swapped(t), Page(t, j), Page(t, j))
  /\ Between(links, Page(t, j), Swapped(t), Swapped(t))
  /\ Carries(Page(t, j), Resident(t), Page(t, i))

(* i is on the card, and j, which came back with stale links, lies between *)
(* the two lists: page_list begins with i, which is not in memory.         *)
Tangled(t, i, j, k) ==
  /\ Distinct(i, j, k) /\ pagenum[t] = 4 /\ Touched(t, {i, j, k}, {j, k})
  /\ Between(links, Resident(t), Page(t, j), Page(t, i))
  /\ Between(links, Swapped(t), Page(t, i), Page(t, j))
  /\ Between(links, Page(t, i), Resident(t), Swapped(t))
  /\ Between(links, Page(t, j), Page(t, k), Resident(t))
  /\ Between(links, Page(t, k), Resident(t), Page(t, j))

(* The fault on i sent i itself to the card and brought it back.           *)
AllLoaded(t, i, j, k) ==
  Distinct(i, j, k) /\ pagenum[t] = 4 /\ Touched(t, {i, j, k}, {i, j, k})

Shape(t) ==
  \/ NoneLoaded(t)
  \/ \E i \in Numbers : OneLoaded(t, i)
  \/ \E i, j \in Numbers : TwoLoaded(t, i, j)
  \/ \E i, j, k \in Numbers : OneSwapped(t, i, j, k) \/ Tangled(t, i, j, k) \/ AllLoaded(t, i, j, k)

ShapeInv ==
  /\ SwapInv /\ Linked(links) /\ pagenum = [t \in Tasks |-> pagenum[t]]
  /\ \A t \in Tasks : Shape(t)

(* The nodes of a task are distinct, and none of them is another task's.   *)
LEMMA OwnNodeFacts ==
  ASSUME NEW t \in Tasks
  PROVE  /\ Resident(t) \in Nodes /\ Swapped(t) \in Nodes /\ Resident(t) # Swapped(t)
         /\ \A i \in Numbers :
              /\ Page(t, i) \in Nodes /\ Page(t, i) \in Pages
              /\ Page(t, i) # Resident(t) /\ Page(t, i) # Swapped(t) /\ Owner(Page(t, i)) = t
         /\ \A i, j \in Numbers : Page(t, i) = Page(t, j) => i = j
         /\ \A v \in Pages : Owner(v) = t => \E i \in Numbers : v = Page(t, i)
         /\ \A u \in Tasks : u # t => OwnNodes(u) \cap OwnNodes(t) = {}
<1>1. \A i \in Numbers : Page(t, i) \in Pages /\ Page(t, i) \in Nodes
  BY DEF Page, Numbers, Pages, Nodes
<1>2. \A u \in Tasks, i \in Numbers :
        Page(u, i) # Resident(t) /\ Page(u, i) # Swapped(t) /\ Page(t, i) # Resident(u) /\ Page(t, i) # Swapped(u)
  BY DEF Page, Resident, Swapped
<1>3. \A u \in Tasks : u # t => OwnNodes(u) \cap OwnNodes(t) = {}
  BY <1>2 DEF OwnNodes, Page, Resident, Swapped
<1> QED
  BY <1>1, <1>2, <1>3 DEF Page, Resident, Swapped, Nodes, Pages, Owner, Numbers

(* The links after add_element.                                            *)
LEMMA AddLinks ==
  ASSUME NEW l, Linked(l), NEW n \in Nodes, NEW head \in Nodes
  PROVE  /\ Linked(Add_element(l, n, head))
         /\ \A m \in Nodes :
              Between(Add_element(l, n, head), m,
                      IF m = head THEN n ELSE IF m = n THEN l.prev[head] ELSE l.prev[m],
                      IF m = n THEN head ELSE IF m = l.prev[head] THEN n ELSE l.next[m])
<1> DEFINE p == l.prev[head]
           nx == l.next
           pv == l.prev
<1>1. /\ Add_element(l, n, head).next = [nx EXCEPT ![p] = n, ![n] = head]
      /\ Add_element(l, n, head).prev = [pv EXCEPT ![n] = p, ![head] = n]
  BY DEF Add_element
<1>2. nx = [m \in Nodes |-> nx[m]] /\ pv = [m \in Nodes |-> pv[m]]
  BY DEF Linked
<1> HIDE DEF p, nx, pv
<1>3. /\ [nx EXCEPT ![p] = n, ![n] = head] = [m \in Nodes |-> IF m = n THEN head ELSE IF m = p THEN n ELSE nx[m]]
      /\ [pv EXCEPT ![n] = p, ![head] = n] = [m \in Nodes |-> IF m = head THEN n ELSE IF m = n THEN p ELSE pv[m]]
  BY <1>2
<1> QED
  BY <1>1, <1>3 DEF p, nx, pv, Linked, Between

(* The links after delete_element.                                         *)
LEMMA DeleteLinks ==
  ASSUME NEW l, Linked(l), NEW n \in Nodes
  PROVE  /\ Linked(Delete_element(l, n))
         /\ \A m \in Nodes :
              Between(Delete_element(l, n), m,
                      IF m = n THEN n ELSE IF m = l.next[n] THEN l.prev[n] ELSE l.prev[m],
                      IF m = n THEN n ELSE IF m = l.prev[n] THEN l.next[n] ELSE l.next[m])
<1> DEFINE p == l.prev[n]
           s == l.next[n]
           nx == l.next
           pv == l.prev
<1>1. /\ Delete_element(l, n).next = [[nx EXCEPT ![p] = s] EXCEPT ![n] = n]
      /\ Delete_element(l, n).prev = [[pv EXCEPT ![s] = p] EXCEPT ![n] = n]
  BY DEF Delete_element, Init_list
<1>2. nx = [m \in Nodes |-> nx[m]] /\ pv = [m \in Nodes |-> pv[m]]
  BY DEF Linked
<1> HIDE DEF p, s, nx, pv
<1>3. /\ [[nx EXCEPT ![p] = s] EXCEPT ![n] = n] = [m \in Nodes |-> IF m = n THEN n ELSE IF m = p THEN s ELSE nx[m]]
      /\ [[pv EXCEPT ![s] = p] EXCEPT ![n] = n] = [m \in Nodes |-> IF m = n THEN n ELSE IF m = s THEN p ELSE pv[m]]
  BY <1>2
<1> QED
  BY <1>1, <1>3 DEF p, s, nx, pv, Linked, Between

(* The links after the page_t has come back from the card.                 *)
LEMMA RestoredLinks ==
  ASSUME NEW l, Linked(l), NEW v \in Nodes, NEW image
  PROVE  /\ Linked(Restored(l, v, image))
         /\ \A m \in Nodes :
              Between(Restored(l, v, image), m,
                      IF m = v THEN image.prev ELSE l.prev[m], IF m = v THEN image.next ELSE l.next[m])
<1> DEFINE nx == l.next
           pv == l.prev
           p == image.prev
           s == image.next
<1>1. Restored(l, v, image).next = [nx EXCEPT ![v] = s] /\ Restored(l, v, image).prev = [pv EXCEPT ![v] = p]
  BY DEF Restored
<1>2. nx = [m \in Nodes |-> nx[m]] /\ pv = [m \in Nodes |-> pv[m]]
  BY DEF Linked
<1> HIDE DEF p, s, nx, pv
<1>3. /\ [nx EXCEPT ![v] = s] = [m \in Nodes |-> IF m = v THEN s ELSE nx[m]]
      /\ [pv EXCEPT ![v] = p] = [m \in Nodes |-> IF m = v THEN p ELSE pv[m]]
  BY <1>2
<1> QED
  BY <1>1, <1>3 DEF p, s, nx, pv, Linked, Between

(* What an operation on links does away from the nodes it is about.        *)
Keeps(l, k, Own) == \A m \in Nodes \ Own : Between(k, m, l.prev[m], l.next[m])

(* Two pages loaded, a third one comes: the first goes to the used queue.  *)
LEMMA EvictFirst ==
  ASSUME NEW l, Linked(l), NEW R \in Nodes, NEW S \in Nodes, NEW a \in Nodes, NEW b \in Nodes, NEW c \in Nodes,
         R # S, R # a, R # b, R # c, S # a, S # b, S # c, a # b, a # c, b # c,
         Between(l, R, b, a), Between(l, a, R, b), Between(l, b, a, R), Between(l, S, S, S)
  PROVE  LET k == Add_element(Add_element(Delete_element(l, a), a, S), c, R) IN
         /\ Linked(k) /\ Keeps(l, k, {R, S, a, b, c})
         /\ Between(k, R, c, b) /\ Between(k, b, R, c) /\ Between(k, c, b, R)
         /\ Between(k, S, a, a) /\ Between(k, a, S, S)
<1> DEFINE l1 == Delete_element(l, a)
           l2 == Add_element(l1, a, S)
           k == Add_element(l2, c, R)
<1>1. /\ Linked(l1) /\ Keeps(l, l1, {R, S, a, b, c})
      /\ Between(l1, R, b, b) /\ Between(l1, b, R, R) /\ Between(l1, S, S, S)
  <2>1. /\ Linked(l1)
        /\ \A m \in Nodes : Between(l1, m,
                IF m = a THEN a ELSE IF m = l.next[a] THEN l.prev[a] ELSE l.prev[m],
                IF m = a THEN a ELSE IF m = l.prev[a] THEN l.next[a] ELSE l.next[m])
    BY DeleteLinks
  <2> HIDE DEF l1
  <2> QED
    BY <2>1 DEF Between, Keeps
<1> HIDE DEF l1
<1>2. /\ Linked(l2) /\ Keeps(l, l2, {R, S, a, b, c})
      /\ Between(l2, R, b, b) /\ Between(l2, b, R, R) /\ Between(l2, S, a, a) /\ Between(l2, a, S, S)
  <2>1. /\ Linked(l2)
        /\ \A m \in Nodes : Between(l2, m,
                IF m = S THEN a ELSE IF m = a THEN l1.prev[S] ELSE l1.prev[m],
                IF m = a THEN S ELSE IF m = l1.prev[S] THEN a ELSE l1.next[m])
    BY <1>1, AddLinks
  <2> HIDE DEF l2
  <2> QED
    BY <1>1, <2>1 DEF Between, Keeps
<1> HIDE DEF l2
<1>3. /\ Linked(k) /\ Keeps(l, k, {R, S, a, b, c})
      /\ Between(k, R, c, b) /\ Between(k, b, R, c) /\ Between(k, c, b, R)
      /\ Between(k, S, a, a) /\ Between(k, a, S, S)
  <2>1. /\ Linked(k)
        /\ \A m \in Nodes : Between(k, m,
                IF m = R THEN c ELSE IF m = c THEN l2.prev[R] ELSE l2.prev[m],
                IF m = c THEN R ELSE IF m = l2.prev[R] THEN c ELSE l2.next[m])
    BY <1>2, AddLinks
  <2> HIDE DEF k
  <2> QED
    BY <1>2, <2>1 DEF Between, Keeps
<1> QED
  BY <1>3 DEF k, l2, l1

(* The page on the card comes back, with links that are stale by now.      *)
LEMMA BringBack ==
  ASSUME NEW l, Linked(l), NEW R \in Nodes, NEW S \in Nodes, NEW a \in Nodes, NEW b \in Nodes, NEW c \in Nodes,
         R # S, R # a, R # b, R # c, S # a, S # b, S # c, a # b, a # c, b # c,
         Between(l, R, c, a), Between(l, a, R, c), Between(l, c, a, R),
         Between(l, S, b, b), Between(l, b, S, S),
         NEW image, image.prev = R, image.next = a
  PROVE  LET e == Add_element(Delete_element(l, a), a, S)
             k == Add_element(Delete_element(Restored(e, b, image), b), b, R)
         IN
         /\ Linked(k) /\ Keeps(l, k, {R, S, a, b, c})
         /\ Between(k, R, b, a) /\ Between(k, S, a, b) /\ Between(k, a, R, S)
         /\ Between(k, b, c, R) /\ Between(k, c, R, b)
<1> DEFINE l1 == Delete_element(l, a)
           l2 == Add_element(l1, a, S)
           l3 == Restored(l2, b, image)
           l4 == Delete_element(l3, b)
           k == Add_element(l4, b, R)
<1>1. /\ Linked(l1) /\ Keeps(l, l1, {R, S, a, b, c})
      /\ Between(l1, R, c, c) /\ Between(l1, c, R, R) /\ Between(l1, S, b, b) /\ Between(l1, b, S, S)
  <2>1. /\ Linked(l1)
        /\ \A m \in Nodes : Between(l1, m,
                IF m = a THEN a ELSE IF m = l.next[a] THEN l.prev[a] ELSE l.prev[m],
                IF m = a THEN a ELSE IF m = l.prev[a] THEN l.next[a] ELSE l.next[m])
    BY DeleteLinks
  <2> HIDE DEF l1
  <2> QED
    BY <2>1 DEF Between, Keeps
<1> HIDE DEF l1
<1>2. /\ Linked(l2) /\ Keeps(l, l2, {R, S, a, b, c})
      /\ Between(l2, R, c, c) /\ Between(l2, c, R, R) /\ Between(l2, S, a, b) /\ Between(l2, b, S, a)
      /\ Between(l2, a, b, S)
  <2>1. /\ Linked(l2)
        /\ \A m \in Nodes : Between(l2, m,
                IF m = S THEN a ELSE IF m = a THEN l1.prev[S] ELSE l1.prev[m],
                IF m = a THEN S ELSE IF m = l1.prev[S] THEN a ELSE l1.next[m])
    BY <1>1, AddLinks
  <2> HIDE DEF l2
  <2> QED
    BY <1>1, <2>1 DEF Between, Keeps
<1> HIDE DEF l2
<1>3. /\ Linked(l3) /\ Keeps(l, l3, {R, S, a, b, c})
      /\ Between(l3, R, c, c) /\ Between(l3, c, R, R) /\ Between(l3, S, a, b) /\ Between(l3, b, R, a)
      /\ Between(l3, a, b, S)
  <2>1. /\ Linked(l3)
        /\ \A m \in Nodes : Between(l3, m,
                IF m = b THEN image.prev ELSE l2.prev[m],
                IF m = b THEN image.next ELSE l2.next[m])
    BY <1>2, RestoredLinks
  <2> HIDE DEF l3
  <2> QED
    BY <1>2, <2>1 DEF Between, Keeps
<1> HIDE DEF l3
<1>4. /\ Linked(l4) /\ Keeps(l, l4, {R, S, a, b, c})
      /\ Between(l4, R, c, a) /\ Between(l4, c, R, R) /\ Between(l4, S, a, b) /\ Between(l4, a, R, S)
  <2>1. /\ Linked(l4)
        /\ \A m \in Nodes : Between(l4, m,
                IF m = b THEN b ELSE IF m = l3.next[b] THEN l3.prev[b] ELSE l3.prev[m],
                IF m = b THEN b ELSE IF m = l3.prev[b] THEN l3.next[b] ELSE l3.next[m])
    BY <1>3, DeleteLinks
  <2> HIDE DEF l4
  <2> QED
    BY <1>3, <2>1 DEF Between, Keeps
<1> HIDE DEF l4
<1>5. /\ Linked(k) /\ Keeps(l, k, {R, S, a, b, c})
      /\ Between(k, R, b, a) /\ Between(k, S, a, b) /\ Between(k, a, R, S)
      /\ Between(k, b, c, R) /\ Between(k, c, R, b)
  <2>1. /\ Linked(k)
        /\ \A m \in Nodes : Between(k, m,
                IF m = R THEN b ELSE IF m = b THEN l4.prev[R] ELSE l4.prev[m],
                IF m = b THEN R ELSE IF m = l4.prev[R] THEN b ELSE l4.next[m])
    BY <1>4, AddLinks
  <2> HIDE DEF k
  <2> QED
    BY <1>4, <2>1 DEF Between, Keeps
<1> QED
  BY <1>5 DEF k, l4, l3, l2, l1

(* The page on the card is first in page_list: it goes and comes.          *)
LEMMA BringBackItself ==
  ASSUME NEW l, Linked(l), NEW R \in Nodes, NEW S \in Nodes, NEW a \in Nodes, NEW b \in Nodes, NEW c \in Nodes,
         R # S, R # a, R # b, R # c, S # a, S # b, S # c, a # b, a # c, b # c,
         Between(l, R, b, a), Between(l, S, a, b), Between(l, a, R, S), Between(l, b, c, R), Between(l, c, R, b),
         NEW image, image.prev = R, image.next = S
  PROVE  LET e == Add_element(Delete_element(l, a), a, S)
             k == Add_element(Delete_element(Restored(e, a, image), a), a, R)
         IN  Linked(k) /\ Keeps(l, k, {R, S, a, b, c})
<1> DEFINE l1 == Delete_element(l, a)
           l2 == Add_element(l1, a, S)
           l3 == Restored(l2, a, image)
           l4 == Delete_element(l3, a)
           k == Add_element(l4, a, R)
<1>1. /\ Linked(l1) /\ Keeps(l, l1, {R, S, a, b, c})
      /\ Between(l1, R, b, S) /\ Between(l1, S, R, b)
  <2>1. /\ Linked(l1)
        /\ \A m \in Nodes : Between(l1, m,
                IF m = a THEN a ELSE IF m = l.next[a] THEN l.prev[a] ELSE l.prev[m],
                IF m = a THEN a ELSE IF m = l.prev[a] THEN l.next[a] ELSE l.next[m])
    BY DeleteLinks
  <2> HIDE DEF l1
  <2> QED
    BY <2>1 DEF Between, Keeps
<1> HIDE DEF l1
<1>2. Linked(l2) /\ Keeps(l, l2, {R, S, a, b, c}) /\ Between(l2, R, b, a) /\ l2.prev[S] = a
  <2>1. /\ Linked(l2)
        /\ \A m \in Nodes : Between(l2, m,
                IF m = S THEN a ELSE IF m = a THEN l1.prev[S] ELSE l1.prev[m],
                IF m = a THEN S ELSE IF m = l1.prev[S] THEN a ELSE l1.next[m])
    BY <1>1, AddLinks
  <2> HIDE DEF l2
  <2> QED
    BY <1>1, <2>1 DEF Between, Keeps
<1> HIDE DEF l2
<1>3. Linked(l3) /\ Keeps(l, l3, {R, S, a, b, c}) /\ Between(l3, a, R, S) /\ l3.prev[R] = b
  <2>1. /\ Linked(l3)
        /\ \A m \in Nodes : Between(l3, m,
                IF m = a THEN image.prev ELSE l2.prev[m],
                IF m = a THEN image.next ELSE l2.next[m])
    BY <1>2, RestoredLinks
  <2> HIDE DEF l3
  <2> QED
    BY <1>2, <2>1 DEF Between, Keeps
<1> HIDE DEF l3
<1>4. Linked(l4) /\ Keeps(l, l4, {R, S, a, b, c}) /\ l4.prev[R] = b
  <2>1. /\ Linked(l4)
        /\ \A m \in Nodes : Between(l4, m,
                IF m = a THEN a ELSE IF m = l3.next[a] THEN l3.prev[a] ELSE l3.prev[m],
                IF m = a THEN a ELSE IF m = l3.prev[a] THEN l3.next[a] ELSE l3.next[m])
    BY <1>3, DeleteLinks
  <2> HIDE DEF l4
  <2> QED
    BY <1>3, <2>1 DEF Between, Keeps
<1> HIDE DEF l4
<1>5. Linked(k) /\ Keeps(l, k, {R, S, a, b, c})
  <2>1. /\ Linked(k)
        /\ \A m \in Nodes : Between(k, m,
                IF m = R THEN a ELSE IF m = a THEN l4.prev[R] ELSE l4.prev[m],
                IF m = a THEN R ELSE IF m = l4.prev[R] THEN a ELSE l4.next[m])
    BY <1>4, AddLinks
  <2> HIDE DEF k
  <2> QED
    BY <1>4, <2>1 DEF Between, Keeps
<1> QED
  BY <1>5 DEF k, l4, l3, l2, l1

LEMMA PairHasTwo ==
  ASSUME NEW x, NEW y, x # y
  PROVE  Cardinality({x, y}) = 2
<1>1. IsFiniteSet({x}) /\ Cardinality({x}) = 1
  BY FS_Singleton
<1>2. /\ y \notin {x} /\ {x} \cup {y} = {x, y}
  OBVIOUS
<1>3. Cardinality({x} \cup {y}) = Cardinality({x}) + 1
  BY <1>1, <1>2, FS_AddElement
<1> QED
  BY <1>1, <1>2, <1>3

(* What a fault needs, whatever the shape: the search of used_page_queue    *)
(* ends as it should, and page_list begins with a page if room is needed.  *)
LEMMA ShapeServes ==
  ASSUME NumPages <= 3, ShapeInv, NEW t \in Tasks, NEW n \in Numbers, Page(t, n) \notin present
  PROVE  /\ IF Page(t, n) \in known THEN Finds(Page(t, n)) ELSE FindsNothing(Page(t, n))
         /\ Full(t) => \E i \in Numbers : Victim(t) = Page(t, i)
<1> DEFINE N == Cardinality(Nodes)
           w == Walk(t)
           S == Swapped(t)
           v == Page(t, n)
<1>1. /\ N \in Nat
      /\ w = [i \in 0 .. N |-> IF i = 0 THEN links.next[S] ELSE links.next[w[i - 1]]]
  BY NodesFinite, WalkSteps
<1>2. v \in Pages /\ Owner(v) = t /\ v # S
  BY OwnNodeFacts
<1>3. /\ Finds(v) <=> \E i \in DOMAIN w : w[i] = v /\ \A j \in 0 .. i - 1 : w[j] # S
      /\ FindsNothing(v) <=> \E i \in DOMAIN w : w[i] = S /\ \A j \in 0 .. i - 1 : w[j] # v
  BY <1>2 DEF Finds, FindsNothing
<1> HIDE DEF N, w
<1>4. DOMAIN w = 0 .. N /\ 0 \in DOMAIN w /\ w[0] = links.next[S] /\ 0 .. 0 - 1 = {}
  BY <1>1
<1>5. ASSUME links.next[S] = S PROVE FindsNothing(v)
  BY <1>3, <1>4, <1>5
<1>6. CASE NoneLoaded(t)
  BY <1>5, <1>6 DEF NoneLoaded, Touched, Between, Full, PageLimit
<1>7. ASSUME NEW i \in Numbers, OneLoaded(t, i) PROVE v \notin known /\ FindsNothing(v) /\ ~Full(t)
  BY <1>5, <1>7 DEF OneLoaded, Touched, Between, Full, PageLimit
<1>8. ASSUME NEW i \in Numbers, NEW j \in Numbers, TwoLoaded(t, i, j)
      PROVE  v \notin known /\ FindsNothing(v) /\ Victim(t) = Page(t, i)
  <2>1. links.next[S] = S /\ links.next[Resident(t)] = Page(t, i)
    BY <1>8 DEF TwoLoaded, Between
  <2>2. v \notin known
    BY <1>8 DEF TwoLoaded, Touched
  <2> QED
    BY <1>5, <2>1, <2>2, OwnNodeFacts DEF Victim
<1>9. ASSUME NEW i \in Numbers, NEW j \in Numbers, NEW k \in Numbers,
             OneSwapped(t, i, j, k) \/ Tangled(t, i, j, k) \/ AllLoaded(t, i, j, k)
      PROVE  v \in known /\ Finds(v) /\ Victim(t) = Page(t, i)
  <2>1. \E Q : Touched(t, {i, j, k}, Q)
    BY <1>9 DEF OneSwapped, Tangled, AllLoaded
  <2>2. Distinct(i, j, k)
    BY <1>9 DEF OneSwapped, Tangled, AllLoaded
  <2>3. n \in {i, j, k}
    BY <2>2 DEF Distinct, Numbers
  <2>4. v \in known
    BY <2>1, <2>3 DEF Touched
  <2>5. CASE OneSwapped(t, i, j, k)
    <3>1. n = j
      BY <2>3, <2>5 DEF OneSwapped, Touched
    <3>2. w[0] = v /\ Victim(t) = Page(t, i)
      BY <1>4, <2>5, <3>1 DEF OneSwapped, Between, Victim
    <3> QED
      BY <1>3, <1>4, <2>4, <3>2, OwnNodeFacts
  <2>6. CASE Tangled(t, i, j, k)
    <3>1. n = i
      BY <2>3, <2>6 DEF Tangled, Touched
    <3>2. 2 \in 0 .. N
      <4>1. {Page(t, i), Page(t, j)} \in SUBSET Nodes /\ Page(t, i) # Page(t, j)
        BY <2>2, OwnNodeFacts DEF Distinct
      <4>2. IsFiniteSet(Nodes)
        BY AllNodesFinite
      <4>3. Cardinality({Page(t, i), Page(t, j)}) = 2
        BY <4>1, PairHasTwo
      <4>4. Cardinality({Page(t, i), Page(t, j)}) <= Cardinality(Nodes)
        BY <4>1, <4>2, FS_Subset
      <4> QED
        BY <1>1, <4>3, <4>4 DEF N
    <3>3. w[0] = Page(t, j) /\ w[1] = Resident(t) /\ w[2] = v
      <4>1. /\ links.next[S] = Page(t, j) /\ links.next[Page(t, j)] = Resident(t) /\ links.next[Resident(t)] = v
        BY <2>6, <3>1 DEF Tangled, Between
      <4>2. 0 \in 0 .. N /\ 1 \in 0 .. N /\ 1 - 1 = 0 /\ 2 - 1 = 1
        BY <1>1, <3>2
      <4>3. w[1] = links.next[w[0]] /\ w[2] = links.next[w[1]]
        BY <1>1, <3>2, <4>2
      <4> QED
        BY <1>4, <4>1, <4>3
    <3>4. \A m \in 0 .. 2 - 1 : w[m] # S
      <4>1. \A m \in 0 .. 2 - 1 : m = 0 \/ m = 1
        OBVIOUS
      <4> QED
        BY <3>3, <4>1, OwnNodeFacts
    <3>5. Victim(t) = v
      BY <2>6, <3>1 DEF Tangled, Between, Victim
    <3>6. Finds(v)
      BY <1>3, <1>4, <3>2, <3>3, <3>4
    <3> QED
      BY <2>4, <3>1, <3>5, <3>6
  <2>7. CASE AllLoaded(t, i, j, k)
    BY <2>3, <2>7 DEF AllLoaded, Touched
  <2> QED
    BY <1>9, <2>5, <2>6, <2>7
<1> QED
  BY <1>6, <1>7, <1>8, <1>9 DEF ShapeInv, Shape

(* A page seen for the first time takes a task from one shape to the next, *)
(* and leaves the lists of other tasks alone.                              *)
LEMMA FirstTouchShape ==
  ASSUME NumPages <= 3, ShapeInv, NEW t \in Tasks, NEW n \in Numbers, FirstTouch(Page(t, n))
  PROVE  Shape(t)' /\ Linked(links') /\ Keeps(links, links', OwnNodes(t))
<1> DEFINE v == Page(t, n)
           R == Resident(t)
           S == Swapped(t)
<1>1. /\ v \notin present /\ v \notin known /\ MakeRoom(t)
      /\ links' = Add_element(Evicted(t), v, R)
      /\ block' = [BlocksAfter(t) EXCEPT ![v] = NoBlock]
      /\ present' = PresentAfter(t) \cup {v} /\ known' = known \cup {v}
  BY OwnNodeFacts DEF FirstTouch
<1>2. /\ Linked(links) /\ SwapTypeOK /\ pagenum = [u \in Tasks |-> pagenum[u]]
      /\ R \in Nodes /\ S \in Nodes /\ v \in Nodes /\ v \in Pages /\ R # S /\ v # R /\ v # S
      /\ {R, S, v} \subseteq OwnNodes(t)
  <2>1. pagenum = [u \in Tasks |-> pagenum[u]]
    BY DEF ShapeInv
  <2> QED
    BY <2>1, OwnNodeFacts DEF ShapeInv, SwapInv, OwnNodes
<1>3. ASSUME ~Full(t) PROVE pagenum'[t] = pagenum[t] + 1 /\ Evicted(t) = links /\ PresentAfter(t) = present
  BY <1>1, <1>2, <1>3 DEF MakeRoom, Evicted, PresentAfter
<1>4. ASSUME ~Full(t)
      PROVE  /\ Linked(links')
             /\ \A m \in Nodes :
                  Between(links', m,
                          IF m = R THEN v ELSE IF m = v THEN links.prev[R] ELSE links.prev[m],
                          IF m = v THEN R ELSE IF m = links.prev[R] THEN v ELSE links.next[m])
  BY <1>1, <1>2, <1>3, <1>4, AddLinks
<1>5. CASE NoneLoaded(t)
  <2>1. ~Full(t) /\ pagenum'[t] = 3
    BY <1>3, <1>5 DEF NoneLoaded, Full, PageLimit
  <2>2. Touched(t, {n}, {n})'
    BY <1>1, <1>3, <1>5, <2>1, OwnNodeFacts DEF NoneLoaded, Touched
  <2>3. /\ Between(links', R, v, v) /\ Between(links', v, R, R) /\ Between(links', S, S, S)
        /\ Keeps(links, links', OwnNodes(t))
    BY <1>2, <1>4, <1>5, <2>1 DEF NoneLoaded, Between, Keeps
  <2>4. OneLoaded(t, n)'
    BY <2>1, <2>2, <2>3 DEF OneLoaded
  <2> QED
    BY <1>4, <2>1, <2>3, <2>4 DEF Shape, Numbers
<1>6. ASSUME NEW i \in Numbers, OneLoaded(t, i)
      PROVE  Shape(t)' /\ Linked(links') /\ Keeps(links, links', OwnNodes(t))
  <2> DEFINE a == Page(t, i)
  <2>1. ~Full(t) /\ pagenum'[t] = 4 /\ i # n
    BY <1>1, <1>3, <1>6 DEF OneLoaded, Full, PageLimit, Touched
  <2>2. Touched(t, {i, n}, {i, n})'
    BY <1>1, <1>3, <1>6, <2>1, OwnNodeFacts DEF OneLoaded, Touched
  <2>3. a \in Nodes /\ a # v /\ a # R /\ a # S /\ a \in OwnNodes(t)
    BY <2>1, OwnNodeFacts DEF OwnNodes
  <2>4. /\ Between(links, R, a, a) /\ Between(links, a, R, R) /\ Between(links, S, S, S)
    BY <1>6 DEF OneLoaded
  <2> HIDE DEF a, v, R, S
  <2>5. /\ Between(links', R, v, a) /\ Between(links', a, R, v) /\ Between(links', v, a, R)
        /\ Between(links', S, S, S) /\ Keeps(links, links', OwnNodes(t))
    BY <1>2, <1>4, <2>1, <2>3, <2>4 DEF Between, Keeps
  <2>6. TwoLoaded(t, i, n)'
    BY <2>1, <2>2, <2>5 DEF TwoLoaded, a, v, R, S
  <2> QED
    BY <1>4, <2>1, <2>5, <2>6 DEF Shape, Numbers
<1>7. ASSUME NEW i \in Numbers, NEW j \in Numbers, TwoLoaded(t, i, j)
      PROVE  Shape(t)' /\ Linked(links') /\ Keeps(links, links', OwnNodes(t))
  <2> DEFINE a == Page(t, i)
             b == Page(t, j)
  <2>1. Full(t) /\ Distinct(j, i, n)
    BY <1>1, <1>7 DEF TwoLoaded, Full, PageLimit, Touched, Distinct
  <2>2. /\ a \in Nodes /\ b \in Nodes /\ a # b /\ a # v /\ b # v /\ a # R /\ a # S /\ b # R /\ b # S
        /\ a \in Pages /\ {a, b} \subseteq OwnNodes(t)
    BY <2>1, OwnNodeFacts DEF OwnNodes, Distinct
  <2>3. /\ Between(links, R, b, a) /\ Between(links, a, R, b) /\ Between(links, b, a, R) /\ Between(links, S, S, S)
    BY <1>7 DEF TwoLoaded
  <2>4. Victim(t) = a
    BY <2>3 DEF Between, Victim
  <2>5. /\ Evicted(t) = Add_element(Delete_element(links, a), a, S)
        /\ PresentAfter(t) = present \ {a} /\ BlocksAfter(t) = [block EXCEPT ![a] = bid]
        /\ bid <= MaxBlocks /\ disk' = [disk EXCEPT ![bid] = Image(a)] /\ pagenum' = pagenum
    BY <1>1, <2>1, <2>4 DEF MakeRoom, CanEvict, Evicted, PresentAfter, BlocksAfter
  <2>6. Touched(t, {j, i, n}, {j, n})'
    BY <1>1, <1>7, <2>1, <2>5, OwnNodeFacts DEF TwoLoaded, Touched, Distinct
  <2>7. pagenum'[t] = 4
    BY <1>7, <2>5 DEF TwoLoaded
  <2>8. block'[a] = bid /\ disk'[bid] = Image(a)
    BY <1>1, <1>2, <2>2, <2>5 DEF SwapTypeOK
  <2>9. Carries(a, R, b)'
    BY <2>3, <2>8 DEF Carries, Image, Between, a
  <2> HIDE DEF a, b, v, R, S
  <2>10. /\ Linked(links') /\ Keeps(links, links', {R, S, a, b, v})
         /\ Between(links', R, v, b) /\ Between(links', b, R, v) /\ Between(links', v, b, R)
         /\ Between(links', S, a, a) /\ Between(links', a, S, S)
    BY <1>1, <1>2, <2>2, <2>3, <2>5, EvictFirst
  <2>11. OneSwapped(t, j, i, n)'
    BY <2>1, <2>6, <2>7, <2>9, <2>10 DEF OneSwapped, a, b, v, R, S
  <2>12. Keeps(links, links', OwnNodes(t))
    BY <1>2, <2>2, <2>10 DEF Keeps
  <2> QED
    BY <2>10, <2>11, <2>12 DEF Shape, Numbers
<1>8. ASSUME NEW i \in Numbers, NEW j \in Numbers, NEW k \in Numbers,
             OneSwapped(t, i, j, k) \/ Tangled(t, i, j, k) \/ AllLoaded(t, i, j, k)
      PROVE  FALSE
  <2>1. Distinct(i, j, k) /\ \E Q : Touched(t, {i, j, k}, Q)
    BY <1>8 DEF OneSwapped, Tangled, AllLoaded
  <2>2. n \in {i, j, k}
    BY <2>1 DEF Distinct, Numbers
  <2> QED
    BY <1>1, <2>1, <2>2 DEF Touched
<1> QED
  BY <1>5, <1>6, <1>7, <1>8 DEF ShapeInv, Shape

(* A fault on a page that is on the card does so too.                      *)
LEMMA SwapInShape ==
  ASSUME NumPages <= 3, ShapeInv, NEW t \in Tasks, NEW n \in Numbers, SwapIn(Page(t, n))
  PROVE  Shape(t)' /\ Linked(links') /\ Keeps(links, links', OwnNodes(t))
<1> DEFINE v == Page(t, n)
           R == Resident(t)
           S == Swapped(t)
           image == disk'[BlocksAfter(t)[v]]
<1>1. /\ v \notin present /\ Finds(v) /\ MakeRoom(t) /\ known' = known
      /\ links' = Add_element(Delete_element(Restored(Evicted(t), v, image), v), v, R)
      /\ block' = [BlocksAfter(t) EXCEPT ![v] = NoBlock]
      /\ present' = PresentAfter(t) \cup {v}
  BY OwnNodeFacts DEF SwapIn
<1>2. /\ Linked(links) /\ SwapTypeOK /\ v \in known
      /\ R \in Nodes /\ S \in Nodes /\ v \in Nodes /\ v \in Pages /\ R # S /\ v # R /\ v # S
      /\ {R, S, v} \subseteq OwnNodes(t)
  BY <1>1, OwnNodeFacts, FoundIsKnown DEF ShapeInv, SwapInv, OwnNodes
<1>3. ASSUME NEW a \in Pages, Full(t), Victim(t) = a
      PROVE  /\ Evicted(t) = Add_element(Delete_element(links, a), a, S)
             /\ PresentAfter(t) = present \ {a} /\ BlocksAfter(t) = [block EXCEPT ![a] = bid]
             /\ bid \in 1 .. MaxBlocks /\ disk' = [disk EXCEPT ![bid] = Image(a)] /\ pagenum' = pagenum
  BY <1>1, <1>2, <1>3 DEF MakeRoom, CanEvict, Evicted, PresentAfter, BlocksAfter, SwapTypeOK
<1>4. NoneLoaded(t) => FALSE
  BY <1>2 DEF NoneLoaded, Touched
<1>5. \A i \in Numbers : OneLoaded(t, i) => FALSE
  BY <1>1, <1>2 DEF OneLoaded, Touched
<1>6. \A i, j \in Numbers : TwoLoaded(t, i, j) => FALSE
  BY <1>1, <1>2 DEF TwoLoaded, Touched
<1>7. ASSUME NEW i \in Numbers, NEW j \in Numbers, NEW k \in Numbers, AllLoaded(t, i, j, k)
      PROVE  FALSE
  BY <1>1, <1>2, <1>7 DEF AllLoaded, Touched
<1>8. ASSUME NEW i \in Numbers, NEW j \in Numbers, NEW k \in Numbers, OneSwapped(t, i, j, k)
      PROVE  Shape(t)' /\ Linked(links') /\ Keeps(links, links', OwnNodes(t))
  <2> DEFINE a == Page(t, i)
             c == Page(t, k)
  <2>1. n = j /\ Full(t) /\ Distinct(i, j, k)
    BY <1>1, <1>2, <1>8 DEF OneSwapped, Full, PageLimit, Touched
  <2>2. /\ a \in Nodes /\ c \in Nodes /\ a # v /\ a # c /\ c # v /\ a # R /\ a # S /\ c # R /\ c # S
        /\ a \in Pages /\ {a, c} \subseteq OwnNodes(t)
    BY <2>1, OwnNodeFacts DEF OwnNodes, Distinct
  <2>3. /\ Between(links, R, c, a) /\ Between(links, a, R, c) /\ Between(links, c, a, R)
        /\ Between(links, S, v, v) /\ Between(links, v, S, S) /\ Carries(v, R, a)
    BY <1>8, <2>1 DEF OneSwapped
  <2>4. Victim(t) = a
    BY <2>3 DEF Between, Victim
  <2>5. image.prev = R /\ image.next = a
    <3>1. block[v] \in 1 .. bid - 1 /\ bid \in 1 .. MaxBlocks
      BY <1>1, <1>2, <1>3, <2>1, <2>2, <2>4 DEF ShapeInv, SwapInv, CopyOf
    <3>2. BlocksAfter(t)[v] = block[v] /\ disk'[block[v]] = disk[block[v]]
      BY <1>2, <1>3, <2>1, <2>2, <2>4, <3>1 DEF SwapTypeOK
    <3> QED
      BY <2>3, <3>2 DEF Carries
  <2>6. Touched(t, {i, j, k}, {j, k})'
    BY <1>1, <1>3, <1>8, <2>1, <2>2, <2>4, OwnNodeFacts DEF OneSwapped, Touched, Distinct
  <2>7. pagenum'[t] = 4
    BY <1>3, <1>8, <2>1, <2>2, <2>4 DEF OneSwapped
  <2>8. links' = Add_element(Delete_element(Restored(Add_element(Delete_element(links, a), a, S), v, image), v), v, R)
    BY <1>1, <1>3, <2>1, <2>2, <2>4
  <2> HIDE DEF a, c, v, R, S, image
  <2>9. /\ Linked(links') /\ Keeps(links, links', {R, S, a, v, c})
        /\ Between(links', R, v, a) /\ Between(links', S, a, v) /\ Between(links', a, R, S)
        /\ Between(links', v, c, R) /\ Between(links', c, R, v)
    BY <1>2, <2>2, <2>3, <2>5, <2>8, BringBack
  <2>10. Tangled(t, i, j, k)'
    BY <2>1, <2>6, <2>7, <2>9 DEF Tangled, a, c, v, R, S
  <2>11. Keeps(links, links', OwnNodes(t))
    BY <1>2, <2>2, <2>9 DEF Keeps
  <2> QED
    BY <2>9, <2>10, <2>11 DEF Shape, Numbers
<1>9. ASSUME NEW i \in Numbers, NEW j \in Numbers, NEW k \in Numbers, Tangled(t, i, j, k)
      PROVE  Shape(t)' /\ Linked(links') /\ Keeps(links, links', OwnNodes(t))
  <2> DEFINE b == Page(t, j)
             c == Page(t, k)
  <2>1. n = i /\ Full(t) /\ Distinct(i, j, k)
    BY <1>1, <1>2, <1>9 DEF Tangled, Full, PageLimit, Touched
  <2>2. /\ b \in Nodes /\ c \in Nodes /\ b # v /\ b # c /\ c # v /\ b # R /\ b # S /\ c # R /\ c # S
        /\ {b, c} \subseteq OwnNodes(t)
    BY <2>1, OwnNodeFacts DEF OwnNodes, Distinct
  <2>3. /\ Between(links, R, b, v) /\ Between(links, S, v, b) /\ Between(links, v, R, S)
        /\ Between(links, b, c, R) /\ Between(links, c, R, b)
    BY <1>9, <2>1 DEF Tangled
  <2>4. Victim(t) = v
    BY <2>3 DEF Between, Victim
  <2>5. image = Image(v)
    BY <1>2, <1>3, <2>1, <2>4 DEF SwapTypeOK
  <2>6. image.prev = R /\ image.next = S
    BY <2>3, <2>5 DEF Image, Between
  <2>7. Touched(t, {i, j, k}, {i, j, k})'
    BY <1>1, <1>2, <1>3, <1>9, <2>1, <2>4, OwnNodeFacts DEF Tangled, Touched, Distinct
  <2>8. pagenum'[t] = 4
    BY <1>2, <1>3, <1>9, <2>1, <2>4 DEF Tangled
  <2>9. links' = Add_element(Delete_element(Restored(Add_element(Delete_element(links, v), v, S), v, image), v), v, R)
    BY <1>1, <1>2, <1>3, <2>1, <2>4
  <2> HIDE DEF b, c, v, R, S, image
  <2>10. Linked(links') /\ Keeps(links, links', {R, S, v, b, c})
    BY <1>2, <2>2, <2>3, <2>6, <2>9, BringBackItself
  <2>11. AllLoaded(t, i, j, k)'
    BY <2>1, <2>7, <2>8 DEF AllLoaded
  <2>12. Keeps(links, links', OwnNodes(t))
    BY <1>2, <2>2, <2>10 DEF Keeps
  <2> QED
    BY <2>10, <2>11, <2>12 DEF Shape, Numbers
<1> QED
  BY <1>4, <1>5, <1>6, <1>7, <1>8, <1>9 DEF ShapeInv, Shape

(* The other tasks keep their shapes.                                      *)
LEMMA OthersKeepShape ==
  ASSUME NumPages <= 3, ShapeInv, NEW t \in Tasks, NEW n \in Numbers,
         SwapIn(Page(t, n)) \/ FirstTouch(Page(t, n)), Keeps(links, links', OwnNodes(t)),
         NEW u \in Tasks, u # t
  PROVE  Shape(u)'
<1> DEFINE v == Page(t, n)
<1>1. /\ v \notin present /\ MakeRoom(t) /\ known' \in {known, known \cup {v}}
      /\ block' = [BlocksAfter(t) EXCEPT ![v] = NoBlock]
      /\ present' = PresentAfter(t) \cup {v}
  BY OwnNodeFacts DEF SwapIn, FirstTouch
<1>2. SwapTypeOK /\ pagenum = [x \in Tasks |-> pagenum[x]] /\ \A w \in known \ present : CopyOf(w)
  BY DEF ShapeInv, SwapInv
<1>3. Full(t) => \E i \in Numbers : Victim(t) = Page(t, i)
  BY <1>1, ShapeServes
<1>4. \A i, j \in Numbers : Page(u, i) # Page(t, j) /\ Page(u, i) \in Pages
  BY OwnNodeFacts DEF Page
<1>5. \A i \in Numbers : /\ BlocksAfter(t)[Page(u, i)] = block[Page(u, i)]
                         /\ Page(u, i) \in PresentAfter(t) <=> Page(u, i) \in present
  <2>1. ASSUME NEW i \in Numbers, NEW j \in Numbers, Victim(t) = Page(t, j)
        PROVE  /\ [block EXCEPT ![Victim(t)] = bid][Page(u, i)] = block[Page(u, i)]
               /\ Page(u, i) \in present \ {Victim(t)} <=> Page(u, i) \in present
    BY <1>2, <1>4, <2>1 DEF SwapTypeOK
  <2> QED
    BY <1>3, <2>1 DEF BlocksAfter, PresentAfter
<1>6. BlocksAfter(t) = [w \in Pages |-> BlocksAfter(t)[w]]
  BY <1>2 DEF BlocksAfter, SwapTypeOK
<1>7. \A i \in Numbers : /\ block'[Page(u, i)] = block[Page(u, i)]
                         /\ Page(u, i) \in present' <=> Page(u, i) \in present
                         /\ Page(u, i) \in known' <=> Page(u, i) \in known
  BY <1>1, <1>4, <1>5, <1>6
<1>8. pagenum'[u] = pagenum[u]
  BY <1>1, <1>2 DEF MakeRoom
<1>9. \A m \in OwnNodes(u) : links'.prev[m] = links.prev[m] /\ links'.next[m] = links.next[m]
  <2>1. OwnNodes(u) \subseteq Nodes \ OwnNodes(t)
    BY OwnNodeFacts DEF OwnNodes
  <2> QED
    BY <2>1 DEF Keeps, Between
<1>10. \A i \in Numbers : Page(u, i) \in known \ present => disk'[block[Page(u, i)]] = disk[block[Page(u, i)]]
  <2> SUFFICES ASSUME NEW i \in Numbers, Page(u, i) \in known \ present
               PROVE  disk'[block[Page(u, i)]] = disk[block[Page(u, i)]]
    OBVIOUS
  <2>1. block[Page(u, i)] \in 1 .. bid - 1 /\ bid \in Nat
    BY <1>2 DEF CopyOf, SwapTypeOK
  <2>2. CASE Full(t)
    <3>1. disk' = [disk EXCEPT ![bid] = Image(Victim(t))] /\ bid \in 1 .. MaxBlocks
      BY <1>1, <1>2, <2>2 DEF MakeRoom, CanEvict, SwapTypeOK
    <3>2. block[Page(u, i)] \in 1 .. MaxBlocks /\ block[Page(u, i)] # bid
      BY <2>1, <3>1
    <3> QED
      BY <1>2, <3>1, <3>2 DEF SwapTypeOK
  <2>3. CASE ~Full(t)
    BY <1>1, <2>3 DEF MakeRoom
  <2> QED
    BY <2>2, <2>3
<1>11. \A K, Q : Touched(u, K, Q) => Touched(u, K, Q)'
  BY <1>7 DEF Touched
<1>12. \A m \in OwnNodes(u) : \A p, s : Between(links, m, p, s) => Between(links, m, p, s)'
  BY <1>9 DEF Between
<1>13. Resident(u) \in OwnNodes(u) /\ Swapped(u) \in OwnNodes(u) /\ \A i \in Numbers : Page(u, i) \in OwnNodes(u)
  BY DEF OwnNodes
<1>14. NoneLoaded(u) => NoneLoaded(u)'
  BY <1>8, <1>11, <1>12, <1>13 DEF NoneLoaded
<1>15. \A i \in Numbers : OneLoaded(u, i) => OneLoaded(u, i)'
  BY <1>8, <1>11, <1>12, <1>13 DEF OneLoaded
<1>16. \A i, j \in Numbers : TwoLoaded(u, i, j) => TwoLoaded(u, i, j)'
  BY <1>8, <1>11, <1>12, <1>13 DEF TwoLoaded
<1>17. ASSUME NEW i \in Numbers, NEW j \in Numbers, NEW k \in Numbers, OneSwapped(u, i, j, k)
       PROVE  OneSwapped(u, i, j, k)'
  <2>1. Page(u, j) \in known \ present
    BY <1>17 DEF OneSwapped, Touched, Distinct
  <2>2. Carries(Page(u, j), Resident(u), Page(u, i))'
    BY <1>7, <1>10, <1>17, <2>1 DEF OneSwapped, Carries
  <2> QED
    BY <1>8, <1>11, <1>12, <1>13, <1>17, <2>2 DEF OneSwapped
<1>18. \A i, j, k \in Numbers : Tangled(u, i, j, k) => Tangled(u, i, j, k)'
  BY <1>8, <1>11, <1>12, <1>13 DEF Tangled
<1>19. \A i, j, k \in Numbers : AllLoaded(u, i, j, k) => AllLoaded(u, i, j, k)'
  BY <1>8, <1>11 DEF AllLoaded
<1> QED
  BY <1>14, <1>15, <1>16, <1>17, <1>18, <1>19 DEF ShapeInv, Shape, Numbers

(* Before the first fault no page is loaded.                               *)
LEMMA ShapeInit == Init => ShapeInv
<1> SUFFICES ASSUME Init PROVE ShapeInv
  OBVIOUS
<1>1. links.next = [m \in Nodes |-> m] /\ links.prev = [m \in Nodes |-> m]
  BY DEF Init
<1>2. Linked(links) /\ \A m \in Nodes : Between(links, m, m, m)
  BY <1>1 DEF Linked, Between
<1>3. \A t \in Tasks : NoneLoaded(t)
  <2> SUFFICES ASSUME NEW t \in Tasks PROVE NoneLoaded(t)
    OBVIOUS
  <2>1. Touched(t, {}, {}) /\ pagenum[t] = 2
    BY DEF Touched, Init, PagesAtStart
  <2> QED
    BY <1>2, <2>1, OwnNodeFacts DEF NoneLoaded
<1>4. pagenum = [t \in Tasks |-> pagenum[t]]
  BY DEF Init
<1> QED
  BY <1>2, <1>3, <1>4, SwapInit DEF ShapeInv, Shape

(* Every fault leads from shape to shape.                                  *)
LEMMA ShapeStep ==
  ASSUME NumPages <= 3, ShapeInv, [Next]_vars
  PROVE  ShapeInv'
<1>1. SwapInv'
  BY SwapStep DEF ShapeInv
<1>2. ASSUME NEW v \in Pages, SwapIn(v) \/ FirstTouch(v)
      PROVE  ShapeInv'
  <2>1. PICK t \in Tasks, n \in Numbers : v = Page(t, n)
    BY DEF Pages, Numbers, Page
  <2>2. Shape(t)' /\ Linked(links') /\ Keeps(links, links', OwnNodes(t))
    BY <1>2, <2>1, FirstTouchShape, SwapInShape
  <2>3. \A u \in Tasks : u # t => Shape(u)'
    BY <1>2, <2>1, <2>2, OthersKeepShape
  <2>4. MakeRoom(t)
    BY <1>2, <2>1, OwnNodeFacts DEF SwapIn, FirstTouch
  <2>5. (pagenum = [x \in Tasks |-> pagenum[x]])'
    BY <2>4 DEF MakeRoom, ShapeInv
  <2> QED
    BY <1>1, <2>2, <2>3, <2>5 DEF ShapeInv
<1>3. ASSUME UNCHANGED <<links, known, present, pagenum, block, disk>>
      PROVE  ShapeInv'
  <2>1. \A t \in Tasks : Shape(t) => Shape(t)'
    BY <1>3 DEF Shape, NoneLoaded, OneLoaded, TwoLoaded, OneSwapped, Tangled, AllLoaded, Touched, Between, Carries
  <2> QED
    BY <1>1, <1>3, <2>1 DEF ShapeInv, Linked
<1> QED
  BY <1>2, <1>3 DEF Next, Write, vars

(* With three pages handle_pagefault can serve every fault, for every      *)
(* number of tasks: the search of used_page_queue ends, and a page is first *)
(* in page_list whenever one must go to the card.  With four it is not so,  *)
(* as a run shows.                                                         *)
THEOREM FaultsServed ==
  ASSUME NumPages <= 3
  PROVE  Spec => []FaultsAreServed
<1>1. ShapeInv => FaultsAreServed
  <2> SUFFICES ASSUME ShapeInv, NEW v \in Pages \ present
               PROVE  /\ IF v \in known THEN Finds(v) ELSE FindsNothing(v)
                      /\ Full(Owner(v)) => Victim(Owner(v)) \in Pages
    BY DEF FaultsAreServed
  <2>1. PICK t \in Tasks, n \in Numbers : v = Page(t, n)
    BY DEF Pages, Numbers, Page
  <2>2. Owner(v) = t /\ \A i \in Numbers : Page(t, i) \in Pages
    BY <2>1, OwnNodeFacts
  <2> QED
    BY <2>1, <2>2, ShapeServes
<1>2. ShapeInv /\ [Next]_vars => ShapeInv'
  BY ShapeStep
<1> QED
  BY <1>1, <1>2, ShapeInit, PTL DEF Spec

(* With three pages paging is invisible to programs, for every number of   *)
(* tasks and of places on the card: a step of handle_pagefault, with what  *)
(* it sends to the card and brings back, is no step of the memory a        *)
(* program sees, a write changes the page written to and no other, and no  *)
(* fault meets a list that begins with a list head, which handle_pagefault *)
(* would take for a page.                                                  *)
THEOREM PagingIsInvisible ==
  ASSUME NumPages <= 3
  PROVE  Spec => []FaultsAreServed /\ ImplementsMemory
<1>1. SwapInv /\ [Next]_vars => SwapInv' /\ [M!Next]_([v \in Pages |-> Contents(v)])
  <2> SUFFICES ASSUME SwapInv, [Next]_vars
               PROVE  SwapInv' /\ [M!Next]_([v \in Pages |-> Contents(v)])
    OBVIOUS
  <2>1. SwapInv' /\ (UNCHANGED frame \/ \E v \in Pages, x \in Values : frame' = [frame EXCEPT ![v] = x])
    BY SwapStep
  <2>2. [v \in Pages |-> Contents(v)] = frame
    BY FramesShow
  <2>3. [v \in Pages |-> Contents(v)]' = frame'
    <3>1. \A v \in Pages : Contents(v)' = frame'[v]
      BY <2>1 DEF SwapInv, Contents, CopyOf
    <3> QED
      BY <2>1, <3>1 DEF SwapInv, SwapTypeOK
  <2> QED
    BY <2>1, <2>2, <2>3 DEF M!Next, M!Write
<1>2. Init => M!Init
  <2>1. Init => frame = [v \in Pages |-> Unwritten]
    BY DEF Init
  <2> QED
    BY <2>1, SwapInit, FramesShow DEF M!Init
<1> QED
  BY <1>1, <1>2, SwapInit, FaultsServed, PTL DEF Spec, ImplementsMemory, M!Spec
=============================================================================
