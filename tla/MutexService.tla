----------------------------- MODULE MutexService -----------------------------
(***************************************************************************)
(* What programs rely on when they use the kernel's mutex locks and binary *)
(* semaphores: a lock is free or in the hands of one client, it is given   *)
(* back by its holder only, and a client that ends gives back locks of its *)
(* own at that moment, if not always all of them.  How clients wait is not *)
(* said here.                                                              *)
(***************************************************************************)
CONSTANTS Clients, Locks

VARIABLES
  free,     \* the locks nobody holds
  held      \* what each client holds

Init == free = Locks /\ held = [c \in Clients |-> {}]

Acquire(c, l) ==
  /\ l \in free
  /\ free' = free \ {l}
  /\ held' = [held EXCEPT ![c] = @ \cup {l}]

GiveBack(c, l) ==
  /\ l \in held[c]
  /\ free' = free \cup {l}
  /\ held' = [held EXCEPT ![c] = @ \ {l}]

(* What L leaves out stays taken for ever.                                 *)
End(c, L) ==
  /\ free' = free \cup L
  /\ held' = [held EXCEPT ![c] = {}]

Next ==
  \E c \in Clients :
    \/ \E l \in Locks : Acquire(c, l) \/ GiveBack(c, l)
    \/ \E L \in SUBSET held[c] : End(c, L)

Spec == Init /\ [][Next]_<<free, held>>
=============================================================================
