------------------------------ MODULE Memory -------------------------------
(***************************************************************************)
(* What paging promises the programs of Project4-VirtualMemory: every page *)
(* keeps what was written to it last.                                      *)
(***************************************************************************)
CONSTANTS Pages, Values, Unwritten

VARIABLE content

Init == content = [v \in Pages |-> Unwritten]

Write(v, x) == content' = [content EXCEPT ![v] = x]

Next == \E v \in Pages, x \in Values : Write(v, x)

Spec == Init /\ [][Next]_content
=============================================================================
