------------------------------ MODULE FileTree ------------------------------
(***************************************************************************)
(* What a program sees of the file system: a tree of names.  Each call     *)
(* adds one name, or removes one with everything below it, and a failure   *)
(* of power comes before a change or after it.                             *)
(***************************************************************************)
EXTENDS Naturals, FiniteSets

CONSTANTS Names, Objects, Root

VARIABLE links     \* the names: records [dir, name, obj, type]

(* From directories of D the names of L lead to directories of D.           *)
Leads(L, D) == \A l \in L : l.dir \in D /\ l.type = "DIRECTORY" => l.obj \in D

(* The directories that names of L lead to from the root: those in every    *)
(* set that has the root and whatever directories it leads to.              *)
Dirs(L) ==
  LET closed == {D \in SUBSET Objects : Root \in D /\ Leads(L, D)}
  IN  {o \in Objects : \A D \in closed : o \in D}

Reached(L) == UNION {{l \in L : l.dir = d} : d \in Dirs(L)}

Init == links = {}

(* l is a new name in a directory there is.                                 *)
Fresh(l) ==
  /\ l \in [dir : Dirs(links), name : Names, obj : Objects \ {Root}, type : {"FILE", "DIRECTORY"}]
  /\ \A m \in links : <<m.dir, m.name>> # <<l.dir, l.name>>

(* It leads to a new file or directory.                                     *)
Create(l) ==
  /\ Fresh(l) /\ \A m \in links : m.obj # l.obj
  /\ links' = links \cup {l}

(* It is one more name of a file of the same directory.                     *)
Link(l) ==
  /\ Fresh(l) /\ \E m \in links : [m EXCEPT !.name = l.name] = l /\ l.type = "FILE"
  /\ links' = links \cup {l}

Remove(l) == links' = Reached(links \ {l})

Format == links' = {}

Next ==
  \/ \E l \in links' \ links : Create(l) \/ Link(l)
  \/ \E l \in links \ links' : Remove(l)
  \/ Format

Spec == Init /\ [][Next]_links
=============================================================================
