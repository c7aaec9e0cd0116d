-------------------------- MODULE FileSystemProofs --------------------------
(***************************************************************************)
(* What holds of the file system for every number of inodes, blocks,       *)
(* entries, names and calls, when the workload has neither second_sector   *)
(* nor crash_in_clearing (Careful): power fails within no removal and      *)
(* within no do_mkfs, which clear bits before the names that lead there    *)
(* are gone.                                                               *)
(*                                                                         *)
(* A disk is read through the tree of its links.  Shape says what a tree   *)
(* must be whatever the bitmaps say, Sound that the bitmaps cover it, Room *)
(* that no more blocks are taken than inodes.  The writes of a call are    *)
(* stages, each a predicate on the disk and on what is still to be         *)
(* written: FsInv says that the file system is idle or in one of them.     *)
(* Each write leads from a stage to the next, and in one of them at most   *)
(* the tree of names changes: by a name that is ready, or by one that goes *)
(* with everything that only it led to.                                    *)
(***************************************************************************)
EXTENDS FileSystem, FiniteSetTheorems, SequenceTheorems, WellFoundedInduction, TLAPS

USE FsSizeAssumption, NameAssumption

-----------------------------------------------------------------------------
(* The tree of names, for any set of links.                                *)

Dirs(L) == All!Dirs(L)
Reached(L) == All!Reached(L)
From(L, o) == {l \in L : l.dir = o}

(* The root is a directory.                                                *)
LEMMA RootIsDir ==
  ASSUME NEW L
  PROVE  Root \in Dirs(L) /\ Dirs(L) \subseteq Inums
<1>1. Root \in Inums
  BY DEF Root, Inums
<1> QED
  BY <1>1 DEF Dirs, All!Dirs

(* No set with the root that leads nowhere else misses a directory.        *)
LEMMA DirsLeast ==
  ASSUME NEW L, NEW D \in SUBSET Inums, Root \in D, All!Leads(L, D)
  PROVE  Dirs(L) \subseteq D
BY DEF Dirs, All!Dirs

(* Directories lead to directories.                                        *)
LEMMA DirsClosed ==
  ASSUME NEW L, NEW l \in L, l.dir \in Dirs(L), l.type = "DIRECTORY", l.obj \in Inums
  PROVE  l.obj \in Dirs(L)
BY DEF Dirs, All!Dirs, All!Leads

(* A link is reached when its directory is.                                *)
LEMMA ReachedIs ==
  ASSUME NEW L
  PROVE  Reached(L) = {l \in L : l.dir \in Dirs(L)}
BY DEF Reached, All!Reached, Dirs

(* Links of directories lead to inodes.                                    *)
Typed(L) == \A l \in L : l.dir \in Dirs(L) => l.obj \in Inums

Same(L, M) == \A o \in Dirs(L) : From(L, o) = From(M, o)

(* Only the links of the directories of the tree matter.                   *)
LEMMA SameTree ==
  ASSUME NEW L, NEW M, Typed(L), Same(L, M)
  PROVE  Dirs(M) = Dirs(L) /\ Reached(M) = Reached(L) /\ Typed(M)
<1>1. \A o \in Dirs(L) : \A l : l.dir = o => (l \in L <=> l \in M)
  BY DEF Same, From
<1>2. Dirs(M) \subseteq Dirs(L)
  <2>1. All!Leads(M, Dirs(L))
    BY <1>1, DirsClosed DEF All!Leads, Typed
  <2> QED
    BY <2>1, DirsLeast, RootIsDir
<1>3. Dirs(L) \subseteq Dirs(M)
  <2>1. All!Leads(L, Dirs(M))
    BY <1>1, <1>2, DirsClosed DEF All!Leads, Typed
  <2> QED
    BY <2>1, DirsLeast, RootIsDir
<1> QED
  BY <1>1, <1>2, <1>3, ReachedIs DEF Typed

(* Fewer links lead to fewer directories.                                  *)
LEMMA FewerLinks ==
  ASSUME NEW L, Typed(L), NEW M \in SUBSET L
  PROVE  Dirs(M) \subseteq Dirs(L) /\ Reached(M) \subseteq Reached(L) /\ Typed(M)
<1>1. All!Leads(M, Dirs(L))
  BY DirsClosed DEF All!Leads, Typed
<1>2. Dirs(M) \subseteq Dirs(L)
  BY <1>1, DirsLeast, RootIsDir
<1> QED
  BY <1>2, ReachedIs DEF Typed

(* What is reached is reached without the rest.                            *)
LEMMA ReachedAgain ==
  ASSUME NEW L, Typed(L)
  PROVE  Dirs(Reached(L)) = Dirs(L) /\ Reached(Reached(L)) = Reached(L)
<1>1. Same(L, Reached(L))
  BY ReachedIs DEF Same, From
<1> QED
  BY <1>1, SameTree

(* A link more, which leads to a file or to a directory with no links yet. *)
Adds(L, M, l) ==
  /\ l.dir \in Dirs(L) /\ l.obj \in Inums
  /\ \A o \in Dirs(L) : From(M, o) = From(L, o) \cup (IF o = l.dir THEN {l} ELSE {})
  /\ l.type = "DIRECTORY" => l.obj \notin Dirs(L) /\ From(M, l.obj) = {}

(* It is reached, and it may make one directory more.                      *)
LEMMA AddedLink ==
  ASSUME NEW L, NEW M, NEW l, Typed(L), Adds(L, M, l)
  PROVE  /\ Dirs(M) = Dirs(L) \cup (IF l.type = "DIRECTORY" THEN {l.obj} ELSE {})
         /\ Reached(M) = Reached(L) \cup {l} /\ Typed(M)
<1> DEFINE D == Dirs(L) \cup (IF l.type = "DIRECTORY" THEN {l.obj} ELSE {})
<1>1. \A m : m.dir \in Dirs(L) => (m \in M <=> (m \in L \/ m = l))
  BY DEF Adds, From
<1>2. l.type = "DIRECTORY" => \A m \in M : m.dir # l.obj
  BY DEF Adds, From
<1>3. \A m \in M : m.dir \in D => (m \in L /\ m.dir \in Dirs(L)) \/ m = l
  BY <1>1, <1>2
<1>4. Dirs(M) \subseteq D
  <2>1. All!Leads(M, D)
    BY <1>3, DirsClosed DEF All!Leads, Typed
  <2> QED
    BY <2>1, DirsLeast, RootIsDir DEF Adds
<1>5. Dirs(L) \subseteq Dirs(M)
  <2>1. All!Leads(L, Dirs(M) \cap Dirs(L))
    BY <1>1, DirsClosed DEF All!Leads, Typed
  <2> QED
    BY <2>1, DirsLeast, RootIsDir
<1>6. D \subseteq Dirs(M)
  <2>1. l \in M /\ l.dir \in Dirs(M)
    BY <1>1, <1>5 DEF Adds
  <2> QED
    BY <2>1, <1>5, DirsClosed DEF Adds
<1>7. Reached(M) = Reached(L) \cup {l}
  BY <1>1, <1>3, <1>4, <1>6, ReachedIs DEF Adds
<1> QED
  BY <1>3, <1>4, <1>6, <1>7 DEF Adds, Typed

(* A link less.                                                            *)
Drops(L, M, l) ==
  \A o \in Dirs(L) : From(M, o) = From(L, o) \ {l}

(* What only it led to is no longer reached.                               *)
LEMMA DroppedLink ==
  ASSUME NEW L, NEW M, NEW l, Typed(L), Drops(L, M, l)
  PROVE  /\ Dirs(M) = Dirs(Reached(L) \ {l}) /\ Typed(M)
         /\ Reached(M) = Reached(Reached(L) \ {l})
<1> DEFINE K == Reached(L) \ {l}
<1>1. K \subseteq L /\ Typed(K) /\ Dirs(K) \subseteq Dirs(L)
  BY FewerLinks, ReachedIs
<1>2. Same(K, M)
  <2>1. \A o \in Dirs(L) : From(K, o) = From(L, o) \ {l}
    BY ReachedIs DEF From
  <2> QED
    BY <2>1, <1>1 DEF Same, Drops
<1> QED
  BY <1>1, <1>2, SameTree

(* A directory is the root or has a name.                                  *)
LEMMA DirsHaveNames ==
  ASSUME NEW L, Typed(L), NEW o \in Dirs(L), o # Root
  PROVE  \E l \in Reached(L) : l.obj = o /\ l.type = "DIRECTORY"
<1> DEFINE D == {d \in Dirs(L) : d = Root \/ \E l \in Reached(L) : l.obj = d /\ l.type = "DIRECTORY"}
<1>1. All!Leads(L, D)
  BY DirsClosed, ReachedIs DEF All!Leads, Typed
<1>2. Dirs(L) \subseteq D
  BY <1>1, DirsLeast, RootIsDir
<1> QED
  BY <1>2

(* The directory of the link that goes stays a directory.                  *)
LEMMA ParentStays ==
  ASSUME NEW R, Typed(R), NEW l \in R, l.dir \in Dirs(R)
  PROVE  l.dir \in Dirs(R \ {l})
<1> DEFINE K == R \ {l}
<1>1. SUFFICES ASSUME l.dir \notin Dirs(K) PROVE FALSE
  OBVIOUS
<1>2. Typed(K)
  BY FewerLinks
<1>3. All!Leads(R, Dirs(K))
  BY <1>1, <1>2, DirsClosed DEF All!Leads, Typed
<1>4. Dirs(R) \subseteq Dirs(K)
  BY <1>3, DirsLeast, RootIsDir
<1> QED
  BY <1>1, <1>4

(* Who has several names has them in one directory; the root has none.     *)
OneParent(R) ==
  /\ \A l \in R : l.obj # Root
  /\ \A l, m \in R : l.obj = m.obj => l.dir = m.dir

(* What has no name any more when link l goes.                             *)
GivenUp(R, l) == (Used(R) \ {Root}) \ Used(Reached(R \ {l}))

(* What goes with a link is where it leads to, and what is below that.     *)
LEMMA GivenUpClosed ==
  ASSUME NEW R, Typed(R), OneParent(R), NEW l \in R
  PROVE  /\ NamesOf(R, l.obj) = {l} => l.obj \in GivenUp(R, l)
         /\ \A m \in R : m.dir \in GivenUp(R, l) => m.obj \in GivenUp(R, l)
<1> DEFINE K == R \ {l}
<1>1. Typed(K) /\ Reached(K) \subseteq K
  BY FewerLinks, ReachedIs
<1>2. ASSUME NamesOf(R, l.obj) = {l} PROVE l.obj \in GivenUp(R, l)
  <2>1. \A m \in R : m.obj = l.obj => m = l
    BY <1>2 DEF NamesOf
  <2>2. l.obj # Root /\ \A m \in K : m.obj # l.obj
    BY <2>1 DEF OneParent
  <2> QED
    BY <1>1, <2>2 DEF GivenUp, Used
<1>3. ASSUME NEW m \in R, m.dir \in GivenUp(R, l) PROVE m.obj \in GivenUp(R, l)
  <2>1. m.obj # Root /\ m.obj \in Used(R)
    BY DEF OneParent, Used
  <2>2. ASSUME NEW k \in Reached(K), k.obj = m.obj PROVE FALSE
    <3>1. k.dir = m.dir /\ k.dir \in Dirs(K)
      BY <1>1, <2>2, ReachedIs DEF OneParent
    <3>2. m.dir # Root /\ m.dir \notin Used(Reached(K))
      BY <1>3 DEF GivenUp
    <3>3. \E j \in Reached(K) : j.obj = m.dir
      BY <1>1, <3>1, <3>2, DirsHaveNames
    <3> QED
      BY <3>2, <3>3 DEF Used
  <2> QED
    BY <2>1, <2>2 DEF GivenUp, Used
<1> QED
  BY <1>2, <1>3

-----------------------------------------------------------------------------
(* Disks.                                                                  *)

Kinds == {"FILE", "DIRECTORY"}
Inodes ==
  {r \in [type : Kinds, ref : Int, size : Int, block : 0 .. BLOCK_NUM] :
     r.type = "DIRECTORY" => r.size \in 2 .. BlockEntries /\ r.block \in Blocks}
Entries == [name : Names \cup {".", "..", NoName}, type : Kinds, inum : Inums]
Disks == [inodemap : [Inums -> BOOLEAN], blockmap : [Blocks -> BOOLEAN],
          inode : [Inums -> Inodes], data : [Blocks -> [Slots -> Entries]]]

(* What disk D says: the block of a directory, its links, and the tree.    *)
BlockOf(D, d) == D.data[D.inode[d].block]
LinkTo(d, e) == [dir |-> d, name |-> e.name, obj |-> e.inum, type |-> e.type]
LinksOf(D, d) == {LinkTo(d, BlockOf(D, d)[k]) : k \in 3 .. D.inode[d].size}
AllIn(D) == UNION {LinksOf(D, d) : d \in {i \in Inums : D.inode[i].type = "DIRECTORY"}}
DirsIn(D) == Dirs(AllIn(D))
LinksIn(D) == Reached(AllIn(D))
UsedIn(D) == Used(LinksIn(D))

(* The links of the disk, and those of a directory.                        *)
LEMMA LinksOfDisk ==
  /\ LinksIn(disk) = Links
  /\ \A D, o : \A l \in LinksOf(D, o) : l.dir = o
  /\ \A D : \A o \in Inums : D.inode[o].type = "DIRECTORY" => From(AllIn(D), o) = LinksOf(D, o)
  /\ \A D : \A o \in Inums : D.inode[o].type # "DIRECTORY" => From(AllIn(D), o) = {}
<1>1. LinksIn(disk) = Links
  BY DEF LinksIn, Links, Reached, AllIn, AllLinks, LinksOf, LinkTo, BlockOf, Block, Size
<1>2. \A D, o : \A l \in LinksOf(D, o) : l.dir = o
  BY DEF LinksOf, LinkTo
<1>3. \A D : \A o \in Inums : D.inode[o].type = "DIRECTORY" => From(AllIn(D), o) = LinksOf(D, o)
  BY <1>2 DEF From, AllIn
<1>4. \A D : \A o \in Inums : D.inode[o].type # "DIRECTORY" => From(AllIn(D), o) = {}
  BY <1>2 DEF From, AllIn
<1> QED
  BY <1>1, <1>2, <1>3, <1>4

(* Directories: two entries of their own, as many more as references, and  *)
(* no name twice.                                                          *)
DirOK(D, d) ==
  /\ D.inode[d].type = "DIRECTORY" /\ D.inode[d].block \in Blocks
  /\ D.inode[d].size \in 2 .. BlockEntries /\ D.inode[d].ref = D.inode[d].size - 2
  /\ BlockOf(D, d)[1] = Entry(".", "DIRECTORY", d)
  /\ \A j, k \in 3 .. D.inode[d].size : BlockOf(D, d)[j].name = BlockOf(D, d)[k].name => j = k

DirsOK(D) == \A d \in DirsIn(D) : DirOK(D, d)

(* Names: none is for the root, an object has names in one directory only, *)
(* and a directory has one name.                                           *)
NamesOK(D) ==
  /\ \A l \in LinksIn(D) : l.name \in Names /\ D.inode[l.obj].type = l.type
  /\ OneParent(LinksIn(D))
  /\ \A l, m \in LinksIn(D) : l.obj = m.obj /\ l.type = "DIRECTORY" => l = m

(* ".." leads to the directory with the name.                              *)
ParentsOK(D) ==
  /\ BlockOf(D, Root)[2] = Entry("..", "DIRECTORY", Root)
  /\ \A l \in LinksIn(D) : l.type = "DIRECTORY" => BlockOf(D, l.obj)[2] = Entry("..", "DIRECTORY", l.dir)

(* No file has more names than it counts.                                  *)
CountsOK(D) ==
  \A l \in LinksIn(D) : l.type = "FILE" =>
    D.inode[l.obj].ref + 1 >= Cardinality(NamesOf(LinksIn(D), l.obj))

OwnBlocks(D, X) ==
  \A i \in X : /\ D.inode[i].block \in Blocks
               /\ \A j \in X : D.inode[i].block = D.inode[j].block => i = j

(* The tree of a disk, with further inodes H that programs hold.           *)
Shape(D, H) ==
  /\ D \in Disks /\ H \subseteq Inums
  /\ DirsOK(D) /\ NamesOK(D) /\ ParentsOK(D) /\ CountsOK(D)
  /\ OwnBlocks(D, UsedIn(D) \cup H)

(* The tree of a disk of that shape.                                       *)
LEMMA ShapeFacts ==
  ASSUME NEW D \in Disks, DirsOK(D)
  PROVE  /\ Typed(AllIn(D)) /\ Root \in DirsIn(D) /\ DirsIn(D) \subseteq Inums
         /\ DirsIn(D) \subseteq UsedIn(D) /\ UsedIn(D) \subseteq Inums
         /\ Typed(LinksIn(D)) /\ Dirs(LinksIn(D)) = DirsIn(D) /\ Reached(LinksIn(D)) = LinksIn(D)
         /\ \A d \in DirsIn(D) : From(AllIn(D), d) = LinksOf(D, d) /\ From(LinksIn(D), d) = LinksOf(D, d)
         /\ \A l \in LinksIn(D) : l.dir \in DirsIn(D) /\ l \in LinksOf(D, l.dir)
         /\ \A l \in LinksIn(D) : l.type = "DIRECTORY" => l.obj \in DirsIn(D)
         /\ LinksIn(D) \subseteq [dir : Inums, name : Names \cup {".", "..", NoName}, obj : Inums, type : Kinds]
<1>1. Root \in DirsIn(D) /\ DirsIn(D) \subseteq Inums
  BY RootIsDir DEF DirsIn
<1>2. \A d \in DirsIn(D) : From(AllIn(D), d) = LinksOf(D, d)
  BY <1>1, LinksOfDisk DEF DirsOK, DirOK
<1>3. ASSUME NEW d \in DirsIn(D), NEW k \in 3 .. D.inode[d].size PROVE BlockOf(D, d)[k] \in Entries
  <2>1. D.inode[d].block \in Blocks /\ D.inode[d].size \in 2 .. BlockEntries
    BY DEF DirsOK, DirOK
  <2>2. D.data \in [Blocks -> [Slots -> Entries]] /\ k \in Slots
    BY <2>1 DEF Disks, Slots
  <2> QED
    BY <2>1, <2>2 DEF BlockOf
<1>4. \A d \in DirsIn(D) : \A l \in LinksOf(D, d) :
        l \in [dir : Inums, name : Names \cup {".", "..", NoName}, obj : Inums, type : Kinds]
  BY <1>1, <1>3 DEF LinksOf, LinkTo, Entries
<1>5. Typed(AllIn(D))
  BY <1>2, <1>4 DEF Typed, From, DirsIn
<1>6. LinksIn(D) = {l \in AllIn(D) : l.dir \in DirsIn(D)}
  BY ReachedIs DEF LinksIn, DirsIn
<1>7. Dirs(LinksIn(D)) = DirsIn(D) /\ Reached(LinksIn(D)) = LinksIn(D)
  BY <1>5, ReachedAgain DEF LinksIn, DirsIn
<1>8. \A l \in LinksIn(D) : l.dir \in DirsIn(D) /\ l \in LinksOf(D, l.dir)
  BY <1>2, <1>6 DEF From
<1>9. LinksIn(D) \subseteq [dir : Inums, name : Names \cup {".", "..", NoName}, obj : Inums, type : Kinds]
  BY <1>4, <1>8
<1>10. UsedIn(D) \subseteq Inums
  BY <1>1, <1>9 DEF UsedIn, Used
<1>11. DirsIn(D) \subseteq UsedIn(D)
  BY <1>5, DirsHaveNames DEF UsedIn, Used, LinksIn, DirsIn
<1>12. \A l \in LinksIn(D) : l.type = "DIRECTORY" => l.obj \in DirsIn(D)
  BY <1>6, <1>8, <1>9, DirsClosed DEF DirsIn
<1>13. \A d \in DirsIn(D) : From(LinksIn(D), d) = LinksOf(D, d)
  BY <1>2, <1>6 DEF From
<1>14. Typed(LinksIn(D))
  BY <1>9 DEF Typed
<1> QED
  BY <1>1, <1>2, <1>5, <1>7, <1>8, <1>9, <1>10, <1>11, <1>12, <1>13, <1>14

(* A directory of that shape has finitely many links, as many as it counts. *)
LEMMA LinksCounted ==
  ASSUME NEW D \in Disks, NEW d, DirOK(D, d)
  PROVE  IsFiniteSet(LinksOf(D, d)) /\ Cardinality(LinksOf(D, d)) = D.inode[d].ref
<1> DEFINE size == D.inode[d].size
           f == [k \in 3 .. size |-> LinkTo(d, BlockOf(D, d)[k])]
<1>1. size \in Nat /\ size >= 2 /\ D.inode[d].ref = size - 2
  BY DEF DirOK
<1>6. \A j, k \in 3 .. size : BlockOf(D, d)[j].name = BlockOf(D, d)[k].name => j = k
  BY DEF DirOK
<1>2. f \in Bijection(3 .. size, LinksOf(D, d))
  <2>1. f \in [3 .. size -> LinksOf(D, d)] /\ \A l \in LinksOf(D, d) : \E k \in 3 .. size : f[k] = l
    BY DEF LinksOf
  <2>2. ASSUME NEW j \in 3 .. size, NEW k \in 3 .. size, f[j] = f[k] PROVE j = k
    <3>1. LinkTo(d, BlockOf(D, d)[j]) = LinkTo(d, BlockOf(D, d)[k])
      BY <2>2
    <3>2. BlockOf(D, d)[j].name = BlockOf(D, d)[k].name
      BY <3>1 DEF LinkTo
    <3> QED
      BY <1>6, <3>2
  <2> HIDE DEF f, size
  <2>3. f \in Injection(3 .. size, LinksOf(D, d))
    BY <2>1, <2>2 DEF Injection, IsInjective
  <2>4. f \in Surjection(3 .. size, LinksOf(D, d))
    BY <2>1 DEF Surjection
  <2> QED
    BY <2>3, <2>4, Zenon DEF Bijection
<1>3. IsFiniteSet(3 .. size) /\ Cardinality(3 .. size) = size - 2
  <2> HIDE DEF size
  <2>1. 3 \in Int /\ size \in Int
    BY <1>1
  <2>2. IsFiniteSet(3 .. size) /\ Cardinality(3 .. size) = IF 3 > size THEN 0 ELSE size - 3 + 1
    BY <2>1, FS_Interval, Zenon
  <2> QED
    BY <1>1, <2>2
<1>4. ExistsBijection(3 .. size, LinksOf(D, d))
  BY <1>2 DEF ExistsBijection
<1>5. IsFiniteSet(LinksOf(D, d)) /\ Cardinality(LinksOf(D, d)) = Cardinality(3 .. size)
  BY <1>3, <1>4, FS_Bijection
<1> QED
  BY <1>1, <1>3, <1>5

(* An object has finitely many names.                                      *)
LEMMA NamesFinite ==
  ASSUME NEW D \in Disks, DirsOK(D), OneParent(LinksIn(D)), NEW o
  PROVE  /\ IsFiniteSet(NamesOf(LinksIn(D), o))
         /\ Cardinality(NamesOf(LinksIn(D), o)) \in Nat
<1>1. CASE NamesOf(LinksIn(D), o) = {}
  BY <1>1, FS_EmptySet
<1>2. CASE NamesOf(LinksIn(D), o) # {}
  <2>1. PICK l \in LinksIn(D) : l.obj = o
    BY <1>2 DEF NamesOf
  <2>2. \A m \in NamesOf(LinksIn(D), o) : m \in LinksOf(D, l.dir)
    BY <2>1, ShapeFacts DEF NamesOf, OneParent
  <2>3. DirOK(D, l.dir)
    BY <2>1, ShapeFacts DEF DirsOK
  <2>4. IsFiniteSet(LinksOf(D, l.dir))
    BY <2>3, LinksCounted
  <2>5. IsFiniteSet(NamesOf(LinksIn(D), o))
    BY <2>2, <2>4, FS_Subset
  <2> QED
    BY <2>5, FS_CardinalityType
<1> QED
  BY <1>1, <1>2

-----------------------------------------------------------------------------
(* Writes that leave the tree as it is.                                    *)

(* E keeps what D says of used and held inodes; files may count more.      *)
Keeps(D, E, i) ==
  /\ E.inode[i].type = D.inode[i].type /\ E.inode[i].block = D.inode[i].block
  /\ D.inode[i].type = "DIRECTORY" => E.inode[i].size = D.inode[i].size /\ E.inode[i].ref = D.inode[i].ref
  /\ D.inode[i].type = "FILE" => E.inode[i].ref >= D.inode[i].ref

SameEntries(D, E, d) == \A k \in 1 .. D.inode[d].size : BlockOf(E, d)[k] = BlockOf(D, d)[k]

Frame(D, E, H) ==
  /\ D \in Disks /\ E \in Disks
  /\ \A i \in UsedIn(D) \cup H : Keeps(D, E, i)
  /\ \A d \in DirsIn(D) : SameEntries(D, E, d)

(* The names of a disk, taken together.                                    *)
SameNames(D, E) == DirsIn(E) = DirsIn(D) /\ LinksIn(E) = LinksIn(D) /\ UsedIn(E) = UsedIn(D)

(* They leave the names,                                                   *)
LEMMA FrameNames ==
  ASSUME NEW D, NEW E, NEW H, Frame(D, E, H), DirsOK(D)
  PROVE  SameNames(D, E) /\ DirsOK(E)
<1>1. D \in Disks /\ E \in Disks
  BY DEF Frame
<1>2. ASSUME NEW d \in DirsIn(D)
      PROVE  LinksOf(E, d) = LinksOf(D, d) /\ DirOK(E, d)
  <2>1. Keeps(D, E, d) /\ SameEntries(D, E, d) /\ DirOK(D, d)
    BY <1>1, ShapeFacts DEF Frame, DirsOK
  <2>2. D.inode[d].size \in Nat /\ E.inode[d].size = D.inode[d].size
    BY <2>1 DEF Keeps, DirOK
  <2>3. \A k \in 1 .. D.inode[d].size : BlockOf(E, d)[k] = BlockOf(D, d)[k]
    BY <2>1 DEF SameEntries
  <2>4. LinksOf(E, d) = LinksOf(D, d)
    BY <2>2, <2>3 DEF LinksOf
  <2>5. DirOK(E, d)
    BY <2>1, <2>2, <2>3 DEF DirOK, Keeps
  <2> QED
    BY <2>4, <2>5
<1>3. Same(AllIn(D), AllIn(E))
  <2>1. \A d \in DirsIn(D) : d \in Inums /\ From(AllIn(D), d) = LinksOf(D, d)
    BY <1>1, ShapeFacts
  <2>2. \A d \in DirsIn(D) : From(AllIn(E), d) = LinksOf(E, d)
    BY <1>2, <2>1, LinksOfDisk DEF DirOK
  <2> QED
    BY <1>2, <2>1, <2>2 DEF Same, DirsIn
<1>4. DirsIn(E) = DirsIn(D) /\ LinksIn(E) = LinksIn(D)
  BY <1>1, <1>3, ShapeFacts, SameTree DEF DirsIn, LinksIn
<1> QED
  BY <1>2, <1>4 DEF SameNames, DirsOK, UsedIn

(* and the shape of the tree.                                              *)
LEMMA FrameShape ==
  ASSUME NEW D, NEW E, NEW H, Frame(D, E, H), Shape(D, H)
  PROVE  SameNames(D, E) /\ Shape(E, H)
<1>1. D \in Disks /\ E \in Disks /\ SameNames(D, E) /\ DirsOK(E) /\ DirsOK(D)
  BY FrameNames DEF Frame, Shape
<1>2. \A i \in UsedIn(D) \cup H : Keeps(D, E, i)
  BY DEF Frame
<1>3. \A l \in LinksIn(D) : Keeps(D, E, l.obj)
  BY <1>2 DEF UsedIn, Used
<1>4. NamesOK(E)
  BY <1>1, <1>3 DEF Shape, NamesOK, SameNames, Keeps
<1>5. \A d \in DirsIn(D) : BlockOf(E, d)[2] = BlockOf(D, d)[2]
  BY DEF Frame, SameEntries, Shape, DirsOK, DirOK
<1>6. ParentsOK(E)
  BY <1>1, <1>5, ShapeFacts DEF ParentsOK, Shape, SameNames
<1>7. CountsOK(E)
  <2> SUFFICES ASSUME NEW l \in LinksIn(D), l.type = "FILE"
               PROVE  E.inode[l.obj].ref + 1 >= Cardinality(NamesOf(LinksIn(D), l.obj))
    BY <1>1 DEF CountsOK, SameNames
  <2> DEFINE names == Cardinality(NamesOf(LinksIn(D), l.obj))
  <2>1. D.inode[l.obj].type = "FILE" /\ D.inode[l.obj].ref + 1 >= names
    BY DEF Shape, NamesOK, CountsOK
  <2>2. E.inode[l.obj].ref >= D.inode[l.obj].ref
    BY <1>3, <2>1 DEF Keeps
  <2>3. l.obj \in Inums
    BY <1>1, ShapeFacts
  <2>4. E.inode[l.obj].ref \in Int /\ D.inode[l.obj].ref \in Int
    BY <1>1, <2>3 DEF Disks, Inodes
  <2>6. names \in Nat
    BY <1>1, NamesFinite DEF Shape, NamesOK
  <2> HIDE DEF names
  <2>7. E.inode[l.obj].ref + 1 >= names
    BY <2>1, <2>2, <2>4, <2>6
  <2> QED
    BY <2>7 DEF names
<1>8. OwnBlocks(E, UsedIn(D) \cup H)
  BY <1>2 DEF Shape, OwnBlocks, Keeps
<1> QED
  BY <1>1, <1>4, <1>6, <1>7, <1>8 DEF Shape, SameNames

-----------------------------------------------------------------------------
(* The write that makes a name: the directory is one longer.               *)

(* Inode i is ready to be named in directory d: it is new, and filled in   *)
(* but for the name, or a file of d that counts one name more than it has. *)
ReadyNew(D, d, t, i) ==
  /\ i \notin UsedIn(D) /\ i # d /\ D.inode[i].ref = 0
  /\ t = "DIRECTORY" => /\ D.inode[i].size = 2
                        /\ BlockOf(D, i)[1] = Entry(".", "DIRECTORY", i)
                        /\ BlockOf(D, i)[2] = Entry("..", "DIRECTORY", d)
ReadyOld(D, d, t, i) ==
  /\ t = "FILE" /\ \E l \in LinksIn(D) : l.obj = i /\ l.dir = d
  /\ D.inode[i].ref >= Cardinality(NamesOf(LinksIn(D), i))
Ready(D, d, t, i) ==
  /\ i \in Inums /\ t \in Kinds /\ D.inode[i].type = t
  /\ ReadyNew(D, d, t, i) \/ ReadyOld(D, d, t, i)

(* There is room in d for the name n, which d has not.                     *)
Lacks(D, d, n) == \A k \in 3 .. D.inode[d].size : BlockOf(D, d)[k].name # n

Resize(inode, by) == [inode EXCEPT !.size = @ + by, !.ref = @ + by]

Adding(D, E, H, d, n, t, i) ==
  /\ Shape(D, H) /\ E \in Disks
  /\ d \in DirsIn(D) /\ n \in Names /\ Lacks(D, d, n) /\ D.inode[d].size < BlockEntries
  /\ Ready(D, d, t, i) /\ i \in H
  /\ BlockOf(D, d)[D.inode[d].size + 1] = Entry(n, t, i)
  /\ E.data = D.data /\ E.inode = [D.inode EXCEPT ![d] = Resize(@, 1)]

(* What the write leaves, and the inode it changes.                        *)
LEMMA AddingInodes ==
  ASSUME NEW D, NEW E, NEW H, NEW d, NEW n, NEW t, NEW i, Adding(D, E, H, d, n, t, i)
  PROVE  /\ d \in Inums /\ i \in Inums
         /\ \A j \in Inums : E.inode[j].type = D.inode[j].type /\ E.inode[j].block = D.inode[j].block
         /\ \A j \in Inums : j # d => E.inode[j] = D.inode[j]
         /\ E.inode[d].size = D.inode[d].size + 1 /\ E.inode[d].ref = D.inode[d].ref + 1
         /\ \A j \in Inums : BlockOf(E, j) = BlockOf(D, j)
         /\ D.inode[d].size \in Nat /\ D.inode[d].size >= 2
<1>1. D \in Disks /\ DirsOK(D) /\ d \in DirsIn(D) /\ d \in Inums /\ i \in Inums
  BY ShapeFacts DEF Adding, Shape, Ready
<1>2. D.inode \in [Inums -> Inodes]
  BY <1>1 DEF Disks
<1>3. E.inode = [D.inode EXCEPT ![d] = Resize(@, 1)] /\ E.data = D.data
  BY DEF Adding
<1>4. D.inode[d].size \in Nat /\ D.inode[d].size >= 2
  BY <1>1 DEF DirsOK, DirOK
<1>5. D.inode[d] \in Inodes
  BY <1>1, <1>2
<1>6. /\ Resize(D.inode[d], 1).size = D.inode[d].size + 1
      /\ Resize(D.inode[d], 1).ref = D.inode[d].ref + 1
      /\ Resize(D.inode[d], 1).type = D.inode[d].type
      /\ Resize(D.inode[d], 1).block = D.inode[d].block
  BY <1>5 DEF Resize, Inodes
<1>7. \A j \in Inums : j # d => E.inode[j] = D.inode[j]
  BY <1>2, <1>3
<1>8. E.inode[d] = Resize(D.inode[d], 1)
  BY <1>1, <1>2, <1>3
<1>9. \A j \in Inums : E.inode[j].type = D.inode[j].type /\ E.inode[j].block = D.inode[j].block
  BY <1>6, <1>7, <1>8
<1> QED
  BY <1>1, <1>3, <1>4, <1>6, <1>7, <1>8, <1>9 DEF BlockOf

(* There is one name more,                                                 *)
LEMMA AddingNames ==
  ASSUME NEW D, NEW E, NEW H, NEW d, NEW n, NEW t, NEW i, Adding(D, E, H, d, n, t, i)
  PROVE  /\ LinksIn(E) = LinksIn(D) \cup {LinkTo(d, Entry(n, t, i))}
         /\ \A m \in LinksIn(D) : m.dir = d => m.name # n
         /\ DirsIn(E) = DirsIn(D) \cup (IF t = "DIRECTORY" THEN {i} ELSE {})
<1> DEFINE l == LinkTo(d, Entry(n, t, i))
           L == AllIn(D)
           M == AllIn(E)
<1>1. l.dir = d /\ l.obj = i /\ l.type = t /\ l.name = n
  BY DEF LinkTo, Entry
<1>2. D \in Disks /\ DirsOK(D) /\ d \in DirsIn(D)
  BY DEF Adding, Shape
<1>3. Typed(L) /\ DirsIn(D) \subseteq Inums /\ DirsIn(D) \subseteq UsedIn(D)
  BY <1>2, ShapeFacts
<1>4. LinksOf(E, d) = LinksOf(D, d) \cup {l}
  <2> DEFINE s == D.inode[d].size
  <2>1. BlockOf(E, d) = BlockOf(D, d) /\ E.inode[d].size = s + 1 /\ s \in Nat /\ s >= 2
    BY AddingInodes
  <2>2. BlockOf(D, d)[s + 1] = Entry(n, t, i)
    BY DEF Adding
  <2>3. 3 .. s + 1 = 3 .. s \cup {s + 1}
    BY <2>1
  <2> HIDE DEF s
  <2>4. LinksOf(E, d) = {LinkTo(d, BlockOf(D, d)[k]) : k \in 3 .. s} \cup {LinkTo(d, BlockOf(D, d)[s + 1])}
    BY <2>1, <2>3 DEF LinksOf
  <2> QED
    BY <2>2, <2>4 DEF LinksOf, s
<1>5. \A o \in DirsIn(D) : o # d => LinksOf(E, o) = LinksOf(D, o)
  BY <1>3, AddingInodes DEF LinksOf
<1>6. \A o \in DirsIn(D) : From(L, o) = LinksOf(D, o) /\ From(M, o) = LinksOf(E, o)
  BY <1>2, <1>3, ShapeFacts, LinksOfDisk, AddingInodes DEF DirsOK, DirOK
<1>7. ASSUME t = "DIRECTORY" PROVE i \notin DirsIn(D) /\ From(M, i) = {}
  <2>1. ReadyNew(D, d, t, i) /\ D.inode[i].type = t
    BY <1>7 DEF Adding, Ready, ReadyOld
  <2>2. i \notin UsedIn(D) /\ i # d /\ D.inode[i].size = 2
    BY <1>7, <2>1 DEF ReadyNew
  <2>3. E.inode[i].type = "DIRECTORY" /\ E.inode[i].size = 2
    BY <1>7, <2>1, <2>2, AddingInodes
  <2>4. From(M, i) = LinksOf(E, i)
    BY <2>3, AddingInodes, LinksOfDisk
  <2>5. LinksOf(E, i) = {}
    BY <2>3 DEF LinksOf
  <2> QED
    BY <1>3, <2>2, <2>4, <2>5
<1>8. Adds(L, M, l)
  <2> HIDE DEF l, L, M
  <2>1. l.dir \in Dirs(L) /\ l.obj \in Inums
    BY <1>1, <1>2, AddingInodes DEF DirsIn, L
  <2>2. \A o \in Dirs(L) : From(M, o) = From(L, o) \cup (IF o = l.dir THEN {l} ELSE {})
    BY <1>1, <1>4, <1>5, <1>6 DEF DirsIn, L
  <2>3. l.type = "DIRECTORY" => l.obj \notin Dirs(L) /\ From(M, l.obj) = {}
    BY <1>1, <1>7 DEF DirsIn, L
  <2> QED
    BY <2>1, <2>2, <2>3 DEF Adds
<1>9. \A m \in LinksIn(D) : m.dir = d => m.name # n
  <2>1. \A m \in LinksOf(D, d) : m.name # n
    BY DEF Adding, Lacks, LinksOf, LinkTo
  <2> QED
    BY <1>2, <2>1, ShapeFacts
<1> HIDE DEF l, L, M
<1> QED
  BY <1>1, <1>3, <1>8, <1>9, AddedLink DEF LinksIn, DirsIn, l, L, M

(* and the tree keeps its shape.                                           *)
LEMMA AddingShape ==
  ASSUME NEW D, NEW E, NEW H, NEW d, NEW n, NEW t, NEW i, Adding(D, E, H, d, n, t, i)
  PROVE  Shape(E, H) /\ UsedIn(E) = UsedIn(D) \cup {i}
<1> DEFINE l == LinkTo(d, Entry(n, t, i))
           L == LinksIn(D)
<1>1. l.dir = d /\ l.obj = i /\ l.type = t /\ l.name = n
  BY DEF LinkTo, Entry
<1> HIDE DEF l
<1>2. D \in Disks /\ DirsOK(D) /\ d \in DirsIn(D) /\ Shape(D, H) /\ E \in Disks /\ i \in H
  BY DEF Adding, Shape
<1>3. LinksIn(E) = L \cup {l} /\ \A m \in L : m.dir = d => m.name # n
  BY AddingNames DEF l
<1>4. DirsIn(E) = DirsIn(D) \cup (IF t = "DIRECTORY" THEN {i} ELSE {})
  BY AddingNames
<1>5. /\ DirsIn(D) \subseteq Inums /\ DirsIn(D) \subseteq UsedIn(D) /\ UsedIn(D) \subseteq Inums
      /\ \A m \in L : m.obj \in Inums /\ m.obj \in UsedIn(D) /\ (m.type = "DIRECTORY" => m.obj \in DirsIn(D))
      /\ Root \in DirsIn(D)
  BY <1>2, ShapeFacts DEF UsedIn, Used
<1>6. t \in Kinds /\ D.inode[i].type = t /\ (ReadyNew(D, d, t, i) \/ ReadyOld(D, d, t, i))
  BY DEF Adding, Ready
<1>7. t = "DIRECTORY" => ReadyNew(D, d, t, i)
  BY <1>6 DEF ReadyOld
<1>8. UsedIn(E) = UsedIn(D) \cup {i}
  BY <1>1, <1>3 DEF UsedIn, Used
<1>9. OwnBlocks(D, UsedIn(D) \cup H)
  BY <1>2 DEF Shape
<1>10. \A j \in Inums : E.inode[j].type = D.inode[j].type /\ E.inode[j].block = D.inode[j].block
                         /\ BlockOf(E, j) = BlockOf(D, j) /\ (j # d => E.inode[j] = D.inode[j])
  BY AddingInodes
<1>11. OwnBlocks(E, UsedIn(E) \cup H)
  <2>1. UsedIn(E) \cup H = UsedIn(D) \cup H /\ UsedIn(D) \cup H \subseteq Inums
    BY <1>2, <1>5, <1>8 DEF Shape
  <2> QED
    BY <1>9, <1>10, <2>1 DEF OwnBlocks
<1>12. ASSUME NEW o \in DirsIn(D), o # d PROVE DirOK(E, o)
  <2>1. DirOK(D, o) /\ o \in Inums
    BY <1>2, <1>5 DEF DirsOK
  <2>2. E.inode[o] = D.inode[o] /\ BlockOf(E, o) = BlockOf(D, o)
    BY <1>10, <1>12, <2>1
  <2> QED
    BY <2>1, <2>2 DEF DirOK
<1>13. DirOK(E, d)
  <2> DEFINE s == D.inode[d].size
  <2>1. DirOK(D, d) /\ d \in Inums
    BY <1>2, <1>5 DEF DirsOK
  <2>2. s \in 2 .. BlockEntries /\ s < BlockEntries /\ D.inode[d].ref = s - 2
    BY <2>1 DEF DirOK, Adding
  <2>3. E.inode[d].size = s + 1 /\ E.inode[d].ref = D.inode[d].ref + 1 /\ BlockOf(E, d) = BlockOf(D, d)
    BY <2>1, AddingInodes
  <2>4. \A j, k \in 3 .. s : BlockOf(D, d)[j].name = BlockOf(D, d)[k].name => j = k
    BY <2>1 DEF DirOK
  <2>5. BlockOf(D, d)[s + 1].name = n /\ \A k \in 3 .. s : BlockOf(D, d)[k].name # n
    BY DEF Adding, Lacks, Entry
  <2>6. /\ E.inode[d].type = "DIRECTORY" /\ E.inode[d].block \in Blocks
        /\ BlockOf(E, d)[1] = Entry(".", "DIRECTORY", d)
    BY <1>10, <2>1, <2>3 DEF DirOK
  <2> HIDE DEF s
  <2>7. \A j, k \in 3 .. s + 1 : BlockOf(D, d)[j].name = BlockOf(D, d)[k].name => j = k
    <3>1. \A k \in 3 .. s + 1 : k \in 3 .. s \/ k = s + 1
      BY <2>2
    <3> QED
      BY <2>4, <2>5, <3>1
  <2>8. E.inode[d].size \in 2 .. BlockEntries /\ E.inode[d].ref = E.inode[d].size - 2
    BY <2>2, <2>3
  <2> QED
    BY <2>3, <2>6, <2>7, <2>8 DEF DirOK
<1>14. ASSUME t = "DIRECTORY" PROVE DirOK(E, i)
  <2>1. /\ i # d /\ i \in Inums /\ D.inode[i].size = 2 /\ D.inode[i].ref = 0
        /\ BlockOf(D, i)[1] = Entry(".", "DIRECTORY", i)
    BY <1>7, <1>14, AddingInodes DEF ReadyNew
  <2>2. D.inode[i].block \in Blocks
    BY <1>2, <1>9 DEF OwnBlocks
  <2>3. E.inode[i] = D.inode[i] /\ BlockOf(E, i) = BlockOf(D, i) /\ D.inode[i].type = "DIRECTORY"
    BY <1>6, <1>10, <1>14, <2>1
  <2> QED
    BY <2>1, <2>2, <2>3 DEF DirOK
<1>15. DirsOK(E)
  BY <1>4, <1>12, <1>13, <1>14 DEF DirsOK
<1>16. \A m \in L : m.name \in Names /\ D.inode[m.obj].type = m.type
  BY <1>2 DEF Shape, NamesOK
<1>17. OneParent(L) /\ \A k, m \in L : k.obj = m.obj /\ k.type = "DIRECTORY" => k = m
  BY <1>2 DEF Shape, NamesOK
<1>18. i # Root /\ \A m \in L : m.obj = i => m.dir = d /\ t = "FILE"
  <2>1. CASE ReadyNew(D, d, t, i)
    BY <1>5, <2>1 DEF ReadyNew
  <2>2. CASE ReadyOld(D, d, t, i)
    BY <1>17, <2>2 DEF ReadyOld, OneParent
  <2> QED
    BY <1>6, <2>1, <2>2
<1>19. NamesOK(E)
  <2>1. \A m \in L \cup {l} : m.name \in Names /\ E.inode[m.obj].type = m.type
    BY <1>1, <1>5, <1>6, <1>10, <1>16, AddingInodes DEF Adding
  <2>2. OneParent(L \cup {l})
    BY <1>1, <1>17, <1>18 DEF OneParent
  <2>3. \A k, m \in L \cup {l} : k.obj = m.obj /\ k.type = "DIRECTORY" => k = m
    <3>1. \A m \in L : m.obj = l.obj => m.type = "FILE" /\ l.type = "FILE"
      BY <1>1, <1>6, <1>16, <1>18
    <3> QED
      BY <1>17, <3>1
  <2> QED
    BY <1>3, <2>1, <2>2, <2>3 DEF NamesOK
<1>20. ParentsOK(E)
  <2>1. ParentsOK(D)
    BY <1>2 DEF Shape
  <2>2. BlockOf(E, Root)[2] = Entry("..", "DIRECTORY", Root)
    BY <1>5, <1>10, <2>1 DEF ParentsOK
  <2>3. \A m \in L : m.type = "DIRECTORY" => BlockOf(E, m.obj)[2] = Entry("..", "DIRECTORY", m.dir)
    BY <1>5, <1>10, <2>1 DEF ParentsOK
  <2>4. t = "DIRECTORY" => BlockOf(E, i)[2] = Entry("..", "DIRECTORY", d)
    BY <1>7, <1>10, AddingInodes DEF ReadyNew
  <2> QED
    BY <1>1, <1>3, <2>2, <2>3, <2>4 DEF ParentsOK
<1>21. CountsOK(E)
  <2> SUFFICES ASSUME NEW m \in L \cup {l}, m.type = "FILE"
               PROVE  E.inode[m.obj].ref + 1 >= Cardinality(NamesOf(L \cup {l}, m.obj))
    BY <1>3 DEF CountsOK
  <2> DEFINE old == NamesOf(L, m.obj)
             new == NamesOf(L \cup {l}, m.obj)
  <2>1. IsFiniteSet(old) /\ Cardinality(old) \in Nat
    BY <1>2, <1>17, NamesFinite
  <2>2. m.obj \in Inums /\ D.inode[m.obj].type = "FILE"
    BY <1>1, <1>5, <1>6, <1>16, AddingInodes
  <2>3. m.obj # d /\ E.inode[m.obj] = D.inode[m.obj]
    BY <1>2, <1>10, <2>2 DEF DirsOK, DirOK
  <2>4. D.inode[m.obj].ref \in Int
    BY <1>2, <2>2 DEF Disks, Inodes
  <2>5. CASE m.obj # i
    <3>1. new = old
      BY <1>1, <2>5 DEF NamesOf
    <3>2. m \in L
      BY <1>1, <2>5
    <3> QED
      BY <1>2, <2>3, <3>1, <3>2 DEF Shape, CountsOK
  <2>6. CASE m.obj = i
    <3>1. new = old \cup {l}
      BY <1>1, <2>6 DEF NamesOf
    <3>2. Cardinality(new) <= Cardinality(old) + 1
      <4> HIDE DEF old, new
      <4>1. Cardinality(old \cup {l}) = IF l \in old THEN Cardinality(old) ELSE Cardinality(old) + 1
        BY <2>1, FS_AddElement
      <4> QED
        BY <2>1, <3>1, <4>1
    <3>3. D.inode[i].ref >= Cardinality(old)
      <4>1. CASE ReadyNew(D, d, t, i)
        <5>1. old = {} /\ D.inode[i].ref = 0
          BY <1>5, <2>6, <4>1 DEF ReadyNew, NamesOf
        <5> QED
          BY <5>1, FS_EmptySet
      <4>2. CASE ReadyOld(D, d, t, i)
        BY <2>6, <4>2 DEF ReadyOld
      <4> QED
        BY <1>6, <4>1, <4>2
    <3>4. Cardinality(new) \in Nat
      <4> HIDE DEF old, new
      <4>1. IsFiniteSet(new)
        BY <2>1, <3>1, FS_AddElement
      <4> QED
        BY <4>1, FS_CardinalityType
    <3> HIDE DEF old, new
    <3>5. D.inode[m.obj].ref + 1 >= Cardinality(new)
      BY <2>1, <2>4, <2>6, <3>2, <3>3, <3>4
    <3> QED
      BY <2>3, <3>5 DEF new
  <2> QED
    BY <2>5, <2>6
<1> QED
  BY <1>2, <1>8, <1>11, <1>15, <1>19, <1>20, <1>21 DEF Shape

-----------------------------------------------------------------------------
(* The writes that take a name away: the entries behind it move, and the   *)
(* directory is one shorter.                                               *)

PlaceOf(D, d, n) == CHOOSE k \in 1 .. D.inode[d].size : BlockOf(D, d)[k].name = n

Moved(D, d, n) ==
  [k \in Slots |-> IF k \in PlaceOf(D, d, n) .. D.inode[d].size - 1
                   THEN BlockOf(D, d)[k + 1] ELSE BlockOf(D, d)[k]]

(* The second entry of a directory, and what no other entry is called.     *)
LEMMA SecondEntry ==
  ASSUME NEW D, NEW H, Shape(D, H), NEW d \in DirsIn(D)
  PROVE  \E p \in DirsIn(D) : BlockOf(D, d)[2] = Entry("..", "DIRECTORY", p)
<1>1. D \in Disks /\ DirsOK(D) /\ ParentsOK(D)
  BY DEF Shape
<1>2. CASE d = Root
  BY <1>1, <1>2 DEF ParentsOK
<1>3. CASE d # Root
  <2>1. PICK l \in LinksIn(D) : l.obj = d /\ l.type = "DIRECTORY"
    BY <1>1, <1>3, ShapeFacts, DirsHaveNames DEF LinksIn, DirsIn
  <2> QED
    BY <1>1, <2>1, ShapeFacts DEF ParentsOK
<1> QED
  BY <1>2, <1>3

(* The place of a name.                                                    *)
LEMMA PlaceOfName ==
  ASSUME NEW D, NEW H, Shape(D, H), NEW d \in DirsIn(D), NEW n \in Names, ~Lacks(D, d, n)
  PROVE  /\ PlaceOf(D, d, n) \in 3 .. D.inode[d].size
         /\ BlockOf(D, d)[PlaceOf(D, d, n)].name = n
         /\ \A k \in 1 .. D.inode[d].size : BlockOf(D, d)[k].name = n => k = PlaceOf(D, d, n)
<1> DEFINE s == D.inode[d].size
           B == BlockOf(D, d)
<1>1. DirOK(D, d)
  BY DEF Shape, DirsOK
<1>2. s \in Nat /\ s >= 2
  BY <1>1 DEF DirOK
<1>3. B[1].name = "." /\ B[2].name = ".." /\ n # "." /\ n # ".."
  <2>1. B[1].name = "."
    BY <1>1 DEF DirOK, Entry
  <2>2. B[2].name = ".."
    <3>1. \E p \in DirsIn(D) : BlockOf(D, d)[2] = Entry("..", "DIRECTORY", p)
      BY SecondEntry
    <3> QED
      BY <3>1 DEF Entry
  <2> QED
    BY <2>1, <2>2
<1>4. PICK k \in 3 .. s : B[k].name = n
  BY DEF Lacks
<1>5. \A j \in 1 .. s : B[j].name = n => j = k
  <2>1. \A i, j \in 3 .. s : B[i].name = B[j].name => i = j
    BY <1>1 DEF DirOK
  <2> HIDE DEF s, B
  <2>2. \A j \in 1 .. s : j = 1 \/ j = 2 \/ j \in 3 .. s
    BY <1>2
  <2> QED
    BY <1>3, <1>4, <2>1, <2>2
<1>6. k \in 1 .. s
  BY <1>2, <1>4
<1>7. PlaceOf(D, d, n) = k
  <2>1. \E j \in 1 .. s : B[j].name = n
    BY <1>4, <1>6
  <2>2. PlaceOf(D, d, n) \in 1 .. s /\ B[PlaceOf(D, d, n)].name = n
    BY <2>1 DEF PlaceOf
  <2> QED
    BY <1>5, <2>2
<1> QED
  BY <1>4, <1>5, <1>6, <1>7

(* The entries without that of n, in s - 1 places, or with the last twice. *)
LEMMA MovedEntries ==
  ASSUME NEW D, NEW H, Shape(D, H), NEW d \in DirsIn(D), NEW n \in Names, ~Lacks(D, d, n)
  PROVE  LET at == PlaceOf(D, d, n)
             s == D.inode[d].size
             B == BlockOf(D, d)
             N == Moved(D, d, n)
         IN  /\ {LinkTo(d, N[k]) : k \in 3 .. s - 1} = LinksOf(D, d) \ {LinkTo(d, B[at])}
             /\ at < s => {LinkTo(d, N[k]) : k \in 3 .. s} = LinksOf(D, d) \ {LinkTo(d, B[at])}
             /\ at = s => N = B
             /\ N \in [Slots -> Entries] /\ N[1] = B[1] /\ N[2] = B[2]
             /\ \A j, k \in 3 .. s - 1 : N[j].name = N[k].name => j = k
<1> DEFINE at == PlaceOf(D, d, n)
           s == D.inode[d].size
           B == BlockOf(D, d)
           N == Moved(D, d, n)
           l == LinkTo(d, B[at])
<1>1. at \in 3 .. s /\ B[at].name = n /\ \A k \in 1 .. s : B[k].name = n => k = at
  BY PlaceOfName
<1>2. DirOK(D, d) /\ D \in Disks
  BY DEF Shape, DirsOK
<1>3. s \in Nat /\ s >= 2 /\ s \in 2 .. BlockEntries
  BY <1>2 DEF DirOK
<1>4. B \in [Slots -> Entries]
  BY <1>2 DEF DirOK, Disks, BlockOf
<1>5. \A k \in 3 .. s : LinkTo(d, B[k]) = l => k = at
  <2>1. \A k \in 3 .. s : LinkTo(d, B[k]).name = B[k].name
    BY DEF LinkTo
  <2>2. l.name = n
    BY <1>1 DEF LinkTo
  <2>3. \A k \in 3 .. s : k \in 1 .. s
    BY <1>3
  <2> QED
    BY <1>1, <2>1, <2>2, <2>3
<1>6. \A j, k \in 3 .. s : B[j].name = B[k].name => j = k
  BY <1>2 DEF DirOK
<1>7. LinksOf(D, d) = {LinkTo(d, B[k]) : k \in 3 .. s}
  BY DEF LinksOf
<1>8. N = [k \in Slots |-> IF k \in at .. s - 1 THEN B[k + 1] ELSE B[k]]
  BY DEF Moved
<1> HIDE DEF at, s, B, N, l
<1>9. Slots = 1 .. BlockEntries /\ at \in Nat /\ at >= 3 /\ at <= s
  BY <1>1 DEF Slots
<1>10. \A k \in Slots : N[k] = IF k \in at .. s - 1 THEN B[k + 1] ELSE B[k]
  BY <1>8
<1>11. \A k \in 3 .. s : (k < at => N[k] = B[k]) /\ (at <= k /\ k < s => N[k] = B[k + 1]) /\ (k = s => N[k] = B[k])
  <2>1. \A k \in 3 .. s : k \in Slots /\ (k \in at .. s - 1 <=> at <= k /\ k < s)
    BY <1>3, <1>9
  <2> QED
    BY <1>9, <1>10, <2>1
<1>12. N \in [Slots -> Entries]
  <2>1. \A k \in Slots : k \in at .. s - 1 => k + 1 \in Slots
    BY <1>3, <1>9
  <2>2. \A k \in Slots : N[k] \in Entries
    BY <1>4, <1>10, <2>1
  <2>3. N = [k \in Slots |-> N[k]]
    BY <1>8
  <2> QED
    BY <2>2, <2>3
<1>13. N[1] = B[1] /\ N[2] = B[2]
  <2>1. 1 \in Slots /\ 2 \in Slots /\ 1 \notin at .. s - 1 /\ 2 \notin at .. s - 1
    BY <1>3, <1>9
  <2> QED
    BY <1>10, <2>1
<1>14. at = s => N = B
  <2> SUFFICES ASSUME at = s PROVE N = B
    OBVIOUS
  <2>1. \A k \in Slots : k \notin at .. s - 1
    BY <1>3, <1>9
  <2>2. \A k \in Slots : N[k] = B[k]
    BY <1>10, <2>1
  <2> QED
    BY <1>4, <1>12, <2>2
<1>15. \A k \in 3 .. s - 1 : \E j \in 3 .. s : j # at /\ N[k] = B[j] /\ j = IF k < at THEN k ELSE k + 1
  <2> SUFFICES ASSUME NEW k \in 3 .. s - 1
               PROVE  \E j \in 3 .. s : j # at /\ N[k] = B[j] /\ j = IF k < at THEN k ELSE k + 1
    OBVIOUS
  <2>1. k \in 3 .. s /\ k + 1 \in 3 .. s /\ k < s
    BY <1>3
  <2>2. CASE k < at
    BY <1>9, <1>11, <2>1, <2>2
  <2>3. CASE ~(k < at)
    BY <1>9, <1>11, <2>1, <2>3
  <2> QED
    BY <2>2, <2>3
<1>16. \A j \in 3 .. s : j # at => \E k \in 3 .. s - 1 : N[k] = B[j]
  <2> SUFFICES ASSUME NEW j \in 3 .. s, j # at PROVE \E k \in 3 .. s - 1 : N[k] = B[j]
    OBVIOUS
  <2>1. CASE j < at
    <3>1. j \in 3 .. s - 1
      BY <1>3, <1>9, <2>1
    <3> QED
      BY <1>11, <2>1, <3>1
  <2>2. CASE ~(j < at)
    <3>1. j - 1 \in 3 .. s - 1 /\ j - 1 \in 3 .. s /\ at <= j - 1 /\ j - 1 < s /\ (j - 1) + 1 = j
      BY <1>3, <1>9, <2>2
    <3> QED
      BY <1>11, <3>1
  <2> QED
    BY <2>1, <2>2
<1>17. {LinkTo(d, N[k]) : k \in 3 .. s - 1} = LinksOf(D, d) \ {l}
  BY <1>5, <1>7, <1>15, <1>16 DEF l
<1>18. at < s => {LinkTo(d, N[k]) : k \in 3 .. s} = LinksOf(D, d) \ {l}
  <2> SUFFICES ASSUME at < s PROVE {LinkTo(d, N[k]) : k \in 3 .. s} = LinksOf(D, d) \ {l}
    OBVIOUS
  <2>1. s - 1 \in 3 .. s - 1 /\ 3 .. s = (3 .. s - 1) \cup {s}
    BY <1>3, <1>9
  <2>2. N[s] = N[s - 1]
    <3>1. s - 1 \in 3 .. s /\ s \in 3 .. s /\ at <= s - 1 /\ s - 1 < s /\ (s - 1) + 1 = s
      BY <1>3, <1>9
    <3> QED
      BY <1>11, <3>1
  <2>3. {LinkTo(d, N[k]) : k \in 3 .. s} = {LinkTo(d, N[k]) : k \in 3 .. s - 1}
    BY <2>1, <2>2
  <2> QED
    BY <1>17, <2>3
<1>19. \A j, k \in 3 .. s - 1 : N[j].name = N[k].name => j = k
  <2> SUFFICES ASSUME NEW j \in 3 .. s - 1, NEW k \in 3 .. s - 1, N[j].name = N[k].name PROVE j = k
    OBVIOUS
  <2>1. PICK p \in 3 .. s : N[j] = B[p] /\ p = IF j < at THEN j ELSE j + 1
    BY <1>15
  <2>2. PICK q \in 3 .. s : N[k] = B[q] /\ q = IF k < at THEN k ELSE k + 1
    BY <1>15
  <2>3. p = q
    BY <1>6, <2>1, <2>2
  <2> QED
    BY <1>9, <2>1, <2>2, <2>3
<1> QED
  BY <1>12, <1>13, <1>14, <1>17, <1>18, <1>19 DEF at, s, B, N, l

(* E is D without link l of directory d, taken away in both writes, or in  *)
(* the first only.                                                         *)
Leaving(D, H, d, l) ==
  /\ Shape(D, H) /\ d \in DirsIn(D) /\ l \in LinksIn(D) /\ l.dir = d

MovedIn(D, d, n) == [D.data EXCEPT ![D.inode[d].block] = Moved(D, d, n)]

Dropping(D, E, H, d, l) ==
  /\ Leaving(D, H, d, l) /\ E \in Disks
  /\ E.data = MovedIn(D, d, l.name) /\ E.inode = [D.inode EXCEPT ![d] = Resize(@, -1)]

Shifting(D, E, H, d, l) ==
  /\ Leaving(D, H, d, l) /\ E \in Disks
  /\ E.data = MovedIn(D, d, l.name) /\ E.inode = D.inode

(* What Leaving says of the entry.                                         *)
LEMMA LeavingFacts ==
  ASSUME NEW D, NEW H, NEW d, NEW l, Leaving(D, H, d, l)
  PROVE  /\ D \in Disks /\ DirsOK(D) /\ d \in Inums /\ d \in DirsIn(D) /\ l.name \in Names
         /\ ~Lacks(D, d, l.name) /\ LinkTo(d, BlockOf(D, d)[PlaceOf(D, d, l.name)]) = l
         /\ D.inode[d].block \in Blocks /\ DirsIn(D) \subseteq UsedIn(D)
         /\ \A o \in DirsIn(D) : o # d => D.inode[o].block # D.inode[d].block
<1>1. D \in Disks /\ DirsOK(D) /\ d \in DirsIn(D) /\ l \in LinksIn(D) /\ l.dir = d /\ Shape(D, H)
  BY DEF Leaving, Shape
<1>2. d \in Inums /\ DirsIn(D) \subseteq UsedIn(D) /\ l \in LinksOf(D, d)
  BY <1>1, ShapeFacts
<1>3. l.name \in Names
  BY <1>1 DEF Shape, NamesOK
<1>4. PICK k \in 3 .. D.inode[d].size : l = LinkTo(d, BlockOf(D, d)[k])
  BY <1>2 DEF LinksOf
<1>5. BlockOf(D, d)[k].name = l.name
  BY <1>4 DEF LinkTo
<1>6. ~Lacks(D, d, l.name)
  BY <1>5 DEF Lacks
<1>7. k = PlaceOf(D, d, l.name)
  <2>1. D.inode[d].size \in 2 .. BlockEntries
    BY <1>1 DEF DirsOK, DirOK
  <2>2. k \in 1 .. D.inode[d].size
    BY <2>1
  <2> QED
    BY <1>1, <1>3, <1>5, <1>6, <2>2, PlaceOfName
<1>8. D.inode[d].block \in Blocks /\ \A o \in DirsIn(D) : o # d => D.inode[o].block # D.inode[d].block
  BY <1>1, <1>2 DEF Shape, OwnBlocks
<1> QED
  BY <1>1, <1>2, <1>3, <1>4, <1>6, <1>7, <1>8

(* The blocks afterwards.                                                  *)
LEMMA BlocksAfter ==
  ASSUME NEW D, NEW E, NEW H, NEW d, NEW l, Dropping(D, E, H, d, l) \/ Shifting(D, E, H, d, l)
  PROVE  /\ BlockOf(E, d) = Moved(D, d, l.name)
         /\ \A o \in DirsIn(D) : o # d => BlockOf(E, o) = BlockOf(D, o)
         /\ \A j \in Inums : E.inode[j].type = D.inode[j].type /\ E.inode[j].block = D.inode[j].block
         /\ \A j \in Inums : j # d => E.inode[j] = D.inode[j]
<1>1. Leaving(D, H, d, l)
  BY DEF Dropping, Shifting
<1>2. /\ D \in Disks /\ DirsIn(D) \subseteq Inums /\ d \in Inums /\ D.inode[d].block \in Blocks
      /\ \A o \in DirsIn(D) : o # d => D.inode[o].block # D.inode[d].block
  BY <1>1, LeavingFacts, ShapeFacts
<1>3. D.inode \in [Inums -> Inodes] /\ D.inode[d] \in Inodes /\ D.data \in [Blocks -> [Slots -> Entries]]
  BY <1>2 DEF Disks
<1>4. /\ \A j \in Inums : E.inode[j].type = D.inode[j].type /\ E.inode[j].block = D.inode[j].block
      /\ \A j \in Inums : j # d => E.inode[j] = D.inode[j]
  <2>1. CASE E.inode = D.inode
    BY <2>1
  <2>2. CASE E.inode = [D.inode EXCEPT ![d] = Resize(@, -1)]
    <3>1. Resize(D.inode[d], -1).type = D.inode[d].type /\ Resize(D.inode[d], -1).block = D.inode[d].block
      BY <1>3 DEF Resize, Inodes
    <3> QED
      BY <1>2, <1>3, <2>2, <3>1
  <2> QED
    BY <2>1, <2>2 DEF Dropping, Shifting
<1>5. E.data = MovedIn(D, d, l.name)
  BY DEF Dropping, Shifting
<1>6. BlockOf(E, d) = Moved(D, d, l.name)
  BY <1>2, <1>3, <1>4, <1>5 DEF BlockOf, MovedIn
<1>7. \A o \in DirsIn(D) : o # d => BlockOf(E, o) = BlockOf(D, o)
  BY <1>2, <1>3, <1>4, <1>5 DEF BlockOf, MovedIn
<1> QED
  BY <1>4, <1>6, <1>7

(* If the directory loses the link, the tree loses it, and what is below.  *)
LEMMA LosesLink ==
  ASSUME NEW D, NEW E, NEW H, NEW d, NEW l, Dropping(D, E, H, d, l) \/ Shifting(D, E, H, d, l),
         LinksOf(E, d) = LinksOf(D, d) \ {l}
  PROVE  LinksIn(E) = Reached(LinksIn(D) \ {l}) /\ DirsIn(E) = Dirs(LinksIn(D) \ {l})
<1>1. Leaving(D, H, d, l)
  BY DEF Dropping, Shifting
<1>2. D \in Disks /\ DirsOK(D) /\ d \in DirsIn(D) /\ Typed(AllIn(D)) /\ DirsIn(D) \subseteq Inums
  BY <1>1, LeavingFacts, ShapeFacts
<1>3. l.dir = d /\ \A o \in DirsIn(D) : \A m \in LinksOf(D, o) : m.dir = o
  BY <1>1, LinksOfDisk DEF Leaving
<1>4. \A o \in DirsIn(D) : LinksOf(E, o) = LinksOf(D, o) \ {l}
  <2> SUFFICES ASSUME NEW o \in DirsIn(D), o # d PROVE LinksOf(E, o) = LinksOf(D, o) \ {l}
    OBVIOUS
  <2>1. E.inode[o] = D.inode[o] /\ BlockOf(E, o) = BlockOf(D, o)
    BY <1>2, BlocksAfter
  <2>2. LinksOf(E, o) = LinksOf(D, o)
    BY <2>1 DEF LinksOf
  <2> QED
    BY <1>3, <2>2
<1>5. \A o \in DirsIn(D) : From(AllIn(D), o) = LinksOf(D, o) /\ From(AllIn(E), o) = LinksOf(E, o)
  <2>1. \A o \in DirsIn(D) : E.inode[o].type = "DIRECTORY"
    BY <1>2, BlocksAfter DEF DirsOK, DirOK
  <2> QED
    BY <1>2, <2>1, ShapeFacts, LinksOfDisk
<1>6. Drops(AllIn(D), AllIn(E), l)
  BY <1>4, <1>5 DEF Drops, DirsIn
<1> QED
  BY <1>2, <1>6, DroppedLink DEF LinksIn, DirsIn

(* The first write takes it away, or leaves the names as they are.         *)
LEMMA ShiftedNames ==
  ASSUME NEW D, NEW E, NEW H, NEW d, NEW l, Shifting(D, E, H, d, l)
  PROVE  LinksIn(E) = LinksIn(D) \/ LinksIn(E) = Reached(LinksIn(D) \ {l})
<1> DEFINE at == PlaceOf(D, d, l.name)
           s == D.inode[d].size
           N == Moved(D, d, l.name)
<1>1. Leaving(D, H, d, l) /\ Shape(D, H)
  BY DEF Shifting, Leaving
<1>2. /\ at < s => {LinkTo(d, N[k]) : k \in 3 .. s} = LinksOf(D, d) \ {LinkTo(d, BlockOf(D, d)[at])}
      /\ at = s => N = BlockOf(D, d)
      /\ at \in 3 .. s
  BY <1>1, LeavingFacts, MovedEntries, PlaceOfName
<1>3. d \in DirsIn(D) /\ DirOK(D, d) /\ D \in Disks /\ d \in Inums /\ D.inode[d].block \in Blocks
  BY <1>1, LeavingFacts DEF DirsOK
<1>4. s \in Nat
  BY <1>3 DEF DirOK
<1>5. BlockOf(E, d) = N /\ E.inode = D.inode
  <2>1. BlockOf(E, d) = Moved(D, d, l.name)
    BY BlocksAfter
  <2>2. E.inode = D.inode
    BY DEF Shifting
  <2> QED
    BY <2>1, <2>2
<1>6. CASE at < s
  <2>1. LinkTo(d, BlockOf(D, d)[at]) = l
    BY <1>1, LeavingFacts
  <2>2. LinksOf(E, d) = {LinkTo(d, N[k]) : k \in 3 .. s}
    BY <1>5 DEF LinksOf
  <2>3. LinksOf(E, d) = LinksOf(D, d) \ {l}
    BY <1>2, <1>6, <2>1, <2>2
  <2> QED
    BY <2>3, LosesLink
<1>7. CASE at = s
  <2>1. E.data = [D.data EXCEPT ![D.inode[d].block] = BlockOf(D, d)]
    BY <1>2, <1>7 DEF Shifting, MovedIn
  <2>2. D.data \in [Blocks -> [Slots -> Entries]]
    BY <1>3 DEF Disks
  <2>3. E.data = D.data
    BY <1>3, <2>1, <2>2 DEF BlockOf
  <2>4. AllIn(E) = AllIn(D)
    BY <1>5, <2>3 DEF AllIn, LinksOf, BlockOf
  <2> QED
    BY <2>4 DEF LinksIn
<1> QED
  BY <1>2, <1>4, <1>6, <1>7

(* Both writes: the tree without the link, in shape.                       *)
LEMMA DroppedShape ==
  ASSUME NEW D, NEW E, NEW H, NEW d, NEW l, Dropping(D, E, H, d, l)
  PROVE  /\ Shape(E, H) /\ LinksIn(E) = Reached(LinksIn(D) \ {l})
         /\ DirsIn(E) = Dirs(LinksIn(D) \ {l}) /\ d \in DirsIn(E) /\ DirsIn(E) \subseteq DirsIn(D)
<1> DEFINE at == PlaceOf(D, d, l.name)
           s == D.inode[d].size
           N == Moved(D, d, l.name)
<1>1. Leaving(D, H, d, l) /\ Shape(D, H) /\ E \in Disks /\ H \subseteq Inums
  BY DEF Dropping, Leaving, Shape
<1>2. /\ {LinkTo(d, N[k]) : k \in 3 .. s - 1} = LinksOf(D, d) \ {LinkTo(d, BlockOf(D, d)[at])}
      /\ N[1] = BlockOf(D, d)[1] /\ N[2] = BlockOf(D, d)[2]
      /\ \A j, k \in 3 .. s - 1 : N[j].name = N[k].name => j = k
      /\ at \in 3 .. s
  <2>1. d \in DirsIn(D) /\ l.name \in Names /\ ~Lacks(D, d, l.name)
    BY <1>1, LeavingFacts
  <2>2. at \in 3 .. s
    BY <1>1, <2>1, PlaceOfName
  <2> QED
    BY <1>1, <2>1, <2>2, MovedEntries
<1>3. /\ d \in DirsIn(D) /\ DirOK(D, d) /\ D \in Disks /\ d \in Inums /\ DirsOK(D)
      /\ D.inode[d].block \in Blocks /\ LinkTo(d, BlockOf(D, d)[at]) = l
  BY <1>1, LeavingFacts DEF DirsOK
<1>4. s \in 2 .. BlockEntries /\ s >= 3 /\ D.inode[d].ref = s - 2
  BY <1>2, <1>3 DEF DirOK
<1>5. /\ BlockOf(E, d) = Moved(D, d, l.name)
      /\ \A o \in DirsIn(D) : o # d => BlockOf(E, o) = BlockOf(D, o)
      /\ \A j \in Inums : E.inode[j].type = D.inode[j].type /\ E.inode[j].block = D.inode[j].block
      /\ \A j \in Inums : j # d => E.inode[j] = D.inode[j]
  BY BlocksAfter
<1>6. E.inode[d].size = s - 1 /\ E.inode[d].ref = D.inode[d].ref - 1
  <2>1. D.inode \in [Inums -> Inodes] /\ D.inode[d] \in Inodes
    BY <1>3 DEF Disks
  <2>2. Resize(D.inode[d], -1).size = s - 1 /\ Resize(D.inode[d], -1).ref = D.inode[d].ref - 1
    BY <2>1 DEF Resize, Inodes
  <2>3. E.inode = [D.inode EXCEPT ![d] = Resize(@, -1)]
    BY DEF Dropping
  <2> QED
    BY <1>3, <2>1, <2>2, <2>3
<1>7. LinksOf(E, d) = LinksOf(D, d) \ {l}
  BY <1>2, <1>3, <1>5, <1>6 DEF LinksOf
<1>8. LinksIn(E) = Reached(LinksIn(D) \ {l}) /\ DirsIn(E) = Dirs(LinksIn(D) \ {l})
  BY <1>7, LosesLink
<1>9. /\ Typed(LinksIn(D)) /\ Dirs(LinksIn(D)) = DirsIn(D) /\ Reached(LinksIn(D)) = LinksIn(D)
      /\ DirsIn(D) \subseteq Inums /\ UsedIn(D) \subseteq Inums
      /\ \A m \in LinksIn(D) : m.obj \in UsedIn(D) /\ m.obj \in Inums /\ (m.type = "DIRECTORY" => m.obj \in DirsIn(D))
  BY <1>3, ShapeFacts DEF UsedIn, Used
<1>10. LinksIn(E) \subseteq LinksIn(D) /\ DirsIn(E) \subseteq DirsIn(D)
  BY <1>8, <1>9, FewerLinks
<1>11. d \in DirsIn(E)
  BY <1>1, <1>8, <1>9, ParentStays DEF Leaving
<1>12. DirOK(E, d)
  <2>1. E.inode[d].type = "DIRECTORY" /\ E.inode[d].block \in Blocks
    BY <1>3, <1>5 DEF DirOK
  <2>2. E.inode[d].size \in 2 .. BlockEntries /\ E.inode[d].ref = E.inode[d].size - 2
    BY <1>4, <1>6
  <2>3. BlockOf(E, d)[1] = Entry(".", "DIRECTORY", d)
    BY <1>2, <1>3, <1>5 DEF DirOK
  <2>4. \A j, k \in 3 .. E.inode[d].size : BlockOf(E, d)[j].name = BlockOf(E, d)[k].name => j = k
    BY <1>2, <1>5, <1>6
  <2> QED
    BY <2>1, <2>2, <2>3, <2>4 DEF DirOK
<1>13. DirsOK(E)
  <2> SUFFICES ASSUME NEW o \in DirsIn(D), o # d PROVE DirOK(E, o)
    BY <1>10, <1>12 DEF DirsOK
  <2>1. DirOK(D, o) /\ E.inode[o] = D.inode[o] /\ BlockOf(E, o) = BlockOf(D, o)
    BY <1>3, <1>5, <1>9 DEF DirsOK
  <2> QED
    BY <2>1 DEF DirOK
<1>14. NamesOK(E)
  <2>1. NamesOK(D)
    BY <1>1 DEF Shape
  <2>2. OneParent(LinksIn(E))
    BY <1>10, <2>1 DEF NamesOK, OneParent
  <2>3. \A m \in LinksIn(E) : m.name \in Names /\ E.inode[m.obj].type = m.type
    BY <1>5, <1>9, <1>10, <2>1 DEF NamesOK
  <2> QED
    BY <1>10, <2>1, <2>2, <2>3 DEF NamesOK
<1>15. ParentsOK(E)
  <2>1. ParentsOK(D)
    BY <1>1 DEF Shape
  <2>2. \A o \in DirsIn(D) : BlockOf(E, o)[2] = BlockOf(D, o)[2]
    BY <1>2, <1>5
  <2>3. Root \in DirsIn(D)
    BY <1>3, ShapeFacts
  <2> QED
    BY <1>9, <1>10, <2>1, <2>2, <2>3 DEF ParentsOK
<1>16. CountsOK(E)
  <2> SUFFICES ASSUME NEW m \in LinksIn(E), m.type = "FILE"
               PROVE  E.inode[m.obj].ref + 1 >= Cardinality(NamesOf(LinksIn(E), m.obj))
    BY DEF CountsOK
  <2> DEFINE old == NamesOf(LinksIn(D), m.obj)
             new == NamesOf(LinksIn(E), m.obj)
  <2>1. m \in LinksIn(D) /\ NamesOK(D) /\ CountsOK(D)
    BY <1>1, <1>10 DEF Shape
  <2>2. D.inode[m.obj].ref + 1 >= Cardinality(old)
    BY <2>1 DEF CountsOK
  <2>3. m.obj # d
    BY <1>3, <2>1 DEF NamesOK, DirOK
  <2>4. E.inode[m.obj] = D.inode[m.obj] /\ D.inode[m.obj].ref \in Int
    BY <1>3, <1>5, <1>9, <2>1, <2>3 DEF Disks, Inodes
  <2>5. IsFiniteSet(old) /\ Cardinality(old) \in Nat
    BY <1>3, <2>1, NamesFinite DEF NamesOK
  <2>6. new \subseteq old
    BY <1>10 DEF NamesOf
  <2> HIDE DEF old, new
  <2>7. Cardinality(new) \in Nat /\ Cardinality(new) <= Cardinality(old)
    <3>1. IsFiniteSet(new) /\ Cardinality(new) <= Cardinality(old)
      BY <2>5, <2>6, FS_Subset
    <3> QED
      BY <3>1, FS_CardinalityType
  <2>8. E.inode[m.obj].ref + 1 >= Cardinality(new)
    BY <2>2, <2>4, <2>5, <2>7
  <2> QED
    BY <2>8 DEF new
<1>17. OwnBlocks(E, UsedIn(E) \cup H)
  <2>1. UsedIn(E) \subseteq UsedIn(D)
    BY <1>10 DEF UsedIn, Used
  <2>2. OwnBlocks(D, UsedIn(D) \cup H)
    BY <1>1 DEF Shape
  <2> QED
    BY <1>1, <1>5, <1>9, <2>1, <2>2 DEF OwnBlocks
<1> QED
  BY <1>1, <1>8, <1>10, <1>11, <1>13, <1>14, <1>15, <1>16, <1>17 DEF Shape

-----------------------------------------------------------------------------
(* The bitmaps.                                                            *)

(* A set of numbers has a smallest one.                                    *)
LEMMA SmallestOf ==
  ASSUME NEW T \in SUBSET Nat, T # {}
  PROVE  \E n \in T : \A m \in T : n <= m
<1> DEFINE R == OpToRel(<, Nat)
<1>1. IsWellFoundedOn(R, Nat)
  BY NatLessThanWellFounded, Zenon
<1> HIDE DEF R
<1>2. PICK n \in T : \A m \in T : ~(<<m, n>> \in R)
  BY <1>1, WFMin
<1>3. \A m \in T : ~(m < n)
  <2>1. \A m \in Nat, k \in Nat : m < k => <<m, k>> \in R
    BY DEF R, OpToRel
  <2> QED
    BY <1>2, <2>1
<1> QED
  BY <1>2, <1>3

(* The first that is free is free.                                         *)
LEMMA FirstFreeIsFree ==
  ASSUME NEW S \in SUBSET Nat, NEW map \in [S -> BOOLEAN], \E x \in S : ~map[x]
  PROVE  FirstFree(map) \in S /\ ~map[FirstFree(map)]
<1> DEFINE T == {x \in S : ~map[x]}
<1>1. \E n \in T : \A m \in T : n <= m
  BY SmallestOf
<1>2. DOMAIN map = S
  OBVIOUS
<1>3. \E x \in DOMAIN map : ~map[x] /\ \A y \in DOMAIN map : ~map[y] => x <= y
  BY <1>1, <1>2
<1> QED
  BY <1>2, <1>3 DEF FirstFree

(* The bits that are set, and those that are not.                          *)
Taken(map) == {x \in DOMAIN map : map[x]}

(* Together they are all of them.                                          *)
LEMMA TakenAndFree ==
  ASSUME NEW S, IsFiniteSet(S), NEW map \in [S -> BOOLEAN]
  PROVE  /\ IsFiniteSet(Taken(map)) /\ Cardinality(Taken(map)) \in Nat
         /\ IsFiniteSet({x \in S : ~map[x]})
         /\ Cardinality({x \in S : ~map[x]}) = Cardinality(S) - Cardinality(Taken(map))
<1>1. DOMAIN map = S /\ Taken(map) \subseteq S
  BY DEF Taken
<1>2. IsFiniteSet(Taken(map)) /\ Cardinality(Taken(map)) \in Nat
  <2>1. IsFiniteSet(Taken(map))
    BY <1>1, FS_Subset
  <2> QED
    BY <2>1, FS_CardinalityType
<1>3. {x \in S : ~map[x]} = S \ Taken(map) /\ S \cap Taken(map) = Taken(map)
  BY <1>1 DEF Taken
<1>4. /\ IsFiniteSet(S \ Taken(map))
      /\ Cardinality(S \ Taken(map)) = Cardinality(S) - Cardinality(S \cap Taken(map))
  BY FS_Difference
<1> QED
  BY <1>2, <1>3, <1>4

(* A bit that is set is one more.                                          *)
LEMMA SetBit ==
  ASSUME NEW S, IsFiniteSet(S), NEW map \in [S -> BOOLEAN], NEW x \in S, ~map[x]
  PROVE  Cardinality(Taken([map EXCEPT ![x] = TRUE])) = Cardinality(Taken(map)) + 1
<1>1. Taken([map EXCEPT ![x] = TRUE]) = Taken(map) \cup {x} /\ x \notin Taken(map)
  BY DEF Taken
<1>2. IsFiniteSet(Taken(map))
  BY TakenAndFree
<1> HIDE DEF Taken
<1> QED
  BY <1>1, <1>2, FS_AddElement

(* There are as many inodes and blocks as their numbers say.               *)
LEMMA InumsAndBlocks ==
  /\ IsFiniteSet(Inums) /\ Cardinality(Inums) = INODE_NUM /\ Inums \subseteq Nat
  /\ IsFiniteSet(Blocks) /\ Cardinality(Blocks) = BLOCK_NUM /\ Blocks \subseteq Nat
<1>1. INODE_NUM \in Nat /\ INODE_NUM >= 1 /\ BLOCK_NUM \in Nat /\ BLOCK_NUM >= 1
  OBVIOUS
<1>2. /\ IsFiniteSet(0 .. INODE_NUM - 1)
      /\ Cardinality(0 .. INODE_NUM - 1) = IF 0 > INODE_NUM - 1 THEN 0 ELSE (INODE_NUM - 1) - 0 + 1
  <2>1. 0 \in Int /\ INODE_NUM - 1 \in Int
    BY <1>1
  <2> QED
    BY <2>1, FS_Interval, Zenon
<1>3. /\ IsFiniteSet(1 .. BLOCK_NUM)
      /\ Cardinality(1 .. BLOCK_NUM) = IF 1 > BLOCK_NUM THEN 0 ELSE BLOCK_NUM - 1 + 1
  <2>1. 1 \in Int /\ BLOCK_NUM \in Int
    BY <1>1
  <2> QED
    BY <2>1, FS_Interval, Zenon
<1> QED
  BY <1>1, <1>2, <1>3 DEF Inums, Blocks

(* Of the blocks no more are taken than of the inodes.                     *)
Room(D) == Cardinality(Taken(D.blockmap)) <= Cardinality(Taken(D.inodemap))
MoreRoom(D) == Cardinality(Taken(D.blockmap)) < Cardinality(Taken(D.inodemap))

(* Then there is a free block for every free inode.                        *)
LEMMA RoomIsEnough ==
  ASSUME NEW D \in Disks, Room(D)
  PROVE  /\ Cardinality({b \in Blocks : ~D.blockmap[b]}) >= Cardinality({i \in Inums : ~D.inodemap[i]})
         /\ (\E i \in Inums : ~D.inodemap[i]) => \E b \in Blocks : ~D.blockmap[b]
<1> DEFINE blocks == {b \in Blocks : ~D.blockmap[b]}
           inodes == {i \in Inums : ~D.inodemap[i]}
<1>1. D.inodemap \in [Inums -> BOOLEAN] /\ D.blockmap \in [Blocks -> BOOLEAN]
  BY DEF Disks
<1>2. /\ Cardinality(Taken(D.inodemap)) \in Nat /\ IsFiniteSet(inodes)
      /\ Cardinality(inodes) = INODE_NUM - Cardinality(Taken(D.inodemap))
  BY <1>1, InumsAndBlocks, TakenAndFree
<1>3. /\ Cardinality(Taken(D.blockmap)) \in Nat /\ IsFiniteSet(blocks)
      /\ Cardinality(blocks) = BLOCK_NUM - Cardinality(Taken(D.blockmap))
  BY <1>1, InumsAndBlocks, TakenAndFree
<1> HIDE DEF blocks, inodes
<1>4. Cardinality(blocks) >= Cardinality(inodes)
  BY <1>2, <1>3 DEF Room
<1>5. ASSUME inodes # {} PROVE blocks # {}
  <2>1. Cardinality(inodes) # 0 /\ Cardinality(inodes) \in Nat
    BY <1>2, <1>5, FS_EmptySet, FS_CardinalityType
  <2>2. Cardinality(blocks) # 0
    BY <1>2, <1>3, <1>4, <2>1
  <2> QED
    BY <2>2, FS_EmptySet
<1> QED
  BY <1>4, <1>5 DEF blocks, inodes

(* The bits of the inodes of S are being cleared, the block's before the   *)
(* inode's; the others leave room.                                         *)
BlocksOf(D, S) == {D.inode[i].block : i \in S}

Clearing(D, S) ==
  /\ S \subseteq Inums /\ \A i \in S : D.inode[i].block \in Blocks
  /\ Cardinality(Taken(D.blockmap) \ BlocksOf(D, S)) <= Cardinality(Taken(D.inodemap) \ S)
  /\ \A i \in S : D.blockmap[D.inode[i].block] => D.inodemap[i]

(* There is room all the time.                                             *)
LEMMA ClearingLeavesRoom ==
  ASSUME NEW D \in Disks, NEW S, Clearing(D, S)
  PROVE  Room(D)
<1> DEFINE B == Taken(D.blockmap)
           I == Taken(D.inodemap)
           X == BlocksOf(D, S)
           T == {i \in S : D.blockmap[D.inode[i].block]}
           f == [i \in T |-> D.inode[i].block]
<1>1. D.inodemap \in [Inums -> BOOLEAN] /\ D.blockmap \in [Blocks -> BOOLEAN]
  BY DEF Disks
<1>2. IsFiniteSet(B) /\ IsFiniteSet(I) /\ B \subseteq Blocks /\ I \subseteq Inums
  <2>1. IsFiniteSet(B) /\ IsFiniteSet(I)
    BY <1>1, InumsAndBlocks, TakenAndFree
  <2> QED
    BY <1>1, <2>1 DEF Taken
<1>3. f \in Surjection(T, B \cap X)
  <2>1. f \in [T -> B \cap X]
    BY <1>1 DEF Clearing, BlocksOf, Taken
  <2>2. \A b \in B \cap X : \E i \in T : f[i] = b
    BY <1>1 DEF BlocksOf, Taken
  <2> HIDE DEF f, T, B, X
  <2> QED
    BY <2>1, <2>2 DEF Surjection
<1>4. T \subseteq I \cap S
  BY <1>1 DEF Clearing, Taken
<1> HIDE DEF f, T, X
<1>5. /\ IsFiniteSet(T) /\ Cardinality(T) \in Nat
      /\ Cardinality(T) <= Cardinality(I \cap S) /\ Cardinality(I \cap S) \in Nat
  <2>1. IsFiniteSet(I \cap S)
    BY <1>2, FS_Intersection
  <2>2. IsFiniteSet(T) /\ Cardinality(T) <= Cardinality(I \cap S)
    BY <1>4, <2>1, FS_Subset
  <2> QED
    BY <2>1, <2>2, FS_CardinalityType
<1>6. IsFiniteSet(B \cap X) /\ Cardinality(B \cap X) <= Cardinality(T) /\ Cardinality(B \cap X) \in Nat
  <2>1. IsFiniteSet(B \cap X) /\ Cardinality(B \cap X) <= Cardinality(T)
    BY <1>3, <1>5, FS_Surjection
  <2> QED
    BY <2>1, FS_CardinalityType
<1>7. Cardinality(B \ X) = Cardinality(B) - Cardinality(B \cap X) /\ Cardinality(B) \in Nat
  BY <1>2, FS_Difference, FS_CardinalityType
<1>8. Cardinality(I \ S) = Cardinality(I) - Cardinality(I \cap S) /\ Cardinality(I) \in Nat
  BY <1>2, FS_Difference, FS_CardinalityType
<1>9. Cardinality(B \ X) <= Cardinality(I \ S)
  BY DEF Clearing, X
<1> HIDE DEF B, I
<1>10. Cardinality(B) <= Cardinality(I)
  BY <1>5, <1>6, <1>7, <1>8, <1>9
<1> QED
  BY <1>10 DEF Room, B, I

(* Before the first bit is cleared.                                        *)
LEMMA ClearingBegins ==
  ASSUME NEW D \in Disks, NEW S \in SUBSET Inums, Room(D), OwnBlocks(D, S),
         \A i \in S : D.inodemap[i] /\ D.blockmap[D.inode[i].block]
  PROVE  Clearing(D, S)
<1> DEFINE B == Taken(D.blockmap)
           I == Taken(D.inodemap)
           X == BlocksOf(D, S)
           f == [i \in S |-> D.inode[i].block]
<1>1. D.inodemap \in [Inums -> BOOLEAN] /\ D.blockmap \in [Blocks -> BOOLEAN]
  BY DEF Disks
<1>2. IsFiniteSet(B) /\ IsFiniteSet(I) /\ B \subseteq Blocks /\ I \subseteq Inums
  <2>1. IsFiniteSet(B) /\ IsFiniteSet(I)
    BY <1>1, InumsAndBlocks, TakenAndFree
  <2> QED
    BY <1>1, <2>1 DEF Taken
<1>3. I \cap S = S /\ B \cap X = X
  BY <1>1, <1>2 DEF Taken, BlocksOf, OwnBlocks
<1>4. f \in Injection(S, X)
  <2>1. f \in [S -> X]
    BY DEF BlocksOf
  <2>2. \A i, j \in S : f[i] = f[j] => i = j
    BY DEF OwnBlocks
  <2> HIDE DEF f, X
  <2> QED
    BY <2>1, <2>2 DEF Injection, IsInjective
<1>5. \A i \in S : D.inode[i].block \in Blocks
  BY DEF OwnBlocks
<1> HIDE DEF f, X
<1>6. IsFiniteSet(X) /\ Cardinality(X) \in Nat
  <2>1. IsFiniteSet(B \cap X)
    BY <1>2, FS_Intersection
  <2> QED
    BY <1>3, <2>1, FS_CardinalityType
<1>7. IsFiniteSet(S) /\ Cardinality(S) \in Nat /\ Cardinality(S) <= Cardinality(X)
  <2>1. IsFiniteSet(S) /\ Cardinality(S) <= Cardinality(X)
    BY <1>4, <1>6, FS_Injection
  <2> QED
    BY <2>1, FS_CardinalityType
<1>8. Cardinality(B \ X) = Cardinality(B) - Cardinality(B \cap X) /\ Cardinality(B) \in Nat
  BY <1>2, FS_Difference, FS_CardinalityType
<1>9. Cardinality(I \ S) = Cardinality(I) - Cardinality(I \cap S) /\ Cardinality(I) \in Nat
  BY <1>2, FS_Difference, FS_CardinalityType
<1>10. Cardinality(B) <= Cardinality(I)
  BY DEF Room
<1> HIDE DEF B, I
<1>11. Cardinality(B \ X) <= Cardinality(I \ S)
  <2>1. Cardinality(B \cap X) = Cardinality(X) /\ Cardinality(I \cap S) = Cardinality(S)
    BY <1>3
  <2> QED
    BY <2>1, <1>6, <1>7, <1>8, <1>9, <1>10
<1> QED
  BY <1>5, <1>11 DEF Clearing, B, I, X

(* A bit of either kind is cleared.                                        *)
LEMMA ClearingGoesOn ==
  ASSUME NEW D \in Disks, NEW S, Clearing(D, S), NEW p \in S, NEW E \in Disks, E.inode = D.inode,
         \/ E.inodemap = D.inodemap /\ E.blockmap = [D.blockmap EXCEPT ![D.inode[p].block] = FALSE]
         \/ /\ E.blockmap = D.blockmap /\ E.inodemap = [D.inodemap EXCEPT ![p] = FALSE]
            /\ ~D.blockmap[D.inode[p].block]
  PROVE  Clearing(E, S)
<1>1. /\ D.inodemap \in [Inums -> BOOLEAN] /\ D.blockmap \in [Blocks -> BOOLEAN]
      /\ E.inodemap \in [Inums -> BOOLEAN] /\ E.blockmap \in [Blocks -> BOOLEAN]
  BY DEF Disks
<1>2. /\ p \in Inums /\ D.inode[p].block \in Blocks /\ D.inode[p].block \in BlocksOf(D, S)
      /\ BlocksOf(E, S) = BlocksOf(D, S)
  BY DEF Clearing, BlocksOf
<1>3. Taken(E.blockmap) \ BlocksOf(E, S) = Taken(D.blockmap) \ BlocksOf(D, S)
  BY <1>1, <1>2 DEF Taken
<1>4. Taken(E.inodemap) \ S = Taken(D.inodemap) \ S
  BY <1>1, <1>2 DEF Taken
<1>5. \A i \in S : E.blockmap[E.inode[i].block] => E.inodemap[i]
  BY <1>1, <1>2 DEF Clearing
<1> QED
  BY <1>3, <1>4, <1>5 DEF Clearing

-----------------------------------------------------------------------------
(* The bits that a removal clears.                                         *)

(* Induction, on a set instead of a predicate.                             *)
LEMMA AllNumbers ==
  ASSUME NEW S \in SUBSET Nat, 0 \in S, \A n \in S : n + 1 \in S
  PROVE  S = Nat
<1> SUFFICES ASSUME Nat \ S # {} PROVE FALSE
  OBVIOUS
<1>1. PICK n \in Nat \ S : \A m \in Nat \ S : n <= m
  BY SmallestOf
<1>2. n - 1 \in Nat /\ ~(n <= n - 1)
  BY <1>1
<1>3. n - 1 \in S
  BY <1>1, <1>2
<1>4. (n - 1) + 1 \in S /\ (n - 1) + 1 = n
  BY <1>1, <1>3
<1> QED
  BY <1>1, <1>4

(* A function that joins the first lists of s, up to n.                    *)
Joining(s, n, f) == f = [i \in 1 .. n |-> IF i = 1 THEN s[i] ELSE f[i - 1] \o s[i]]

(* There is one for every length.                                          *)
LEMMA JoiningExists ==
  ASSUME NEW s, NEW n \in Nat
  PROVE  \E f : Joining(s, n, f)
<1> DEFINE T == {m \in Nat : \E f : Joining(s, m, f)}
<1>1. 0 \in T
  <2>1. Joining(s, 0, [i \in 1 .. 0 |-> s[i]])
    BY DEF Joining
  <2> QED
    BY <2>1, Zenon
<1>2. ASSUME NEW m \in T PROVE m + 1 \in T
  <2>1. m \in Nat /\ m + 1 \in Nat
    OBVIOUS
  <2>2. PICK f : Joining(s, m, f)
    OBVIOUS
  <2> DEFINE g == [i \in 1 .. m + 1 |-> IF i = 1 THEN s[i] ELSE IF i = m + 1 THEN f[m] \o s[i] ELSE f[i]]
  <2>3. \A i \in 1 .. m : f[i] = IF i = 1 THEN s[i] ELSE f[i - 1] \o s[i]
    BY <2>2 DEF Joining
  <2>4. \A i \in 1 .. m : g[i] = f[i]
    BY <2>3, <2>1
  <2>5. ASSUME NEW i \in 1 .. m + 1, i # 1 PROVE g[i] = g[i - 1] \o s[i]
    <3>1. i - 1 \in 1 .. m
      BY <2>1, <2>5
    <3>2. CASE i = m + 1
      <4>1. i - 1 = m /\ m + 1 # 1 /\ m + 1 \in 1 .. m + 1
        BY <2>1, <2>5, <3>2
      <4>2. g[m + 1] = f[m] \o s[m + 1]
        BY <4>1
      <4> HIDE DEF g
      <4> QED
        BY <3>1, <3>2, <4>1, <4>2, <2>4
    <3>3. CASE i # m + 1
      <4>1. i \in 1 .. m
        BY <2>1, <3>3
      <4> QED
        BY <2>3, <2>4, <2>5, <3>1, <4>1
    <3> QED
      BY <3>2, <3>3
  <2>6. g[1] = s[1] /\ g = [i \in 1 .. m + 1 |-> g[i]]
    BY <2>1
  <2> HIDE DEF g
  <2>7. Joining(s, m + 1, g)
    BY <2>5, <2>6 DEF Joining
  <2> QED
    BY <2>1, <2>7, Zenon
<1>3. T = Nat
  <2>1. T \in SUBSET Nat
    OBVIOUS
  <2> HIDE DEF T
  <2> QED
    BY <1>1, <1>2, <2>1, AllNumbers
<1> QED
  BY <1>3

(* Joining lists of Q makes a list of Q.                                   *)
Joins(Q) == <<>> \in Q /\ \A u, v \in Q : u \o v \in Q

(* So do as many lists as there are.                                       *)
LEMMA JoinedLists ==
  ASSUME NEW Q, Joins(Q), NEW s \in Seq(Q)
  PROVE  FlattenSeq(s) \in Q
<1>1. Len(s) \in Nat /\ \A i \in 1 .. Len(s) : s[i] \in Q
  OBVIOUS
<1>2. CASE Len(s) = 0
  <2>1. s = <<>> /\ FlattenSeq(s) = s
    BY <1>2 DEF FlattenSeq
  <2> QED
    BY <2>1 DEF Joins
<1>3. CASE Len(s) # 0
  <2> DEFINE flat == CHOOSE f : f = [i \in 1 .. Len(s) |-> IF i = 1 THEN s[i] ELSE f[i - 1] \o s[i]]
  <2>1. FlattenSeq(s) = flat[Len(s)]
    BY <1>3 DEF FlattenSeq
  <2>2. flat = [i \in 1 .. Len(s) |-> IF i = 1 THEN s[i] ELSE flat[i - 1] \o s[i]]
    <3>1. \E f : Joining(s, Len(s), f)
      BY <1>1, JoiningExists
    <3> QED
      BY <3>1, Zenon DEF Joining
  <2> HIDE DEF flat
  <2>8. \A i \in 1 .. Len(s) : i # 1 => flat[i] = flat[i - 1] \o s[i]
    BY <2>2
  <2> DEFINE T == {n \in Nat : n + 1 <= Len(s) => flat[n + 1] \in Q}
  <2>3. 0 \in T
    <3>1. flat[1] = s[1] /\ s[1] \in Q
      BY <1>1, <1>3, <2>2
    <3> QED
      BY <3>1
  <2>4. ASSUME NEW n \in T PROVE n + 1 \in T
    <3> SUFFICES ASSUME n + 2 <= Len(s) PROVE flat[n + 2] \in Q
      OBVIOUS
    <3>1. n + 2 \in 1 .. Len(s) /\ n + 2 # 1 /\ n + 2 - 1 = n + 1 /\ n + 1 <= Len(s)
      BY <1>1
    <3>2. flat[n + 2] = flat[n + 1] \o s[n + 2]
      <4>1. PICK j : j = n + 2
        OBVIOUS
      <4>2. j \in 1 .. Len(s) /\ j # 1 /\ j - 1 = n + 1
        BY <3>1, <4>1
      <4> HIDE DEF T
      <4>3. flat[j] = flat[j - 1] \o s[j]
        BY <2>8, <4>2
      <4> QED
        BY <4>1, <4>2, <4>3
    <3>3. flat[n + 1] \in Q
      BY <3>1
    <3>4. s[n + 2] \in Q
      BY <1>1, <3>1
    <3> HIDE DEF T
    <3> QED
      BY <3>2, <3>3, <3>4 DEF Joins
  <2>5. T = Nat
    <3>1. T \in SUBSET Nat
      OBVIOUS
    <3> HIDE DEF T
    <3> QED
      BY <2>3, <2>4, <3>1, AllNumbers
  <2>6. PICK m \in Nat : m + 1 = Len(s)
    <3>1. Len(s) - 1 \in Nat /\ Len(s) - 1 + 1 = Len(s)
      BY <1>1, <1>3
    <3> QED
      BY <3>1
  <2>7. flat[m + 1] \in Q
    <3>1. m \in T
      BY <2>5
    <3> QED
      BY <2>6, <3>1
  <2> QED
    BY <2>1, <2>6, <2>7
<1> QED
  BY <1>2, <1>3

(* One step of FreedTo.                                                    *)
Below(f, p) ==
  [k \in 1 .. Size(p[2]) - 2 |-> f[<<p[1] - 1, Block(p[2])[k + 2].inum>>]]

FreedStep(f, p) ==
  FreedBits(p[2]) \o
    IF p[1] = 0 \/ disk.inode[p[2]].type = "FILE" THEN <<>> ELSE FlattenSeq(Below(f, p))

ToDepth(n, f) == f = [p \in (0 .. n) \X Inums |-> FreedStep(f, p)]

(* What a directory has lies within its block, and leads to inodes.        *)
LEMMA EntriesAreInodes ==
  ASSUME disk \in Disks, NEW i \in Inums, disk.inode[i].type # "FILE"
  PROVE  /\ Size(i) \in Nat /\ Size(i) - 2 \in Nat
         /\ \A k \in 1 .. Size(i) - 2 : Block(i)[k + 2].inum \in Inums
<1>1. disk.inode[i] \in Inodes /\ disk.inode[i].type = "DIRECTORY"
  BY DEF Disks, Inodes, Kinds
<1>2. Size(i) \in 2 .. BlockEntries /\ disk.inode[i].block \in Blocks
  BY <1>1 DEF Inodes, Size
<1>3. Block(i) \in [Slots -> Entries]
  BY <1>2 DEF Disks, Block
<1>4. \A k \in 1 .. Size(i) - 2 : k + 2 \in Slots
  BY <1>2 DEF Slots
<1> QED
  BY <1>2, <1>3, <1>4 DEF Entries

(* FreedTo can be continued to any depth.                                  *)
LEMMA DepthExists ==
  ASSUME disk \in Disks, NEW n \in Nat
  PROVE  \E f : ToDepth(n, f)
<1> DEFINE T == {m \in Nat : \E f : ToDepth(m, f)}
<1>1. 0 \in T
  <2> DEFINE f == [p \in (0 .. 0) \X Inums |-> FreedBits(p[2]) \o <<>>]
  <2>1. \A p \in (0 .. 0) \X Inums : p[1] = 0
    OBVIOUS
  <2>2. \A p \in (0 .. 0) \X Inums : FreedStep(f, p) = FreedBits(p[2]) \o <<>>
    BY <2>1 DEF FreedStep
  <2>3. ToDepth(0, f)
    BY <2>2 DEF ToDepth
  <2> QED
    BY <2>3, Zenon
<1>2. ASSUME NEW m \in T PROVE m + 1 \in T
  <2>1. m \in Nat /\ m + 1 \in Nat
    OBVIOUS
  <2>2. PICK f : ToDepth(m, f)
    OBVIOUS
  <2> DEFINE X == (0 .. m + 1) \X Inums
             g == [p \in X |-> FreedStep(f, p)]
  <2>3. \A p \in (0 .. m) \X Inums : p \in X /\ f[p] = FreedStep(f, p)
    BY <2>1, <2>2 DEF ToDepth
  <2>4. \A p \in (0 .. m) \X Inums : g[p] = f[p]
    BY <2>3
  <2>5. ASSUME NEW p \in X PROVE FreedStep(g, p) = FreedStep(f, p)
    <3>1. CASE p[1] = 0 \/ disk.inode[p[2]].type = "FILE"
      BY <3>1 DEF FreedStep
    <3>2. CASE ~(p[1] = 0 \/ disk.inode[p[2]].type = "FILE")
      <4>1. p[1] - 1 \in 0 .. m /\ p[2] \in Inums
        BY <2>1, <3>2
      <4>2. \A k \in 1 .. Size(p[2]) - 2 : Block(p[2])[k + 2].inum \in Inums
        BY <3>2, <4>1, EntriesAreInodes
      <4>3. \A k \in 1 .. Size(p[2]) - 2 : <<p[1] - 1, Block(p[2])[k + 2].inum>> \in (0 .. m) \X Inums
        BY <4>1, <4>2
      <4> HIDE DEF g, X
      <4>4. Below(g, p) = Below(f, p)
        BY <2>4, <4>3 DEF Below
      <4> QED
        BY <4>4 DEF FreedStep
    <3> QED
      BY <3>1, <3>2
  <2>6. ToDepth(m + 1, g)
    <3>1. g = [p \in X |-> FreedStep(g, p)]
      <4>1. \A p \in X : g[p] = FreedStep(f, p)
        OBVIOUS
      <4>2. g = [p \in X |-> g[p]]
        OBVIOUS
      <4> HIDE DEF g, X
      <4> QED
        BY <2>5, <4>1, <4>2
    <3> HIDE DEF g
    <3> QED
      BY <3>1 DEF ToDepth
  <2> HIDE DEF g
  <2> QED
    BY <2>1, <2>6, Zenon
<1>3. T = Nat
  <2>1. T \in SUBSET Nat
    OBVIOUS
  <2> HIDE DEF T
  <2> QED
    BY <1>1, <1>2, <2>1, AllNumbers
<1> QED
  BY <1>3

(* FreedTo is what its definition says.                                    *)
LEMMA FreedToSteps ==
  ASSUME disk \in Disks
  PROVE  ToDepth(INODE_NUM, FreedTo)
<1>1. \E f : ToDepth(INODE_NUM, f)
  BY DepthExists
<1>2. FreedTo = CHOOSE f : ToDepth(INODE_NUM, f)
  BY Zenon DEF FreedTo, ToDepth, FreedStep, Below
<1> QED
  BY <1>1, <1>2, Zenon

(* The bits of inode i and of its block.                                   *)
BlockBit(D, i) == Put("blockmap", D.inode[i].block, FALSE)
InodeBit(i) == Put("inodemap", i, FALSE)

Bits(D, P) == {BlockBit(D, p) : p \in P} \cup {InodeBit(p) : p \in P}

(* Lists of bits of P, in which each inode's bit is behind its block's.    *)
Pair(D, w, k, p) == w[k] = BlockBit(D, p) /\ w[k + 1] = InodeBit(p)

Paired(D, P) ==
  {w \in Seq(Bits(D, P)) : \A k \in 1 .. Len(w) : \E p \in P :
     \/ k < Len(w) /\ Pair(D, w, k, p)
     \/ k > 1 /\ Pair(D, w, k - 1, p)}

(* Two such lists make one.                                                *)
LEMMA PairedJoins ==
  ASSUME NEW D, NEW P
  PROVE  Joins(Paired(D, P))
<1> DEFINE Q == Seq(Bits(D, P))
<1>1. <<>> \in Paired(D, P)
  BY DEF Paired
<1>2. ASSUME NEW u \in Paired(D, P), NEW v \in Paired(D, P) PROVE u \o v \in Paired(D, P)
  <2> DEFINE w == u \o v
  <2>1. u \in Q /\ v \in Q
    BY DEF Paired
  <2>2. w \in Q /\ Len(w) = Len(u) + Len(v) /\ Len(u) \in Nat /\ Len(v) \in Nat
    BY <2>1
  <2>3. \A k \in 1 .. Len(u) : w[k] = u[k]
    BY <2>1
  <2>4. \A k \in 1 .. Len(v) : w[Len(u) + k] = v[k]
    BY <2>1
  <2> HIDE DEF w
  <2>5. ASSUME NEW k \in 1 .. Len(w)
        PROVE  \E p \in P : (k < Len(w) /\ Pair(D, w, k, p)) \/ (k > 1 /\ Pair(D, w, k - 1, p))
    <3>1. CASE k \in 1 .. Len(u)
      <4>1. PICK p \in P : (k < Len(u) /\ Pair(D, u, k, p)) \/ (k > 1 /\ Pair(D, u, k - 1, p))
        BY <3>1 DEF Paired
      <4>2. CASE k < Len(u) /\ Pair(D, u, k, p)
        <5>1. k < Len(w) /\ k + 1 \in 1 .. Len(u)
          BY <2>2, <4>2
        <5> QED
          BY <2>3, <3>1, <4>2, <5>1 DEF Pair
      <4>3. CASE k > 1 /\ Pair(D, u, k - 1, p)
        <5>1. k - 1 \in 1 .. Len(u) /\ k - 1 + 1 = k
          BY <2>2, <3>1, <4>3
        <5>2. w[k - 1] = u[k - 1] /\ w[k] = u[k]
          BY <2>3, <3>1, <5>1
        <5> QED
          BY <4>3, <5>1, <5>2 DEF Pair
      <4> QED
        BY <4>1, <4>2, <4>3
    <3>2. CASE k \notin 1 .. Len(u)
      <4>1. PICK j \in 1 .. Len(v) : k = Len(u) + j
        <5>1. k - Len(u) \in 1 .. Len(v) /\ k = Len(u) + (k - Len(u))
          BY <2>2, <3>2
        <5> QED
          BY <5>1
      <4>2. PICK p \in P : (j < Len(v) /\ Pair(D, v, j, p)) \/ (j > 1 /\ Pair(D, v, j - 1, p))
        BY <4>1 DEF Paired
      <4>3. CASE j < Len(v) /\ Pair(D, v, j, p)
        <5>1. k < Len(w) /\ j + 1 \in 1 .. Len(v) /\ k + 1 = Len(u) + (j + 1)
          BY <2>2, <4>1, <4>3
        <5>2. w[k] = v[j] /\ w[k + 1] = v[j + 1]
          BY <2>4, <4>1, <5>1
        <5> QED
          BY <4>3, <5>1, <5>2 DEF Pair
      <4>4. CASE j > 1 /\ Pair(D, v, j - 1, p)
        <5>1. k > 1 /\ j - 1 \in 1 .. Len(v) /\ k - 1 = Len(u) + (j - 1) /\ k - 1 + 1 = k /\ j - 1 + 1 = j
          BY <2>2, <4>1, <4>4
        <5>2. w[k] = v[j] /\ w[k - 1] = v[j - 1]
          BY <2>4, <4>1, <5>1
        <5> QED
          BY <4>4, <5>1, <5>2 DEF Pair
      <4> QED
        BY <4>2, <4>3, <4>4
    <3> QED
      BY <3>1, <3>2
  <2> QED
    BY <2>2, <2>5 DEF Paired, w
<1> QED
  BY <1>1, <1>2 DEF Joins

(* The bits of one inode.                                                  *)
LEMMA FreedBitsPaired ==
  ASSUME NEW P, NEW i \in P
  PROVE  FreedBits(i) \in Paired(disk, P)
<1> DEFINE a == BlockBit(disk, i)
           b == InodeBit(i)
           w == <<a, b>>
<1>1. FreedBits(i) = w
  BY DEF FreedBits, BlockBit, InodeBit
<1>2. a \in Bits(disk, P) /\ b \in Bits(disk, P)
  BY DEF Bits
<1>3. Pair(disk, w, 1, i)
  BY DEF Pair
<1>4. w \in Seq(Bits(disk, P)) /\ Len(w) = 2
  BY <1>2
<1> HIDE DEF a, b, w
<1>5. ASSUME NEW k \in 1 .. Len(w)
      PROVE  \E p \in P : (k < Len(w) /\ Pair(disk, w, k, p)) \/ (k > 1 /\ Pair(disk, w, k - 1, p))
  <2>1. k = 1 \/ (k = 2 /\ k - 1 = 1)
    BY <1>4
  <2> QED
    BY <1>3, <1>4, <2>1
<1> QED
  BY <1>1, <1>4, <1>5 DEF Paired

(* From inodes of P the entries of directories lead to inodes of P.        *)
ClosedBelow(P) ==
  P \subseteq Inums /\ \A p \in P : disk.inode[p].type # "FILE" =>
    \A k \in 3 .. Size(p) : Block(p)[k].inum \in P

(* A removal of an inode of P clears bits of P only.                       *)
LEMMA FreedPaired ==
  ASSUME disk \in Disks, NEW P, ClosedBelow(P), NEW i \in P
  PROVE  Freed(i) \in Paired(disk, P)
<1> DEFINE Q == Paired(disk, P)
           T == {n \in Nat : n <= INODE_NUM => \A p \in P : FreedTo[<<n, p>>] \in Q}
<1>1. \A n \in Nat, p \in P : n <= INODE_NUM => FreedTo[<<n, p>>] = FreedStep(FreedTo, <<n, p>>)
  <2>1. \A n \in Nat, p \in P : n <= INODE_NUM => <<n, p>> \in (0 .. INODE_NUM) \X Inums
    BY DEF ClosedBelow
  <2> QED
    BY <2>1, FreedToSteps DEF ToDepth
<1>2. \A p \in P : FreedBits(p) \in Q
  BY FreedBitsPaired
<1>3. Joins(Q)
  BY PairedJoins
<1> HIDE DEF Q
<1>4. 0 \in T
  <2>1. \A p \in P : FreedTo[<<0, p>>] = FreedBits(p) \o <<>>
    <3>1. \A p \in P : FreedTo[<<0, p>>] = FreedStep(FreedTo, <<0, p>>)
      BY <1>1
    <3>2. \A p \in P : FreedStep(FreedTo, <<0, p>>) = FreedBits(p) \o <<>>
      BY DEF FreedStep
    <3> QED
      BY <3>1, <3>2
  <2> QED
    BY <1>2, <1>3, <2>1 DEF Joins
<1>5. ASSUME NEW n \in T PROVE n + 1 \in T
  <2> SUFFICES ASSUME n + 1 <= INODE_NUM, NEW p \in P PROVE FreedTo[<<n + 1, p>>] \in Q
    OBVIOUS
  <2>1. n \in Nat /\ n + 1 \in Nat /\ n + 1 # 0 /\ n + 1 - 1 = n /\ n <= INODE_NUM
    OBVIOUS
  <2>2. \A q \in P : FreedTo[<<n, q>>] \in Q
    BY <2>1
  <2> HIDE DEF T
  <2>3. FreedTo[<<n + 1, p>>] = FreedBits(p) \o
          IF disk.inode[p].type = "FILE" THEN <<>> ELSE FlattenSeq(Below(FreedTo, <<n + 1, p>>))
    BY <1>1, <2>1 DEF FreedStep
  <2>4. CASE disk.inode[p].type = "FILE"
    BY <1>2, <1>3, <2>3, <2>4 DEF Joins
  <2>5. CASE disk.inode[p].type # "FILE"
    <3>1. p \in Inums /\ Size(p) \in Nat /\ Size(p) - 2 \in Nat
      BY <2>5, EntriesAreInodes DEF ClosedBelow
    <3>2. \A k \in 1 .. Size(p) - 2 : Block(p)[k + 2].inum \in P
      <4>1. \A k \in 1 .. Size(p) - 2 : k + 2 \in 3 .. Size(p)
        BY <3>1
      <4> QED
        BY <2>5, <4>1 DEF ClosedBelow
    <3> DEFINE s == Below(FreedTo, <<n + 1, p>>)
    <3>3. s = [k \in 1 .. Size(p) - 2 |-> FreedTo[<<n, Block(p)[k + 2].inum>>]]
      BY <2>1 DEF Below
    <3> HIDE DEF s
    <3>4. s \in Seq(Q)
      <4> DEFINE N == Size(p) - 2
                 e(k) == FreedTo[<<n, Block(p)[k + 2].inum>>]
      <4>1. N \in Nat /\ s = [k \in 1 .. N |-> e(k)] /\ \A k \in 1 .. N : e(k) \in Q
        BY <2>2, <3>1, <3>2, <3>3
      <4> HIDE DEF N, e
      <4> QED
        BY <4>1
    <3>5. FlattenSeq(s) \in Q
      BY <1>3, <3>4, JoinedLists
    <3> QED
      BY <1>2, <1>3, <2>3, <2>5, <3>5 DEF Joins, s
  <2> QED
    BY <2>4, <2>5
<1>6. T = Nat
  <2>1. T \in SUBSET Nat
    OBVIOUS
  <2> HIDE DEF T
  <2> QED
    BY <1>4, <1>5, <2>1, AllNumbers
<1>7. Freed(i) \in Q
  <2>1. INODE_NUM \in T
    BY <1>6
  <2> QED
    BY <2>1 DEF Freed
<1> QED
  BY <1>7 DEF Q

(* w clears bits of inodes of S; it may begin with an inode's bit whose    *)
(* block's bit is clear.                                                   *)
Clears(D, w, S) ==
  /\ w \in Seq(Bits(D, S))
  /\ \A k \in 1 .. Len(w) : \E p \in S :
       \/ w[k] = BlockBit(D, p)
       \/ w[k] = InodeBit(p) /\ (IF k = 1 THEN ~D.blockmap[D.inode[p].block]
                                           ELSE w[k - 1] = BlockBit(D, p))

(* The inodes whose bits are in w.                                         *)
Cleared(w, P) == {p \in P : InodeBit(p) \in ToSet(w)}

(* Lists of pairs clear the bits of the inodes in them.                    *)
LEMMA PairedClears ==
  ASSUME NEW D, NEW P, NEW w \in Paired(D, P)
  PROVE  Clears(D, w, Cleared(w, P))
<1> DEFINE S == Cleared(w, P)
<1>1. w \in Seq(Bits(D, P)) /\ Len(w) \in Nat /\ DOMAIN w = 1 .. Len(w)
  BY DEF Paired
<1>2. \A k \in 1 .. Len(w) : \A p \in P : w[k] = InodeBit(p) => p \in S
  BY <1>1 DEF Cleared, ToSet
<1>3. ASSUME NEW k \in 1 .. Len(w)
      PROVE  \E p \in S : w[k] = BlockBit(D, p) \/ (w[k] = InodeBit(p) /\ k # 1 /\ w[k - 1] = BlockBit(D, p))
  <2>1. PICK p \in P : (k < Len(w) /\ Pair(D, w, k, p)) \/ (k > 1 /\ Pair(D, w, k - 1, p))
    BY DEF Paired
  <2>2. CASE k < Len(w) /\ Pair(D, w, k, p)
    <3>1. k + 1 \in 1 .. Len(w)
      BY <1>1, <2>2
    <3> QED
      BY <1>2, <2>2, <3>1 DEF Pair
  <2>3. CASE k > 1 /\ Pair(D, w, k - 1, p)
    <3>1. k - 1 + 1 = k /\ k # 1
      BY <1>1, <2>3
    <3> QED
      BY <1>2, <2>3, <3>1 DEF Pair
  <2> QED
    BY <2>1, <2>2, <2>3
<1>4. \A k \in 1 .. Len(w) : w[k] \in Bits(D, S)
  BY <1>3 DEF Bits
<1> HIDE DEF S
<1>5. w \in Seq(Bits(D, S))
  <2>1. w = [k \in 1 .. Len(w) |-> w[k]]
    BY <1>1
  <2> QED
    BY <1>1, <1>4, <2>1
<1> QED
  BY <1>3, <1>5 DEF Clears, S

-----------------------------------------------------------------------------
(* A write.                                                                *)

SetAt(D, f, x, v) == [D EXCEPT ![f] = [@ EXCEPT ![x] = v]]

(* Disk E is D with one new inode, block, or bit of either kind.           *)
NewInode(D, E, x, v) ==
  /\ E \in Disks /\ E.inode = [D.inode EXCEPT ![x] = v]
  /\ E.inodemap = D.inodemap /\ E.blockmap = D.blockmap /\ E.data = D.data

NewData(D, E, x, v) ==
  /\ E \in Disks /\ E.data = [D.data EXCEPT ![x] = v]
  /\ E.inodemap = D.inodemap /\ E.blockmap = D.blockmap /\ E.inode = D.inode

NewInodeBit(D, E, x, v) ==
  /\ E \in Disks /\ E.inodemap = [D.inodemap EXCEPT ![x] = v]
  /\ E.blockmap = D.blockmap /\ E.inode = D.inode /\ E.data = D.data

NewBlockBit(D, E, x, v) ==
  /\ E \in Disks /\ E.blockmap = [D.blockmap EXCEPT ![x] = v]
  /\ E.inodemap = D.inodemap /\ E.inode = D.inode /\ E.data = D.data

(* What a write changes.                                                   *)
LEMMA SetChanges ==
  ASSUME NEW D \in Disks, NEW x, NEW v
  PROVE  /\ x \in Inums /\ v \in Inodes => NewInode(D, SetAt(D, "inode", x, v), x, v)
         /\ x \in Blocks /\ v \in [Slots -> Entries] => NewData(D, SetAt(D, "data", x, v), x, v)
         /\ x \in Inums /\ v \in BOOLEAN => NewInodeBit(D, SetAt(D, "inodemap", x, v), x, v)
         /\ x \in Blocks /\ v \in BOOLEAN => NewBlockBit(D, SetAt(D, "blockmap", x, v), x, v)
<1>1. D["inode"] = D.inode /\ D["data"] = D.data /\ D["inodemap"] = D.inodemap /\ D["blockmap"] = D.blockmap
  BY DEF Disks
<1>2. x \in Inums /\ v \in Inodes => NewInode(D, SetAt(D, "inode", x, v), x, v)
  BY <1>1 DEF SetAt, Disks, NewInode
<1>3. x \in Blocks /\ v \in [Slots -> Entries] => NewData(D, SetAt(D, "data", x, v), x, v)
  BY <1>1 DEF SetAt, Disks, NewData
<1>4. x \in Inums /\ v \in BOOLEAN => NewInodeBit(D, SetAt(D, "inodemap", x, v), x, v)
  BY <1>1 DEF SetAt, Disks, NewInodeBit
<1>5. x \in Blocks /\ v \in BOOLEAN => NewBlockBit(D, SetAt(D, "blockmap", x, v), x, v)
  BY <1>1 DEF SetAt, Disks, NewBlockBit
<1> QED
  BY <1>2, <1>3, <1>4, <1>5

(* The step that takes the first write, a, and leaves the others, r.       *)
Takes(a, r) ==
  /\ disk' = [disk EXCEPT ![a[1]] = [x \in DOMAIN @ |-> IF x \in DOMAIN a[2] THEN a[2][x] ELSE @[x]]]
  /\ todo' = r /\ clearing' = (clearing /\ r # <<>>)
  /\ calls' = calls /\ current_inode' = current_inode /\ fd_table' = fd_table

(* It takes one after the other.                                           *)
LEMMA TakesNext ==
  ASSUME Write, clearing \in BOOLEAN, NEW S, NEW r \in Seq(S), NEW a, todo = <<a>> \o r
  PROVE  Takes(a, r)
<1>1. Head(todo) = a /\ Tail(todo) = r /\ (Len(todo) > 1 <=> r # <<>>)
  <2>1. Head(<<a>> \o r) = a /\ Tail(<<a>> \o r) = r /\ (Len(<<a>> \o r) > 1 <=> r # <<>>)
    OBVIOUS
  <2> QED
    BY <2>1
<1>2. /\ disk' = [disk EXCEPT ![Head(todo)[1]] =
                    [x \in DOMAIN @ |-> IF x \in DOMAIN Head(todo)[2] THEN Head(todo)[2][x] ELSE @[x]]]
      /\ todo' = Tail(todo) /\ clearing' = (clearing /\ Len(todo) > 1)
      /\ calls' = calls /\ current_inode' = current_inode /\ fd_table' = fd_table
  BY Zenon DEF Write
<1>3. clearing' = (clearing /\ r # <<>>)
  BY <1>1, <1>2
<1> QED
  BY <1>1, <1>2, <1>3, Zenon DEF Takes

(* A write of one place.                                                   *)
LEMMA PutAt ==
  ASSUME NEW f, NEW x, NEW v, NEW r, Takes(Put(f, x, v), r)
  PROVE  disk' = SetAt(disk, f, x, v) /\ todo' = r /\ clearing' = (clearing /\ r # <<>>)
<1> DEFINE a == Put(f, x, v)
<1>1. a[1] = f /\ a[2] = [y \in {x} |-> v]
  BY DEF Put
<1>2. DOMAIN a[2] = {x} /\ a[2][x] = v
  BY <1>1
<1> HIDE DEF a
<1>3. [y \in DOMAIN disk[f] |-> IF y \in DOMAIN a[2] THEN a[2][y] ELSE disk[f][y]] = [disk[f] EXCEPT ![x] = v]
  BY <1>2
<1> QED
  BY <1>1, <1>3 DEF Takes, SetAt, a

-----------------------------------------------------------------------------
(* A disk in order.                                                        *)

(* The inodes that programs hold.                                          *)
Held == {current_inode} \cup {fd_table[fd] : fd \in Fds}

Kept(D, X) == \A i \in X : D.inodemap[i] /\ D.blockmap[D.inode[i].block]

Sound(D, H) == Shape(D, H) /\ Kept(D, UsedIn(D) \cup H)

KeepsBits(D, E) ==
  /\ \A i \in Inums : D.inodemap[i] => E.inodemap[i]
  /\ \A b \in Blocks : D.blockmap[b] => E.blockmap[b]

(* It stays so when the write leaves the tree as it is.                    *)
LEMMA FrameSound ==
  ASSUME NEW D, NEW E, NEW H, Frame(D, E, H), KeepsBits(D, E), Sound(D, H)
  PROVE  SameNames(D, E) /\ Sound(E, H)
<1>1. SameNames(D, E) /\ Shape(E, H) /\ UsedIn(E) = UsedIn(D)
  BY FrameShape DEF Sound, SameNames
<1>2. D \in Disks /\ DirsOK(D) /\ H \subseteq Inums
  BY DEF Sound, Shape
<1>3. UsedIn(D) \cup H \subseteq Inums
  BY <1>2, ShapeFacts
<1>4. \A i \in UsedIn(D) \cup H : E.inode[i].block = D.inode[i].block /\ D.inode[i].block \in Blocks
  BY DEF Frame, Keeps, Sound, Shape, OwnBlocks
<1>5. Kept(E, UsedIn(D) \cup H)
  BY <1>3, <1>4 DEF Kept, Sound, KeepsBits
<1> QED
  BY <1>1, <1>5 DEF Sound

(* Programs may hold less, or names may do instead.                        *)
LEMMA SoundLess ==
  ASSUME NEW D, NEW H, Sound(D, H), NEW G \in SUBSET (UsedIn(D) \cup H)
  PROVE  Sound(D, G)
<1>1. D \in Disks /\ DirsOK(D) /\ H \subseteq Inums
  BY DEF Sound, Shape
<1>2. UsedIn(D) \cup H \subseteq Inums
  BY <1>1, ShapeFacts
<1> QED
  BY <1>2 DEF Sound, Shape, Kept, OwnBlocks

(* They may hold an inode more, with its bits and a block of its own.      *)
LEMMA SoundMore ==
  ASSUME NEW D, NEW H, Sound(D, H), NEW i \in Inums, D.inode[i].block \in Blocks,
         \A j \in UsedIn(D) \cup H : D.inode[j].block # D.inode[i].block,
         D.inodemap[i], D.blockmap[D.inode[i].block]
  PROVE  Sound(D, H \cup {i})
BY DEF Sound, Shape, Kept, OwnBlocks

(* Writes of bits leave the tree as it is,                                 *)
LEMMA BitsFrame ==
  ASSUME NEW D, NEW H, Shape(D, H), NEW E \in Disks, E.inode = D.inode, E.data = D.data
  PROVE  Frame(D, E, H)
<1>1. D \in Disks /\ \A i \in UsedIn(D) \cup H : D.inode[i].ref \in Int
  <2>1. D \in Disks /\ DirsOK(D) /\ H \subseteq Inums
    BY DEF Shape
  <2>2. UsedIn(D) \cup H \subseteq Inums
    BY <2>1, ShapeFacts
  <2> QED
    BY <2>1, <2>2 DEF Disks, Inodes
<1> QED
  BY <1>1 DEF Frame, Keeps, SameEntries, BlockOf

(* and so does that of an inode that is not in use,                        *)
LEMMA InodeFrame ==
  ASSUME NEW D, NEW H, Shape(D, H), NEW E \in Disks, NEW i \in Inums, i \notin UsedIn(D) \cup H,
         NEW v, E.inode = [D.inode EXCEPT ![i] = v], E.data = D.data
  PROVE  Frame(D, E, H)
<1>1. D \in Disks /\ DirsIn(D) \subseteq UsedIn(D) /\ UsedIn(D) \cup H \subseteq Inums
  <2>1. D \in Disks /\ DirsOK(D) /\ H \subseteq Inums
    BY DEF Shape
  <2> QED
    BY <2>1, ShapeFacts
<1>2. \A j \in UsedIn(D) \cup H : E.inode[j] = D.inode[j] /\ D.inode[j].ref \in Int
  BY <1>1 DEF Disks, Inodes
<1> QED
  BY <1>1, <1>2 DEF Frame, Keeps, SameEntries, BlockOf

(* that of a file which counts no less,                                    *)
LEMMA FileFrame ==
  ASSUME NEW D, NEW H, Shape(D, H), NEW E \in Disks, NEW f \in Inums, D.inode[f].type = "FILE",
         NEW v, v.type = "FILE", v.block = D.inode[f].block, v.ref >= D.inode[f].ref,
         E.inode = [D.inode EXCEPT ![f] = v], E.data = D.data
  PROVE  Frame(D, E, H)
<1>1. D \in Disks /\ DirsIn(D) \subseteq UsedIn(D) /\ UsedIn(D) \cup H \subseteq Inums
  <2>1. D \in Disks /\ DirsOK(D) /\ H \subseteq Inums
    BY DEF Shape
  <2> QED
    BY <2>1, ShapeFacts
<1>2. \A j \in UsedIn(D) \cup H : E.inode[j] = (IF j = f THEN v ELSE D.inode[j]) /\ D.inode[j].ref \in Int
  BY <1>1 DEF Disks, Inodes
<1>3. \A d \in DirsIn(D) : D.inode[d].type = "DIRECTORY"
  BY DEF Shape, DirsOK, DirOK
<1> QED
  BY <1>1, <1>2, <1>3 DEF Frame, Keeps, SameEntries, BlockOf

(* and that of a block, where no directory has entries.                    *)
OneBlock(D, E, b, v) == b \in Blocks /\ E.data = [D.data EXCEPT ![b] = v] /\ E.inode = D.inode

EntriesAmong(D, b, v) ==
  \A d \in DirsIn(D) : D.inode[d].block = b => \A k \in 1 .. D.inode[d].size : v[k] = BlockOf(D, d)[k]

(* The entries of directories that have that block stay.                   *)
LEMMA BlockFrame ==
  ASSUME NEW D, NEW H, Shape(D, H), NEW E \in Disks, NEW b, NEW v,
         OneBlock(D, E, b, v), EntriesAmong(D, b, v)
  PROVE  Frame(D, E, H)
<1>1. D \in Disks /\ DirsIn(D) \subseteq UsedIn(D) /\ UsedIn(D) \cup H \subseteq Inums
  <2>1. D \in Disks /\ DirsOK(D) /\ H \subseteq Inums
    BY DEF Shape
  <2> QED
    BY <2>1, ShapeFacts
<1>2. \A j \in UsedIn(D) \cup H : D.inode[j].ref \in Int
  BY <1>1 DEF Disks, Inodes
<1>3. \A d \in DirsIn(D) : D.inode[d].block \in Blocks
  BY DEF Shape, DirsOK, DirOK
<1>4. \A d \in DirsIn(D) : SameEntries(D, E, d)
  BY <1>1, <1>3 DEF Disks, SameEntries, BlockOf, OneBlock, EntriesAmong
<1> QED
  BY <1>1, <1>2, <1>4 DEF Frame, Keeps, OneBlock

-----------------------------------------------------------------------------
(* What do_mkdir, do_touch and do_fopen leave to be written.               *)

EntryIn(D, d, n, t, i) == [BlockOf(D, d) EXCEPT ![D.inode[d].size + 1] = Entry(n, t, i)]

Naming(D, d, n, t, i) ==
  <<Put("data", D.inode[d].block, EntryIn(D, d, n, t, i))>> \o <<Put("inode", d, Resize(D.inode[d], 1))>>

Filling(D, d, n, t, i, b) ==
  IF t = "DIRECTORY"
  THEN <<Put("data", b, FirstSector(NewBlock(d, i), D.data[b]))>> \o Naming(D, d, n, t, i)
  ELSE Naming(D, d, n, t, i)

Making(D, d, n, t, i, b) == <<Put("inode", i, Inode(t, b))>> \o Filling(D, d, n, t, i, b)

(* Lists of the same length with the same places are the same.             *)
LEMMA SameLists ==
  ASSUME NEW S, NEW u \in Seq(S), NEW v \in Seq(S), Len(u) = Len(v), \A k \in 1 .. Len(u) : u[k] = v[k]
  PROVE  u = v
OBVIOUS

(* A pair is one write and another.                                        *)
LEMMA TwoWrites ==
  ASSUME NEW S, NEW a \in S, NEW b \in S
  PROVE  <<a, b>> = <<a>> \o <<b>>
<1>1. <<a>> \in Seq(S) /\ <<b>> \in Seq(S) /\ <<a, b>> \in Seq(S)
  OBVIOUS
<1>2. Len(<<a>> \o <<b>>) = 2 /\ (<<a>> \o <<b>>)[1] = a /\ (<<a>> \o <<b>>)[2] = b
  BY <1>1
<1>3. <<a>> \o <<b>> \in Seq(S)
  BY <1>1
<1>4. \A k \in 1 .. 2 : (<<a>> \o <<b>>)[k] = <<a, b>>[k]
  BY <1>2
<1>5. Len(<<a, b>>) = 2
  OBVIOUS
<1> QED
  BY <1>1, <1>2, <1>3, <1>4, <1>5, SameLists

(* What is joined last can be joined first.                                *)
LEMMA JoinedAnyhow ==
  ASSUME NEW S, NEW u \in Seq(S), NEW v \in Seq(S), NEW w \in Seq(S)
  PROVE  (u \o v) \o w = u \o (v \o w)
<1> DEFINE x == (u \o v) \o w
           y == u \o (v \o w)
           i == Len(u)
           j == Len(v)
           k == Len(w)
<1>1. u \o v \in Seq(S) /\ v \o w \in Seq(S) /\ i \in Nat /\ j \in Nat /\ k \in Nat
  OBVIOUS
<1>2. Len(u \o v) = i + j /\ Len(v \o w) = j + k
  OBVIOUS
<1>3. x \in Seq(S) /\ y \in Seq(S) /\ Len(x) = i + j + k /\ Len(y) = i + (j + k)
  BY <1>1, <1>2
<1>4. \A p \in 1 .. i : (u \o v)[p] = u[p] /\ y[p] = u[p]
  BY <1>1
<1>5. \A p \in 1 .. j : (u \o v)[i + p] = v[p] /\ (v \o w)[p] = v[p]
  BY <1>1
<1>6. \A p \in 1 .. i + j : x[p] = (u \o v)[p]
  BY <1>1, <1>2
<1>7. \A p \in 1 .. k : x[i + j + p] = w[p] /\ (v \o w)[j + p] = w[p]
  BY <1>1, <1>2
<1>8. \A p \in 1 .. j + k : y[i + p] = (v \o w)[p]
  BY <1>1, <1>2
<1> HIDE DEF x, y, i, j, k
<1>9. ASSUME NEW p \in 1 .. i + j + k PROVE x[p] = y[p]
  <2>1. CASE p \in 1 .. i
    <3>1. p \in 1 .. i + j
      BY <1>1, <2>1
    <3> QED
      BY <1>4, <1>6, <2>1, <3>1
  <2>2. CASE p \in i + 1 .. i + j
    <3>1. PICK q \in 1 .. j : p = i + q
      <4>1. p - i \in 1 .. j /\ p = i + (p - i)
        BY <1>1, <2>2
      <4> QED
        BY <4>1
    <3>2. p \in 1 .. i + j /\ q \in 1 .. j + k
      BY <1>1, <2>2
    <3> QED
      BY <1>5, <1>6, <1>8, <3>1, <3>2
  <2>3. CASE p \in i + j + 1 .. i + j + k
    <3>1. PICK q \in 1 .. k : p = i + j + q
      <4>1. p - (i + j) \in 1 .. k /\ p = i + j + (p - (i + j))
        BY <1>1, <2>3
      <4> QED
        BY <4>1
    <3>2. j + q \in 1 .. j + k /\ p = i + (j + q)
      BY <1>1, <3>1
    <3>3. x[p] = w[q] /\ (v \o w)[j + q] = w[q]
      BY <1>7, <3>1
    <3>4. y[i + (j + q)] = (v \o w)[j + q]
      BY <1>8, <3>2
    <3> QED
      BY <3>2, <3>3, <3>4
  <2> QED
    BY <1>1, <2>1, <2>2, <2>3
<1>10. Len(x) = Len(y) /\ Len(x) = i + j + k
  BY <1>1, <1>3
<1>11. x = y
  BY <1>3, <1>9, <1>10, SameLists
<1> QED
  BY <1>11 DEF x, y

FourOf(S, a, b, c, d, r) == a \in S /\ b \in S /\ c \in S /\ d \in S /\ r \in Seq(S)
InFront(a, b, c, d, r) ==
  /\ <<a, b, c>> \o r = <<a>> \o (<<b>> \o (<<c>> \o r))
  /\ <<a, b, c, d>> \o r = <<a>> \o (<<b>> \o (<<c>> \o (<<d>> \o r)))

(* Three or four writes in front of others.                                *)
LEMMA WritesInFront ==
  ASSUME NEW S, NEW a, NEW b, NEW c, NEW d, NEW r, FourOf(S, a, b, c, d, r)
  PROVE  InFront(a, b, c, d, r)
<1> a \in S /\ b \in S /\ c \in S /\ d \in S /\ r \in Seq(S)
  BY DEF FourOf
<1>1. /\ <<a>> \in Seq(S) /\ <<b>> \in Seq(S) /\ <<c>> \in Seq(S) /\ <<d>> \in Seq(S)
      /\ <<b, c>> \in Seq(S) /\ <<c, d>> \in Seq(S)
  OBVIOUS
<1>2. <<a, b, c>> = <<a>> \o <<b, c>>
  OBVIOUS
<1>3. <<a, b, c, d>> = <<a>> \o <<b, c, d>> /\ <<b, c, d>> \in Seq(S)
  OBVIOUS
<1>4. <<b, c>> = <<b>> \o <<c>> /\ <<c, d>> = <<c>> \o <<d>> /\ <<b, c, d>> = <<b>> \o <<c, d>>
  <2>1. <<b, c, d>> = <<b>> \o <<c, d>>
    OBVIOUS
  <2> QED
    BY <2>1, TwoWrites
<1>5. <<b, c>> \o r = <<b>> \o (<<c>> \o r) /\ <<c, d>> \o r = <<c>> \o (<<d>> \o r)
  <2>1. (<<b>> \o <<c>>) \o r = <<b>> \o (<<c>> \o r)
    BY <1>1, JoinedAnyhow
  <2>2. (<<c>> \o <<d>>) \o r = <<c>> \o (<<d>> \o r)
    BY <1>1, JoinedAnyhow
  <2> QED
    BY <1>4, <2>1, <2>2, Zenon
<1>6. <<a, b, c>> \o r = <<a>> \o (<<b, c>> \o r)
  <2>1. (<<a>> \o <<b, c>>) \o r = <<a>> \o (<<b, c>> \o r)
    BY <1>1, JoinedAnyhow
  <2> QED
    BY <1>2, <2>1, Zenon
<1>7. <<b, c, d>> \o r = <<b>> \o (<<c, d>> \o r)
  <2>1. (<<b>> \o <<c, d>>) \o r = <<b>> \o (<<c, d>> \o r)
    BY <1>1, JoinedAnyhow
  <2> QED
    BY <1>4, <2>1, Zenon
<1>8. <<a, b, c, d>> \o r = <<a>> \o (<<b, c, d>> \o r)
  <2>1. (<<a>> \o <<b, c, d>>) \o r = <<a>> \o (<<b, c, d>> \o r)
    <3>1. <<a>> \in Seq(S) /\ <<b, c, d>> \in Seq(S) /\ r \in Seq(S)
      BY <1>1, <1>3
    <3> QED
      BY <3>1, JoinedAnyhow
  <2> QED
    BY <1>3, <2>1, Zenon
<1> QED
  BY <1>5, <1>6, <1>7, <1>8, Zenon DEF InFront

(* They are lists.                                                         *)
IsList(r) == \E S : r \in Seq(S)

(* A list with one write in front is a list.                               *)
LEMMA ListOfOneMore ==
  ASSUME NEW r, IsList(r), NEW a
  PROVE  IsList(<<a>> \o r)
<1>1. PICK S : r \in Seq(S)
  BY DEF IsList
<1>2. <<a>> \o r \in Seq(S \cup {a})
  <2>1. r \in Seq(S \cup {a}) /\ <<a>> \in Seq(S \cup {a})
    BY <1>1
  <2> QED
    BY <2>1
<1> QED
  BY <1>2 DEF IsList

(* A list of one write.                                                    *)
LEMMA ListOfOne ==
  ASSUME NEW a
  PROVE  IsList(<<a>>) /\ <<a>> # <<>> /\ <<a>> = <<a>> \o <<>> /\ IsList(<<>>)
<1>1. <<a>> \in Seq({a}) /\ <<>> \in Seq({a})
  OBVIOUS
<1>2. IsList(<<a>>)
  BY <1>1 DEF IsList
<1>3. IsList(<<>>)
  BY <1>1 DEF IsList
<1>4. <<a>> # <<>> /\ <<a>> = <<a>> \o <<>>
  OBVIOUS
<1> QED
  BY <1>2, <1>3, <1>4

(* All that is left in a creation is a list.                               *)
LEMMA ListsOfWrites ==
  ASSUME NEW D, NEW d, NEW n, NEW t, NEW i, NEW b
  PROVE  IsList(Naming(D, d, n, t, i)) /\ IsList(Filling(D, d, n, t, i, b)) /\ IsList(Making(D, d, n, t, i, b))
<1>1. IsList(Naming(D, d, n, t, i))
  BY ListOfOne, ListOfOneMore DEF Naming
<1>2. IsList(Filling(D, d, n, t, i, b))
  BY <1>1, ListOfOneMore DEF Filling
<1> QED
  BY <1>1, <1>2, ListOfOneMore DEF Making

SameAround(D, E, d) == E.inode[d] = D.inode[d] /\ BlockOf(E, d) = BlockOf(D, d)

(* The writes that name i do not change with what is on the disk elsewhere, *)
LEMMA SameNaming ==
  ASSUME NEW D, NEW E, NEW d, SameAround(D, E, d), NEW n, NEW t, NEW i
  PROVE  Naming(E, d, n, t, i) = Naming(D, d, n, t, i)
BY DEF Naming, EntryIn, SameAround

(* and neither do the others.                                              *)
LEMMA SameFilling ==
  ASSUME NEW D, NEW E, NEW d, SameAround(D, E, d), E.data = D.data, NEW n, NEW t, NEW i, NEW b
  PROVE  Filling(E, d, n, t, i, b) = Filling(D, d, n, t, i, b)
<1>1. Naming(E, d, n, t, i) = Naming(D, d, n, t, i)
  BY SameNaming
<1> QED
  BY <1>1 DEF Filling

(* The step after which r is left to be written.                           *)
Leaves(r) ==
  /\ todo' = r /\ clearing' = (clearing /\ r # <<>>)
  /\ calls' = calls /\ current_inode' = current_inode /\ fd_table' = fd_table /\ Held' = Held

(* The next write of one place.                                            *)
LEMMA TakesPut ==
  ASSUME Write, clearing \in BOOLEAN, NEW f, NEW x, NEW v, NEW r, IsList(r), todo = <<Put(f, x, v)>> \o r
  PROVE  disk' = SetAt(disk, f, x, v) /\ Leaves(r)
<1>1. PICK S : r \in Seq(S)
  BY DEF IsList
<1>2. Takes(Put(f, x, v), r)
  BY <1>1, TakesNext
<1>3. disk' = SetAt(disk, f, x, v) /\ todo' = r /\ clearing' = (clearing /\ r # <<>>)
  BY <1>2, PutAt
<1>4. calls' = calls /\ current_inode' = current_inode /\ fd_table' = fd_table
  BY <1>2, Zenon DEF Takes
<1>5. Held' = Held
  BY <1>4 DEF Held
<1> QED
  BY <1>3, <1>4, <1>5, Zenon DEF Leaves

(* By the part of the disk that it is for.                                 *)
Due(f, x, v, r) == Write /\ clearing \in BOOLEAN /\ IsList(r) /\ todo = <<Put(f, x, v)>> \o r

(* An inode, a block, a bit of an inode, and one of a block.               *)
LEMMA Writes ==
  ASSUME disk \in Disks, NEW x, NEW v, NEW r
  PROVE  /\ Due("inode", x, v, r) /\ x \in Inums /\ v \in Inodes => NewInode(disk, disk', x, v) /\ Leaves(r)
         /\ Due("data", x, v, r) /\ x \in Blocks /\ v \in [Slots -> Entries]
              => NewData(disk, disk', x, v) /\ Leaves(r)
         /\ Due("inodemap", x, v, r) /\ x \in Inums /\ v \in BOOLEAN
              => NewInodeBit(disk, disk', x, v) /\ Leaves(r)
         /\ Due("blockmap", x, v, r) /\ x \in Blocks /\ v \in BOOLEAN
              => NewBlockBit(disk, disk', x, v) /\ Leaves(r)
<1>1. \A f : Due(f, x, v, r) => disk' = SetAt(disk, f, x, v) /\ Leaves(r)
  <2> SUFFICES ASSUME NEW f, Due(f, x, v, r) PROVE disk' = SetAt(disk, f, x, v) /\ Leaves(r)
    OBVIOUS
  <2>1. Write /\ clearing \in BOOLEAN /\ IsList(r) /\ todo = <<Put(f, x, v)>> \o r
    BY DEF Due
  <2> QED
    BY <2>1, TakesPut
<1>2. x \in Inums /\ v \in Inodes => NewInode(disk, SetAt(disk, "inode", x, v), x, v)
  BY SetChanges
<1>3. x \in Blocks /\ v \in [Slots -> Entries] => NewData(disk, SetAt(disk, "data", x, v), x, v)
  BY SetChanges
<1>4. x \in Inums /\ v \in BOOLEAN => NewInodeBit(disk, SetAt(disk, "inodemap", x, v), x, v)
  BY SetChanges
<1>5. x \in Blocks /\ v \in BOOLEAN => NewBlockBit(disk, SetAt(disk, "blockmap", x, v), x, v)
  BY SetChanges
<1> QED
  BY <1>1, <1>2, <1>3, <1>4, <1>5

-----------------------------------------------------------------------------
(* The stages of a creation.                                               *)

(* There is a directory to which n can be added, or a file that is taken   *)
(* for one: then its block is written, and no name comes of it.            *)
AtPlace(D, c) == c \in DirsIn(D) \/ D.inode[c].type = "FILE"

Target(D, d, n) ==
  /\ AtPlace(D, d) /\ n \in Names /\ D.inode[d].size < BlockEntries
  /\ d \in DirsIn(D) => Lacks(D, d, n)

(* Before inode i is written: of the inodes h that are held, i may be one  *)
(* already, as the file that do_fopen has opened.                          *)
Others(h, d, i) == (h \ {i}) \cup {d}

Before(D, h, c, d, n, t, i, b) ==
  /\ Sound(D, Others(h, d, i)) /\ Target(D, d, n) /\ t \in Kinds
  /\ i \in Inums /\ i \notin UsedIn(D) \cup Others(h, d, i)
  /\ b \in Blocks /\ \A j \in UsedIn(D) \cup Others(h, d, i) : D.inode[j].block # b
  /\ c \in h /\ IF c = i THEN t = "FILE" ELSE AtPlace(D, c)

(* Afterwards.                                                             *)
After(D, h, c, d, n, t, i) ==
  /\ Sound(D, h \cup {d, i}) /\ Target(D, d, n) /\ c \in h /\ AtPlace(D, c)
  /\ i \in Inums /\ t \in Kinds /\ D.inode[i].type = t

(* Bits that are set leave it that way.                                    *)
LEMMA BeforeStays ==
  ASSUME NEW D, NEW h, NEW c, NEW d, NEW n, NEW t, NEW i, NEW b, Before(D, h, c, d, n, t, i, b),
         NEW E \in Disks, E.inode = D.inode, E.data = D.data, KeepsBits(D, E)
  PROVE  Before(E, h, c, d, n, t, i, b) /\ SameNames(D, E) /\ Making(E, d, n, t, i, b) = Making(D, d, n, t, i, b)
<1>1. Frame(D, E, Others(h, d, i))
  BY BitsFrame DEF Before, Sound
<1>2. SameNames(D, E) /\ Sound(E, Others(h, d, i))
  BY <1>1, FrameSound DEF Before
<1>3. \A o : BlockOf(E, o) = BlockOf(D, o)
  BY DEF BlockOf
<1>4. Making(E, d, n, t, i, b) = Making(D, d, n, t, i, b)
  <2>1. SameAround(D, E, d)
    BY <1>3 DEF SameAround
  <2> QED
    BY <2>1, SameFilling DEF Making
<1>5. AtPlace(D, c) => AtPlace(E, c)
  BY <1>2 DEF AtPlace, SameNames
<1>6. Target(E, d, n)
  BY <1>2, <1>3 DEF Before, Target, AtPlace, SameNames, Lacks
<1> QED
  BY <1>2, <1>4, <1>5, <1>6 DEF Before, SameNames

(* Inode i is written.                                                     *)
LEMMA InodeWritten ==
  ASSUME NEW D, NEW h, NEW c, NEW d, NEW n, NEW t, NEW i, NEW b, Before(D, h, c, d, n, t, i, b),
         D.inodemap[i], D.blockmap[b], NEW E, NewInode(D, E, i, Inode(t, b))
  PROVE  /\ After(E, h, c, d, n, t, i) /\ SameNames(D, E) /\ E.inode[i] = Inode(t, b)
         /\ i \notin UsedIn(E) /\ i # d
         /\ Filling(E, d, n, t, i, b) = Filling(D, d, n, t, i, b)
<1> DEFINE H == Others(h, d, i)
<1>0. /\ E \in Disks /\ E.inode = [D.inode EXCEPT ![i] = Inode(t, b)] /\ E.data = D.data
      /\ E.inodemap[i] /\ E.blockmap[b] /\ KeepsBits(D, E)
  BY DEF NewInode, KeepsBits
<1>1. /\ Shape(D, H) /\ D \in Disks /\ i \in Inums /\ i \notin UsedIn(D) \cup H /\ d \in H /\ i # d
      /\ b \in Blocks /\ t \in Kinds /\ H \subseteq Inums
  BY DEF Before, Sound, Shape, Others
<1>2. /\ E.inode[i] = Inode(t, b) /\ \A j \in Inums : j # i => E.inode[j] = D.inode[j]
      /\ Inode(t, b).type = t /\ Inode(t, b).block = b
  BY <1>0, <1>1 DEF Disks, Inode
<1>3. Frame(D, E, H)
  BY <1>0, <1>1, InodeFrame
<1>4. SameNames(D, E) /\ Sound(E, H)
  BY <1>0, <1>3, FrameSound DEF Before
<1>5. \A j \in UsedIn(E) \cup H : E.inode[j].block # E.inode[i].block
  <2>1. UsedIn(D) \cup H \subseteq Inums /\ UsedIn(E) = UsedIn(D)
    BY <1>1, <1>4, ShapeFacts DEF Shape, SameNames
  <2>2. \A j \in UsedIn(D) \cup H : D.inode[j].block # b
    BY DEF Before
  <2> QED
    BY <1>1, <1>2, <2>1, <2>2
<1>6. Sound(E, H \cup {i})
  <2>1. E.inode[i].block = b
    BY <1>2
  <2>2. E.inode[i].block \in Blocks /\ E.blockmap[E.inode[i].block]
    BY <1>0, <1>1, <2>1
  <2> QED
    BY <1>0, <1>1, <1>4, <1>5, <2>2, SoundMore
<1>7. H \cup {i} = h \cup {d, i}
  BY DEF Others
<1>8. E.inode[d] = D.inode[d] /\ BlockOf(E, d) = BlockOf(D, d) /\ d \in Inums
  BY <1>0, <1>1, <1>2 DEF BlockOf
<1>9. Filling(E, d, n, t, i, b) = Filling(D, d, n, t, i, b)
  <2>1. SameAround(D, E, d)
    BY <1>8, Zenon DEF SameAround
  <2> QED
    BY <1>0, <2>1, SameFilling
<1>10. AtPlace(E, c)
  <2>1. CASE c = i
    BY <1>2, <2>1 DEF AtPlace, Before
  <2>2. CASE c # i
    <3>1. E.inode[c] = D.inode[c]
      BY <1>0, <1>1, <2>2 DEF Disks
    <3> QED
      BY <1>4, <2>2, <3>1 DEF AtPlace, Before, SameNames
  <2> QED
    BY <2>1, <2>2
<1>11. Target(E, d, n)
  BY <1>4, <1>8 DEF Before, Target, AtPlace, SameNames, Lacks
<1> QED
  BY <1>1, <1>2, <1>4, <1>6, <1>7, <1>9, <1>10, <1>11 DEF After, Before, SameNames

(* A write that leaves the tree as it is leaves this as it is.             *)
LEMMA AfterStays ==
  ASSUME NEW D, NEW h, NEW c, NEW d, NEW n, NEW t, NEW i, After(D, h, c, d, n, t, i),
         NEW E, Frame(D, E, h \cup {d, i}), KeepsBits(D, E), E.inode = D.inode
  PROVE  After(E, h, c, d, n, t, i) /\ SameNames(D, E)
<1>1. SameNames(D, E) /\ Sound(E, h \cup {d, i})
  BY FrameSound DEF After
<1>2. d \in DirsIn(D) => Lacks(E, d, n)
  <2> SUFFICES ASSUME d \in DirsIn(D) PROVE Lacks(E, d, n)
    OBVIOUS
  <2>1. SameEntries(D, E, d) /\ Lacks(D, d, n)
    BY DEF Frame, After, Target
  <2>2. D.inode[d].size \in Nat
    BY DEF After, Sound, Shape, DirsOK, DirOK
  <2> QED
    BY <2>1, <2>2 DEF SameEntries, Lacks
<1>3. Target(E, d, n) /\ AtPlace(E, c)
  BY <1>1, <1>2 DEF After, Target, AtPlace, SameNames
<1> QED
  BY <1>1, <1>3 DEF After

(* Directory and inode are in order, and have blocks of their own.         *)
Apart(D, d, i) ==
  /\ {d, i} \subseteq Inums /\ D.inode[d].block \in Blocks /\ D.inode[i].block \in Blocks
  /\ \A o, p \in UsedIn(D) \cup {d, i} : D.inode[o].block = D.inode[p].block => o = p
  /\ d \in DirsIn(D) => D.inode[d].size \in 2 .. BlockEntries - 1

Laid(D, H) ==
  /\ D \in Disks /\ Shape(D, H) /\ H \subseteq Inums
  /\ DirsIn(D) \subseteq UsedIn(D) /\ UsedIn(D) \subseteq Inums

(* They are at that stage.                                                 *)
LEMMA AfterFacts ==
  ASSUME NEW D, NEW h, NEW c, NEW d, NEW n, NEW t, NEW i, After(D, h, c, d, n, t, i)
  PROVE  Laid(D, h \cup {d, i}) /\ Apart(D, d, i)
<1>1. Shape(D, h \cup {d, i}) /\ D \in Disks /\ DirsOK(D) /\ d \in Inums
  BY DEF After, Sound, Shape
<1>2. DirsIn(D) \subseteq UsedIn(D) /\ UsedIn(D) \subseteq Inums
  BY <1>1, ShapeFacts
<1>3. OwnBlocks(D, UsedIn(D) \cup (h \cup {d, i}))
  BY <1>1 DEF Shape
<1>4. d \in DirsIn(D) => D.inode[d].size \in 2 .. BlockEntries - 1
  BY <1>1 DEF DirsOK, DirOK, After, Target
<1>5. Apart(D, d, i)
  BY <1>3, <1>4, <1>1 DEF Apart, OwnBlocks, After
<1>6. Laid(D, h \cup {d, i})
  BY <1>1, <1>2 DEF Laid, Shape
<1> QED
  BY <1>5, <1>6

(* The block of a new directory is written.                                *)
LEMMA BlockWritten ==
  ASSUME NEW D, NEW h, NEW c, NEW d, NEW n, NEW i, NEW b, After(D, h, c, d, n, "DIRECTORY", i),
         i \notin UsedIn(D), i # d, D.inode[i] = Inode("DIRECTORY", b),
         NEW E, NewData(D, E, b, FirstSector(NewBlock(d, i), D.data[b]))
  PROVE  /\ After(E, h, c, d, n, "DIRECTORY", i) /\ SameNames(D, E) /\ Ready(E, d, "DIRECTORY", i)
         /\ Naming(E, d, n, "DIRECTORY", i) = Naming(D, d, n, "DIRECTORY", i)
<1> DEFINE v == FirstSector(NewBlock(d, i), D.data[b])
<1>12. E \in Disks /\ E.data = [D.data EXCEPT ![b] = v] /\ E.inode = D.inode /\ KeepsBits(D, E)
  BY DEF NewData, KeepsBits
<1>0. Laid(D, h \cup {d, i}) /\ Apart(D, d, i)
  BY AfterFacts
<1>1. /\ D \in Disks /\ Shape(D, h \cup {d, i}) /\ d \in Inums /\ i \in Inums
      /\ D.inode[d].block \in Blocks /\ D.inode[i].block \in Blocks
      /\ \A o, p \in UsedIn(D) \cup {d, i} : D.inode[o].block = D.inode[p].block => o = p
      /\ DirsIn(D) \subseteq UsedIn(D)
  BY <1>0 DEF Laid, Apart
<1>2. D.inode[i].block = b /\ D.inode[i].ref = 0 /\ D.inode[i].size = 2 /\ b \in Blocks
  BY <1>1 DEF Inode
<1>3. \A o \in UsedIn(D) \cup {d} : D.inode[o].block # b
  BY <1>1, <1>2
<1>4. Frame(D, E, h \cup {d, i})
  <2>1. EntriesAmong(D, b, v)
    BY <1>1, <1>3 DEF EntriesAmong
  <2>2. OneBlock(D, E, b, v)
    BY <1>2, <1>12 DEF OneBlock
  <2> QED
    BY <1>1, <1>12, <2>1, <2>2, BlockFrame
<1>5. After(E, h, c, d, n, "DIRECTORY", i) /\ SameNames(D, E)
  BY <1>4, <1>12, AfterStays
<1>6. BlockOf(E, i) = v /\ BlockOf(E, d) = BlockOf(D, d)
  BY <1>1, <1>2, <1>3, <1>12 DEF BlockOf, Disks
<1>7. v[1] = Entry(".", "DIRECTORY", i) /\ v[2] = Entry("..", "DIRECTORY", d)
  BY DEF FirstSector, NewBlock, Slots
<1> HIDE DEF v
<1>8. ReadyNew(E, d, "DIRECTORY", i)
  BY <1>2, <1>5, <1>6, <1>7, <1>12 DEF ReadyNew, SameNames
<1>9. Ready(E, d, "DIRECTORY", i)
  BY <1>5, <1>8 DEF Ready, After
<1>10. SameAround(D, E, d)
  BY <1>6, <1>12 DEF SameAround
<1> QED
  BY <1>5, <1>9, <1>10, SameNaming

(* The entry is written.                                                   *)
LEMMA EntryWritten ==
  ASSUME NEW D, NEW h, NEW c, NEW d, NEW n, NEW t, NEW i, After(D, h, c, d, n, t, i), Ready(D, d, t, i),
         NEW E, NewData(D, E, D.inode[d].block, EntryIn(D, d, n, t, i))
  PROVE  /\ After(E, h, c, d, n, t, i) /\ SameNames(D, E) /\ Ready(E, d, t, i)
         /\ d \in DirsIn(D) => BlockOf(E, d)[D.inode[d].size + 1] = Entry(n, t, i)
<1> DEFINE v == EntryIn(D, d, n, t, i)
           s == D.inode[d].size
           b == D.inode[d].block
<1>12. E \in Disks /\ E.data = [D.data EXCEPT ![b] = v] /\ E.inode = D.inode /\ KeepsBits(D, E)
  BY DEF NewData, KeepsBits
<1>0. Laid(D, h \cup {d, i}) /\ Apart(D, d, i)
  BY AfterFacts
<1>1. /\ D \in Disks /\ Shape(D, h \cup {d, i}) /\ d \in Inums /\ i \in Inums
      /\ b \in Blocks /\ D.inode[i].block \in Blocks
      /\ \A o, p \in UsedIn(D) \cup {d, i} : D.inode[o].block = D.inode[p].block => o = p
      /\ DirsIn(D) \subseteq UsedIn(D)
      /\ d \in DirsIn(D) => s \in 2 .. BlockEntries - 1
  BY <1>0 DEF Laid, Apart
<1>2. BlockOf(D, d) \in [Slots -> Entries]
  BY <1>1 DEF BlockOf, Disks
<1>3. \A k \in Slots : k # s + 1 => v[k] = BlockOf(D, d)[k]
  BY <1>2 DEF EntryIn
<1>4. d \in DirsIn(D) => v[s + 1] = Entry(n, t, i) /\ \A k \in 1 .. s : k # s + 1 /\ k \in Slots
  <2>1. d \in DirsIn(D) => s + 1 \in Slots
    BY <1>1 DEF Slots
  <2>2. d \in DirsIn(D) => \A k \in 1 .. s : k # s + 1 /\ k \in Slots
    BY <1>1 DEF Slots
  <2> QED
    BY <1>2, <2>1, <2>2 DEF EntryIn
<1>5. OneBlock(D, E, b, v)
  BY <1>1, <1>12 DEF OneBlock
<1> HIDE DEF v
<1>6. EntriesAmong(D, b, v)
  <2> SUFFICES ASSUME NEW o \in DirsIn(D), D.inode[o].block = b, NEW k \in 1 .. D.inode[o].size
               PROVE  v[k] = BlockOf(D, o)[k]
    BY DEF EntriesAmong
  <2>1. o = d
    BY <1>1
  <2> QED
    BY <1>3, <1>4, <2>1
<1>7. Frame(D, E, h \cup {d, i})
  BY <1>1, <1>5, <1>6, <1>12, BlockFrame
<1>8. After(E, h, c, d, n, t, i) /\ SameNames(D, E)
  BY <1>7, <1>12, AfterStays
<1>9. BlockOf(E, d) = v /\ (i # d => BlockOf(E, i) = BlockOf(D, i))
  BY <1>1, <1>5 DEF BlockOf, Disks, OneBlock
<1>10. Ready(E, d, t, i)
  BY <1>8, <1>9, <1>12 DEF Ready, ReadyNew, ReadyOld, SameNames
<1> QED
  BY <1>4, <1>8, <1>9, <1>10

(* The inode of the directory is written: it has the name, or it is a file. *)
LEMMA NameWritten ==
  ASSUME NEW D, NEW h, NEW c, NEW d, NEW n, NEW t, NEW i, After(D, h, c, d, n, t, i), Ready(D, d, t, i),
         d \in DirsIn(D) => BlockOf(D, d)[D.inode[d].size + 1] = Entry(n, t, i),
         NEW E, NewInode(D, E, d, Resize(D.inode[d], 1))
  PROVE  /\ Sound(E, h) /\ AtPlace(E, c)
         /\ SameNames(D, E) \/ Adding(D, E, h \cup {d, i}, d, n, t, i)
<1> DEFINE H == h \cup {d, i}
<1>1. D \in Disks /\ Shape(D, H) /\ d \in Inums /\ UsedIn(D) \subseteq Inums /\ H \subseteq Inums
  <2>1. Laid(D, H) /\ Apart(D, d, i)
    BY AfterFacts
  <2> QED
    BY <2>1 DEF Laid, Apart
<1>0. E \in Disks /\ E.inode = [D.inode EXCEPT ![d] = Resize(@, 1)] /\ E.data = D.data /\ KeepsBits(D, E)
  BY DEF NewInode, KeepsBits, Resize
<1>2. c \in Inums /\ h \subseteq H /\ n \in Names
  BY <1>1 DEF After, Target
<1>3. \A j \in Inums : E.inode[j].type = D.inode[j].type /\ E.inode[j].block = D.inode[j].block
  BY <1>0, <1>1 DEF Disks, Inodes, Resize
<1>4. CASE d \in DirsIn(D)
  <2>1. Adding(D, E, H, d, n, t, i)
    BY <1>0, <1>1, <1>4 DEF After, Target, Adding
  <2>2. Shape(E, H) /\ UsedIn(E) = UsedIn(D) \cup {i}
    BY <2>1, AddingShape
  <2>3. DirsIn(D) \subseteq DirsIn(E)
    BY <2>1, AddingNames
  <2>4. Kept(E, UsedIn(E) \cup H)
    <3>1. UsedIn(E) \cup H = UsedIn(D) \cup H
      BY <2>2
    <3>2. \A j \in UsedIn(D) \cup H : D.inodemap[j] /\ D.blockmap[D.inode[j].block] /\ D.inode[j].block \in Blocks
      BY <1>1 DEF After, Sound, Kept, Shape, OwnBlocks
    <3> QED
      BY <1>0, <1>1, <1>3, <3>1, <3>2 DEF Kept, KeepsBits
  <2>5. Sound(E, h)
    <3>1. Sound(E, H)
      BY <2>2, <2>4 DEF Sound
    <3> QED
      BY <1>2, <3>1, SoundLess
  <2>6. AtPlace(E, c)
    BY <1>2, <1>3, <2>3 DEF After, AtPlace
  <2> QED
    BY <2>1, <2>5, <2>6
<1>5. CASE d \notin DirsIn(D)
  <2> DEFINE v == Resize(D.inode[d], 1)
  <2>1. D.inode[d].type = "FILE"
    BY <1>5 DEF After, Target, AtPlace
  <2>2. v.type = "FILE" /\ v.block = D.inode[d].block /\ v.ref >= D.inode[d].ref
    BY <1>1, <2>1 DEF Disks, Inodes, Resize
  <2>3. E.inode = [D.inode EXCEPT ![d] = v]
    BY <1>0 DEF Resize
  <2> HIDE DEF v
  <2>4. Frame(D, E, H)
    BY <1>0, <1>1, <2>1, <2>2, <2>3, FileFrame
  <2>5. SameNames(D, E) /\ Sound(E, H)
    BY <1>0, <2>4, FrameSound DEF After
  <2>6. Sound(E, h)
    BY <1>2, <2>5, SoundLess
  <2>7. AtPlace(E, c)
    BY <1>2, <1>3, <2>5 DEF After, AtPlace, SameNames
  <2> QED
    BY <2>5, <2>6, <2>7
<1> QED
  BY <1>4, <1>5

(* A bit of an inode is set, then one of a block.                          *)
LEMMA InodeBitSet ==
  ASSUME NEW D \in Disks, Room(D), NEW i \in Inums, ~D.inodemap[i],
         NEW E \in Disks, E.inodemap = [D.inodemap EXCEPT ![i] = TRUE], E.blockmap = D.blockmap
  PROVE  MoreRoom(E) /\ KeepsBits(D, E)
<1>1. D.inodemap \in [Inums -> BOOLEAN] /\ D.blockmap \in [Blocks -> BOOLEAN]
  BY DEF Disks
<1> DEFINE x == Cardinality(Taken(D.inodemap))
           y == Cardinality(Taken(E.inodemap))
           z == Cardinality(Taken(D.blockmap))
<1>2. x \in Nat /\ z \in Nat
  BY <1>1, TakenAndFree, InumsAndBlocks
<1>3. y = x + 1
  <2>1. IsFiniteSet(Inums) /\ IsFiniteSet(Blocks)
    BY InumsAndBlocks
  <2> QED
    BY <1>1, <2>1, SetBit
<1>4. z <= x
  BY DEF Room
<1> HIDE DEF x, y, z
<1>5. z < y
  BY <1>2, <1>3, <1>4
<1>6. MoreRoom(E)
  BY <1>5 DEF MoreRoom, y, z
<1> QED
  BY <1>1, <1>6 DEF KeepsBits

(* The second uses the room up.                                            *)
LEMMA BlockBitSet ==
  ASSUME NEW D \in Disks, MoreRoom(D), NEW b \in Blocks, ~D.blockmap[b],
         NEW E \in Disks, E.blockmap = [D.blockmap EXCEPT ![b] = TRUE], E.inodemap = D.inodemap
  PROVE  Room(E) /\ KeepsBits(D, E)
<1>1. D.inodemap \in [Inums -> BOOLEAN] /\ D.blockmap \in [Blocks -> BOOLEAN]
  BY DEF Disks
<1> DEFINE x == Cardinality(Taken(D.blockmap))
           y == Cardinality(Taken(E.blockmap))
           z == Cardinality(Taken(D.inodemap))
<1>2. x \in Nat /\ z \in Nat
  BY <1>1, TakenAndFree, InumsAndBlocks
<1>3. y = x + 1
  <2>1. IsFiniteSet(Inums) /\ IsFiniteSet(Blocks)
    BY InumsAndBlocks
  <2> QED
    BY <1>1, <2>1, SetBit
<1>4. x < z
  BY DEF MoreRoom
<1> HIDE DEF x, y, z
<1>5. y <= z
  BY <1>2, <1>3, <1>4
<1>6. Room(E)
  BY <1>5 DEF Room, y, z
<1> QED
  BY <1>1, <1>6 DEF KeepsBits

-----------------------------------------------------------------------------
(* The stages, and the writes that lead from one to the next.              *)

Idle ==
  todo = <<>> /\ clearing = FALSE /\ Room(disk) /\ Sound(disk, Held) /\ AtPlace(disk, current_inode)

(* The bits are set, and the inode is written.                             *)
TakesInode(d, n, t, i, b) ==
  /\ Before(disk, Held, current_inode, d, n, t, i, b) /\ clearing = FALSE
  /\ ~disk.inodemap[i] /\ ~disk.blockmap[b] /\ Room(disk)
  /\ todo = <<Put("inodemap", i, TRUE)>> \o (<<TakenBlock(b)>> \o Making(disk, d, n, t, i, b))

TakesBlock(d, n, t, i, b) ==
  /\ Before(disk, Held, current_inode, d, n, t, i, b) /\ clearing = FALSE
  /\ disk.inodemap[i] /\ ~disk.blockmap[b] /\ MoreRoom(disk)
  /\ todo = <<TakenBlock(b)>> \o Making(disk, d, n, t, i, b)

WritesInode(d, n, t, i, b) ==
  /\ Before(disk, Held, current_inode, d, n, t, i, b) /\ clearing = FALSE
  /\ disk.inodemap[i] /\ disk.blockmap[b] /\ Room(disk)
  /\ todo = Making(disk, d, n, t, i, b)

(* The block, the entry and the directory's inode are written.             *)
WritesBlock(d, n, i, b) ==
  /\ After(disk, Held, current_inode, d, n, "DIRECTORY", i) /\ clearing = FALSE /\ Room(disk)
  /\ i \notin UsedIn(disk) /\ i # d /\ disk.inode[i] = Inode("DIRECTORY", b)
  /\ todo = Filling(disk, d, n, "DIRECTORY", i, b)

WritesEntry(d, n, t, i) ==
  /\ After(disk, Held, current_inode, d, n, t, i) /\ clearing = FALSE /\ Room(disk)
  /\ Ready(disk, d, t, i)
  /\ todo = Naming(disk, d, n, t, i)

WritesName(d, n, t, i) ==
  /\ After(disk, Held, current_inode, d, n, t, i) /\ clearing = FALSE /\ Room(disk)
  /\ Ready(disk, d, t, i)
  /\ d \in DirsIn(disk) => BlockOf(disk, d)[disk.inode[d].size + 1] = Entry(n, t, i)
  /\ todo = <<Put("inode", d, Resize(disk.inode[d], 1))>>

(* do_ln counts before it names.                                           *)
Counting(f) ==
  /\ Sound(disk, Held) /\ AtPlace(disk, current_inode) /\ clearing = FALSE /\ Room(disk)
  /\ f \in UsedIn(disk) /\ disk.inode[f].type = "FILE"

Counted(f) == [disk.inode[f] EXCEPT !.ref = @ + 1]

CountsOnly(f) == Counting(f) /\ todo = <<Put("inode", f, Counted(f))>>

CountsAndNames(d, n, f) ==
  /\ Counting(f) /\ d \in Held /\ Target(disk, d, n) /\ \E l \in LinksIn(disk) : l.obj = f /\ l.dir = d
  /\ todo = <<Put("inode", f, Counted(f))>> \o Naming(disk, d, n, "FILE", f)

(* The inode's bit is set.                                                 *)
LEMMA InodeTaken ==
  ASSUME NEW d, NEW n, NEW t, NEW i, NEW b, TakesInode(d, n, t, i, b), Write
  PROVE  TakesBlock(d, n, t, i, b)' /\ SameNames(disk, disk')
<1> DEFINE r == <<TakenBlock(b)>> \o Making(disk, d, n, t, i, b)
<1>1. IsList(r) /\ r # <<>>
  BY ListsOfWrites, ListOfOneMore
<1>2. /\ Before(disk, Held, current_inode, d, n, t, i, b) /\ clearing = FALSE
      /\ todo = <<Put("inodemap", i, TRUE)>> \o r
      /\ ~disk.inodemap[i] /\ ~disk.blockmap[b] /\ Room(disk) /\ i \in Inums /\ disk \in Disks
  BY DEF TakesInode, Before, Sound, Shape
<1> HIDE DEF r
<1>3. NewInodeBit(disk, disk', i, TRUE) /\ Leaves(r)
  <2>1. Due("inodemap", i, TRUE, r)
    BY <1>1, <1>2 DEF Due
  <2> QED
    BY <1>2, <2>1, Writes
<1>4. /\ disk' \in Disks /\ disk'.inodemap = [disk.inodemap EXCEPT ![i] = TRUE]
      /\ disk'.blockmap = disk.blockmap
      /\ disk'.inode = disk.inode /\ disk'.data = disk.data
      /\ todo' = r /\ clearing' = FALSE /\ current_inode' = current_inode /\ Held' = Held
  BY <1>1, <1>2, <1>3 DEF NewInodeBit, Leaves
<1>5. MoreRoom(disk') /\ KeepsBits(disk, disk')
  BY <1>2, <1>4, InodeBitSet
<1>6. /\ Before(disk', Held, current_inode, d, n, t, i, b) /\ SameNames(disk, disk')
      /\ Making(disk', d, n, t, i, b) = Making(disk, d, n, t, i, b)
  BY <1>2, <1>4, <1>5, BeforeStays
<1>7. disk'.inodemap[i] /\ ~disk'.blockmap[b]
  BY <1>2, <1>4 DEF Disks
<1>8. todo' = <<TakenBlock(b)>> \o Making(disk', d, n, t, i, b)
  BY <1>4, <1>6 DEF r
<1> QED
  BY <1>4, <1>5, <1>6, <1>7, <1>8 DEF TakesBlock, TakenBlock

(* The block's bit is set.                                                 *)
LEMMA BlockTaken ==
  ASSUME NEW d, NEW n, NEW t, NEW i, NEW b, TakesBlock(d, n, t, i, b), Write
  PROVE  WritesInode(d, n, t, i, b)' /\ SameNames(disk, disk')
<1> DEFINE r == Making(disk, d, n, t, i, b)
<1>1. IsList(r) /\ r # <<>>
  BY ListsOfWrites DEF Making
<1>2. /\ Before(disk, Held, current_inode, d, n, t, i, b) /\ clearing = FALSE
      /\ todo = <<Put("blockmap", b, TRUE)>> \o r
      /\ disk.inodemap[i] /\ ~disk.blockmap[b] /\ MoreRoom(disk) /\ b \in Blocks /\ disk \in Disks
  BY DEF TakesBlock, TakenBlock, Before, Sound, Shape
<1> HIDE DEF r
<1>3. NewBlockBit(disk, disk', b, TRUE) /\ Leaves(r)
  <2>1. Due("blockmap", b, TRUE, r)
    BY <1>1, <1>2 DEF Due
  <2> QED
    BY <1>2, <2>1, Writes
<1>4. /\ disk' \in Disks /\ disk'.blockmap = [disk.blockmap EXCEPT ![b] = TRUE]
      /\ disk'.inodemap = disk.inodemap
      /\ disk'.inode = disk.inode /\ disk'.data = disk.data
      /\ todo' = r /\ clearing' = FALSE /\ current_inode' = current_inode /\ Held' = Held
  BY <1>1, <1>2, <1>3 DEF NewBlockBit, Leaves
<1>5. Room(disk') /\ KeepsBits(disk, disk')
  BY <1>2, <1>4, BlockBitSet
<1>6. /\ Before(disk', Held, current_inode, d, n, t, i, b) /\ SameNames(disk, disk')
      /\ Making(disk', d, n, t, i, b) = Making(disk, d, n, t, i, b)
  BY <1>2, <1>4, <1>5, BeforeStays
<1>7. disk'.inodemap[i] /\ disk'.blockmap[b]
  BY <1>2, <1>4 DEF Disks
<1>8. todo' = Making(disk', d, n, t, i, b)
  BY <1>4, <1>6 DEF r
<1> QED
  BY <1>4, <1>5, <1>6, <1>7, <1>8 DEF WritesInode

(* What is written has its type.                                           *)
LEMMA WrittenValues ==
  /\ \A t \in Kinds, b \in Blocks : Inode(t, b) \in Inodes /\ Inode(t, b).type = t
  /\ \A d, i \in Inums : \A old \in [Slots -> Entries] : FirstSector(NewBlock(d, i), old) \in [Slots -> Entries]
  /\ \A D \in Disks : \A d \in Inums : D.inode[d].block \in Blocks => BlockOf(D, d) \in [Slots -> Entries]
  /\ \A n \in Names, t \in Kinds, i \in Inums : Entry(n, t, i) \in Entries
  /\ \A D \in Disks : \A d \in Inums :
       /\ D.inode[d] \in Inodes
       /\ D.inode[d].size < BlockEntries => Resize(D.inode[d], 1) \in Inodes
       /\ D.inode[d].size > 2 => Resize(D.inode[d], -1) \in Inodes
<1>1. \A t \in Kinds, b \in Blocks : Inode(t, b) \in Inodes /\ Inode(t, b).type = t
  BY DEF Inode, Inodes, Kinds, Blocks
<1>2. \A d, i \in Inums : NewBlock(d, i) \in [Slots -> Entries]
  BY DEF NewBlock, Entry, Entries, Zero, Kinds, Inums, Root
<1>3. \A d, i \in Inums : \A old \in [Slots -> Entries] : FirstSector(NewBlock(d, i), old) \in [Slots -> Entries]
  <2>1. \A new, old \in [Slots -> Entries] : FirstSector(new, old) \in [Slots -> Entries]
    BY DEF FirstSector
  <2> QED
    BY <1>2, <2>1
<1>4. \A D \in Disks : \A d \in Inums : D.inode[d].block \in Blocks => BlockOf(D, d) \in [Slots -> Entries]
  BY DEF Disks, BlockOf
<1>5. \A n \in Names, t \in Kinds, i \in Inums : Entry(n, t, i) \in Entries
  BY DEF Entry, Entries
<1>6. ASSUME NEW r \in Inodes
      PROVE  (r.size < BlockEntries => Resize(r, 1) \in Inodes) /\ (r.size > 2 => Resize(r, -1) \in Inodes)
  <2>1. /\ r \in [type : Kinds, ref : Int, size : Int, block : 0 .. BLOCK_NUM]
        /\ r.type = "DIRECTORY" => r.size \in 2 .. BlockEntries /\ r.block \in Blocks
    BY DEF Inodes
  <2>2. ASSUME NEW by \in Int
        PROVE  /\ Resize(r, by) \in [type : Kinds, ref : Int, size : Int, block : 0 .. BLOCK_NUM]
               /\ Resize(r, by).type = r.type /\ Resize(r, by).block = r.block /\ Resize(r, by).size = r.size + by
    <3>1. /\ Resize(r, by).type = r.type /\ Resize(r, by).block = r.block
          /\ Resize(r, by).size = r.size + by /\ Resize(r, by).ref = r.ref + by
      BY <2>1 DEF Resize
    <3>2. Resize(r, by) = [r EXCEPT !.size = @ + by, !.ref = @ + by]
      BY DEF Resize
    <3>3. r.size + by \in Int /\ r.ref + by \in Int
      BY <2>1
    <3> QED
      BY <2>1, <3>1, <3>2, <3>3
  <2>3. r.size < BlockEntries => Resize(r, 1) \in Inodes
    <3> DEFINE q == Resize(r, 1)
    <3> SUFFICES ASSUME r.size < BlockEntries PROVE q \in Inodes
      OBVIOUS
    <3>1. /\ q \in [type : Kinds, ref : Int, size : Int, block : 0 .. BLOCK_NUM]
          /\ q.type = r.type /\ q.block = r.block /\ q.size = r.size + (1)
      BY <2>2
    <3> HIDE DEF q
    <3>2. q.type = "DIRECTORY" => q.size \in 2 .. BlockEntries /\ q.block \in Blocks
      BY <2>1, <3>1, FsSizeAssumption
    <3> QED
      BY <3>1, <3>2 DEF Inodes
  <2>4. r.size > 2 => Resize(r, -1) \in Inodes
    <3> DEFINE q == Resize(r, -1)
    <3> SUFFICES ASSUME r.size > 2 PROVE q \in Inodes
      OBVIOUS
    <3>1. /\ q \in [type : Kinds, ref : Int, size : Int, block : 0 .. BLOCK_NUM]
          /\ q.type = r.type /\ q.block = r.block /\ q.size = r.size + (-1)
      BY <2>2
    <3> HIDE DEF q
    <3>2. q.type = "DIRECTORY" => q.size \in 2 .. BlockEntries /\ q.block \in Blocks
      BY <2>1, <3>1, FsSizeAssumption
    <3> QED
      BY <3>1, <3>2 DEF Inodes
  <2> QED
    BY <2>3, <2>4
<1>7. \A D \in Disks : \A d \in Inums : D.inode[d] \in Inodes
  BY DEF Disks
<1> QED
  BY <1>1, <1>3, <1>4, <1>5, <1>6, <1>7

(* The new inode is written.                                               *)
LEMMA InodeMade ==
  ASSUME NEW d, NEW n, NEW t, NEW i, NEW b, WritesInode(d, n, t, i, b), Write
  PROVE  /\ IF t = "DIRECTORY" THEN WritesBlock(d, n, i, b)' ELSE WritesEntry(d, n, t, i)'
         /\ SameNames(disk, disk')
<1> DEFINE r == Filling(disk, d, n, t, i, b)
           v == Inode(t, b)
<1>1. IsList(r) /\ r # <<>>
  BY ListsOfWrites DEF Filling, Naming
<1>2. /\ Before(disk, Held, current_inode, d, n, t, i, b) /\ clearing = FALSE /\ todo = <<Put("inode", i, v)>> \o r
      /\ disk.inodemap[i] /\ disk.blockmap[b] /\ Room(disk)
      /\ i \in Inums /\ b \in Blocks /\ t \in Kinds /\ disk \in Disks
  BY DEF WritesInode, Making, Before, Sound, Shape
<1>3. v \in Inodes /\ v.type = t
  BY <1>2, WrittenValues
<1> HIDE DEF r, v
<1>4. NewInode(disk, disk', i, v) /\ Leaves(r)
  <2>1. Due("inode", i, v, r)
    BY <1>1, <1>2 DEF Due
  <2> QED
    BY <1>2, <1>3, <2>1, Writes
<1>5. /\ disk' \in Disks /\ disk'.inode = [disk.inode EXCEPT ![i] = v]
      /\ disk'.inodemap = disk.inodemap /\ disk'.blockmap = disk.blockmap /\ disk'.data = disk.data
      /\ todo' = r /\ clearing' = FALSE /\ current_inode' = current_inode /\ Held' = Held
  BY <1>1, <1>2, <1>4 DEF NewInode, Leaves
<1>6. KeepsBits(disk, disk') /\ Room(disk') /\ disk'.inodemap[i] /\ disk'.blockmap[b]
  BY <1>2, <1>5 DEF KeepsBits, Room
<1>7. /\ After(disk', Held, current_inode, d, n, t, i) /\ SameNames(disk, disk') /\ disk'.inode[i] = v
      /\ i \notin UsedIn(disk') /\ i # d /\ Filling(disk', d, n, t, i, b) = Filling(disk, d, n, t, i, b)
  BY <1>2, <1>4, InodeWritten DEF v
<1>8. todo' = Filling(disk', d, n, t, i, b)
  BY <1>5, <1>7 DEF r
<1>9. CASE t = "DIRECTORY"
  BY <1>5, <1>6, <1>7, <1>8, <1>9 DEF WritesBlock, v
<1>10. CASE t # "DIRECTORY"
  <2>1. Ready(disk', d, t, i)
    <3>1. disk'.inode[i].ref = 0 /\ disk'.inode[i].type = t
      BY <1>7, <1>3 DEF v, Inode
    <3> QED
      BY <1>2, <1>7, <1>10, <3>1 DEF Ready, ReadyNew
  <2>2. todo' = Naming(disk', d, n, t, i)
    BY <1>8, <1>10 DEF Filling
  <2> QED
    BY <1>5, <1>6, <1>7, <1>10, <2>1, <2>2 DEF WritesEntry
<1> QED
  BY <1>9, <1>10

(* The new block is written.                                               *)
LEMMA BlockMade ==
  ASSUME NEW d, NEW n, NEW i, NEW b, WritesBlock(d, n, i, b), Write
  PROVE  WritesEntry(d, n, "DIRECTORY", i)' /\ SameNames(disk, disk')
<1> DEFINE r == Naming(disk, d, n, "DIRECTORY", i)
           v == FirstSector(NewBlock(d, i), disk.data[b])
<1>1. IsList(r) /\ r # <<>>
  BY ListsOfWrites DEF Naming
<1>2. /\ After(disk, Held, current_inode, d, n, "DIRECTORY", i) /\ clearing = FALSE
      /\ todo = <<Put("data", b, v)>> \o r
      /\ Room(disk) /\ i \notin UsedIn(disk) /\ i # d /\ disk.inode[i] = Inode("DIRECTORY", b)
  BY DEF WritesBlock, Filling
<1>3. disk \in Disks /\ d \in Inums /\ i \in Inums /\ disk.inode[i].block \in Blocks
  <2>1. Laid(disk, Held \cup {d, i}) /\ Apart(disk, d, i)
    BY <1>2, AfterFacts
  <2> QED
    BY <2>1 DEF Laid, Apart
<1>4. b \in Blocks /\ v \in [Slots -> Entries]
  <2>1. b \in Blocks
    BY <1>2, <1>3 DEF Inode
  <2>2. disk.data[b] \in [Slots -> Entries]
    BY <1>3, <2>1 DEF Disks
  <2> QED
    BY <1>3, <2>1, <2>2, WrittenValues
<1> HIDE DEF r, v
<1>5. NewData(disk, disk', b, v) /\ Leaves(r)
  <2>1. Due("data", b, v, r)
    BY <1>1, <1>2 DEF Due
  <2> QED
    BY <1>3, <1>4, <2>1, Writes
<1>6. /\ disk' \in Disks /\ disk'.data = [disk.data EXCEPT ![b] = v]
      /\ disk'.inodemap = disk.inodemap /\ disk'.blockmap = disk.blockmap /\ disk'.inode = disk.inode
      /\ todo' = r /\ clearing' = FALSE /\ current_inode' = current_inode /\ Held' = Held
  BY <1>1, <1>2, <1>5 DEF NewData, Leaves
<1>7. KeepsBits(disk, disk') /\ Room(disk')
  BY <1>2, <1>6 DEF KeepsBits, Room
<1>8. /\ After(disk', Held, current_inode, d, n, "DIRECTORY", i) /\ SameNames(disk, disk')
      /\ Ready(disk', d, "DIRECTORY", i) /\ Naming(disk', d, n, "DIRECTORY", i) = Naming(disk, d, n, "DIRECTORY", i)
  BY <1>2, <1>5, BlockWritten DEF v
<1> QED
  BY <1>6, <1>7, <1>8 DEF WritesEntry, r

(* The entry is written.                                                   *)
LEMMA EntryMade ==
  ASSUME NEW d, NEW n, NEW t, NEW i, WritesEntry(d, n, t, i), Write
  PROVE  WritesName(d, n, t, i)' /\ SameNames(disk, disk')
<1> DEFINE r == <<Put("inode", d, Resize(disk.inode[d], 1))>>
           v == EntryIn(disk, d, n, t, i)
           b == disk.inode[d].block
<1>1. IsList(r) /\ r # <<>>
  BY ListOfOne
<1>2. /\ After(disk, Held, current_inode, d, n, t, i) /\ clearing = FALSE /\ todo = <<Put("data", b, v)>> \o r
      /\ Room(disk) /\ Ready(disk, d, t, i)
  BY DEF WritesEntry, Naming
<1>3. disk \in Disks /\ d \in Inums /\ i \in Inums /\ b \in Blocks /\ n \in Names /\ t \in Kinds
  <2>1. Laid(disk, Held \cup {d, i}) /\ Apart(disk, d, i)
    BY <1>2, AfterFacts
  <2> QED
    BY <1>2, <2>1 DEF Laid, Apart, After, Target
<1>4. v \in [Slots -> Entries]
  <2>1. BlockOf(disk, d) \in [Slots -> Entries] /\ Entry(n, t, i) \in Entries
    BY <1>3, WrittenValues
  <2> QED
    BY <2>1 DEF EntryIn
<1> HIDE DEF r, v
<1>5. NewData(disk, disk', b, v) /\ Leaves(r)
  <2>1. Due("data", b, v, r)
    BY <1>1, <1>2 DEF Due
  <2> QED
    BY <1>3, <1>4, <2>1, Writes
<1>6. /\ disk' \in Disks /\ disk'.data = [disk.data EXCEPT ![b] = v]
      /\ disk'.inodemap = disk.inodemap /\ disk'.blockmap = disk.blockmap /\ disk'.inode = disk.inode
      /\ todo' = r /\ clearing' = FALSE /\ current_inode' = current_inode /\ Held' = Held
  BY <1>1, <1>2, <1>5 DEF NewData, Leaves
<1>7. KeepsBits(disk, disk') /\ Room(disk')
  BY <1>2, <1>6 DEF KeepsBits, Room
<1>8. /\ After(disk', Held, current_inode, d, n, t, i) /\ SameNames(disk, disk') /\ Ready(disk', d, t, i)
      /\ d \in DirsIn(disk) => BlockOf(disk', d)[disk.inode[d].size + 1] = Entry(n, t, i)
  BY <1>2, <1>5, EntryWritten DEF v, b
<1>9. d \in DirsIn(disk') => BlockOf(disk', d)[disk'.inode[d].size + 1] = Entry(n, t, i)
  BY <1>6, <1>8 DEF SameNames
<1>10. todo' = <<Put("inode", d, Resize(disk'.inode[d], 1))>>
  BY <1>6 DEF r
<1> QED
  BY <1>6, <1>7, <1>8, <1>9, <1>10 DEF WritesName

(* The directory's inode is written, and the call is over.                 *)
LEMMA NameMade ==
  ASSUME NEW d, NEW n, NEW t, NEW i, WritesName(d, n, t, i), Write
  PROVE  /\ Idle'
         /\ SameNames(disk, disk') \/ Adding(disk, disk', Held \cup {d, i}, d, n, t, i)
<1> DEFINE v == Resize(disk.inode[d], 1)
<1>1. IsList(<<>>)
  BY ListOfOne
<1>2. /\ After(disk, Held, current_inode, d, n, t, i) /\ clearing = FALSE /\ todo = <<Put("inode", d, v)>> \o <<>>
      /\ Room(disk) /\ Ready(disk, d, t, i)
      /\ d \in DirsIn(disk) => BlockOf(disk, d)[disk.inode[d].size + 1] = Entry(n, t, i)
  BY ListOfOne DEF WritesName
<1>3. disk \in Disks /\ d \in Inums /\ disk.inode[d].size < BlockEntries
  <2>1. Laid(disk, Held \cup {d, i}) /\ Apart(disk, d, i)
    BY <1>2, AfterFacts
  <2> QED
    BY <1>2, <2>1 DEF Laid, Apart, After, Target
<1>4. v \in Inodes
  BY <1>3, WrittenValues
<1>5. disk'.inode = [disk.inode EXCEPT ![d] = Resize(@, 1)] <=> disk'.inode = [disk.inode EXCEPT ![d] = v]
  BY DEF Resize
<1> HIDE DEF v
<1>6. NewInode(disk, disk', d, v) /\ Leaves(<<>>)
  <2>1. Due("inode", d, v, <<>>)
    BY <1>1, <1>2 DEF Due
  <2> QED
    BY <1>3, <1>4, <2>1, Writes
<1>7. /\ disk' \in Disks /\ disk'.inode = [disk.inode EXCEPT ![d] = Resize(@, 1)]
      /\ disk'.inodemap = disk.inodemap /\ disk'.blockmap = disk.blockmap /\ disk'.data = disk.data
      /\ todo' = <<>> /\ clearing' = FALSE /\ current_inode' = current_inode /\ Held' = Held
  BY <1>2, <1>5, <1>6 DEF NewInode, Leaves
<1>8. KeepsBits(disk, disk') /\ Room(disk')
  BY <1>2, <1>7 DEF KeepsBits, Room
<1>9. /\ Sound(disk', Held) /\ AtPlace(disk', current_inode)
      /\ SameNames(disk, disk') \/ Adding(disk, disk', Held \cup {d, i}, d, n, t, i)
  BY <1>2, <1>6, NameWritten DEF v
<1> QED
  BY <1>7, <1>8, <1>9 DEF Idle

(* The file counts a name more.                                            *)
LEMMA FileCounted ==
  ASSUME NEW f, NEW r, Counting(f), Due("inode", f, Counted(f), r)
  PROVE  /\ NewInode(disk, disk', f, Counted(f)) /\ Leaves(r) /\ f \in Inums /\ disk.inode[f] \in Inodes
         /\ SameNames(disk, disk') /\ Sound(disk', Held) /\ Room(disk') /\ AtPlace(disk', current_inode)
<1> DEFINE v == Counted(f)
<1>1. /\ disk \in Disks /\ Shape(disk, Held) /\ UsedIn(disk) \subseteq Inums /\ f \in UsedIn(disk) /\ f \in Inums
      /\ Sound(disk, Held) /\ disk.inode[f].type = "FILE" /\ Room(disk) /\ AtPlace(disk, current_inode)
  <2>1. Shape(disk, Held) /\ f \in UsedIn(disk) /\ disk.inode[f].type = "FILE" /\ Room(disk)
        /\ AtPlace(disk, current_inode) /\ Sound(disk, Held)
    BY DEF Counting, Sound
  <2>2. disk \in Disks /\ DirsOK(disk)
    BY <2>1 DEF Shape
  <2>3. UsedIn(disk) \subseteq Inums
    BY <2>2, ShapeFacts
  <2> QED
    BY <2>1, <2>2, <2>3
<1>2. /\ disk.inode[f] \in Inodes /\ v \in Inodes /\ v.type = "FILE" /\ v.block = disk.inode[f].block
      /\ v.ref >= disk.inode[f].ref
  BY <1>1 DEF Disks, Inodes, Counted
<1> HIDE DEF v
<1>3. NewInode(disk, disk', f, v) /\ Leaves(r)
  BY <1>1, <1>2, Writes DEF v
<1>4. disk' \in Disks /\ disk'.inode = [disk.inode EXCEPT ![f] = v] /\ disk'.data = disk.data
      /\ KeepsBits(disk, disk') /\ Room(disk')
  BY <1>1, <1>3 DEF NewInode, KeepsBits, Room
<1>5. Frame(disk, disk', Held)
  BY <1>1, <1>2, <1>4, FileFrame
<1>6. SameNames(disk, disk') /\ Sound(disk', Held)
  BY <1>1, <1>4, <1>5, FrameSound
<1>7. AtPlace(disk', current_inode)
  <2>1. current_inode \in Inums
    BY <1>1 DEF Shape, Held
  <2>2. disk'.inode[current_inode].type = disk.inode[current_inode].type
    BY <1>1, <1>2, <1>4, <2>1 DEF Disks
  <2> QED
    BY <1>1, <1>6, <2>2 DEF AtPlace, SameNames
<1> QED
  BY <1>1, <1>2, <1>3, <1>4, <1>6, <1>7 DEF v

(* That is all when the new name exists.                                   *)
LEMMA CountMade ==
  ASSUME NEW f, CountsOnly(f), Write
  PROVE  Idle' /\ SameNames(disk, disk')
<1>1. Counting(f) /\ clearing = FALSE /\ todo = <<Put("inode", f, Counted(f))>> \o <<>> /\ IsList(<<>>)
  BY ListOfOne DEF CountsOnly, Counting
<1>2. Due("inode", f, Counted(f), <<>>)
  BY <1>1 DEF Due
<1>3. /\ Leaves(<<>>)
      /\ SameNames(disk, disk') /\ Sound(disk', Held) /\ Room(disk') /\ AtPlace(disk', current_inode)
  BY <1>1, <1>2, FileCounted
<1> QED
  BY <1>1, <1>3 DEF Idle, Leaves

(* Otherwise the name follows.                                             *)
LEMMA CountedForName ==
  ASSUME NEW d, NEW n, NEW f, CountsAndNames(d, n, f), Write
  PROVE  WritesEntry(d, n, "FILE", f)' /\ SameNames(disk, disk')
<1> DEFINE r == Naming(disk, d, n, "FILE", f)
           names == Cardinality(NamesOf(LinksIn(disk), f))
<1>1. /\ Counting(f) /\ clearing = FALSE /\ todo = <<Put("inode", f, Counted(f))>> \o r /\ IsList(r) /\ r # <<>>
      /\ d \in Held /\ Target(disk, d, n) /\ \E l \in LinksIn(disk) : l.obj = f /\ l.dir = d
  <2>1. IsList(r)
    BY ListsOfWrites
  <2>2. r # <<>>
    BY DEF Naming
  <2>3. clearing = FALSE
    BY DEF CountsAndNames, Counting
  <2> HIDE DEF r
  <2> QED
    BY <2>1, <2>2, <2>3 DEF CountsAndNames, r
<1> HIDE DEF r
<1>2. Due("inode", f, Counted(f), r)
  BY <1>1 DEF Due
<1>3. /\ NewInode(disk, disk', f, Counted(f)) /\ Leaves(r) /\ f \in Inums /\ disk.inode[f] \in Inodes
      /\ SameNames(disk, disk') /\ Sound(disk', Held) /\ Room(disk') /\ AtPlace(disk', current_inode)
  BY <1>1, <1>2, FileCounted
<1>4. disk'.inode = [disk.inode EXCEPT ![f] = Counted(f)] /\ disk'.data = disk.data
  BY <1>3 DEF NewInode
<1>5. disk \in Disks /\ Shape(disk, Held) /\ disk.inode[f].type = "FILE" /\ f \in UsedIn(disk)
  BY <1>1 DEF Counting, Sound, Shape
<1>6. PICK l \in LinksIn(disk) : l.obj = f /\ l.dir = d
  BY <1>1
<1>7. d \in DirsIn(disk) /\ d \in Inums /\ DirOK(disk, d) /\ d # f
  <2>1. DirsOK(disk)
    BY <1>5 DEF Shape
  <2>2. d \in DirsIn(disk) /\ d \in Inums
    BY <1>5, <1>6, <2>1, ShapeFacts
  <2> QED
    BY <1>5, <2>1, <2>2 DEF DirsOK, DirOK
<1>8. names \in Nat /\ disk.inode[f].ref + 1 >= names
  <2>1. names \in Nat
    BY <1>5, NamesFinite DEF Shape, NamesOK
  <2>2. l.type = "FILE"
    BY <1>5, <1>6 DEF Shape, NamesOK
  <2> QED
    BY <1>5, <1>6, <2>1, <2>2 DEF Shape, CountsOK
<1> HIDE DEF names
<1>9. disk'.inode[f].type = "FILE" /\ disk'.inode[f].ref >= names
  <2>1. disk'.inode[f] = Counted(f)
    BY <1>3, <1>4, <1>5 DEF Disks
  <2>2. Counted(f).type = "FILE" /\ Counted(f).ref = disk.inode[f].ref + 1
    BY <1>3, <1>5 DEF Counted, Inodes
  <2> QED
    BY <1>8, <2>1, <2>2
<1>10. SameAround(disk, disk', d)
  <2>1. disk'.inode[d] = disk.inode[d]
    BY <1>4, <1>5, <1>7 DEF Disks
  <2> QED
    BY <1>4, <2>1 DEF SameAround, BlockOf
<1>11. todo' = Naming(disk', d, n, "FILE", f) /\ clearing' = FALSE
  <2>1. todo' = r /\ clearing' = FALSE
    BY <1>1, <1>3 DEF Leaves
  <2>2. Naming(disk', d, n, "FILE", f) = Naming(disk, d, n, "FILE", f)
    BY <1>10, SameNaming
  <2> QED
    BY <2>1, <2>2 DEF r
<1>12. Ready(disk', d, "FILE", f)
  BY <1>3, <1>6, <1>9 DEF Ready, ReadyOld, SameNames, Kinds, names
<1>13. Target(disk', d, n)
  BY <1>1, <1>3, <1>10 DEF Target, AtPlace, SameNames, Lacks, SameAround
<1>14. After(disk', Held, current_inode, d, n, "FILE", f)
  <2>1. f \in UsedIn(disk')
    BY <1>3, <1>5 DEF SameNames
  <2>2. Sound(disk', Held \cup {d, f})
    BY <1>1, <1>3, <2>1, SoundLess
  <2> QED
    BY <1>3, <1>9, <1>13, <2>2 DEF After, Held, Kinds
<1> QED
  BY <1>3, <1>11, <1>12, <1>14 DEF WritesEntry, Leaves

-----------------------------------------------------------------------------
(* Calls.                                                                  *)

(* The first entry of a name.                                              *)
Hits(d, n) == {k \in 1 .. Size(d) : Block(d)[k].name = n}

(* A search ends there, or finds nothing.                                  *)
LEMMA SearchIs ==
  ASSUME disk \in Disks, NEW d, DirOK(disk, d), NEW n
  PROVE  /\ Hits(d, n) = {} => Search(d, n) = None
         /\ Hits(d, n) # {} => Search(d, n) \in Inums /\ Search(d, n) # None
                               /\ \E k \in Hits(d, n) : Search(d, n) = Block(d)[k].inum
<1>1. /\ Size(d) \in 2 .. BlockEntries /\ disk.inode[d].type = "DIRECTORY"
      /\ Block(d) \in [Slots -> Entries]
  BY DEF DirOK, Size, Block, Disks
<1>2. Search(d, n) = IF Hits(d, n) = {} THEN None
                     ELSE Block(d)[CHOOSE k \in Hits(d, n) : \A j \in Hits(d, n) : k <= j].inum
  BY <1>1 DEF Search, Hits
<1>3. ASSUME Hits(d, n) # {}
      PROVE  (CHOOSE k \in Hits(d, n) : \A j \in Hits(d, n) : k <= j) \in Hits(d, n)
  <2> DEFINE T == Hits(d, n)
  <2>1. T \in SUBSET Nat
    BY <1>1 DEF Hits
  <2>2. \E k \in T : \A j \in T : k <= j
    BY <1>3, <2>1, SmallestOf
  <2> HIDE DEF T
  <2>3. (CHOOSE k \in T : \A j \in T : k <= j) \in T
    BY <2>2
  <2> QED
    BY <2>3 DEF T
<1>4. \A k \in Hits(d, n) : Block(d)[k].inum \in Inums
  <2>1. \A k \in Hits(d, n) : k \in Slots
    BY <1>1 DEF Hits, Slots
  <2> QED
    BY <1>1, <2>1 DEF Entries
<1>5. \A i \in Inums : i # None
  BY DEF Inums, None
<1> QED
  BY <1>2, <1>3, <1>4, <1>5

(* What a search in a directory of the tree finds: links of the tree for   *)
(* names, and directories for "." and "..".                                *)
LEMMA SearchFinds ==
  ASSUME NEW H, Shape(disk, H), NEW d \in DirsIn(disk), NEW n
  PROVE  /\ Search(d, n) = None \/ Search(d, n) \in Inums
         /\ n \in Names /\ Search(d, n) = None => Lacks(disk, d, n)
         /\ n \in Names /\ Search(d, n) # None =>
              \E l \in LinksIn(disk) : l.dir = d /\ l.name = n /\ l.obj = Search(d, n)
         /\ n \in {".", ".."} /\ Search(d, n) # None =>
              Search(d, n) \in DirsIn(disk) \/ \E l \in LinksIn(disk) : l.obj = Search(d, n)
<1>1. disk \in Disks /\ DirsOK(disk) /\ DirOK(disk, d) /\ d \in Inums
  <2>1. disk \in Disks /\ DirsOK(disk)
    BY DEF Shape
  <2> QED
    BY <2>1, ShapeFacts DEF DirsOK
<1>2. /\ Hits(d, n) = {} => Search(d, n) = None
      /\ Hits(d, n) # {} => Search(d, n) \in Inums /\ Search(d, n) # None
                            /\ \E k \in Hits(d, n) : Search(d, n) = Block(d)[k].inum
  BY <1>1, SearchIs
<1>3. ASSUME Search(d, n) = None
      PROVE  Lacks(disk, d, n)
  <2>1. Hits(d, n) = {}
    BY <1>2, <1>3
  <2>2. \A k \in 1 .. disk.inode[d].size : BlockOf(disk, d)[k].name # n
    BY <2>1 DEF Hits, Size, Block, BlockOf
  <2>3. \A k \in 3 .. disk.inode[d].size : k \in 1 .. disk.inode[d].size
    BY <1>1 DEF DirOK
  <2> QED
    BY <2>2, <2>3 DEF Lacks
<1>4. \A k \in 3 .. Size(d) : LinkTo(d, Block(d)[k]) \in LinksIn(disk)
  <2>1. From(LinksIn(disk), d) = LinksOf(disk, d)
    BY <1>1, ShapeFacts
  <2> QED
    BY <2>1 DEF From, LinksOf, Size, Block, BlockOf
<1>5. Block(d)[1] = Entry(".", "DIRECTORY", d) /\ \E p \in DirsIn(disk) : Block(d)[2] = Entry("..", "DIRECTORY", p)
  <2>1. \E p \in DirsIn(disk) : BlockOf(disk, d)[2] = Entry("..", "DIRECTORY", p)
    BY SecondEntry
  <2> QED
    BY <1>1, <2>1 DEF DirOK, Block, BlockOf
<1>6. Size(d) \in Nat
  BY <1>1 DEF DirOK, Size
<1>7. ASSUME Search(d, n) # None
      PROVE  \/ Search(d, n) \in DirsIn(disk) /\ n \in {".", ".."}
             \/ \E l \in LinksIn(disk) : l.dir = d /\ l.name = n /\ l.obj = Search(d, n)
  <2>1. PICK k \in Hits(d, n) : Search(d, n) = Block(d)[k].inum
    BY <1>2, <1>7
  <2>2. k \in 1 .. Size(d) /\ Block(d)[k].name = n
    BY <2>1 DEF Hits
  <2>3. CASE k = 1
    BY <1>5, <2>1, <2>2, <2>3 DEF Entry
  <2>4. CASE k = 2
    BY <1>5, <2>1, <2>2, <2>4 DEF Entry
  <2>5. CASE k \in 3 .. Size(d)
    <3> DEFINE l == LinkTo(d, Block(d)[k])
    <3>1. l \in LinksIn(disk)
      BY <1>4, <2>5
    <3>2. l.dir = d /\ l.name = n /\ l.obj = Search(d, n)
      BY <2>1, <2>2 DEF LinkTo
    <3> QED
      BY <3>1, <3>2
  <2> QED
    BY <1>6, <2>2, <2>3, <2>4, <2>5
<1> QED
  BY <1>2, <1>3, <1>7

(* In a file nothing is found.                                             *)
LEMMA NothingInFiles ==
  ASSUME NEW d, disk.inode[d].type = "FILE", NEW n
  PROVE  Search(d, n) = None
BY DEF Search

(* A program that does not go beyond one sector.                           *)
Careful == {"second_sector", "crash_in_clearing"} \cap Calls = {}

(* What is written for a new name, in the order of the stages.             *)
Creation(d, n, t, i, b) ==
  <<Put("inodemap", i, TRUE)>> \o (<<TakenBlock(b)>> \o Making(disk, d, n, t, i, b))

(* It is what the calls leave to be written.                               *)
LEMMA CreatedIs ==
  ASSUME NEW n, NEW t \in Kinds, Size(current_inode) \in Int,
         Block(current_inode) \in [Slots -> Entries],
         t = "FILE" => Size(current_inode) + 1 <= SectorEntries
  PROVE  Created(n, t) =
           Creation(current_inode, n, t, FirstFree(disk.inodemap), FirstFree(disk.blockmap))
<1> DEFINE d == current_inode
           i == FirstFree(disk.inodemap)
           b == FirstFree(disk.blockmap)
           w1 == Put("inodemap", i, TRUE)
           w2 == TakenBlock(b)
           w3 == Put("inode", i, Inode(t, b))
           w4 == Put("data", b, FirstSector(NewBlock(d, i), disk.data[b]))
           w5 == Put("data", disk.inode[d].block, EntryIn(disk, d, n, t, i))
           w6 == Put("inode", d, Resize(disk.inode[d], 1))
<1>1. /\ WithEntry(d, n, t, i) = EntryIn(disk, d, n, t, i)
      /\ Resized(d, 1) = w6
  BY DEF WithEntry, EntryIn, Block, BlockOf, Size, Resized, Resize
<1>2. t = "FILE" => FirstSector(WithEntry(d, n, t, i), Block(d)) = EntryIn(disk, d, n, t, i)
  <2> SUFFICES ASSUME t = "FILE"
               PROVE  FirstSector(WithEntry(d, n, t, i), Block(d)) = WithEntry(d, n, t, i)
    BY <1>1
  <2>1. WithEntry(d, n, t, i) = [k \in Slots |-> IF k = Size(d) + 1 THEN Entry(n, t, i) ELSE Block(d)[k]]
    BY DEF WithEntry
  <2> QED
    BY <2>1 DEF FirstSector
<1>3. t = "DIRECTORY" => Created(n, t) = <<w1, w2, w3, w4>> \o <<w5, w6>>
  BY <1>1, Zenon DEF Created, InOrder
<1>4. t = "FILE" => Created(n, t) = <<w1, w2, w3>> \o <<w5, w6>>
  BY <1>1, <1>2 DEF Created, InOrder
<1>5. Creation(d, n, t, i, b) = <<w1>> \o (<<w2>> \o (<<w3>> \o
        IF t = "DIRECTORY" THEN <<w4>> \o (<<w5>> \o <<w6>>) ELSE <<w5>> \o <<w6>>))
  BY Zenon DEF Creation, Making, Filling, Naming
<1>6. t = "DIRECTORY" \/ t = "FILE"
  BY DEF Kinds
<1> HIDE DEF d, i, b, w1, w2, w3, w4, w5, w6
<1>7. /\ <<w1, w2, w3, w4>> \o <<w5, w6>> = <<w1>> \o (<<w2>> \o (<<w3>> \o (<<w4>> \o (<<w5>> \o <<w6>>))))
      /\ <<w1, w2, w3>> \o <<w5, w6>> = <<w1>> \o (<<w2>> \o (<<w3>> \o (<<w5>> \o <<w6>>)))
  <2> DEFINE S == {w1, w2, w3, w4, w5, w6}
  <2>1. w1 \in S /\ w2 \in S /\ w3 \in S /\ w4 \in S /\ w5 \in S /\ w6 \in S
    OBVIOUS
  <2> HIDE DEF S
  <2>2. <<w5, w6>> = <<w5>> \o <<w6>>
    BY <2>1, TwoWrites
  <2>3. <<w5>> \o <<w6>> \in Seq(S)
    BY <2>1
  <2>4. FourOf(S, w1, w2, w3, w4, <<w5>> \o <<w6>>)
    BY <2>1, <2>3 DEF FourOf
  <2>5. InFront(w1, w2, w3, w4, <<w5>> \o <<w6>>)
    BY <2>4, WritesInFront
  <2> QED
    BY <2>2, <2>5, Zenon DEF InFront
<1>9. Created(n, t) = Creation(d, n, t, i, b)
  <2>1. CASE t = "DIRECTORY"
    BY <1>3, <1>5, <1>7, <2>1
  <2>2. CASE t = "FILE"
    BY <1>4, <1>5, <1>7, <2>2
  <2> QED
    BY <1>6, <2>1, <2>2
<1> QED
  BY <1>9 DEF d, i, b

(* A call can create n as a file or directory; then programs hold h, and   *)
(* have come to c.                                                         *)
Begins(h, c, n, t) ==
  /\ n \in Names /\ t \in Kinds /\ CanCreate(n)
  /\ t = "FILE" => Size(current_inode) + 1 <= SectorEntries
  /\ h \subseteq Held \cup {FirstFree(disk.inodemap)} /\ c \in h
  /\ IF c = FirstFree(disk.inodemap) THEN t = "FILE" ELSE c = current_inode

(* It begins.                                                              *)
LEMMA CreationBegins ==
  ASSUME Idle, NEW h, NEW c, NEW n, NEW t, Begins(h, c, n, t)
  PROVE  \E i \in Inums, b \in Blocks :
           /\ Before(disk, h, c, current_inode, n, t, i, b) /\ ~disk.inodemap[i] /\ ~disk.blockmap[b]
           /\ Created(n, t) = Creation(current_inode, n, t, i, b)
<1> /\ n \in Names /\ t \in Kinds /\ CanCreate(n)
    /\ t = "FILE" => Size(current_inode) + 1 <= SectorEntries
    /\ h \in SUBSET (Held \cup {FirstFree(disk.inodemap)}) /\ c \in h
    /\ IF c = FirstFree(disk.inodemap) THEN t = "FILE" ELSE c = current_inode
  BY DEF Begins
<1> DEFINE d == current_inode
           i == FirstFree(disk.inodemap)
           b == FirstFree(disk.blockmap)
<1>1. /\ disk \in Disks /\ Sound(disk, Held) /\ Room(disk) /\ AtPlace(disk, d) /\ d \in Held
      /\ UsedIn(disk) \cup Held \subseteq Inums /\ DirsIn(disk) \subseteq UsedIn(disk) /\ Shape(disk, Held)
  <2>1. Sound(disk, Held) /\ Room(disk) /\ AtPlace(disk, d) /\ d \in Held
    BY DEF Idle, Held
  <2>2. Shape(disk, Held) /\ disk \in Disks /\ DirsOK(disk) /\ Held \subseteq Inums
    BY <2>1 DEF Sound, Shape
  <2> QED
    BY <2>1, <2>2, ShapeFacts
<1>2. /\ disk.inodemap \in [Inums -> BOOLEAN] /\ disk.blockmap \in [Blocks -> BOOLEAN]
      /\ Inums \in SUBSET Nat /\ Blocks \in SUBSET Nat
  BY <1>1, InumsAndBlocks DEF Disks
<1>3. i \in Inums /\ ~disk.inodemap[i]
  <2>1. \E x \in Inums : ~disk.inodemap[x]
    BY DEF CanCreate
  <2> QED
    BY <1>2, <2>1, FirstFreeIsFree
<1>4. b \in Blocks /\ ~disk.blockmap[b]
  <2>1. \E x \in Blocks : ~disk.blockmap[x]
    BY <1>1, <1>3, RoomIsEnough
  <2> QED
    BY <1>2, <2>1, FirstFreeIsFree
<1> HIDE DEF i, b
<1>5. Others(h, d, i) \subseteq Held /\ d # i
  BY <1>1, <1>3 DEF Others, Sound, Kept, i
<1>6. Sound(disk, Others(h, d, i))
  BY <1>1, <1>5, SoundLess
<1>7. i \notin UsedIn(disk) \cup Others(h, d, i)
  BY <1>1, <1>3, <1>5 DEF Sound, Kept
<1>8. \A j \in UsedIn(disk) \cup Others(h, d, i) : disk.inode[j].block # b
  BY <1>1, <1>4, <1>5 DEF Sound, Kept
<1>9. Target(disk, d, n)
  <2>1. Search(d, n) = None /\ disk.inode[d].size < BlockEntries
    BY DEF CanCreate, Size
  <2>2. d \in DirsIn(disk) => Lacks(disk, d, n)
    BY <1>1, <2>1, SearchFinds
  <2> QED
    BY <1>1, <2>1, <2>2 DEF Target
<1>10. Before(disk, h, c, d, n, t, i, b)
  <2>1. IF c = i THEN t = "FILE" ELSE AtPlace(disk, c)
    BY <1>1 DEF i
  <2> QED
    BY <1>3, <1>4, <1>6, <1>7, <1>8, <1>9, <2>1 DEF Before
<1>11. Created(n, t) = Creation(d, n, t, i, b)
  <2>1. disk.inode[d] \in Inodes /\ disk.inode[d].block \in Blocks /\ d \in Inums
    BY <1>1 DEF Disks, Shape, OwnBlocks
  <2>2. Size(d) \in Int /\ Block(d) \in [Slots -> Entries]
    BY <1>1, <2>1 DEF Inodes, Size, Block, Disks
  <2> QED
    BY <2>2, CreatedIs DEF i, b
<1> QED
  BY <1>3, <1>4, <1>10, <1>11

(* What the calls that create have in common.                              *)
CreateCall(n, t) ==
  /\ Begins(Held', current_inode', n, t)
  /\ Submit(Created(n, t), FALSE) /\ disk' = disk

(* They leave the bits of a free inode and block to be written first.      *)
LEMMA CreateCalled ==
  ASSUME Idle, NEW n, NEW t, CreateCall(n, t)
  PROVE  (\E d, i, b : TakesInode(d, n, t, i, b)') /\ SameNames(disk, disk')
<1> DEFINE h == Held'
           c == current_inode'
<1>1. Begins(h, c, n, t)
  BY DEF CreateCall
<1>2. disk' = disk /\ todo' = Created(n, t) /\ clearing' = FALSE
  BY DEF CreateCall, Submit
<1>3. Room(disk)
  BY DEF Idle
<1> HIDE DEF h, c
<1>4. PICK i \in Inums, b \in Blocks :
        /\ Before(disk, h, c, current_inode, n, t, i, b) /\ ~disk.inodemap[i] /\ ~disk.blockmap[b]
        /\ Created(n, t) = Creation(current_inode, n, t, i, b)
  BY <1>1, CreationBegins
<1>d. PICK d : d = current_inode
  OBVIOUS
<1>5. /\ Before(disk, h, c, d, n, t, i, b) /\ ~disk.inodemap[i] /\ ~disk.blockmap[b]
      /\ todo' = <<Put("inodemap", i, TRUE)>> \o (<<TakenBlock(b)>> \o Making(disk, d, n, t, i, b))
  BY <1>2, <1>4, <1>d DEF Creation
<1>6. TakesInode(d, n, t, i, b)'
  BY <1>2, <1>3, <1>5 DEF TakesInode, h, c
<1> QED
  BY <1>2, <1>6 DEF SameNames

(* One sector is enough for a careful program.                             *)
LEMMA OneIsEnough ==
  ASSUME Careful, NEW size \in Int, OneSector(size)
  PROVE  size <= SectorEntries
BY DEF Careful, OneSector

(* What is in order between calls.                                         *)
LEMMA IdleFacts ==
  ASSUME Idle
  PROVE  /\ disk \in Disks /\ DirsOK(disk) /\ Shape(disk, Held) /\ Sound(disk, Held) /\ Room(disk)
         /\ Held \subseteq Inums /\ current_inode \in Held /\ current_inode \in Inums
         /\ AtPlace(disk, current_inode)
         /\ DirsIn(disk) \subseteq UsedIn(disk) /\ UsedIn(disk) \subseteq Inums /\ Root \in DirsIn(disk)
         /\ Size(current_inode) \in Int
<1>1. Sound(disk, Held) /\ Room(disk) /\ AtPlace(disk, current_inode) /\ current_inode \in Held
  BY DEF Idle, Held
<1>2. Shape(disk, Held) /\ disk \in Disks /\ DirsOK(disk) /\ Held \subseteq Inums
  BY <1>1 DEF Sound, Shape
<1>3. Size(current_inode) \in Int
  BY <1>1, <1>2 DEF Disks, Inodes, Size
<1> QED
  BY <1>1, <1>2, <1>3, ShapeFacts

(* do_mkdir and do_touch.                                                  *)
LEMMA MkdirCalled ==
  ASSUME Careful, Idle, NEW n \in Names, Mkdir(n) \/ Touch(n)
  PROVE  (\E d, t, i, b : TakesInode(d, n, t, i, b)') /\ SameNames(disk, disk')
<1>1. \E t : CreateCall(n, t)
  <2>1. Held' = Held /\ current_inode' = current_inode /\ disk' = disk /\ current_inode' \in Held'
    BY DEF Mkdir, Touch, Held
  <2>2. current_inode # FirstFree(disk.inodemap)
    <3>1. \E i \in Inums : ~disk.inodemap[i]
      BY DEF Mkdir, Touch, CanCreate
    <3>2. /\ disk.inodemap \in [Inums -> BOOLEAN] /\ Inums \in SUBSET Nat
          /\ disk.inodemap[current_inode]
      BY IdleFacts, InumsAndBlocks DEF Disks, Sound, Kept
    <3> QED
      BY <3>1, <3>2, FirstFreeIsFree
  <2>3. CASE Mkdir(n)
    BY <2>1, <2>2, <2>3 DEF Mkdir, CreateCall, Begins, Kinds
  <2>4. CASE Touch(n)
    <3>1. Size(current_inode) + 1 <= SectorEntries
      BY <2>4, IdleFacts, OneIsEnough DEF Touch
    <3> QED
      BY <2>1, <2>2, <2>4, <3>1 DEF Touch, CreateCall, Begins, Kinds
  <2> QED
    BY <2>3, <2>4
<1> QED
  BY <1>1, CreateCalled

(* Nothing is written, and inodes of the tree may be held.                 *)
LEMMA StaysIdle ==
  ASSUME Idle, NEW f, UNCHANGED <<disk, todo, clearing>>, f \in UsedIn(disk) \cup Held,
         Held' \subseteq Held \cup {f, Root}, AtPlace(disk, current_inode')
  PROVE  Idle' /\ SameNames(disk, disk')
<1>1. Held' \in SUBSET (UsedIn(disk) \cup Held)
  BY IdleFacts
<1> DEFINE h == Held'
           c == current_inode'
<1>2. h \in SUBSET (UsedIn(disk) \cup Held) /\ AtPlace(disk, c) /\ disk' = disk
  BY <1>1
<1> HIDE DEF h, c
<1>3. Sound(disk, h)
  BY <1>2, IdleFacts, SoundLess
<1>4. todo' = <<>> /\ clearing' = FALSE /\ Room(disk)
  BY DEF Idle
<1> QED
  BY <1>2, <1>3, <1>4 DEF Idle, SameNames, h, c

(* What a file becomes that do_fopen opens.                                *)
LEMMA OpenedHeld ==
  ASSUME NEW f, Opened(f), fd_table \in [Fds -> Inums]
  PROVE  Held' \subseteq Held \cup {f} /\ (current_inode' = f \/ current_inode' = current_inode)
         /\ current_inode' \in Held'
<1>1. (current_inode' = f \/ current_inode' = current_inode)
      /\ \A fd \in Fds : fd_table'[fd] = f \/ fd_table'[fd] = fd_table[fd]
  BY DEF Opened
<1> QED
  BY <1>1 DEF Held

(* A search that finds a file has been in a directory.                     *)
LEMMA FileFound ==
  ASSUME Idle, NEW n \in Names, Search(current_inode, n) # None
  PROVE  /\ current_inode \in DirsIn(disk) /\ Search(current_inode, n) \in UsedIn(disk)
         /\ \E l \in LinksIn(disk) : l.dir = current_inode /\ l.name = n /\ l.obj = Search(current_inode, n)
<1>1. current_inode \in DirsIn(disk)
  BY IdleFacts, NothingInFiles DEF AtPlace
<1>2. \E l \in LinksIn(disk) : l.dir = current_inode /\ l.name = n /\ l.obj = Search(current_inode, n)
  BY <1>1, IdleFacts, SearchFinds
<1> QED
  BY <1>1, <1>2 DEF UsedIn, Used

(* do_fopen.                                                               *)
LEMMA FopenCalled ==
  ASSUME Careful, Idle, fd_table \in [Fds -> Inums], NEW n \in Names, Fopen(n)
  PROVE  (Idle' \/ \E d, t, i, b : TakesInode(d, n, t, i, b)') /\ SameNames(disk, disk')
<1> DEFINE f == Search(current_inode, n)
           i == FirstFree(disk.inodemap)
<1>1. CASE IsFile(f) /\ Opened(f) /\ UNCHANGED <<todo, clearing, calls>>
  <2>1. f # None /\ disk.inode[f].type = "FILE" /\ disk' = disk
    BY <1>1 DEF IsFile, Fopen
  <2>2. f \in UsedIn(disk)
    BY <2>1, FileFound
  <2>3. Held' \subseteq Held \cup {f, Root} /\ AtPlace(disk, current_inode')
    <3>1. Held' \subseteq Held \cup {f} /\ (current_inode' = f \/ current_inode' = current_inode)
      BY <1>1, OpenedHeld
    <3> QED
      BY <2>1, <3>1, IdleFacts DEF AtPlace
  <2> HIDE DEF f
  <2> QED
    BY <1>1, <2>1, <2>2, <2>3, StaysIdle
<1>2. CASE CanCreate(n) /\ OneSector(Size(current_inode) + 1) /\ Opened(i) /\ Submit(Created(n, "FILE"), FALSE)
  <2>1. Size(current_inode) + 1 <= SectorEntries
    BY <1>2, IdleFacts, OneIsEnough
  <2>2. /\ Held' \subseteq Held \cup {i} /\ (current_inode' = i \/ current_inode' = current_inode)
        /\ current_inode' \in Held'
    BY <1>2, OpenedHeld
  <2>3. CreateCall(n, "FILE")
    BY <1>2, <2>1, <2>2 DEF CreateCall, Begins, Kinds, Fopen
  <2> QED
    BY <2>3, CreateCalled
<1> QED
  BY <1>1, <1>2 DEF Fopen

(* do_fclose.                                                              *)
LEMMA FcloseCalled ==
  ASSUME Idle, fd_table \in [Fds -> Inums], NEW fd \in Fds, Fclose(fd)
  PROVE  Idle' /\ SameNames(disk, disk')
<1>1. \A e \in Fds : fd_table'[e] = Root \/ fd_table'[e] = fd_table[e]
  BY DEF Fclose
<1>2. /\ Held' \subseteq Held \cup {current_inode, Root} /\ AtPlace(disk, current_inode')
      /\ UNCHANGED <<disk, todo, clearing>> /\ current_inode \in UsedIn(disk) \cup Held
  BY <1>1, IdleFacts DEF Held, Fclose
<1> QED
  BY <1>2, StaysIdle

(* Three writes, one by one.                                               *)
OneByOne(S, a, b, c) == a \in S /\ b \in S /\ c \in S
ByOne(a, b, c) == <<a, b, c>> = <<a>> \o (<<b>> \o <<c>>)

(* They are three lists of one.                                            *)
LEMMA ThreeWrites ==
  ASSUME NEW S, NEW a, NEW b, NEW c, OneByOne(S, a, b, c)
  PROVE  ByOne(a, b, c)
<1> a \in S /\ b \in S /\ c \in S
  BY DEF OneByOne
<1>1. <<a, b, c>> = <<a>> \o <<b, c>>
  OBVIOUS
<1>2. <<b, c>> = <<b>> \o <<c>>
  BY TwoWrites
<1> QED
  BY <1>1, <1>2, Zenon DEF ByOne

(* do_ln.                                                                  *)
LEMMA LnCalled ==
  ASSUME Idle, NEW src \in Names, NEW new \in Names, Ln(src, new)
  PROVE  (\E d, f : CountsOnly(f)' \/ CountsAndNames(d, new, f)') /\ SameNames(disk, disk')
<1> DEFINE d == current_inode
           f == Search(d, src)
           w1 == Put("inode", f, Counted(f))
           w2 == Put("data", disk.inode[d].block, EntryIn(disk, d, new, "FILE", f))
           w3 == Put("inode", d, Resize(disk.inode[d], 1))
<1>1. f # None /\ disk.inode[f].type = "FILE" /\ disk' = disk /\ Held' = Held /\ current_inode' = current_inode
  BY DEF Ln, IsFile, Held
<1>2. d \in DirsIn(disk) /\ f \in UsedIn(disk) /\ \E l \in LinksIn(disk) : l.obj = f /\ l.dir = d
  BY <1>1, FileFound
<1>3. \/ Search(d, new) # None /\ Submit(<<w1>>, FALSE)
      \/ Search(d, new) = None /\ Size(d) < BlockEntries /\ Submit(<<w1, w2, w3>>, FALSE)
  <2>1. WithEntry(d, new, "FILE", f) = EntryIn(disk, d, new, "FILE", f) /\ Resized(d, 1) = w3
    BY DEF WithEntry, EntryIn, Block, BlockOf, Size, Resized, Resize
  <2>2. Put("data", disk.inode[d].block, WithEntry(d, new, "FILE", f)) = w2
    BY <2>1
  <2> QED
    BY <2>1, <2>2, Zenon DEF Ln, Counted
<1>4. <<w1, w2, w3>> = <<w1>> \o (<<w2>> \o <<w3>>)
  <2> DEFINE S == {w1, w2, w3}
  <2>1. OneByOne(S, w1, w2, w3)
    BY DEF OneByOne
  <2> HIDE DEF S, w1, w2, w3
  <2>2. ByOne(w1, w2, w3)
    BY <2>1, ThreeWrites
  <2> QED
    BY <2>2, Zenon DEF ByOne
<1>5. <<w2>> \o <<w3>> = Naming(disk, d, new, "FILE", f)
  BY Zenon DEF Naming
<1>6. Search(d, new) = None /\ Size(d) < BlockEntries => Target(disk, d, new)
  BY <1>2, IdleFacts, SearchFinds DEF Target, Size
<1>7. Idle /\ d \in Held
  BY DEF Held
<1>8. PICK e, g : e = d /\ g = f
  OBVIOUS
<1>9. /\ disk' = disk /\ Held' = Held /\ current_inode' = current_inode /\ disk.inode[g].type = "FILE"
      /\ g \in UsedIn(disk) /\ (\E l \in LinksIn(disk) : l.obj = g /\ l.dir = e) /\ e \in Held
      /\ clearing' = FALSE
      /\ \/ todo' = <<Put("inode", g, Counted(g))>>
         \/ /\ Target(disk, e, new)
            /\ todo' = <<Put("inode", g, Counted(g))>> \o Naming(disk, e, new, "FILE", g)
  <2>1. CASE Search(d, new) # None /\ Submit(<<w1>>, FALSE)
    BY <1>1, <1>2, <1>7, <1>8, <2>1 DEF Submit
  <2>2. CASE Search(d, new) = None /\ Size(d) < BlockEntries /\ Submit(<<w1, w2, w3>>, FALSE)
    <3>1. todo' = <<w1>> \o Naming(disk, d, new, "FILE", f)
      BY <1>4, <1>5, <2>2, Zenon DEF Submit
    <3>2. Target(disk, d, new) /\ clearing' = FALSE
      BY <1>6, <2>2 DEF Submit
    <3> QED
      BY <1>1, <1>2, <1>7, <1>8, <3>1, <3>2
  <2> QED
    BY <1>3, <2>1, <2>2
<1>10. /\ Sound(disk', Held') /\ AtPlace(disk', current_inode') /\ Room(disk')
       /\ Put("inode", g, Counted(g))' = Put("inode", g, Counted(g))
  BY <1>9 DEF Idle, Counted, Put
<1>11. CountsOnly(g)' \/ CountsAndNames(e, new, g)'
  BY <1>9, <1>10 DEF CountsOnly, CountsAndNames, Counting, Counted
<1> QED
  BY <1>9, <1>11 DEF SameNames

(* Where do_cd can be on its way.                                          *)
OnWay(x) ==
  \/ x = current_inode \/ x = None \/ x \in DirsIn(disk)
  \/ \E l \in LinksIn(disk) : l.obj = x
Onward(x, n) == IF IsDirectory(x) THEN Search(x, n) ELSE None

(* When it is in a directory, that is one of the tree.                     *)
LEMMA WayIsInTree ==
  ASSUME Idle, NEW x, OnWay(x)
  PROVE  /\ IsDirectory(x) => x \in DirsIn(disk)
         /\ \A n \in Names \cup {".", ".."} : OnWay(Onward(x, n))
<1>1. IsDirectory(x) => x \in DirsIn(disk)
  <2>1. \A l \in LinksIn(disk) : l.type \in Kinds /\ disk.inode[l.obj].type = l.type
    BY IdleFacts, ShapeFacts DEF Shape, NamesOK
  <2>2. \A l \in LinksIn(disk) : l.type = "DIRECTORY" => l.obj \in DirsIn(disk)
    BY IdleFacts, ShapeFacts
  <2> QED
    BY <2>1, <2>2, IdleFacts DEF OnWay, IsDirectory, AtPlace
<1>2. ASSUME NEW n \in Names \cup {".", ".."}, IsDirectory(x)
      PROVE  OnWay(Search(x, n))
  <2>1. x \in DirsIn(disk) /\ Shape(disk, Held)
    BY <1>1, <1>2, IdleFacts
  <2>2. Search(x, n) # None =>
          \/ Search(x, n) \in DirsIn(disk)
          \/ \E l \in LinksIn(disk) : l.obj = Search(x, n)
    BY <2>1, SearchFinds
  <2> QED
    BY <2>2 DEF OnWay
<1> QED
  BY <1>1, <1>2 DEF Onward, OnWay

(* The way along one or two names.                                         *)
Walk(path, w) == w = [k \in 0 .. Len(path) |-> IF k = 0 THEN current_inode ELSE Onward(w[k - 1], path[k])]

(* There is one.                                                           *)
LEMMA WalkExists ==
  ASSUME NEW path \in Paths
  PROVE  \E w : Walk(path, w)
<1>1. (Len(path) = 1 \/ Len(path) = 2) /\ DOMAIN path = 1 .. Len(path)
  BY DEF Paths
<1> DEFINE w1 == Onward(current_inode, path[1])
           g == [k \in 0 .. Len(path) |-> CASE k = 0 -> current_inode [] k = 1 -> w1
                                            [] OTHER -> Onward(w1, path[2])]
<1>2. g[0] = current_inode /\ g[1] = w1 /\ (Len(path) = 2 => g[2] = Onward(w1, path[2]))
  BY <1>1
<1>3. \A k \in 0 .. Len(path) : g[k] = IF k = 0 THEN current_inode ELSE Onward(g[k - 1], path[k])
  BY <1>1, <1>2
<1>4. g = [k \in 0 .. Len(path) |-> g[k]]
  OBVIOUS
<1> HIDE DEF g
<1>5. g = [k \in 0 .. Len(path) |-> IF k = 0 THEN current_inode ELSE Onward(g[k - 1], path[k])]
  BY <1>3, <1>4
<1> QED
  BY <1>5 DEF Walk

(* do_cd.                                                                  *)
LEMMA CdCalled ==
  ASSUME Idle, NEW path \in Paths, Cd(path)
  PROVE  Idle' /\ SameNames(disk, disk')
<1> DEFINE w == CHOOSE v : Walk(path, v)
<1>1. Walk(path, w)
  BY WalkExists, Zenon
<1>2. /\ \/ IsDirectory(w[Len(path)]) /\ current_inode' = w[Len(path)]
         \/ \E k \in DOMAIN path : IsFile(w[k]) /\ current_inode' = w[k - 1]
      /\ UNCHANGED <<disk, todo, clearing, fd_table>>
  BY Zenon DEF Cd, Walk, Onward
<1> HIDE DEF w
<1>3. /\ (Len(path) = 1 \/ Len(path) = 2) /\ DOMAIN path = 1 .. Len(path)
      /\ \A k \in 1 .. Len(path) : path[k] \in Names \cup {".", ".."}
  BY DEF Paths
<1>4. w[0] = current_inode /\ \A k \in 1 .. Len(path) : w[k] = Onward(w[k - 1], path[k])
  BY <1>1, <1>3 DEF Walk
<1>5. \A k \in 0 .. Len(path) : OnWay(w[k])
  <2>1. OnWay(w[0])
    BY <1>4 DEF OnWay
  <2>2. OnWay(w[1])
    BY <1>3, <1>4, <2>1, WayIsInTree
  <2>3. Len(path) = 2 => OnWay(w[2])
    BY <1>3, <1>4, <2>2, WayIsInTree
  <2> QED
    BY <1>3, <2>1, <2>2, <2>3
<1>6. current_inode' \in DirsIn(disk)
  <2>1. CASE IsDirectory(w[Len(path)]) /\ current_inode' = w[Len(path)]
    <3>1. OnWay(w[Len(path)])
      BY <1>3, <1>5
    <3> QED
      BY <2>1, <3>1, WayIsInTree
  <2>2. ASSUME NEW k \in DOMAIN path, IsFile(w[k]), current_inode' = w[k - 1]
        PROVE  current_inode' \in DirsIn(disk)
    <3>1. OnWay(w[k - 1]) /\ w[k] = Onward(w[k - 1], path[k])
      BY <1>3, <1>4, <1>5
    <3>2. IsDirectory(w[k - 1])
      BY <2>2, <3>1 DEF Onward, IsFile
    <3> QED
      BY <2>2, <3>1, <3>2, WayIsInTree
  <2> QED
    BY <1>2, <2>1, <2>2
<1>7. PICK f : f = current_inode'
  OBVIOUS
<1>8. /\ f \in UsedIn(disk) \cup Held /\ Held' \subseteq Held \cup {f, Root} /\ AtPlace(disk, current_inode')
      /\ UNCHANGED <<disk, todo, clearing>>
  BY <1>2, <1>6, <1>7, IdleFacts DEF Held, AtPlace
<1> QED
  BY <1>8, StaysIdle

(* A creation, at any stage, and what a write of it does to the names.     *)
Creating ==
  \E d, n, t, i, b :
    \/ TakesInode(d, n, t, i, b) \/ TakesBlock(d, n, t, i, b) \/ WritesInode(d, n, t, i, b)
    \/ WritesBlock(d, n, i, b) \/ WritesEntry(d, n, t, i) \/ WritesName(d, n, t, i)
    \/ CountsOnly(i) \/ CountsAndNames(d, n, i)
Grows(D, E) == SameNames(D, E) \/ \E H, d, n, t, i : Adding(D, E, H, d, n, t, i)

(* The disk is in order all the time, and more is to be written.           *)
LEMMA CreatingFacts ==
  ASSUME Creating
  PROVE  /\ todo # <<>> /\ clearing = FALSE /\ Room(disk) /\ disk \in Disks
         /\ \E H : Sound(disk, H)
<1>1. PICK d, n, t, i, b :
        \/ TakesInode(d, n, t, i, b) \/ TakesBlock(d, n, t, i, b) \/ WritesInode(d, n, t, i, b)
        \/ WritesBlock(d, n, i, b) \/ WritesEntry(d, n, t, i) \/ WritesName(d, n, t, i)
        \/ CountsOnly(i) \/ CountsAndNames(d, n, i)
  BY DEF Creating
<1>2. \A H : Sound(disk, H) => disk \in Disks
  BY DEF Sound, Shape
<1>3. CASE TakesInode(d, n, t, i, b) \/ TakesBlock(d, n, t, i, b) \/ WritesInode(d, n, t, i, b)
  <2>1. /\ IsList(Making(disk, d, n, t, i, b)) /\ IsList(Filling(disk, d, n, t, i, b))
        /\ IsList(<<TakenBlock(b)>> \o Making(disk, d, n, t, i, b))
    BY ListsOfWrites, ListOfOneMore
  <2>2. todo # <<>>
    <3>1. TakesInode(d, n, t, i, b) => todo # <<>>
      BY <2>1, ListOfOneMore DEF TakesInode
    <3>2. TakesBlock(d, n, t, i, b) => todo # <<>>
      BY <2>1, ListOfOneMore DEF TakesBlock
    <3>3. WritesInode(d, n, t, i, b) => todo # <<>>
      BY <2>1, ListOfOneMore DEF WritesInode, Making
    <3> QED
      BY <1>3, <3>1, <3>2, <3>3
  <2>3. clearing = FALSE /\ Before(disk, Held, current_inode, d, n, t, i, b) /\ (Room(disk) \/ MoreRoom(disk))
    BY <1>3 DEF TakesInode, TakesBlock, WritesInode
  <2>4. Sound(disk, Others(Held, d, i))
    BY <2>3 DEF Before
  <2>5. Room(disk)
    <3>1. disk \in Disks /\ IsFiniteSet(Inums) /\ IsFiniteSet(Blocks)
      BY <1>2, <2>4, InumsAndBlocks
    <3>2. Cardinality(Taken(disk.blockmap)) \in Nat /\ Cardinality(Taken(disk.inodemap)) \in Nat
      BY <3>1, TakenAndFree DEF Disks
    <3> QED
      BY <2>3, <3>2 DEF Room, MoreRoom
  <2> QED
    BY <1>2, <2>2, <2>3, <2>4, <2>5
<1>4. CASE WritesBlock(d, n, i, b) \/ WritesEntry(d, n, t, i) \/ WritesName(d, n, t, i)
  <2>1. todo # <<>>
    <3>1. \A s : IsList(Naming(disk, d, n, s, i)) /\ Naming(disk, d, n, s, i) # <<>>
      BY ListsOfWrites, ListOfOneMore, ListOfOne DEF Naming
    <3>2. WritesBlock(d, n, i, b) => todo # <<>>
      BY <3>1, ListOfOneMore DEF WritesBlock, Filling
    <3>3. WritesEntry(d, n, t, i) => todo # <<>>
      BY <3>1 DEF WritesEntry
    <3>4. WritesName(d, n, t, i) => todo # <<>>
      BY ListOfOne DEF WritesName
    <3> QED
      BY <1>4, <3>2, <3>3, <3>4
  <2>2. clearing = FALSE /\ Room(disk) /\ \E s : After(disk, Held, current_inode, d, n, s, i)
    BY <1>4 DEF WritesBlock, WritesEntry, WritesName
  <2>3. Sound(disk, Held \cup {d, i})
    BY <2>2 DEF After
  <2> QED
    BY <1>2, <2>1, <2>2, <2>3
<1>5. CASE CountsOnly(i) \/ CountsAndNames(d, n, i)
  <2>1. todo # <<>>
    BY <1>5, ListOfOne, ListsOfWrites, ListOfOneMore DEF CountsOnly, CountsAndNames
  <2>2. clearing = FALSE /\ Room(disk) /\ Sound(disk, Held)
    BY <1>5 DEF CountsOnly, CountsAndNames, Counting
  <2> QED
    BY <1>2, <2>1, <2>2
<1> QED
  BY <1>1, <1>3, <1>4, <1>5

(* A write leads to the next stage, or ends the call.                      *)
LEMMA CreatingGoesOn ==
  ASSUME Creating, Write
  PROVE  (Idle' \/ Creating') /\ Grows(disk, disk')
<1>1. PICK d, n, t, i, b :
        \/ TakesInode(d, n, t, i, b) \/ TakesBlock(d, n, t, i, b) \/ WritesInode(d, n, t, i, b)
        \/ WritesBlock(d, n, i, b) \/ WritesEntry(d, n, t, i) \/ WritesName(d, n, t, i)
        \/ CountsOnly(i) \/ CountsAndNames(d, n, i)
  BY DEF Creating
<1>2. CASE TakesInode(d, n, t, i, b)
  BY <1>2, InodeTaken DEF Creating, Grows
<1>3. CASE TakesBlock(d, n, t, i, b)
  BY <1>3, BlockTaken DEF Creating, Grows
<1>4. CASE WritesInode(d, n, t, i, b)
  <2>1. WritesBlock(d, n, i, b)' \/ WritesEntry(d, n, t, i)'
    BY <1>4, InodeMade
  <2>2. SameNames(disk, disk')
    BY <1>4, InodeMade
  <2> QED
    BY <2>1, <2>2 DEF Creating, Grows
<1>5. CASE WritesBlock(d, n, i, b)
  BY <1>5, BlockMade DEF Creating, Grows
<1>6. CASE WritesEntry(d, n, t, i)
  BY <1>6, EntryMade DEF Creating, Grows
<1>7. CASE WritesName(d, n, t, i)
  BY <1>7, NameMade DEF Grows
<1>8. CASE CountsOnly(i)
  BY <1>8, CountMade DEF Grows
<1>9. CASE CountsAndNames(d, n, i)
  BY <1>9, CountedForName DEF Creating, Grows
<1> QED
  BY <1>1, <1>2, <1>3, <1>4, <1>5, <1>6, <1>7, <1>8, <1>9

(* What is on the disk when power fails will do.                           *)
LEMMA Rebooted ==
  ASSUME NEW H, Sound(disk, H), Room(disk), Reboot
  PROVE  Idle' /\ SameNames(disk, disk')
<1>1. /\ disk' = disk /\ todo' = <<>> /\ clearing' = FALSE /\ current_inode' = Root
      /\ Held' \subseteq {Root}
  BY DEF Reboot, Held
<1>2. Root \in DirsIn(disk) /\ DirsIn(disk) \subseteq UsedIn(disk)
  BY ShapeFacts DEF Sound, Shape
<1> DEFINE h == Held'
<1>3. h \in SUBSET (UsedIn(disk) \cup H)
  BY <1>1, <1>2
<1> HIDE DEF h
<1>4. Sound(disk, h)
  BY <1>3, SoundLess
<1> QED
  BY <1>1, <1>2, <1>4 DEF Idle, SameNames, AtPlace, h

-----------------------------------------------------------------------------
(* The stages of a removal.                                                *)
(* Link l of the current directory d goes: what keeps a name, or is held,  *)
(* keeps its bits.                                                         *)
Remaining(D, l) == Used(Reached(LinksIn(D) \ {l})) \cup Held
Departing(D, d, l) ==
  /\ Leaving(D, Held, d, l) /\ d = current_inode /\ Kept(D, Remaining(D, l))

(* The bits of w are cleared, those of inodes of S; then the entry goes,   *)
(* and the directory is one shorter.                                       *)
Shortening(D, d) == <<Put("inode", d, Resize(D.inode[d], -1))>>
Unnaming(D, d, n) == <<Put("data", D.inode[d].block, Moved(D, d, n))>> \o Shortening(D, d)
ClearsBits(d, l, S, w) ==
  /\ Departing(disk, d, l) /\ clearing = TRUE
  /\ Clearing(disk, S) /\ S \subseteq UsedIn(disk) /\ S \cap Remaining(disk, l) = {}
  /\ Clears(disk, w, S) /\ todo = w \o Unnaming(disk, d, l.name)
Shortens(D, d, l) ==
  /\ Departing(D, d, l) /\ Shifting(D, disk, Held, d, l) /\ clearing = TRUE
  /\ disk.inodemap = D.inodemap /\ disk.blockmap = D.blockmap /\ Room(disk)
  /\ todo = Shortening(disk, d)

(* What a removal does to the names.                                       *)
Shrinks(D, E) ==
  LinksIn(E) = LinksIn(D) \/ \E l \in LinksIn(D) : LinksIn(E) = Reached(LinksIn(D) \ {l})

(* The writes are lists.                                                   *)
LEMMA ListsOfRemoval ==
  ASSUME NEW D, NEW d, NEW n
  PROVE  IsList(Unnaming(D, d, n)) /\ Unnaming(D, d, n) # <<>> /\ IsList(Shortening(D, d)) /\ Shortening(D, d) # <<>>
BY ListOfOne, ListOfOneMore DEF Unnaming, Shortening

(* The last write: the name is gone, with all that was below it.           *)
LEMMA ShortenedNames ==
  ASSUME NEW D, NEW d, NEW l, Shortens(D, d, l), Write
  PROVE  Idle' /\ Shrinks(disk, disk')
<1> DEFINE v == Resize(disk.inode[d], -1)
<1>1. /\ Leaving(D, Held, d, l) /\ d = current_inode /\ Kept(D, Remaining(D, l)) /\ Room(disk)
      /\ Shifting(D, disk, Held, d, l) /\ clearing = TRUE /\ todo = Shortening(disk, d)
      /\ disk.inodemap = D.inodemap /\ disk.blockmap = D.blockmap
  BY DEF Shortens, Departing
<1>2. D \in Disks /\ d \in DirsIn(D) /\ d \in Inums /\ disk \in Disks /\ disk.inode = D.inode
      /\ disk.data = MovedIn(D, d, l.name) /\ DirsOK(D)
  BY <1>1, LeavingFacts DEF Shifting
<1>3. D.inode[d].size > 2
  <2>1. LinkTo(d, BlockOf(D, d)[PlaceOf(D, d, l.name)]) = l /\ ~Lacks(D, d, l.name)
    BY <1>1, LeavingFacts
  <2>2. D.inode[d].size \in Int
    BY <1>2 DEF Disks, Inodes
  <2> QED
    BY <2>1, <2>2 DEF Lacks
<1>4. v \in Inodes
  BY <1>2, <1>3, WrittenValues
<1> HIDE DEF v
<1>5. NewInode(disk, disk', d, v) /\ Leaves(<<>>)
  <2>1. todo = <<Put("inode", d, v)>> \o <<>> /\ IsList(<<>>)
    BY <1>1, ListOfOne DEF Shortening, v
  <2>2. Due("inode", d, v, <<>>)
    BY <1>1, <2>1 DEF Due
  <2> QED
    BY <1>2, <1>4, <2>2, Writes
<1>6. /\ disk' \in Disks /\ disk'.inode = [disk.inode EXCEPT ![d] = v]
      /\ disk'.data = disk.data /\ disk'.inodemap = disk.inodemap /\ disk'.blockmap = disk.blockmap
      /\ todo' = <<>> /\ clearing' = FALSE /\ current_inode' = current_inode /\ Held' = Held
  BY <1>1, <1>5 DEF NewInode, Leaves
<1>7. Dropping(D, disk', Held, d, l)
  BY <1>1, <1>2, <1>6 DEF Dropping, v
<1>8. /\ Shape(disk', Held) /\ LinksIn(disk') = Reached(LinksIn(D) \ {l}) /\ d \in DirsIn(disk')
  BY <1>7, DroppedShape
<1>9. Kept(disk', UsedIn(disk') \cup Held)
  <2>1. UsedIn(disk') \cup Held = Remaining(D, l)
    BY <1>8 DEF Remaining, UsedIn
  <2>2. \A i \in Inums : disk'.inode[i].block = D.inode[i].block
    BY <1>2, <1>6 DEF v, Resize, Disks, Inodes
  <2>3. UsedIn(disk') \cup Held \subseteq Inums
    BY <1>8, ShapeFacts DEF Shape
  <2> QED
    BY <1>1, <1>6, <2>1, <2>2, <2>3 DEF Kept
<1>10. Idle'
  BY <1>1, <1>6, <1>8, <1>9 DEF Idle, Sound, Room, AtPlace
<1>11. Shrinks(disk, disk')
  <2>1. l \in LinksIn(D)
    BY <1>1 DEF Leaving
  <2>2. LinksIn(disk) = LinksIn(D) \/ LinksIn(disk) = Reached(LinksIn(D) \ {l})
    BY <1>1, ShiftedNames
  <2> QED
    BY <1>8, <2>1, <2>2 DEF Shrinks
<1> QED
  BY <1>10, <1>11

(* The write before: the entries move.                                     *)
LEMMA EntriesMoved ==
  ASSUME NEW d, NEW l, NEW S, ClearsBits(d, l, S, <<>>), Write
  PROVE  (\E D : Shortens(D, d, l)') /\ Shrinks(disk, disk')
<1> DEFINE b == disk.inode[d].block
           v == Moved(disk, d, l.name)
           r == Shortening(disk, d)
<1>1. /\ Departing(disk, d, l) /\ Leaving(disk, Held, d, l) /\ clearing = TRUE
      /\ Clearing(disk, S) /\ todo = <<Put("data", b, v)>> \o r
  <2>1. <<>> \o Unnaming(disk, d, l.name) = Unnaming(disk, d, l.name)
    BY ListsOfRemoval DEF IsList
  <2> QED
    BY <2>1 DEF ClearsBits, Departing, Unnaming
<1>2. disk \in Disks /\ d \in Inums /\ b \in Blocks
  BY <1>1, LeavingFacts
<1>3. v \in [Slots -> Entries]
  <2>1. d \in DirsIn(disk) /\ l.name \in Names /\ ~Lacks(disk, d, l.name) /\ Shape(disk, Held)
    BY <1>1, LeavingFacts DEF Leaving
  <2> QED
    BY <2>1, MovedEntries
<1>4. IsList(r) /\ r # <<>>
  BY ListsOfRemoval
<1> HIDE DEF b, v, r
<1>5. NewData(disk, disk', b, v) /\ Leaves(r)
  <2>1. Due("data", b, v, r)
    BY <1>1, <1>4 DEF Due
  <2> QED
    BY <1>2, <1>3, <2>1, Writes
<1>6. PICK D : D = disk
  OBVIOUS
<1>7. /\ disk' \in Disks /\ disk'.data = MovedIn(D, d, l.name) /\ disk'.inode = D.inode
      /\ disk'.inodemap = D.inodemap /\ disk'.blockmap = D.blockmap
      /\ todo' = Shortening(disk', d) /\ clearing' = TRUE /\ current_inode' = current_inode /\ Held' = Held
  BY <1>1, <1>4, <1>5, <1>6 DEF NewData, Leaves, MovedIn, b, v, r, Shortening
<1>8. Shifting(D, disk', Held, d, l)
  BY <1>1, <1>6, <1>7 DEF Shifting
<1>9. Room(disk')
  BY <1>1, <1>2, <1>6, <1>7, ClearingLeavesRoom DEF Room
<1>10. Departing(D, d, l)'
  BY <1>1, <1>6, <1>7 DEF Departing, Remaining
<1>11. Shortens(D, d, l)'
  BY <1>7, <1>8, <1>9, <1>10 DEF Shortens
<1>12. Shrinks(disk, disk')
  <2>1. LinksIn(disk') = LinksIn(D) \/ LinksIn(disk') = Reached(LinksIn(D) \ {l})
    BY <1>8, ShiftedNames
  <2> QED
    BY <1>1, <1>6, <2>1 DEF Shrinks, Leaving
<1> QED
  BY <1>11, <1>12

(* The first write of a list, and the others.                              *)
LEMMA FirstOfList ==
  ASSUME NEW S, NEW w \in Seq(S), w # <<>>
  PROVE  /\ w[1] \in S /\ Tail(w) \in Seq(S) /\ Len(w) >= 1 /\ Len(Tail(w)) = Len(w) - 1
         /\ \A k \in 1 .. Len(w) - 1 : Tail(w)[k] = w[k + 1]
         /\ w = <<w[1]>> \o Tail(w)
<1>1. w[1] \in S /\ Tail(w) \in Seq(S) /\ Len(w) >= 1 /\ Len(Tail(w)) = Len(w) - 1
  OBVIOUS
<1>2. \A k \in 1 .. Len(w) - 1 : Tail(w)[k] = w[k + 1]
  OBVIOUS
<1>3. /\ <<w[1]>> \o Tail(w) \in Seq(S) /\ Len(<<w[1]>> \o Tail(w)) = Len(w)
      /\ \A k \in 1 .. Len(w) : (<<w[1]>> \o Tail(w))[k] = w[k]
  <2> DEFINE a == w[1]
             v == Tail(w)
  <2>1. a \in S /\ v \in Seq(S) /\ Len(v) = Len(w) - 1 /\ Len(w) \in Nat
        /\ \A k \in 1 .. Len(w) - 1 : v[k] = w[k + 1]
    BY <1>1, <1>2
  <2>2. a = w[1]
    OBVIOUS
  <2> HIDE DEF a, v
  <2>3. <<a>> \in Seq(S) /\ Len(<<a>>) = 1 /\ <<a>>[1] = a
    BY <2>1
  <2>4. <<a>> \o v \in Seq(S) /\ Len(<<a>> \o v) = Len(w)
    BY <2>1, <2>3
  <2>5. \A k \in 1 .. Len(w) : (<<a>> \o v)[k] = w[k]
    <3> SUFFICES ASSUME NEW k \in 1 .. Len(w) PROVE (<<a>> \o v)[k] = w[k]
      OBVIOUS
    <3>1. CASE k = 1
      BY <2>1, <2>2, <2>3, <3>1
    <3>2. CASE k # 1
      <4>1. (<<a>> \o v)[k] = v[k - 1]
        BY <2>1, <2>3, <3>2
      <4>2. k - 1 \in 1 .. Len(w) - 1 /\ (k - 1) + 1 = k
        BY <2>1, <3>2
      <4> QED
        BY <2>1, <4>1, <4>2
    <3> QED
      BY <3>1, <3>2
  <2> QED
    BY <2>4, <2>5 DEF a, v
<1> DEFINE x == <<w[1]>> \o Tail(w)
<1> HIDE DEF x
<1>4. x \in Seq(S) /\ Len(w) = Len(x) /\ \A k \in 1 .. Len(w) : w[k] = x[k]
  BY <1>3 DEF x
<1>5. w = x
  BY <1>4, SameLists
<1> QED
  BY <1>1, <1>2, <1>5 DEF x

(* Before further writes.                                                  *)
LEMMA FirstOfJoined ==
  ASSUME NEW S, NEW w \in Seq(S), w # <<>>, NEW u, IsList(u)
  PROVE  w \o u = <<w[1]>> \o (Tail(w) \o u) /\ IsList(Tail(w) \o u) /\ (u # <<>> => Tail(w) \o u # <<>>)
<1>1. PICK T : u \in Seq(T)
  BY DEF IsList
<1> DEFINE Q == S \cup T
           a == w[1]
           v == Tail(w)
<1>2. a \in S /\ v \in Seq(S) /\ w = <<a>> \o v
  BY FirstOfList
<1>3. \A x \in Seq(S) : x \in Seq(Q)
  OBVIOUS
<1>4. \A x \in Seq(T) : x \in Seq(Q)
  OBVIOUS
<1>5. a \in Q
  BY <1>2
<1> HIDE DEF Q, a, v
<1>6. v \in Seq(Q) /\ u \in Seq(Q) /\ <<a>> \in Seq(Q)
  BY <1>1, <1>2, <1>3, <1>4, <1>5
<1>7. (<<a>> \o v) \o u = <<a>> \o (v \o u)
  BY <1>6, JoinedAnyhow
<1>8. v \o u \in Seq(Q) /\ (u # <<>> => v \o u # <<>>)
  BY <1>6
<1> QED
  BY <1>2, <1>7, <1>8, Zenon DEF IsList, a, v

(* A bit is cleared, and the other bits are still to be cleared.           *)
LEMMA ClearsFewer ==
  ASSUME NEW D, NEW E, NEW w, NEW S, Clears(D, w, S), w # <<>>, E.inode = D.inode,
         \A p \in S : w[1] = BlockBit(D, p) => ~E.blockmap[D.inode[p].block]
  PROVE  Clears(E, Tail(w), S)
<1>1. Bits(E, S) = Bits(D, S) /\ \A p : BlockBit(E, p) = BlockBit(D, p)
  BY DEF Bits, BlockBit
<1>2. /\ w \in Seq(Bits(D, S))
      /\ \A k \in 1 .. Len(w) : \E p \in S :
           \/ w[k] = BlockBit(D, p)
           \/ w[k] = InodeBit(p) /\ (IF k = 1 THEN ~D.blockmap[D.inode[p].block]
                                               ELSE w[k - 1] = BlockBit(D, p))
  BY DEF Clears
<1>3. /\ Tail(w) \in Seq(Bits(D, S)) /\ Len(Tail(w)) = Len(w) - 1 /\ Len(w) \in Nat
      /\ \A k \in 1 .. Len(w) - 1 : Tail(w)[k] = w[k + 1]
  BY <1>2, FirstOfList
<1> DEFINE v == Tail(w)
<1> HIDE DEF v
<1>4. ASSUME NEW k \in 1 .. Len(w) - 1
      PROVE  \E p \in S :
               \/ v[k] = BlockBit(E, p)
               \/ v[k] = InodeBit(p) /\ (IF k = 1 THEN ~E.blockmap[E.inode[p].block]
                                                   ELSE v[k - 1] = BlockBit(E, p))
  <2>1. k + 1 \in 1 .. Len(w) /\ k + 1 # 1 /\ (k + 1) - 1 = k /\ v[k] = w[k + 1]
    BY <1>3 DEF v
  <2>2. PICK p \in S : w[k + 1] = BlockBit(D, p) \/ (w[k + 1] = InodeBit(p) /\ w[k] = BlockBit(D, p))
    <3> DEFINE j == k + 1
    <3> HIDE DEF j
    <3>1. j \in 1 .. Len(w) /\ j # 1 /\ j - 1 = k
      BY <2>1 DEF j
    <3>2. \E p \in S : w[j] = BlockBit(D, p) \/ (w[j] = InodeBit(p) /\ w[k] = BlockBit(D, p))
      BY <1>2, <3>1
    <3> QED
      BY <3>2 DEF j
  <2>3. CASE w[k + 1] = BlockBit(D, p)
    BY <1>1, <2>1, <2>3
  <2>4. CASE w[k + 1] = InodeBit(p) /\ w[k] = BlockBit(D, p)
    <3>1. CASE k = 1
      BY <2>1, <2>4, <3>1
    <3>2. CASE k # 1
      <4>1. k - 1 \in 1 .. Len(w) - 1 /\ (k - 1) + 1 = k
        BY <1>3, <3>2
      <4>2. v[k - 1] = w[k]
        BY <1>3, <4>1 DEF v
      <4> QED
        BY <1>1, <2>1, <2>4, <3>2, <4>2
    <3> QED
      BY <3>1, <3>2
  <2> QED
    BY <2>2, <2>3, <2>4
<1> QED
  BY <1>1, <1>3, <1>4 DEF Clears, v

(* The first bit is cleared.                                               *)
LEMMA BitCleared ==
  ASSUME NEW d, NEW l, NEW S, NEW w, ClearsBits(d, l, S, w), w # <<>>, Write
  PROVE  ClearsBits(d, l, S, Tail(w))' /\ SameNames(disk, disk')
<1> DEFINE u == Unnaming(disk, d, l.name)
           r == Tail(w) \o u
<1>1. /\ Departing(disk, d, l) /\ Leaving(disk, Held, d, l) /\ Kept(disk, Remaining(disk, l))
      /\ clearing = TRUE /\ Clearing(disk, S) /\ S \subseteq UsedIn(disk) /\ S \cap Remaining(disk, l) = {}
      /\ Clears(disk, w, S) /\ todo = w \o u /\ d = current_inode
  BY DEF ClearsBits, Departing
<1>2. disk \in Disks /\ Shape(disk, Held) /\ S \subseteq Inums /\ \A p \in S : disk.inode[p].block \in Blocks
  BY <1>1 DEF Leaving, Shape, Clearing
<1>3. IsList(u) /\ u # <<>> /\ w \in Seq(Bits(disk, S))
  BY <1>1, ListsOfRemoval DEF Clears
<1> HIDE DEF u
<1>4. todo = <<w[1]>> \o r /\ IsList(r) /\ r # <<>>
  BY <1>1, <1>3, FirstOfJoined
<1>w. Len(w) \in Nat /\ Len(w) >= 1
  BY <1>3, FirstOfList
<1> HIDE DEF r
<1>5. ASSUME NEW p \in S, w[1] = BlockBit(disk, p)
      PROVE  NewBlockBit(disk, disk', disk.inode[p].block, FALSE) /\ Leaves(r)
  <2>1. Due("blockmap", disk.inode[p].block, FALSE, r)
    BY <1>1, <1>4, <1>5 DEF Due, BlockBit
  <2> QED
    BY <1>2, <2>1, Writes
<1>6. ASSUME NEW p \in S, w[1] = InodeBit(p)
      PROVE  NewInodeBit(disk, disk', p, FALSE) /\ Leaves(r)
  <2>1. Due("inodemap", p, FALSE, r) /\ p \in Inums
    BY <1>1, <1>2, <1>4, <1>6 DEF Due, InodeBit
  <2> QED
    BY <1>2, <2>1, Writes
<1>7. PICK p \in S : \/ w[1] = BlockBit(disk, p)
                     \/ w[1] = InodeBit(p) /\ ~disk.blockmap[disk.inode[p].block]
  BY <1>1, <1>w DEF Clears
<1>8. /\ disk' \in Disks /\ disk'.inode = disk.inode /\ disk'.data = disk.data /\ Leaves(r)
      /\ \/ /\ disk'.inodemap = disk.inodemap
            /\ disk'.blockmap = [disk.blockmap EXCEPT ![disk.inode[p].block] = FALSE]
         \/ /\ disk'.blockmap = disk.blockmap /\ disk'.inodemap = [disk.inodemap EXCEPT ![p] = FALSE]
            /\ ~disk.blockmap[disk.inode[p].block]
  <2>1. CASE w[1] = BlockBit(disk, p)
    <3>1. NewBlockBit(disk, disk', disk.inode[p].block, FALSE) /\ Leaves(r)
      BY <1>5, <2>1
    <3> QED
      BY <3>1 DEF NewBlockBit
  <2>2. CASE w[1] = InodeBit(p) /\ ~disk.blockmap[disk.inode[p].block]
    <3>1. NewInodeBit(disk, disk', p, FALSE) /\ Leaves(r)
      BY <1>6, <2>2
    <3> QED
      BY <2>2, <3>1 DEF NewInodeBit
  <2> QED
    BY <1>7, <2>1, <2>2
<1>9. Clearing(disk', S)
  BY <1>1, <1>2, <1>7, <1>8, ClearingGoesOn
<1>10. SameNames(disk, disk') /\ Shape(disk', Held)
  <2>1. Frame(disk, disk', Held)
    BY <1>2, <1>8, BitsFrame
  <2> QED
    BY <1>2, <2>1, FrameShape
<1>11. Leaving(disk', Held, d, l) /\ UsedIn(disk') = UsedIn(disk) /\ Remaining(disk', l) = Remaining(disk, l)
  BY <1>1, <1>10 DEF Leaving, SameNames, Remaining
<1>12. Kept(disk', Remaining(disk, l))
  <2>1. Remaining(disk, l) \subseteq UsedIn(disk) \cup Held
    <3>1. DirsOK(disk)
      BY <1>2 DEF Shape
    <3>2. Typed(LinksIn(disk)) /\ Reached(LinksIn(disk)) = LinksIn(disk)
      BY <1>2, <3>1, ShapeFacts
    <3>3. Reached(LinksIn(disk) \ {l}) \subseteq LinksIn(disk)
      BY <3>2, FewerLinks
    <3> QED
      BY <3>3 DEF Remaining, UsedIn, Used
  <2>2. ASSUME NEW i \in Remaining(disk, l)
        PROVE  disk'.inodemap[i] /\ disk'.blockmap[disk'.inode[i].block]
    <3>1. disk.inodemap[i] /\ disk.blockmap[disk.inode[i].block] /\ i # p
      BY <1>1, <2>2 DEF Kept
    <3>2. i \in UsedIn(disk) \cup Held /\ p \in UsedIn(disk) \cup Held
      BY <1>1, <2>1, <2>2
    <3>3. disk.inode[i].block # disk.inode[p].block
      BY <1>2, <3>1, <3>2 DEF Shape, OwnBlocks
    <3>4. /\ i \in Inums /\ disk.inode[i].block \in Blocks
          /\ disk.inodemap \in [Inums -> BOOLEAN] /\ disk.blockmap \in [Blocks -> BOOLEAN]
      BY <1>2, <3>2, ShapeFacts DEF Shape, OwnBlocks, Disks
    <3>5. disk'.inodemap[i]
      BY <1>8, <3>1, <3>4
    <3>6. disk'.blockmap[disk.inode[i].block]
      BY <1>8, <3>1, <3>3, <3>4
    <3> QED
      BY <1>8, <3>5, <3>6
  <2> QED
    BY <2>2 DEF Kept
<1>13. Unnaming(disk', d, l.name) = u
  BY <1>8 DEF Unnaming, Shortening, Moved, PlaceOf, BlockOf, u
<1>14. Clears(disk', Tail(w), S)
  <2>1. \A q \in S : w[1] = BlockBit(disk, q) => ~disk'.blockmap[disk.inode[q].block]
    <3> SUFFICES ASSUME NEW q \in S, w[1] = BlockBit(disk, q) PROVE ~disk'.blockmap[disk.inode[q].block]
      OBVIOUS
    <3>1. NewBlockBit(disk, disk', disk.inode[q].block, FALSE) /\ disk.inode[q].block \in Blocks
      BY <1>2, <1>5
    <3> QED
      BY <1>2, <3>1 DEF NewBlockBit, Disks
  <2>2. disk'.inode = disk.inode
    BY <1>8
  <2> DEFINE E == disk'
  <2> HIDE DEF E
  <2>3. E.inode = disk.inode /\ \A q \in S : w[1] = BlockBit(disk, q) => ~E.blockmap[disk.inode[q].block]
    BY <2>1, <2>2 DEF E
  <2>4. Clears(E, Tail(w), S)
    BY <1>1, <2>3, ClearsFewer
  <2> QED
    BY <2>4 DEF E
<1>15. todo' = Tail(w) \o Unnaming(disk', d, l.name) /\ clearing' = TRUE
       /\ Held' = Held /\ current_inode' = current_inode
  BY <1>1, <1>4, <1>8, <1>13 DEF Leaves, r
<1>16. ClearsBits(d, l, S, Tail(w))'
  BY <1>1, <1>9, <1>11, <1>12, <1>14, <1>15 DEF ClearsBits, Departing, Remaining
<1> QED
  BY <1>10, <1>16

(* A removal, at any stage.                                                *)
Erasing == \E D, d, l, S, w : ClearsBits(d, l, S, w) \/ Shortens(D, d, l)

(* More is to be written, and there is room.                               *)
LEMMA ErasingFacts ==
  ASSUME Erasing
  PROVE  todo # <<>> /\ clearing = TRUE /\ Room(disk) /\ disk \in Disks
<1>1. PICK D, d, l, S, w : ClearsBits(d, l, S, w) \/ Shortens(D, d, l)
  BY DEF Erasing
<1>2. CASE ClearsBits(d, l, S, w)
  <2>1. /\ clearing = TRUE /\ Clearing(disk, S) /\ disk \in Disks /\ w \in Seq(Bits(disk, S))
        /\ todo = w \o Unnaming(disk, d, l.name)
    BY <1>2 DEF ClearsBits, Departing, Leaving, Shape, Clears
  <2>2. todo # <<>>
    <3> DEFINE u == Unnaming(disk, d, l.name)
    <3>1. IsList(u) /\ u # <<>>
      BY ListsOfRemoval
    <3> HIDE DEF u
    <3>2. CASE w = <<>>
      <4>1. <<>> \o u = u
        BY <3>1 DEF IsList
      <4> QED
        BY <2>1, <3>1, <3>2, <4>1 DEF u
    <3>3. CASE w # <<>>
      <4>1. todo = <<w[1]>> \o (Tail(w) \o u) /\ IsList(Tail(w) \o u)
        BY <2>1, <3>1, <3>3, FirstOfJoined DEF u
      <4> QED
        BY <4>1, ListOfOneMore
    <3> QED
      BY <3>2, <3>3
  <2> QED
    BY <2>1, <2>2, ClearingLeavesRoom
<1>3. CASE Shortens(D, d, l)
  BY <1>3, ListsOfRemoval DEF Shortens, Shifting
<1> QED
  BY <1>1, <1>2, <1>3

(* A write leads to the next stage, or ends the call.                      *)
LEMMA ErasingGoesOn ==
  ASSUME Erasing, Write
  PROVE  (Idle' \/ Erasing') /\ Shrinks(disk, disk')
<1>1. PICK D, d, l, S, w : ClearsBits(d, l, S, w) \/ Shortens(D, d, l)
  BY DEF Erasing
<1>2. CASE ClearsBits(d, l, S, w) /\ w = <<>>
  <2>1. (\E E : Shortens(E, d, l)') /\ Shrinks(disk, disk')
    BY <1>2, EntriesMoved
  <2> QED
    BY <2>1 DEF Erasing
<1>3. CASE ClearsBits(d, l, S, w) /\ w # <<>>
  BY <1>3, BitCleared DEF Erasing, Shrinks, SameNames
<1>4. CASE Shortens(D, d, l)
  BY <1>4, ShortenedNames
<1> QED
  BY <1>1, <1>2, <1>3, <1>4

(* What do_rm and do_rmdir have in common: with link l of the current      *)
(* directory goes an inode of P, and below those of P are only others.     *)
Gives(l, P) ==
  /\ l \in LinksIn(disk) /\ l.dir = current_inode /\ current_inode \in DirsIn(disk)
  /\ ClosedBelow(P) /\ l.obj \in P /\ P \subseteq GivenUp(LinksIn(disk), l)
  /\ Cleared(Freed(l.obj), P) \cap Held = {}
  /\ Size(current_inode) <= SectorEntries
RemoveCall(l, P) ==
  /\ Gives(l, P) /\ Submit(Removed(l.name, l.obj), TRUE)
  /\ UNCHANGED <<disk, current_inode, fd_table>>

(* In one sector the entries move as they should.                          *)
LEMMA RemovedIs ==
  ASSUME NEW n, NEW i, disk \in Disks, disk.inode[current_inode].size <= SectorEntries,
         disk.inode[current_inode].size \in Int, BlockOf(disk, current_inode) \in [Slots -> Entries]
  PROVE  Removed(n, i) = Freed(i) \o Unnaming(disk, current_inode, n)
<1> DEFINE d == current_inode
           a == Put("data", disk.inode[d].block, FirstSector(Shifted(d, n), Block(d)))
           b == Put("inode", d, Resize(disk.inode[d], -1))
<1>1. FirstSector(Shifted(d, n), Block(d)) = Moved(disk, d, n)
  <2>1. Shifted(d, n) = Moved(disk, d, n) /\ Block(d) = BlockOf(disk, d)
    BY Zenon DEF Shifted, Moved, PlaceOf, Block, BlockOf, Size
  <2>2. \A k \in Slots : k > SectorEntries => Moved(disk, d, n)[k] = BlockOf(disk, d)[k]
    BY DEF Moved, Slots
  <2>3. \A k \in Slots : FirstSector(Shifted(d, n), Block(d))[k] = Moved(disk, d, n)[k]
    BY <2>1, <2>2 DEF FirstSector, Slots
  <2> DEFINE m == Moved(disk, d, n)
             s == FirstSector(Shifted(d, n), Block(d))
  <2>4. m = [k \in Slots |-> m[k]] /\ s = [k \in Slots |-> s[k]]
    BY DEF Moved, FirstSector
  <2> HIDE DEF m, s
  <2>5. [k \in Slots |-> m[k]] = [k \in Slots |-> s[k]]
    BY <2>3 DEF m, s
  <2>6. m = s
    BY <2>4, <2>5
  <2> QED
    BY <2>6 DEF m, s
<1>2. Resized(d, -1) = b
  BY DEF Resized, Resize
<1>3. Removed(n, i) = Freed(i) \o <<a, b>>
  BY <1>2, Zenon DEF Removed
<1>4. <<a, b>> = <<a>> \o <<b>>
  <2> DEFINE S == {a, b}
  <2>1. a \in S /\ b \in S
    OBVIOUS
  <2> HIDE DEF S, a, b
  <2> QED
    BY <2>1, TwoWrites
<1>5. Unnaming(disk, d, n) = <<a>> \o <<b>>
  BY <1>1, Zenon DEF Unnaming, Shortening
<1> QED
  BY <1>3, <1>4, <1>5

(* The bits are to be cleared first.                                       *)
LEMMA RemovalCalled ==
  ASSUME Idle, NEW l, NEW P, RemoveCall(l, P)
  PROVE  Erasing' /\ SameNames(disk, disk')
<1>1. PICK d, w, S : d = current_inode /\ w = Freed(l.obj) /\ S = Cleared(w, P)
  OBVIOUS
<1>2. /\ l \in LinksIn(disk) /\ l.dir = d /\ d \in DirsIn(disk) /\ d \in Inums
      /\ ClosedBelow(P) /\ l.obj \in P /\ P \subseteq GivenUp(LinksIn(disk), l) /\ S \cap Held = {}
      /\ disk.inode[current_inode].size <= SectorEntries
      /\ todo' = Removed(l.name, l.obj) /\ clearing' = TRUE
      /\ disk' = disk /\ current_inode' = current_inode /\ Held' = Held
  BY <1>1, IdleFacts DEF RemoveCall, Gives, Submit, Held, Size
<1>3. /\ disk \in Disks /\ DirsOK(disk) /\ Sound(disk, Held) /\ Shape(disk, Held) /\ Room(disk)
      /\ UsedIn(disk) \subseteq Inums
  BY IdleFacts
<1>4. todo' = w \o Unnaming(disk, d, l.name)
  <2>1. disk.inode[d].size \in Int /\ BlockOf(disk, d) \in [Slots -> Entries]
    <3>1. disk.inode[d] \in Inodes /\ disk.inode[d].block \in Blocks
      BY <1>2, <1>3 DEF DirsOK, DirOK, Disks
    <3> QED
      BY <1>2, <1>3, <3>1, WrittenValues DEF Inodes
  <2> QED
    BY <1>1, <1>2, <1>3, <2>1, RemovedIs
<1>5. Clears(disk, w, S)
  <2>1. w \in Paired(disk, P)
    BY <1>1, <1>2, <1>3, FreedPaired
  <2> QED
    BY <1>1, <2>1, PairedClears
<1>6. S \subseteq UsedIn(disk) /\ S \cap Remaining(disk, l) = {}
  <2>1. S \subseteq GivenUp(LinksIn(disk), l)
    BY <1>1, <1>2 DEF Cleared
  <2> QED
    BY <1>2, <2>1 DEF GivenUp, UsedIn, Remaining
<1>7. Clearing(disk, S)
  <2>1. OwnBlocks(disk, S) /\ \A i \in S : disk.inodemap[i] /\ disk.blockmap[disk.inode[i].block]
    BY <1>3, <1>6 DEF Sound, Shape, OwnBlocks, Kept
  <2>2. S \in SUBSET Inums
    BY <1>3, <1>6
  <2> QED
    BY <1>3, <2>1, <2>2, ClearingBegins
<1>8. Leaving(disk, Held, d, l)
  BY <1>2, <1>3 DEF Leaving
<1>9. Kept(disk, Remaining(disk, l))
  <2>1. Reached(LinksIn(disk) \ {l}) \subseteq LinksIn(disk)
    <3>1. Typed(LinksIn(disk)) /\ Reached(LinksIn(disk)) = LinksIn(disk)
      BY <1>3, ShapeFacts
    <3> QED
      BY <3>1, FewerLinks
  <2>2. Remaining(disk, l) \subseteq UsedIn(disk) \cup Held
    BY <2>1 DEF Remaining, UsedIn, Used
  <2> QED
    BY <1>3, <2>2 DEF Sound, Kept
<1>10. ClearsBits(d, l, S, w)'
  BY <1>1, <1>2, <1>4, <1>5, <1>6, <1>7, <1>8, <1>9 DEF ClearsBits, Departing, Remaining
<1> QED
  BY <1>2, <1>10 DEF Erasing, SameNames

(* do_rm: all entries of the file have its only name.                      *)
LEMMA RmCalled ==
  ASSUME Careful, Idle, NEW n \in Names, Rm(n)
  PROVE  Erasing' /\ SameNames(disk, disk')
<1> DEFINE d == current_inode
           f == Search(d, n)
           R == LinksIn(disk)
<1>1. /\ f # None /\ disk.inode[f].type = "FILE" /\ Size(d) <= SectorEntries /\ ~Open(f)
      /\ \A k \in 1 .. Size(d) : Block(d)[k].inum = f => Block(d)[k].name = n
      /\ Submit(Removed(n, f), TRUE) /\ UNCHANGED <<disk, current_inode, fd_table>>
  BY IdleFacts, OneIsEnough DEF Rm, IsFile
<1>2. PICK l \in LinksIn(disk) : l.dir = d /\ l.name = n /\ l.obj = f
  BY <1>1, FileFound
<1>3. d \in DirsIn(disk)
  BY <1>1, FileFound
<1>4. /\ disk \in Disks /\ DirsOK(disk) /\ NamesOK(disk) /\ OneParent(R) /\ Typed(R) /\ f \in Inums
      /\ \A m \in R : m \in LinksOf(disk, m.dir)
  BY <1>2, IdleFacts, ShapeFacts DEF Shape, NamesOK
<1>5. NamesOf(R, l.obj) = {l}
  <2> SUFFICES ASSUME NEW m \in R, m.obj = f PROVE m = l
    BY <1>2 DEF NamesOf
  <2>1. m.dir = d
    BY <1>2, <1>4 DEF OneParent
  <2>2. PICK j \in 3 .. disk.inode[d].size : m = LinkTo(d, BlockOf(disk, d)[j])
    BY <1>4, <2>1 DEF LinksOf
  <2>3. PICK k \in 3 .. disk.inode[d].size : l = LinkTo(d, BlockOf(disk, d)[k])
    BY <1>2, <1>4 DEF LinksOf
  <2>4. DirOK(disk, d)
    BY <1>3, <1>4 DEF DirsOK
  <2>5. BlockOf(disk, d)[j].inum = f /\ BlockOf(disk, d)[k].name = n
    BY <1>2, <2>2, <2>3 DEF LinkTo
  <2>6. BlockOf(disk, d)[j].name = n
    <3>1. \A e \in 1 .. disk.inode[d].size : BlockOf(disk, d)[e].inum = f => BlockOf(disk, d)[e].name = n
      BY <1>1 DEF Size, Block, BlockOf
    <3>2. j \in 1 .. disk.inode[d].size
      BY <2>4 DEF DirOK
    <3> HIDE DEF d, f
    <3> QED
      BY <2>5, <3>1, <3>2
  <2>7. j = k
    BY <2>2, <2>3, <2>4, <2>5, <2>6 DEF DirOK
  <2> QED
    BY <2>2, <2>3, <2>7
<1>6. l.obj \in GivenUp(R, l)
  BY <1>4, <1>5, GivenUpClosed
<1>7. ClosedBelow({f}) /\ {f} \subseteq GivenUp(R, l)
  BY <1>1, <1>2, <1>4, <1>6 DEF ClosedBelow
<1>8. f \notin Held
  <2>1. f # d
    BY <1>1, <1>3, <1>4 DEF DirsOK, DirOK
  <2>2. \A fd \in Fds : fd_table[fd] # f
    BY <1>1 DEF Open
  <2> QED
    BY <2>1, <2>2 DEF Held
<1>9. Gives(l, {f})
  BY <1>1, <1>2, <1>3, <1>7, <1>8 DEF Gives, Cleared
<1>10. RemoveCall(l, {f})
  BY <1>1, <1>2, <1>9 DEF RemoveCall
<1> QED
  BY <1>10, RemovalCalled

(* What goes with a link has all that is below it.                         *)
LEMMA ClosedUnder ==
  ASSUME Idle, NEW l \in LinksIn(disk)
  PROVE  ClosedBelow(GivenUp(LinksIn(disk), l))
<1> DEFINE R == LinksIn(disk)
           P == GivenUp(R, l)
<1>1. /\ disk \in Disks /\ DirsOK(disk) /\ NamesOK(disk) /\ OneParent(R) /\ Typed(R)
      /\ UsedIn(disk) \subseteq Inums
      /\ \A m \in R : m.type = "DIRECTORY" => m.obj \in DirsIn(disk)
      /\ \A o \in DirsIn(disk) : From(R, o) = LinksOf(disk, o)
      /\ \A m \in R : m.obj \in Inums
  <2>1. R \subseteq [dir : Inums, name : Names \cup {".", "..", NoName}, obj : Inums, type : Kinds]
    BY IdleFacts, ShapeFacts
  <2> QED
    BY <2>1, IdleFacts, ShapeFacts DEF Shape, NamesOK
<1>2. P \subseteq Inums
  BY <1>1 DEF GivenUp, UsedIn
<1>3. \A m \in R : m.dir \in P => m.obj \in P
  BY <1>1, GivenUpClosed
<1>4. ASSUME NEW p \in P, disk.inode[p].type # "FILE", NEW k \in 3 .. Size(p)
      PROVE  Block(p)[k].inum \in P
  <2>1. PICK m \in R : m.obj = p
    BY DEF GivenUp, Used
  <2>2. m.type = "DIRECTORY"
    <3>1. disk.inode[p] \in Inodes
      BY <1>1, <1>2 DEF Disks
    <3> QED
      BY <1>1, <1>4, <2>1, <3>1 DEF NamesOK, Inodes, Kinds
  <2>3. From(R, p) = LinksOf(disk, p)
    BY <1>1, <2>1, <2>2
  <2>4. LinkTo(p, BlockOf(disk, p)[k]) \in From(R, p)
    BY <1>4, <2>3 DEF LinksOf, Size
  <2>5. PICK x \in R : x.dir = p /\ x.obj = Block(p)[k].inum
    BY <2>4 DEF From, LinkTo, Block, BlockOf
  <2> QED
    BY <1>3, <2>5
<1> QED
  BY <1>2, <1>4 DEF ClosedBelow

(* do_rmdir: nothing that goes is open, and the current directory stays.   *)
LEMMA RmdirCalled ==
  ASSUME Careful, Idle, NEW n \in Names, Rmdir(n)
  PROVE  Erasing' /\ SameNames(disk, disk')
<1> DEFINE d == current_inode
           i == Search(d, n)
           R == LinksIn(disk)
<1>1. /\ i # None /\ disk.inode[i].type = "DIRECTORY" /\ Size(d) <= SectorEntries
      /\ \A j \in Inums : Put("inodemap", j, FALSE) \in ToSet(Freed(i)) => ~Open(j)
      /\ Submit(Removed(n, i), TRUE) /\ UNCHANGED <<disk, current_inode, fd_table>>
  BY IdleFacts, OneIsEnough DEF Rmdir, IsDirectory
<1>2. PICK l \in LinksIn(disk) : l.dir = d /\ l.name = n /\ l.obj = i
  BY <1>1, FileFound
<1>3. d \in DirsIn(disk)
  BY <1>1, FileFound
<1>4. /\ disk \in Disks /\ DirsOK(disk) /\ NamesOK(disk) /\ OneParent(R) /\ Typed(R) /\ i \in Inums
      /\ Dirs(R) = DirsIn(disk) /\ Reached(R) = R
  BY <1>2, IdleFacts, ShapeFacts DEF Shape, NamesOK
<1> DEFINE P == GivenUp(R, l)
<1>5. NamesOf(R, l.obj) = {l}
  <2>1. l.type = "DIRECTORY"
    BY <1>1, <1>2, <1>4 DEF NamesOK
  <2>2. \A m \in R : m.obj = l.obj => m = l
    BY <1>2, <1>4, <2>1 DEF NamesOK
  <2> QED
    BY <1>2, <2>2 DEF NamesOf
<1>6. l.obj \in P
  BY <1>2, <1>4, <1>5, GivenUpClosed
<1>7. ClosedBelow(P)
  BY <1>2, ClosedUnder
<1>8. d \notin P
  <2>1. d \in Dirs(R \ {l})
    BY <1>2, <1>3, <1>4, ParentStays
  <2>2. d \in Used(Reached(R \ {l}))
    <3>1. Typed(R \ {l})
      BY <1>4, FewerLinks
    <3>2. CASE d = Root
      BY <3>2 DEF Used
    <3>3. CASE d # Root
      <4>1. \E m \in Reached(R \ {l}) : m.obj = d
        BY <2>1, <3>1, <3>3, DirsHaveNames
      <4> QED
        BY <4>1 DEF Used
    <3> QED
      BY <3>2, <3>3
  <2> QED
    BY <2>2 DEF GivenUp
<1>9. Cleared(Freed(i), P) \cap Held = {}
  <2> SUFFICES ASSUME NEW p \in Cleared(Freed(i), P), p \in Held PROVE FALSE
    OBVIOUS
  <2>1. p \in P /\ p \in Inums /\ Put("inodemap", p, FALSE) \in ToSet(Freed(i))
    BY <1>7 DEF Cleared, InodeBit, ClosedBelow
  <2>2. ~Open(p) /\ p # d
    BY <1>1, <1>8, <2>1
  <2> QED
    BY <2>2 DEF Open, Held
<1> HIDE DEF P
<1>10. Gives(l, P)
  BY <1>1, <1>2, <1>3, <1>6, <1>7, <1>9 DEF Gives, P
<1>11. RemoveCall(l, P)
  BY <1>1, <1>2, <1>10 DEF RemoveCall
<1> QED
  BY <1>11, RemovalCalled

-----------------------------------------------------------------------------
(* do_mkfs.                                                                *)
(* A root without names.                                                   *)
LEMMA RootOnly ==
  ASSUME NEW D, D.inode[Root].type = "DIRECTORY", D.inode[Root].size = 2
  PROVE  DirsIn(D) = {Root} /\ LinksIn(D) = {}
<1>1. Root \in DirsIn(D) /\ DirsIn(D) \subseteq Inums /\ Root \in Inums
  BY RootIsDir DEF DirsIn
<1>2. From(AllIn(D), Root) = {}
  <2>1. From(AllIn(D), Root) = LinksOf(D, Root)
    BY <1>1, LinksOfDisk
  <2> QED
    BY <2>1 DEF LinksOf
<1>3. DirsIn(D) = {Root}
  <2>1. All!Leads(AllIn(D), {Root})
    BY <1>2 DEF From, All!Leads
  <2>2. {Root} \in SUBSET Inums /\ Root \in {Root}
    BY <1>1
  <2>3. DirsIn(D) \subseteq {Root}
    BY <2>1, <2>2, DirsLeast DEF DirsIn
  <2> QED
    BY <1>1, <2>3
<1>4. LinksIn(D) = {l \in AllIn(D) : l.dir \in DirsIn(D)}
  BY ReachedIs DEF LinksIn, DirsIn
<1> QED
  BY <1>2, <1>3, <1>4 DEF From

(* A disk with nothing on it.                                              *)
Formatted(D) ==
  /\ D \in Disks /\ D.inode[Root] = Inode("DIRECTORY", 1) /\ D.data[1] = NewBlock(Root, Root)
  /\ D.inodemap = [i \in Inums |-> i = Root] /\ D.blockmap = [b \in Blocks |-> b = 1]

(* Numbers that there are.                                                 *)
LEMMA FirstPlaces ==
  Root \in Inums /\ 1 \in Blocks /\ 1 \in Slots /\ 2 \in Slots /\ 0 \in Fds
<1>1. INODE_NUM \in Nat \ {0} /\ BLOCK_NUM \in Nat /\ BLOCK_NUM >= INODE_NUM /\ MAX_FILE_NUM \in Nat \ {0}
      /\ BlockEntries \in Nat \ {0, 1}
  OBVIOUS
<1> QED
  BY <1>1 DEF Root, Inums, Blocks, Slots, Fds

(* One place is taken.                                                     *)
LEMMA OneTaken ==
  ASSUME NEW S, NEW x \in S
  PROVE  Taken([y \in S |-> y = x]) = {x}
BY DEF Taken

(* It has room.                                                            *)
LEMMA OneOfEach ==
  ASSUME NEW D, D.inodemap = [i \in Inums |-> i = Root],
         D.blockmap = [b \in Blocks |-> b = 1] \/ D.blockmap = [b \in Blocks |-> FALSE]
  PROVE  Room(D)
<1>1. Taken(D.inodemap) = {Root}
  BY FirstPlaces, OneTaken
<1>2. Taken(D.blockmap) = {1} \/ Taken(D.blockmap) = {}
  <2>1. CASE D.blockmap = [b \in Blocks |-> b = 1]
    BY <2>1, FirstPlaces, OneTaken
  <2>2. CASE D.blockmap = [b \in Blocks |-> FALSE]
    BY <2>2 DEF Taken
  <2> QED
    BY <2>1, <2>2
<1>3. Cardinality({Root}) = 1 /\ Cardinality({1}) = 1 /\ Cardinality({}) = 0
  BY FS_Singleton, FS_EmptySet
<1>4. Cardinality(Taken(D.blockmap)) \in {0, 1} /\ Cardinality(Taken(D.inodemap)) = 1
  BY <1>1, <1>2, <1>3
<1> QED
  BY <1>4 DEF Room

(* It is in order.                                                         *)
LEMMA FormattedIsSound ==
  ASSUME NEW D, Formatted(D)
  PROVE  Sound(D, {Root}) /\ Room(D) /\ AtPlace(D, Root) /\ LinksIn(D) = {}
<1>1. /\ D \in Disks /\ D.inode[Root] = Inode("DIRECTORY", 1) /\ D.data[1] = NewBlock(Root, Root)
      /\ D.inodemap = [i \in Inums |-> i = Root] /\ D.blockmap = [b \in Blocks |-> b = 1]
  BY DEF Formatted
<1>2. /\ D.inode[Root].type = "DIRECTORY" /\ D.inode[Root].size = 2 /\ D.inode[Root].ref = 0
      /\ D.inode[Root].block = 1
  BY <1>1 DEF Inode
<1>3. DirsIn(D) = {Root} /\ LinksIn(D) = {}
  BY <1>2, RootOnly
<1>4. UsedIn(D) \cup {Root} = {Root}
  BY <1>3 DEF UsedIn, Used
<1>5. BlockOf(D, Root)[1] = Entry(".", "DIRECTORY", Root) /\ BlockOf(D, Root)[2] = Entry("..", "DIRECTORY", Root)
  BY <1>1, <1>2, FirstPlaces DEF BlockOf, NewBlock
<1>6. DirsOK(D)
  <2>1. DirOK(D, Root)
    BY <1>2, <1>5, FirstPlaces DEF DirOK
  <2> QED
    BY <1>3, <2>1 DEF DirsOK
<1>7. NamesOK(D) /\ ParentsOK(D) /\ CountsOK(D)
  BY <1>3, <1>5 DEF NamesOK, OneParent, ParentsOK, CountsOK
<1>8. OwnBlocks(D, UsedIn(D) \cup {Root})
  BY <1>2, <1>4, FirstPlaces DEF OwnBlocks
<1>9. Kept(D, UsedIn(D) \cup {Root})
  BY <1>1, <1>2, <1>4, FirstPlaces DEF Kept
<1> QED
  BY <1>1, <1>3, <1>6, <1>7, <1>8, <1>9, FirstPlaces, OneOfEach DEF Sound, Shape, AtPlace

(* Two disks with the same inodes and blocks have the same names.          *)
LEMMA BitsOnly ==
  ASSUME NEW D, NEW E, E.inode = D.inode, E.data = D.data
  PROVE  LinksIn(E) = LinksIn(D)
<1>1. \A d : LinksOf(E, d) = LinksOf(D, d)
  BY DEF LinksOf, BlockOf
<1>2. AllIn(E) = AllIn(D)
  BY <1>1 DEF AllIn
<1> QED
  BY <1>2 DEF LinksIn

(* What is left of the six writes from the k-th on, and what holds until   *)
(* it is done.                                                             *)
Reformatting(k) ==
  /\ disk \in Disks /\ clearing = TRUE /\ Held = {Root} /\ current_inode = Root
  /\ k \in 1 .. 6 /\ todo = SubSeq(Formatting, k, 6)
  /\ k = 1 => Room(disk)
  /\ k \in {2, 3} => disk.blockmap = [b \in Blocks |-> FALSE]
  /\ k >= 3 => disk.inodemap = [i \in Inums |-> i = Root]
  /\ k >= 4 => disk.blockmap = [b \in Blocks |-> b = 1]
  /\ k >= 5 => disk.inode[Root] = Inode("DIRECTORY", 1)

(* The writes one by one.                                                  *)
LEMMA SixWrites ==
  /\ \E S : Formatting \in Seq(S)
  /\ Len(Formatting) = 6
  /\ Formatting[1] = <<"blockmap", [b \in Blocks |-> FALSE]>>
  /\ Formatting[2] = <<"inodemap", [i \in Inums |-> i = Root]>>
  /\ Formatting[3] = Put("blockmap", 1, TRUE)
  /\ Formatting[4] = Put("inode", Root, Inode("DIRECTORY", 1))
  /\ Formatting[5] = <<"data", [b \in Blocks |-> [k \in Slots |-> Zero]]>>
  /\ Formatting[6] = Put("data", 1, NewBlock(Root, Root))
<1> DEFINE w1 == <<"blockmap", [b \in Blocks |-> FALSE]>>
           w2 == <<"inodemap", [i \in Inums |-> i = Root]>>
           w3 == Put("blockmap", 1, TRUE)
           w4 == Put("inode", Root, Inode("DIRECTORY", 1))
           w5 == <<"data", [b \in Blocks |-> [k \in Slots |-> Zero]]>>
           w6 == Put("data", 1, NewBlock(Root, Root))
           S == {w1, w2, w3, w4, w5, w6}
<1>1. Formatting = <<w1, w2, w3, w4, w5, w6>>
  BY Zenon DEF Formatting, TakenBlock
<1>2. w1 \in S /\ w2 \in S /\ w3 \in S /\ w4 \in S /\ w5 \in S /\ w6 \in S
  OBVIOUS
<1> DEFINE f == Formatting
<1>3. f = <<w1, w2, w3, w4, w5, w6>>
  BY <1>1
<1> HIDE DEF f, w1, w2, w3, w4, w5, w6, S
<1>4. f \in Seq(S) /\ Len(f) = 6
  BY <1>2, <1>3
<1>5. f[1] = w1 /\ f[2] = w2 /\ f[3] = w3 /\ f[4] = w4 /\ f[5] = w5 /\ f[6] = w6
  BY <1>3
<1> QED
  BY <1>4, <1>5 DEF f, w1, w2, w3, w4, w5, w6

(* The next of them.                                                       *)
Merged(old, new) == [x \in DOMAIN old |-> IF x \in DOMAIN new THEN new[x] ELSE old[x]]

(* It changes one part of the disk.                                        *)
LEMMA FormatWrites ==
  ASSUME NEW k, Reformatting(k), Write
  PROVE  /\ todo # <<>> /\ todo' = SubSeq(Formatting, k + 1, 6) /\ (k = 6 => todo' = <<>>)
         /\ clearing' = (IF k < 6 THEN TRUE ELSE FALSE) /\ current_inode' = Root /\ Held' = {Root}
         /\ disk' = [disk EXCEPT ![Formatting[k][1]] = Merged(@, Formatting[k][2])]
<1> DEFINE f == Formatting
<1>1. PICK S : f \in Seq(S)
  BY SixWrites
<1>2. Len(f) = 6
  BY SixWrites
<1> HIDE DEF f
<1>3. k \in 1 .. 6 /\ todo = SubSeq(f, k, 6) /\ clearing = TRUE /\ Held = {Root} /\ current_inode = Root
  BY DEF Reformatting, f
<1>4. todo # <<>> /\ Head(todo) = f[k] /\ Tail(todo) = SubSeq(f, k + 1, 6) /\ Len(todo) = 7 - k
  <2>1. k \in Int /\ \A j \in k .. 6 : f[j] \in S
    <3>1. k \in 1 .. 6 /\ \A j \in k .. 6 : j \in 1 .. 6
      BY <1>3
    <3>2. \A j \in 1 .. Len(f) : f[j] \in S
      BY <1>1
    <3>3. 1 .. 6 = 1 .. Len(f)
      BY <1>2
    <3> QED
      BY <3>1, <3>2, <3>3
  <2>2. Len(SubSeq(f, k, 6)) = (IF k <= 6 THEN 6 - k + 1 ELSE 0) /\ SubSeq(f, k, 6) \in Seq(S)
    BY <2>1, SubSeqProperties
  <2>3. Len(todo) = 7 - k /\ todo \in Seq(S)
    BY <1>3, <2>2
  <2>4. k \in 1 .. Len(f) /\ 6 \in k .. Len(f)
    BY <1>2, <1>3
  <2>5. Head(SubSeq(f, k, 6)) = f[k] /\ Tail(SubSeq(f, k, 6)) = SubSeq(f, k + 1, 6)
    BY <1>1, <2>4, HeadTailOfSubSeq
  <2>6. Len(todo) >= 1
    BY <1>3, <2>3
  <2>7. todo # <<>>
    BY <2>3, <2>6
  <2> QED
    BY <1>3, <2>3, <2>5, <2>7
<1>5. k = 6 => SubSeq(f, k + 1, 6) = <<>>
  BY SubSeqEmpty
<1>6. /\ disk' = [disk EXCEPT ![Head(todo)[1]] = Merged(@, Head(todo)[2])]
      /\ todo' = Tail(todo) /\ clearing' = (clearing /\ Len(todo) > 1)
      /\ current_inode' = current_inode /\ Held' = Held
  BY DEF Write, Merged, Held
<1>7. clearing' = (IF k < 6 THEN TRUE ELSE FALSE)
  <2>1. clearing' = (TRUE /\ 7 - k > 1)
    BY <1>3, <1>4, <1>6, Zenon
  <2>2. CASE k < 6
    <3>1. 7 - k > 1
      BY <1>3, <2>2
    <3> QED
      BY <2>1, <2>2, <3>1, Zenon
  <2>3. CASE ~(k < 6)
    <3>1. ~(7 - k > 1)
      BY <1>3, <2>3
    <3> QED
      BY <2>1, <2>3, <3>1, Zenon
  <2> QED
    BY <2>2, <2>3
<1> QED
  BY <1>3, <1>4, <1>5, <1>6, <1>7 DEF f

BothMaps(S, T, old, new) == old \in [S -> T] /\ new \in [S -> T]

(* What is written over a whole part of the disk is there afterwards.      *)
LEMMA MergedAll ==
  ASSUME NEW S, NEW T, NEW old, NEW new, BothMaps(S, T, old, new)
  PROVE  Merged(old, new) = new
<1> DEFINE m == Merged(old, new)
<1>1. m = [x \in S |-> new[x]]
  BY DEF Merged, BothMaps
<1>2. new = [x \in S |-> new[x]]
  BY DEF BothMaps
<1> QED
  BY <1>1, <1>2

At(y, v) == [x \in {y} |-> v]
OnePlace(S, T, old, y, v) == old \in [S -> T] /\ y \in S /\ v \in T

(* What is written at one place is there, and the rest stays.              *)
LEMMA MergedAt ==
  ASSUME NEW S, NEW T, NEW old, NEW y, NEW v, OnePlace(S, T, old, y, v)
  PROVE  Merged(old, At(y, v)) = [old EXCEPT ![y] = v] /\ [old EXCEPT ![y] = v] \in [S -> T]
<1> DEFINE m == Merged(old, At(y, v))
           e == [old EXCEPT ![y] = v]
<1>1. m = [x \in S |-> IF x \in {y} THEN v ELSE old[x]]
  BY DEF Merged, At, OnePlace
<1>2. e = [x \in S |-> IF x = y THEN v ELSE old[x]] /\ e \in [S -> T]
  BY DEF OnePlace
<1> QED
  BY <1>1, <1>2

Replaced(D, E, f, new) == E = [D EXCEPT ![f] = Merged(@, new)]

(* Only the part that is written changes.                                  *)
LEMMA NewPart ==
  ASSUME NEW D \in Disks, NEW E, NEW f, NEW new, NEW v, Replaced(D, E, f, new)
  PROVE  /\ f = "inodemap" /\ v = Merged(D.inodemap, new) /\ v \in [Inums -> BOOLEAN] =>
              /\ E \in Disks /\ E.inodemap = v
              /\ E.blockmap = D.blockmap /\ E.inode = D.inode /\ E.data = D.data
         /\ f = "blockmap" /\ v = Merged(D.blockmap, new) /\ v \in [Blocks -> BOOLEAN] =>
              /\ E \in Disks /\ E.blockmap = v
              /\ E.inodemap = D.inodemap /\ E.inode = D.inode /\ E.data = D.data
         /\ f = "inode" /\ v = Merged(D.inode, new) /\ v \in [Inums -> Inodes] =>
              /\ E \in Disks /\ E.inode = v
              /\ E.inodemap = D.inodemap /\ E.blockmap = D.blockmap /\ E.data = D.data
         /\ f = "data" /\ v = Merged(D.data, new) /\ v \in [Blocks -> [Slots -> Entries]] =>
              /\ E \in Disks /\ E.data = v
              /\ E.inodemap = D.inodemap /\ E.blockmap = D.blockmap /\ E.inode = D.inode
BY DEF Disks, Replaced

(* The k-th write is one over a part.                                      *)
Overwrites(D, E, k) == Replaced(D, E, Formatting[k][1], Formatting[k][2])

(* What it leaves.                                                         *)
Overwritten(D, E, k) ==
  /\ E \in Disks
  /\ E.blockmap = IF k = 1 THEN [b \in Blocks |-> FALSE]
                  ELSE IF k = 3 THEN [D.blockmap EXCEPT ![1] = TRUE] ELSE D.blockmap
  /\ E.inodemap = IF k = 2 THEN [i \in Inums |-> i = Root] ELSE D.inodemap
  /\ E.inode = IF k = 4 THEN [D.inode EXCEPT ![Root] = Inode("DIRECTORY", 1)] ELSE D.inode
  /\ k \notin {5, 6} => E.data = D.data
  /\ k = 6 => E.data[1] = NewBlock(Root, Root)

(* It leaves a disk of its type, with what is written.                     *)
LEMMA FormatChanges ==
  ASSUME NEW D \in Disks, NEW E, NEW k \in 1 .. 6, Overwrites(D, E, k)
  PROVE  Overwritten(D, E, k)
<1> DEFINE nob == [b \in Blocks |-> FALSE]
           noi == [i \in Inums |-> i = Root]
           zeros == [b \in Blocks |-> [j \in Slots |-> Zero]]
           set == TRUE
           v4 == Inode("DIRECTORY", 1)
           v6 == NewBlock(Root, Root)
<1>1. /\ D.inodemap \in [Inums -> BOOLEAN] /\ D.blockmap \in [Blocks -> BOOLEAN]
      /\ D.inode \in [Inums -> Inodes] /\ D.data \in [Blocks -> [Slots -> Entries]]
  BY DEF Disks
<1>2. Root \in Inums /\ 1 \in Blocks
  BY FirstPlaces
<1>3. v4 \in Inodes
  BY <1>2, WrittenValues DEF Kinds
<1>4. Zero \in Entries /\ v6 \in [Slots -> Entries]
  BY <1>2 DEF Zero, Entries, Entry, Kinds, NewBlock
<1>5. zeros \in [Blocks -> [Slots -> Entries]]
  BY <1>4
<1>6. nob \in [Blocks -> BOOLEAN] /\ noi \in [Inums -> BOOLEAN] /\ set \in BOOLEAN
  OBVIOUS
<1>7. /\ Formatting[1] = <<"blockmap", nob>> /\ Formatting[2] = <<"inodemap", noi>>
      /\ Formatting[3] = <<"blockmap", At(1, set)>> /\ Formatting[4] = <<"inode", At(Root, v4)>>
      /\ Formatting[5] = <<"data", zeros>> /\ Formatting[6] = <<"data", At(1, v6)>>
  BY SixWrites, Zenon DEF Put, At
<1>8. /\ Overwritten(D, E, k) <=>
           /\ E \in Disks
           /\ E.blockmap = IF k = 1 THEN nob ELSE IF k = 3 THEN [D.blockmap EXCEPT ![1] = set] ELSE D.blockmap
           /\ E.inodemap = IF k = 2 THEN noi ELSE D.inodemap
           /\ E.inode = IF k = 4 THEN [D.inode EXCEPT ![Root] = v4] ELSE D.inode
           /\ k \notin {5, 6} => E.data = D.data
           /\ k = 6 => E.data[1] = v6
  BY Zenon DEF Overwritten
<1> HIDE DEF v4, v6, zeros, nob, noi, set
<1>9. CASE k = 1
  <2>1. Replaced(D, E, "blockmap", nob)
    BY <1>7, <1>9 DEF Overwrites
  <2>2. nob = Merged(D.blockmap, nob)
    <3>1. BothMaps(Blocks, BOOLEAN, D.blockmap, nob)
      BY <1>1, <1>6 DEF BothMaps
    <3> QED
      BY <3>1, MergedAll
  <2>3. E \in Disks /\ E.blockmap = nob /\ E.inodemap = D.inodemap /\ E.inode = D.inode /\ E.data = D.data
    BY <1>6, <2>1, <2>2, NewPart
  <2> QED
    BY <1>8, <1>9, <2>3
<1>10. CASE k = 2
  <2>1. Replaced(D, E, "inodemap", noi)
    BY <1>7, <1>10 DEF Overwrites
  <2>2. noi = Merged(D.inodemap, noi)
    <3>1. BothMaps(Inums, BOOLEAN, D.inodemap, noi)
      BY <1>1, <1>6 DEF BothMaps
    <3> QED
      BY <3>1, MergedAll
  <2>3. E \in Disks /\ E.inodemap = noi /\ E.blockmap = D.blockmap /\ E.inode = D.inode /\ E.data = D.data
    BY <1>6, <2>1, <2>2, NewPart
  <2> QED
    BY <1>8, <1>10, <2>3
<1>11. CASE k = 3
  <2> DEFINE v == [D.blockmap EXCEPT ![1] = set]
  <2>1. Replaced(D, E, "blockmap", At(1, set))
    BY <1>7, <1>11 DEF Overwrites
  <2>2. v = Merged(D.blockmap, At(1, set)) /\ v \in [Blocks -> BOOLEAN]
    <3>1. OnePlace(Blocks, BOOLEAN, D.blockmap, 1, set)
      BY <1>1, <1>2, <1>6 DEF OnePlace
    <3> QED
      BY <3>1, MergedAt
  <2> HIDE DEF v
  <2>3. E \in Disks /\ E.blockmap = v /\ E.inodemap = D.inodemap /\ E.inode = D.inode /\ E.data = D.data
    BY <2>1, <2>2, NewPart
  <2> QED
    BY <1>8, <1>11, <2>3 DEF v
<1>12. CASE k = 4
  <2> DEFINE v == [D.inode EXCEPT ![Root] = v4]
  <2>1. Replaced(D, E, "inode", At(Root, v4))
    BY <1>7, <1>12 DEF Overwrites
  <2>2. v = Merged(D.inode, At(Root, v4)) /\ v \in [Inums -> Inodes]
    <3>1. OnePlace(Inums, Inodes, D.inode, Root, v4)
      BY <1>1, <1>2, <1>3 DEF OnePlace
    <3> QED
      BY <3>1, MergedAt
  <2> HIDE DEF v
  <2>3. E \in Disks /\ E.inode = v /\ E.inodemap = D.inodemap /\ E.blockmap = D.blockmap /\ E.data = D.data
    BY <2>1, <2>2, NewPart
  <2> QED
    BY <1>8, <1>12, <2>3 DEF v
<1>13. CASE k = 5
  <2>1. Replaced(D, E, "data", zeros)
    BY <1>7, <1>13 DEF Overwrites
  <2>2. zeros = Merged(D.data, zeros)
    <3>1. BothMaps(Blocks, [Slots -> Entries], D.data, zeros)
      BY <1>1, <1>5 DEF BothMaps
    <3> QED
      BY <3>1, MergedAll
  <2>3. E \in Disks /\ E.inodemap = D.inodemap /\ E.blockmap = D.blockmap /\ E.inode = D.inode
    BY <1>5, <2>1, <2>2, NewPart
  <2> QED
    BY <1>8, <1>13, <2>3
<1>14. CASE k = 6
  <2> DEFINE v == [D.data EXCEPT ![1] = v6]
  <2>1. Replaced(D, E, "data", At(1, v6))
    BY <1>7, <1>14 DEF Overwrites
  <2>2. v = Merged(D.data, At(1, v6)) /\ v \in [Blocks -> [Slots -> Entries]]
    <3>1. OnePlace(Blocks, [Slots -> Entries], D.data, 1, v6)
      BY <1>1, <1>2, <1>4 DEF OnePlace
    <3> QED
      BY <3>1, MergedAt
  <2>3. v[1] = v6
    BY <1>1, <1>2
  <2> HIDE DEF v
  <2>4. E \in Disks /\ E.data = v /\ E.inodemap = D.inodemap /\ E.blockmap = D.blockmap /\ E.inode = D.inode
    BY <2>1, <2>2, NewPart
  <2> QED
    BY <1>8, <1>14, <2>3, <2>4
<1> QED
  BY <1>9, <1>10, <1>11, <1>12, <1>13, <1>14

(* One bit of none is the only one.                                        *)
LEMMA OneBit ==
  ASSUME NEW S, NEW x \in S, NEW map, map = [y \in S |-> FALSE]
  PROVE  [map EXCEPT ![x] = TRUE] = [y \in S |-> y = x]
OBVIOUS

(* Each write leads on, and with the sixth the disk is formatted.          *)
LEMMA FormatGoesOn ==
  ASSUME NEW k, Reformatting(k), Write
  PROVE  /\ Idle' \/ Reformatting(k + 1)'
         /\ LinksIn(disk') = LinksIn(disk) \/ LinksIn(disk') = {}
<1>1. /\ todo' = SubSeq(Formatting, k + 1, 6) /\ (k = 6 => todo' = <<>>)
      /\ clearing' = (IF k < 6 THEN TRUE ELSE FALSE) /\ current_inode' = Root /\ Held' = {Root}
      /\ Overwrites(disk, disk', k)
  BY FormatWrites DEF Overwrites, Replaced
<1>2. /\ disk \in Disks /\ k \in 1 .. 6
      /\ k \in {2, 3} => disk.blockmap = [b \in Blocks |-> FALSE]
      /\ k >= 3 => disk.inodemap = [i \in Inums |-> i = Root]
      /\ k >= 4 => disk.blockmap = [b \in Blocks |-> b = 1]
      /\ k >= 5 => disk.inode[Root] = Inode("DIRECTORY", 1)
  BY DEF Reformatting
<1> DEFINE E == disk'
<1>3. Overwrites(disk, E, k)
  BY <1>1
<1> HIDE DEF E
<1>4. /\ E \in Disks
      /\ E.blockmap = IF k = 1 THEN [b \in Blocks |-> FALSE]
                      ELSE IF k = 3 THEN [disk.blockmap EXCEPT ![1] = TRUE] ELSE disk.blockmap
      /\ E.inodemap = IF k = 2 THEN [i \in Inums |-> i = Root] ELSE disk.inodemap
      /\ E.inode = IF k = 4 THEN [disk.inode EXCEPT ![Root] = Inode("DIRECTORY", 1)] ELSE disk.inode
      /\ k \notin {5, 6} => E.data = disk.data
      /\ k = 6 => E.data[1] = NewBlock(Root, Root)
  <2>1. Overwritten(disk, E, k)
    BY <1>2, <1>3, FormatChanges
  <2> QED
    BY <2>1 DEF Overwritten
<1>5. k = 3 => E.blockmap = [b \in Blocks |-> b = 1]
  BY <1>2, <1>4, FirstPlaces, OneBit
<1>6. k \in {1, 2} => E.blockmap = [b \in Blocks |-> FALSE]
  BY <1>2, <1>4
<1>7. k >= 3 => E.blockmap = [b \in Blocks |-> b = 1]
  BY <1>2, <1>4, <1>5
<1>8. k >= 2 => E.inodemap = [i \in Inums |-> i = Root]
  BY <1>2, <1>4
<1>9. k >= 4 => E.inode[Root] = Inode("DIRECTORY", 1)
  <2>1. DOMAIN disk.inode = Inums
    BY <1>2 DEF Disks
  <2>2. [disk.inode EXCEPT ![Root] = Inode("DIRECTORY", 1)][Root] = Inode("DIRECTORY", 1)
    BY <2>1, FirstPlaces
  <2>3. CASE k = 4
    BY <1>4, <2>2, <2>3
  <2>4. CASE k > 4
    BY <1>2, <1>4, <2>4
  <2> QED
    BY <1>2, <2>3, <2>4
<1>10. k < 6 => Reformatting(k + 1)'
  <2> SUFFICES ASSUME k < 6 PROVE Reformatting(k + 1)'
    OBVIOUS
  <2>1. k + 1 \in 1 .. 6 /\ k + 1 # 1
    BY <1>2
  <2>2. PICK j : j = k + 1
    OBVIOUS
  <2>3. /\ j \in 1 .. 6 /\ j # 1
        /\ j \in {2, 3} => E.blockmap = [b \in Blocks |-> FALSE]
        /\ j >= 3 => E.inodemap = [i \in Inums |-> i = Root]
        /\ j >= 4 => E.blockmap = [b \in Blocks |-> b = 1]
        /\ j >= 5 => E.inode[Root] = Inode("DIRECTORY", 1)
    <3>1. j \in {2, 3} => k \in {1, 2}
      BY <1>2, <2>2
    <3>2. (j >= 3 => k >= 2) /\ (j >= 4 => k >= 3) /\ (j >= 5 => k >= 4)
      BY <1>2, <2>2
    <3> QED
      BY <1>6, <1>7, <1>8, <1>9, <2>1, <2>2, <3>1, <3>2
  <2>4. todo' = SubSeq(Formatting, j, 6) /\ clearing' = TRUE
    BY <1>1, <2>2
  <2>5. Reformatting(j)'
    BY <1>1, <1>4, <2>3, <2>4 DEF Reformatting, E
  <2> QED
    BY <2>2, <2>5
<1>11. k = 6 => Idle'
  <2> SUFFICES ASSUME k = 6 PROVE Idle'
    OBVIOUS
  <2>1. Formatted(E)
    BY <1>4, <1>7, <1>8, <1>9 DEF Formatted
  <2>2. Sound(E, {Root}) /\ Room(E) /\ AtPlace(E, Root)
    BY <2>1, FormattedIsSound
  <2>3. todo' = <<>> /\ clearing' = FALSE /\ current_inode' = Root /\ Held' = {Root}
    <3>1. ~(k < 6) /\ k = 6
      OBVIOUS
    <3> QED
      BY <1>1, <3>1
  <2> QED
    BY <2>2, <2>3 DEF Idle, E
<1>12. k < 4 => LinksIn(E) = LinksIn(disk)
  <2>1. k < 4 => E.inode = disk.inode /\ E.data = disk.data
    BY <1>2, <1>4
  <2> QED
    BY <2>1, BitsOnly
<1>13. k >= 4 => LinksIn(E) = {}
  BY <1>9, RootOnly DEF Inode
<1> QED
  BY <1>2, <1>10, <1>11, <1>12, <1>13 DEF E

(* do_mkfs begins.                                                         *)
LEMMA MkfsCalled ==
  ASSUME Idle, Mkfs
  PROVE  Reformatting(1)' /\ SameNames(disk, disk')
<1>1. PICK k : k = 1
  OBVIOUS
<1>2. SubSeq(Formatting, 1, 6) = Formatting
  BY SixWrites, SubSeqFull
<1>3. /\ disk' = disk /\ todo' = SubSeq(Formatting, k, 6) /\ clearing' = TRUE /\ current_inode' = Root
  BY <1>1, <1>2 DEF Mkfs, Submit
<1>4. Held' = {Root}
  BY DEF Mkfs, Held
<1>5. Reformatting(k)'
  BY <1>1, <1>3, <1>4, IdleFacts DEF Reformatting
<1> QED
  BY <1>1, <1>3, <1>5 DEF SameNames

-----------------------------------------------------------------------------
(* The inductive invariant.                                                *)
(* More is to be written, and there is room.                               *)
LEMMA ReformattingFacts ==
  ASSUME NEW k, Reformatting(k)
  PROVE  todo # <<>> /\ clearing = TRUE /\ Room(disk) /\ disk \in Disks
<1>1. /\ k \in 1 .. 6 /\ todo = SubSeq(Formatting, k, 6) /\ clearing = TRUE /\ disk \in Disks
      /\ k = 1 => Room(disk)
      /\ k \in {2, 3} => disk.blockmap = [b \in Blocks |-> FALSE]
      /\ k >= 4 => disk.inodemap = [i \in Inums |-> i = Root]
      /\ k >= 4 => disk.blockmap = [b \in Blocks |-> b = 1]
  BY DEF Reformatting
<1>2. todo # <<>>
  <2>1. PICK S : Formatting \in Seq(S)
    BY SixWrites
  <2>2. k \in Int /\ k <= 6 /\ \A j \in k .. 6 : j \in 1 .. 6
    BY <1>1
  <2>3. \A j \in 1 .. Len(Formatting) : Formatting[j] \in S
    BY <2>1
  <2>4. \A j \in k .. 6 : Formatting[j] \in S
    BY <2>2, <2>3, SixWrites
  <2>5. Len(SubSeq(Formatting, k, 6)) = (IF k <= 6 THEN 6 - k + 1 ELSE 0) /\ SubSeq(Formatting, k, 6) \in Seq(S)
    BY <2>2, <2>4, SubSeqProperties
  <2>6. Len(todo) >= 1 /\ todo \in Seq(S)
    BY <1>1, <2>2, <2>5
  <2> QED
    BY <2>6
<1>3. Room(disk)
  <2>1. CASE k = 1
    BY <1>1, <2>1
  <2>2. CASE k \in {2, 3}
    <3>1. Taken(disk.blockmap) = {}
      BY <1>1, <2>2 DEF Taken
    <3>2. Cardinality(Taken(disk.inodemap)) \in Nat /\ Cardinality({}) = 0
      BY <1>1, InumsAndBlocks, TakenAndFree, FS_EmptySet DEF Disks
    <3>3. Cardinality(Taken(disk.blockmap)) = 0
      BY <3>1, <3>2
    <3> QED
      BY <3>2, <3>3 DEF Room
  <2>3. CASE k >= 4
    BY <1>1, <2>3, OneOfEach
  <2> QED
    BY <1>1, <2>1, <2>2, <2>3
<1> QED
  BY <1>1, <1>2, <1>3

(* Between two calls, or at a stage of one, the disk is in order.          *)
Stages == Idle \/ Creating \/ Erasing \/ \E k : Reformatting(k)
FsTypeOK == current_inode \in Inums /\ fd_table \in [Fds -> Inums]
FsInv == FsTypeOK /\ Stages

(* What holds at every stage.                                              *)
LEMMA StageFacts ==
  ASSUME Stages
  PROVE  /\ disk \in Disks /\ Room(disk) /\ clearing \in BOOLEAN
         /\ todo = <<>> => Idle
         /\ todo # <<>> => Creating \/ clearing = TRUE
         /\ clearing = FALSE => \E H : Sound(disk, H)
<1>1. CASE Idle
  BY <1>1, IdleFacts DEF Idle
<1>2. CASE Creating
  BY <1>2, CreatingFacts
<1>3. CASE Erasing
  BY <1>3, ErasingFacts
<1>4. ASSUME NEW k, Reformatting(k)
      PROVE  /\ disk \in Disks /\ Room(disk) /\ clearing \in BOOLEAN
             /\ todo = <<>> => Idle
             /\ todo # <<>> => Creating \/ clearing = TRUE
             /\ clearing = FALSE => \E H : Sound(disk, H)
  BY <1>4, ReformattingFacts
<1> QED
  BY <1>1, <1>2, <1>3, <1>4 DEF Stages

(* At first there is nothing but the root.                                 *)
LEMMA FsInit ==
  ASSUME Init
  PROVE  FsInv /\ LinksIn(disk) = {}
<1>1. /\ todo = <<>> /\ clearing = FALSE /\ current_inode = Root /\ fd_table = [fd \in Fds |-> Root]
      /\ disk.inodemap = [i \in Inums |-> i = Root] /\ disk.blockmap = [b \in Blocks |-> b = 1]
  BY DEF Init
<1>2. disk.inode = [i \in Inums |-> IF i = Root THEN Inode("DIRECTORY", 1) ELSE Inode("FILE", 0)]
  BY DEF Init
<1>3. disk.data = [b \in Blocks |-> IF b = 1 THEN NewBlock(Root, Root) ELSE [k \in Slots |-> Zero]]
  BY DEF Init
<1>4. Root \in Inums /\ 1 \in Blocks
  BY FirstPlaces
<1>5. disk.inode[Root] = Inode("DIRECTORY", 1) /\ disk.data[1] = NewBlock(Root, Root)
  BY <1>2, <1>3, <1>4
<1>6. disk \in Disks
  <2>1. Inode("DIRECTORY", 1) \in Inodes
    BY <1>4, WrittenValues DEF Kinds
  <2>2. Inode("FILE", 0) \in Inodes
    BY DEF Inode, Inodes, Kinds
  <2>3. NewBlock(Root, Root) \in [Slots -> Entries] /\ [k \in Slots |-> Zero] \in [Slots -> Entries]
    BY <1>4 DEF Zero, Entries, Entry, Kinds, NewBlock
  <2>4. disk.inode \in [Inums -> Inodes]
    BY <1>2, <2>1, <2>2
  <2>5. disk.data \in [Blocks -> [Slots -> Entries]]
    BY <1>3, <2>3
  <2>6. disk.inodemap \in [Inums -> BOOLEAN] /\ disk.blockmap \in [Blocks -> BOOLEAN]
    BY <1>1
  <2>7. disk = [inodemap |-> disk.inodemap, blockmap |-> disk.blockmap, inode |-> disk.inode, data |-> disk.data]
    BY DEF Init
  <2> QED
    BY <2>4, <2>5, <2>6, <2>7 DEF Disks
<1>7. Formatted(disk)
  BY <1>1, <1>5, <1>6 DEF Formatted
<1>8. Held = {Root}
  BY <1>1 DEF Held
<1>9. Sound(disk, {Root}) /\ Room(disk) /\ AtPlace(disk, Root) /\ LinksIn(disk) = {}
  BY <1>7, FormattedIsSound
<1>10. Idle /\ FsTypeOK
  BY <1>1, <1>4, <1>8, <1>9 DEF Idle, FsTypeOK
<1> QED
  BY <1>9, <1>10 DEF FsInv, Stages

(* What a step may do to the names.                                        *)
Changes(D, E) == Grows(D, E) \/ Shrinks(D, E) \/ LinksIn(E) = {}

(* A step that does nothing.                                               *)
LEMMA FsStutters ==
  ASSUME FsInv, UNCHANGED vars
  PROVE  FsInv' /\ Changes(disk, disk')
<1>1. /\ disk' = disk /\ todo' = todo /\ clearing' = clearing /\ current_inode' = current_inode
      /\ fd_table' = fd_table
  BY DEF vars
<1>2. Held' = Held
  BY <1>1 DEF Held
<1>3. Idle => Idle'
  BY <1>1, <1>2 DEF Idle
<1>4. ASSUME NEW d, NEW n, NEW t, NEW i, NEW b
      PROVE  /\ TakesInode(d, n, t, i, b) => TakesInode(d, n, t, i, b)'
             /\ TakesBlock(d, n, t, i, b) => TakesBlock(d, n, t, i, b)'
             /\ WritesInode(d, n, t, i, b) => WritesInode(d, n, t, i, b)'
             /\ WritesBlock(d, n, i, b) => WritesBlock(d, n, i, b)'
             /\ WritesEntry(d, n, t, i) => WritesEntry(d, n, t, i)'
             /\ WritesName(d, n, t, i) => WritesName(d, n, t, i)'
             /\ CountsOnly(i) => CountsOnly(i)'
             /\ CountsAndNames(d, n, i) => CountsAndNames(d, n, i)'
  <2>1. /\ TakesInode(d, n, t, i, b) => TakesInode(d, n, t, i, b)'
        /\ TakesBlock(d, n, t, i, b) => TakesBlock(d, n, t, i, b)'
        /\ WritesInode(d, n, t, i, b) => WritesInode(d, n, t, i, b)'
    BY <1>1, <1>2 DEF TakesInode, TakesBlock, WritesInode
  <2>2. /\ WritesBlock(d, n, i, b) => WritesBlock(d, n, i, b)'
        /\ WritesEntry(d, n, t, i) => WritesEntry(d, n, t, i)'
        /\ WritesName(d, n, t, i) => WritesName(d, n, t, i)'
    BY <1>1, <1>2 DEF WritesBlock, WritesEntry, WritesName
  <2>3. /\ CountsOnly(i) => CountsOnly(i)'
        /\ CountsAndNames(d, n, i) => CountsAndNames(d, n, i)'
    BY <1>1, <1>2 DEF CountsOnly, CountsAndNames, Counting, Counted
  <2> QED
    BY <2>1, <2>2, <2>3
<1>5. Creating => Creating'
  BY <1>4 DEF Creating
<1>6. Erasing => Erasing'
  <2>1. ASSUME NEW D, NEW d, NEW l
        PROVE  Departing(D, d, l) => Departing(D, d, l)' /\ Remaining(D, l)' = Remaining(D, l)
    BY <1>1, <1>2 DEF Departing, Remaining
  <2>2. ASSUME NEW D, NEW d, NEW l, NEW S, NEW w
        PROVE  /\ ClearsBits(d, l, S, w) => ClearsBits(d, l, S, w)'
               /\ Shortens(D, d, l) => Shortens(D, d, l)'
    BY <1>1, <1>2, <2>1 DEF ClearsBits, Shortens, Departing, Remaining
  <2> QED
    BY <2>2 DEF Erasing
<1>7. ASSUME NEW k
      PROVE  Reformatting(k) => Reformatting(k)'
  BY <1>1, <1>2 DEF Reformatting
<1>8. Stages'
  BY <1>3, <1>5, <1>6, <1>7 DEF FsInv, Stages
<1> QED
  BY <1>1, <1>8 DEF FsInv, FsTypeOK, Changes, Grows, SameNames

(* current_inode and fd_table lead to inodes.                              *)
LEMMA TypesStay ==
  ASSUME FsInv, Idle, NEW n \in Names, Fopen(n)
  PROVE  FsTypeOK'
<1>1. \A f \in Inums : Opened(f) => FsTypeOK'
  BY DEF FsInv, FsTypeOK, Opened
<1>2. CASE IsFile(Search(current_inode, n)) /\ Opened(Search(current_inode, n))
  <2>1. Search(current_inode, n) \in UsedIn(disk)
    BY <1>2, FileFound DEF IsFile
  <2> QED
    BY <1>1, <1>2, <2>1, IdleFacts
<1>3. CASE CanCreate(n) /\ Opened(FirstFree(disk.inodemap))
  <2>1. \E i \in Inums : ~disk.inodemap[i]
    BY <1>3 DEF CanCreate
  <2>2. disk.inodemap \in [Inums -> BOOLEAN] /\ Inums \in SUBSET Nat
    BY IdleFacts, InumsAndBlocks DEF Disks
  <2>3. FirstFree(disk.inodemap) \in Inums
    BY <2>1, <2>2, FirstFreeIsFree
  <2> QED
    BY <1>1, <1>3, <2>3
<1> QED
  BY <1>2, <1>3 DEF Fopen

(* So they do when programs hold inodes of the tree.                       *)
LEMMA HeldTypes ==
  ASSUME Idle', FsTypeOK, fd_table' = fd_table
  PROVE  FsTypeOK'
<1>1. Shape(disk', Held')
  BY DEF Idle, Sound
<1>2. current_inode' \in Inums
  BY <1>1 DEF Shape, Held
<1> QED
  BY <1>2 DEF FsTypeOK

(* A call begins.                                                          *)
LEMMA CallSteps ==
  ASSUME Careful, FsInv, Idle, Next, ~Write, ~Reboot
  PROVE  FsInv' /\ SameNames(disk, disk')
<1>1. FsTypeOK /\ fd_table \in [Fds -> Inums]
  BY DEF FsInv, FsTypeOK
<1>2. \/ \E n \in Names : Mkdir(n) \/ Touch(n) \/ Fopen(n) \/ Rm(n) \/ Rmdir(n)
      \/ \E src, new \in Names : Ln(src, new)
      \/ \E fd \in Fds : Fclose(fd)
      \/ \E path \in Paths : Cd(path)
      \/ Mkfs
  BY DEF Next
<1>3. ASSUME NEW n \in Names, Mkdir(n) \/ Touch(n)
      PROVE  FsInv' /\ SameNames(disk, disk')
  <2>1. (\E d, t, i, b : TakesInode(d, n, t, i, b)') /\ SameNames(disk, disk')
    BY <1>3, MkdirCalled
  <2>2. FsTypeOK'
    BY <1>1, <1>3 DEF FsTypeOK, Mkdir, Touch
  <2> QED
    BY <2>1, <2>2 DEF FsInv, Stages, Creating
<1>4. ASSUME NEW n \in Names, Fopen(n)
      PROVE  FsInv' /\ SameNames(disk, disk')
  <2>1. (Idle' \/ \E d, t, i, b : TakesInode(d, n, t, i, b)') /\ SameNames(disk, disk')
    BY <1>1, <1>4, FopenCalled
  <2>2. FsTypeOK'
    BY <1>4, TypesStay
  <2> QED
    BY <2>1, <2>2 DEF FsInv, Stages, Creating
<1>5. ASSUME NEW n \in Names, Rm(n) \/ Rmdir(n)
      PROVE  FsInv' /\ SameNames(disk, disk')
  <2>1. Erasing' /\ SameNames(disk, disk')
    BY <1>5, RmCalled, RmdirCalled
  <2>2. FsTypeOK'
    BY <1>1, <1>5 DEF FsTypeOK, Rm, Rmdir
  <2> QED
    BY <2>1, <2>2 DEF FsInv, Stages
<1>6. ASSUME NEW src \in Names, NEW new \in Names, Ln(src, new)
      PROVE  FsInv' /\ SameNames(disk, disk')
  <2>1. (\E d, f : CountsOnly(f)' \/ CountsAndNames(d, new, f)') /\ SameNames(disk, disk')
    BY <1>6, LnCalled
  <2>2. FsTypeOK'
    BY <1>1, <1>6 DEF FsTypeOK, Ln
  <2> QED
    BY <2>1, <2>2 DEF FsInv, Stages, Creating
<1>7. ASSUME NEW fd \in Fds, Fclose(fd)
      PROVE  FsInv' /\ SameNames(disk, disk')
  <2>1. Idle' /\ SameNames(disk, disk')
    BY <1>1, <1>7, FcloseCalled
  <2>2. FsTypeOK'
    BY <1>1, <1>7, FirstPlaces DEF FsTypeOK, Fclose
  <2> QED
    BY <2>1, <2>2 DEF FsInv, Stages
<1>8. ASSUME NEW path \in Paths, Cd(path)
      PROVE  FsInv' /\ SameNames(disk, disk')
  <2>1. Idle' /\ SameNames(disk, disk')
    BY <1>8, CdCalled
  <2>2. fd_table' = fd_table
    BY <1>8 DEF Cd
  <2>3. FsTypeOK'
    BY <1>1, <2>1, <2>2, HeldTypes
  <2> QED
    BY <2>1, <2>3 DEF FsInv, Stages
<1>9. ASSUME Mkfs
      PROVE  FsInv' /\ SameNames(disk, disk')
  <2>1. (\E k : Reformatting(k)') /\ SameNames(disk, disk')
    BY <1>9, MkfsCalled
  <2>2. FsTypeOK'
    BY <1>1, <1>9, FirstPlaces DEF FsTypeOK, Mkfs
  <2> QED
    BY <2>1, <2>2 DEF FsInv, Stages
<1> QED
  BY <1>2, <1>3, <1>4, <1>5, <1>6, <1>7, <1>8, <1>9

(* Something is written.                                                   *)
LEMMA WriteSteps ==
  ASSUME FsInv, Write
  PROVE  FsInv' /\ Changes(disk, disk')
<1>1. FsTypeOK' /\ todo # <<>>
  BY DEF FsInv, FsTypeOK, Write
<1>2. CASE Creating
  <2>1. (Idle' \/ Creating') /\ Grows(disk, disk')
    BY <1>2, CreatingGoesOn
  <2> QED
    BY <1>1, <2>1 DEF FsInv, Stages, Changes
<1>3. CASE Erasing
  <2>1. (Idle' \/ Erasing') /\ Shrinks(disk, disk')
    BY <1>3, ErasingGoesOn
  <2> QED
    BY <1>1, <2>1 DEF FsInv, Stages, Changes
<1>4. ASSUME NEW k, Reformatting(k)
      PROVE  FsInv' /\ Changes(disk, disk')
  <2>1. /\ Idle' \/ Reformatting(k + 1)'
        /\ LinksIn(disk') = LinksIn(disk) \/ LinksIn(disk') = {}
    BY <1>4, FormatGoesOn
  <2>2. Stages'
    BY <2>1 DEF Stages
  <2> QED
    BY <1>1, <2>1, <2>2 DEF FsInv, Changes, Shrinks
<1> QED
  BY <1>1, <1>2, <1>3, <1>4 DEF FsInv, Stages, Idle

(* Power fails.                                                            *)
LEMMA RebootSteps ==
  ASSUME Careful, FsInv, Reboot
  PROVE  FsInv' /\ SameNames(disk, disk')
<1>1. clearing = FALSE
  BY StageFacts DEF Careful, Reboot, FsInv
<1>2. (\E H : Sound(disk, H)) /\ Room(disk)
  BY <1>1, StageFacts DEF FsInv
<1>3. Idle' /\ SameNames(disk, disk')
  BY <1>2, Rebooted
<1>4. FsTypeOK'
  BY FirstPlaces DEF FsTypeOK, Reboot
<1> QED
  BY <1>3, <1>4 DEF FsInv, Stages

(* The invariant is inductive.                                             *)
LEMMA FsStep ==
  ASSUME Careful, FsInv, [Next]_vars
  PROVE  FsInv' /\ Changes(disk, disk')
<1>1. CASE UNCHANGED vars
  BY <1>1, FsStutters
<1>2. CASE Write
  BY <1>2, WriteSteps
<1>3. CASE Reboot
  BY <1>3, RebootSteps DEF Changes, Grows
<1>4. CASE Next /\ ~Write /\ ~Reboot
  <2>1. todo = <<>>
    BY <1>4 DEF Next, InCall, Mkdir, Touch, Fopen, Rm, Rmdir, Ln, Fclose, Cd, Mkfs
  <2>2. Idle
    BY <2>1, StageFacts DEF FsInv
  <2> QED
    BY <1>4, <2>2, CallSteps DEF Changes, Grows
<1> QED
  BY <1>1, <1>2, <1>3, <1>4

(* It holds in every state.                                                *)
LEMMA FsInvariance ==
  ASSUME Careful
  PROVE  Spec => []FsInv
<1>1. Init => FsInv
  BY FsInit
<1>2. FsInv /\ [Next]_vars => FsInv'
  BY FsStep
<1> QED
  BY <1>1, <1>2, PTL DEF Spec

-----------------------------------------------------------------------------
(* What the runs check, for every number of inodes, blocks, names, entries *)
(* and calls.                                                              *)

(* The disk in a state where no removal is under way.                      *)
LEMMA SoundDisk ==
  ASSUME FsInv, ~clearing
  PROVE  /\ Links = LinksIn(disk) /\ \A X : Used(X) = {Root} \cup {l.obj : l \in X}
         /\ \E H : Sound(disk, H)
         /\ disk \in Disks /\ DirsOK(disk) /\ NamesOK(disk) /\ ParentsOK(disk) /\ CountsOK(disk)
         /\ OwnBlocks(disk, UsedIn(disk)) /\ Kept(disk, UsedIn(disk))
<1>1. PICK H : Sound(disk, H)
  BY StageFacts DEF FsInv
<1>2. OwnBlocks(disk, UsedIn(disk)) /\ Kept(disk, UsedIn(disk))
  BY <1>1 DEF Sound, Shape, OwnBlocks, Kept
<1> QED
  BY <1>1, <1>2, LinksOfDisk DEF Sound, Shape, Used

(* The disk holds inodes, entries and bitmaps of their types in every       *)
(* state: a directory has from two entries up to a block full, and a block. *)
THEOREM DiskTyped ==
  ASSUME Careful
  PROVE  Spec => [](disk \in Disks /\ FsTypeOK)
<1>1. FsInv => disk \in Disks /\ FsTypeOK
  BY StageFacts DEF FsInv
<1> QED
  BY <1>1, FsInvariance, PTL

(* Every name leads to an inode that is allocated and of its kind, wherever *)
(* in a creation, or between two calls, power fails; it fails within no    *)
(* removal and no format.                                                  *)
THEOREM NamesLead ==
  ASSUME Careful
  PROVE  Spec => []NamesLeadToInodes
<1>1. ASSUME FsInv, ~clearing, NEW l \in Links
      PROVE  disk.inodemap[l.obj] /\ disk.inode[l.obj].type = l.type
  <2>1. l \in LinksIn(disk) /\ l.obj \in UsedIn(disk)
    BY <1>1, SoundDisk DEF UsedIn
  <2> QED
    BY <1>1, <2>1, SoundDisk DEF NamesOK, Kept
<1>2. FsInv => NamesLeadToInodes
  BY <1>1 DEF NamesLeadToInodes
<1> QED
  BY <1>2, FsInvariance, PTL

(* No two files or directories share a block, and none of their blocks is  *)
(* handed out again, with failures of power outside removals and formats.  *)
THEOREM BlocksOwned ==
  ASSUME Careful
  PROVE  Spec => []BlocksAreOwn
<1>1. ASSUME FsInv, ~clearing
      PROVE  \A i \in Used(Links) :
               /\ disk.blockmap[disk.inode[i].block]
               /\ \A j \in Used(Links) : disk.inode[i].block = disk.inode[j].block => i = j
  <2>1. Used(Links) = UsedIn(disk)
    BY <1>1, SoundDisk DEF UsedIn
  <2> QED
    BY <1>1, <2>1, SoundDisk DEF OwnBlocks, Kept
<1>2. FsInv => BlocksAreOwn
  BY <1>1 DEF BlocksAreOwn
<1> QED
  BY <1>2, FsInvariance, PTL

(* The directories among the inodes that names lead to.                    *)
LEMMA DirsAre ==
  ASSUME FsInv, ~clearing, NEW i \in Used(Links)
  PROVE  /\ IsDir(i) => i \in DirsIn(disk) /\ DirOK(disk, i)
         /\ i # Root => \E l \in Links : l.obj = i
         /\ ~IsDir(i) => \E l \in Links : l.obj = i /\ l.type = "FILE"
<1>1. Links = LinksIn(disk) /\ disk \in Disks /\ DirsOK(disk) /\ NamesOK(disk)
  BY SoundDisk
<1>2. i # Root => \E l \in Links : l.obj = i
  BY DEF Used
<1>3. Root \in DirsIn(disk) /\ \A l \in Links : l.type = "DIRECTORY" => l.obj \in DirsIn(disk)
  BY <1>1, ShapeFacts
<1>4. \A l \in Links : disk.inode[l.obj].type = l.type /\ l.type \in Kinds
  BY <1>1, ShapeFacts DEF NamesOK
<1>5. IsDir(i) => i \in DirsIn(disk)
  BY <1>2, <1>3, <1>4 DEF IsDir
<1>6. ~IsDir(i) => i # Root
  BY <1>1, <1>3 DEF DirsOK, DirOK, IsDir
<1> QED
  BY <1>1, <1>2, <1>4, <1>5, <1>6 DEF DirsOK, IsDir, Kinds

(* "." and ".." lead to the directory itself and to the one that names it, *)
(* and no directory has two names, with failures of power outside removals *)
(* and formats.                                                            *)
THEOREM DotsLead ==
  ASSUME Careful
  PROVE  Spec => []DotsLeadBack
<1>1. ASSUME FsInv, ~clearing, NEW d \in Used(Links), IsDir(d)
      PROVE  /\ Block(d)[1] = Entry(".", "DIRECTORY", d)
             /\ d # Root =>
                  \E l \in Links : NamesOf(Links, d) = {l} /\ Block(d)[2] = Entry("..", "DIRECTORY", l.dir)
  <2>1. Links = LinksIn(disk) /\ NamesOK(disk) /\ ParentsOK(disk)
    BY <1>1, SoundDisk
  <2>2. Block(d) = BlockOf(disk, d)
    BY DEF Block, BlockOf
  <2>3. Block(d)[1] = Entry(".", "DIRECTORY", d)
    BY <1>1, <2>2, DirsAre DEF DirOK
  <2>4. ASSUME d # Root
        PROVE  \E l \in Links : NamesOf(Links, d) = {l} /\ Block(d)[2] = Entry("..", "DIRECTORY", l.dir)
    <3>1. PICK l \in Links : l.obj = d
      BY <1>1, <2>4, DirsAre
    <3>2. l.type = "DIRECTORY"
      BY <1>1, <2>1, <3>1 DEF NamesOK, IsDir
    <3>3. NamesOf(Links, d) = {l}
      BY <2>1, <3>1, <3>2 DEF NamesOK, NamesOf
    <3> QED
      BY <2>1, <2>2, <3>1, <3>2, <3>3 DEF ParentsOK
  <2> QED
    BY <2>3, <2>4
<1>2. FsInv => DotsLeadBack
  BY <1>1 DEF DotsLeadBack
<1> QED
  BY <1>2, FsInvariance, PTL

(* A directory refers to as many entries as it has, and a file counts at   *)
(* least its names, with failures of power outside removals and formats.   *)
THEOREM CountsCover ==
  ASSUME Careful
  PROVE  Spec => []CountsCoverNames
<1>1. ASSUME FsInv, ~clearing, NEW i \in Used(Links)
      PROVE  /\ IsDir(i) => disk.inode[i].ref = Cardinality({l \in Links : l.dir = i})
             /\ ~IsDir(i) => disk.inode[i].ref + 1 >= Cardinality(NamesOf(Links, i))
  <2>1. Links = LinksIn(disk) /\ disk \in Disks /\ DirsOK(disk) /\ CountsOK(disk)
    BY <1>1, SoundDisk
  <2>2. ASSUME IsDir(i)
        PROVE  disk.inode[i].ref = Cardinality({l \in Links : l.dir = i})
    <3>1. i \in DirsIn(disk) /\ DirOK(disk, i)
      BY <1>1, <2>2, DirsAre
    <3>2. {l \in Links : l.dir = i} = LinksOf(disk, i)
      BY <2>1, <3>1, ShapeFacts DEF From
    <3> QED
      BY <2>1, <3>1, <3>2, LinksCounted
  <2>3. ASSUME ~IsDir(i)
        PROVE  disk.inode[i].ref + 1 >= Cardinality(NamesOf(Links, i))
    <3>1. PICK l \in Links : l.obj = i /\ l.type = "FILE"
      BY <1>1, <2>3, DirsAre
    <3> QED
      BY <2>1, <3>1 DEF CountsOK
  <2> QED
    BY <2>2, <2>3
<1>2. FsInv => CountsCoverNames
  BY <1>1 DEF CountsCoverNames
<1> QED
  BY <1>2, FsInvariance, PTL

(* An open file keeps its inode and its block.                             *)
THEOREM OpenFiles ==
  ASSUME Careful
  PROVE  Spec => []OpenFilesStay
<1>1. ASSUME FsInv, todo = <<>>, NEW fd \in Fds
      PROVE  disk.inodemap[fd_table[fd]] /\ disk.blockmap[disk.inode[fd_table[fd]].block]
  <2>1. Idle
    BY <1>1, StageFacts DEF FsInv
  <2>2. fd_table[fd] \in Held
    BY DEF Held
  <2> QED
    BY <2>1, <2>2 DEF Idle, Sound, Kept
<1>2. FsInv => OpenFilesStay
  BY <1>1 DEF OpenFilesStay
<1> QED
  BY <1>2, FsInvariance, PTL

(* While there is a free inode, there is a free block too: alloc_datablock *)
(* never fails.                                                            *)
THEOREM BlocksLast ==
  ASSUME Careful
  PROVE  Spec => []BlockForEveryInode
<1>1. FsInv => BlockForEveryInode
  BY StageFacts, RoomIsEnough DEF FsInv, BlockForEveryInode
<1> QED
  BY <1>1, FsInvariance, PTL

-----------------------------------------------------------------------------
(* The tree of names that programs see.                                    *)

(* A tree is read from the links alone.                                    *)
LEMMA SameReading ==
  \A L : Tree!Dirs(L) = Dirs(L) /\ Tree!Reached(L) = Reached(L)
BY DEF Dirs, Reached, All!Dirs, All!Reached, All!Leads, Tree!Dirs, Tree!Reached, Tree!Leads

(* The links before a step, and after it.                                  *)
LEMMA LinksThen ==
  Links = LinksIn(disk) /\ Links' = LinksIn(disk')
<1>1. LinksIn(disk) = Links
  BY LinksOfDisk
<1>2. (LinksIn(disk) = Links)'
  BY <1>1, PTL
<1> QED
  BY <1>1, <1>2

(* A name that is made is one of Create or of Link.                        *)
LEMMA AddingIsCreation ==
  ASSUME NEW H, NEW d, NEW n, NEW t, NEW i, Adding(disk, disk', H, d, n, t, i)
  PROVE  \E l \in Links' \ Links : Tree!Create(l) \/ Tree!Link(l)
<1> DEFINE l == LinkTo(d, Entry(n, t, i))
           L == LinksIn(disk)
<1>1. Links = L /\ Links' = LinksIn(disk')
  BY LinksThen
<1>2. /\ LinksIn(disk') = L \cup {l}
      /\ \A m \in L : m.dir = d => m.name # n
  BY AddingNames
<1>3. /\ Shape(disk, H) /\ disk \in Disks /\ DirsOK(disk) /\ NamesOK(disk)
      /\ d \in DirsIn(disk) /\ n \in Names /\ i \in Inums /\ t \in Kinds
      /\ ReadyNew(disk, d, t, i) \/ ReadyOld(disk, d, t, i)
  BY DEF Adding, Shape, Ready
<1>4. /\ Dirs(L) = DirsIn(disk)
      /\ L \subseteq [dir : Inums, name : Names \cup {".", "..", NoName}, obj : Inums, type : Kinds]
  BY <1>3, ShapeFacts
<1>5. l.dir = d /\ l.name = n /\ l.obj = i /\ l.type = t /\ l = [dir |-> d, name |-> n, obj |-> i, type |-> t]
  BY DEF LinkTo, Entry
<1>6. i # Root
  BY <1>3 DEF ReadyNew, ReadyOld, NamesOK, OneParent, UsedIn, Used
<1> HIDE DEF l, L
<1>7. Tree!Fresh(l)
  <2>1. l \in [dir : Tree!Dirs(Links), name : Names, obj : Inums \ {Root}, type : {"FILE", "DIRECTORY"}]
    BY <1>1, <1>3, <1>4, <1>5, <1>6, SameReading DEF Kinds
  <2>2. \A m \in Links : <<m.dir, m.name>> # <<l.dir, l.name>>
    BY <1>1, <1>2, <1>5
  <2> QED
    BY <2>1, <2>2 DEF Tree!Fresh
<1>8. l \in Links' \ Links /\ Links' = Links \cup {l}
  BY <1>1, <1>2, <1>5
<1>9. CASE ReadyNew(disk, d, t, i)
  <2>1. \A m \in Links : m.obj # l.obj
    BY <1>1, <1>5, <1>9 DEF ReadyNew, UsedIn, Used, L
  <2> QED
    BY <1>7, <1>8, <2>1 DEF Tree!Create
<1>10. CASE ReadyOld(disk, d, t, i)
  <2>1. PICK m \in L : m.obj = i /\ m.dir = d
    BY <1>10 DEF ReadyOld, L
  <2>2. t = "FILE" /\ disk.inode[i].type = t
    BY <1>10 DEF ReadyOld, Adding, Ready
  <2>3. m.type = t
    BY <1>3, <2>1, <2>2 DEF NamesOK, L
  <2>4. [m EXCEPT !.name = l.name] = l
    BY <1>4, <1>5, <2>1, <2>3
  <2> QED
    BY <1>1, <1>5, <1>7, <1>8, <2>1, <2>2, <2>4 DEF Tree!Link
<1> QED
  BY <1>3, <1>9, <1>10

(* A step of the file system is a step of the tree, or leaves it alone.    *)
LEMMA TreeSteps ==
  ASSUME Changes(disk, disk')
  PROVE  [Tree!Next]_Links
<1>1. Links = LinksIn(disk) /\ Links' = LinksIn(disk')
  BY LinksThen
<1>2. CASE SameNames(disk, disk')
  BY <1>1, <1>2 DEF SameNames
<1>3. ASSUME NEW H, NEW d, NEW n, NEW t, NEW i, Adding(disk, disk', H, d, n, t, i)
      PROVE  Tree!Next
  BY <1>3, AddingIsCreation DEF Tree!Next
<1>4. ASSUME NEW l \in Links, Links' = Reached(Links \ {l})
      PROVE  Tree!Next
  <2>1. l \notin Links'
    BY <1>4, ReachedIs
  <2>2. Tree!Remove(l)
    BY <1>4, SameReading DEF Tree!Remove
  <2> QED
    BY <2>1, <2>2 DEF Tree!Next
<1>5. CASE LinksIn(disk') = {}
  BY <1>1, <1>5 DEF Tree!Next, Tree!Format
<1> QED
  BY <1>1, <1>2, <1>3, <1>4, <1>5 DEF Changes, Grows, Shrinks

(* The file system is a tree of names: every call changes it once, and a   *)
(* failure of power outside removals and formats leaves it as it was       *)
(* before or as it was meant to become.                                    *)
THEOREM TreeImplemented ==
  ASSUME Careful
  PROVE  Spec => ImplementsTree
<1>1. Init => Tree!Init
  BY FsInit, LinksThen DEF Tree!Init
<1>2. FsInv /\ [Next]_vars => [Tree!Next]_Links
  BY FsStep, TreeSteps
<1> QED
  BY <1>1, <1>2, FsInvariance, PTL DEF Spec, ImplementsTree, Tree!Spec
=============================================================================
