----------------------------- MODULE FileSystem -----------------------------
(***************************************************************************)
(* The file system of Project6-FileSystem (kernel/fs.c): names, inodes,    *)
(* blocks and open files.                                                  *)
(*                                                                         *)
(* A handler is one series of sector writes, and no other handler comes in *)
(* between, but power may fail: check_fs then finds on the next boot what  *)
(* was written.  A call here hands over its list of writes, todo, and the  *)
(* disk takes one after the other.  Each changes one part of the disk at   *)
(* one place: the bitmaps and inodes in memory are read again before each  *)
(* use and written back at once, what else is in the sector is not new.    *)
(*                                                                         *)
(* Data left out: the contents, access modes and positions of files, and   *)
(* times.  do_fwrite allocates no block and does not change the size: a    *)
(* file has one block.  The size of a directory is counted in entries.     *)
(* Inodes all lie within one sector, as the first nine do.                 *)
(*                                                                         *)
(* Programs keep away from what the calls do not survive: they remove      *)
(* neither open files nor one of several names of a file nor "." and ".."  *)
(* nor a directory that fills its block (release then frees block 0, the   *)
(* tables), give no directory where a file is expected, and format with no *)
(* file open.                                                              *)
(*                                                                         *)
(* A definition marked "wrong:" is only there to be tried in place of the  *)
(* one below it.                                                           *)
(***************************************************************************)
EXTENDS Integers, Sequences, FiniteSets, SequencesExt

CONSTANTS
  Names,            \* the names programs give
  INODE_NUM,        \* inodes
  BLOCK_NUM,        \* blocks behind the tables
  SectorEntries,    \* directory entries in a sector: 16
  BlockEntries,     \* directory entries in a block: 128
  MAX_FILE_NUM,     \* entries of fd_table
  MaxCalls,         \* bound: calls that write
  NoName,           \* the name of an entry of zeros
  Calls             \* system calls the programs make

ASSUME FsSizeAssumption ==
  /\ {INODE_NUM, MAX_FILE_NUM} \subseteq Nat \ {0}
  /\ MaxCalls \in Nat /\ BLOCK_NUM \in Nat /\ BLOCK_NUM >= INODE_NUM
  /\ {SectorEntries, BlockEntries} \subseteq Nat \ {0, 1} /\ BlockEntries >= SectorEntries
ASSUME NameAssumption == Names \cap {".", "..", NoName} = {}

Inums == 0 .. INODE_NUM - 1
Blocks == 1 .. BLOCK_NUM
Slots == 1 .. BlockEntries
Fds == 0 .. MAX_FILE_NUM - 1
Root == 0                      \* ROOTINUM; in fd_table, a free descriptor
None == -1

VARIABLES
  disk,             \* inodemap, blockmap, inode, data
  todo, clearing,   \* the writes of a call under way; whether it is a removal or a format
  calls,            \* the calls that have written
  current_inode, fd_table

vars == <<disk, todo, clearing, calls, current_inode, fd_table>>

-----------------------------------------------------------------------------
Entry(n, t, i) == [name |-> n, type |-> t, inum |-> i]
Zero == Entry(NoName, "FILE", Root)
Inode(t, b) == [type |-> t, ref |-> 0, size |-> IF t = "DIRECTORY" THEN 2 ELSE 0, block |-> b]

(* A write has the new values of some places of one part of the disk: here  *)
(* that of one place.                                                       *)
Put(field, place, value) == <<field, [x \in {place} |-> value]>>

Block(d) == disk.data[disk.inode[d].block]
Size(d) == disk.inode[d].size

(* directory_serach: the inode of the first entry of that name.  Nothing is *)
(* found in what is not a directory.                                        *)
Search(d, n) ==
  LET hits == {k \in 1 .. Size(d) : Block(d)[k].name = n}
  IN  IF disk.inode[d].type # "DIRECTORY" \/ hits = {} THEN None
      ELSE Block(d)[CHOOSE k \in hits : \A j \in hits : k <= j].inum

IsFile(i) == i # None /\ disk.inode[i].type = "FILE"
IsDirectory(i) == i # None /\ disk.inode[i].type = "DIRECTORY"

(* What a block holds when only its first sector is written.                *)
FirstSector(new, old) == [k \in Slots |-> IF k <= SectorEntries THEN new[k] ELSE old[k]]

(* alloc_inode and alloc_datablock take the first that is free.             *)
FirstFree(map) == CHOOSE x \in DOMAIN map : ~map[x] /\ \A y \in DOMAIN map : ~map[y] => x <= y

(* wrong: the bit is found, and not set. *)
FoundBlock(b) == Put("blockmap", b, FALSE)

TakenBlock(b) == Put("blockmap", b, TRUE)

(* wrong: a new directory is its own parent. *)
OwnParent(d, i) ==
  [k \in Slots |-> CASE k = 1 -> Entry(".", "DIRECTORY", i)
                     [] k = 2 -> Entry("..", "DIRECTORY", i)
                     [] OTHER -> Zero]

(* The block of the new directory i in d.                                   *)
NewBlock(d, i) ==
  [k \in Slots |-> CASE k = 1 -> Entry(".", "DIRECTORY", i)
                     [] k = 2 -> Entry("..", "DIRECTORY", d)
                     [] OTHER -> Zero]

(* The entry behind the last one of d.                                      *)
WithEntry(d, n, t, i) == [Block(d) EXCEPT ![Size(d) + 1] = Entry(n, t, i)]

(* wrong: the entry is counted, the reference is not; or two are taken off. *)
Unreferenced(d, by) == Put("inode", d, [disk.inode[d] EXCEPT !.size = @ + by])

(* The inode of d, with one entry more or less.                             *)
Resized(d, by) == Put("inode", d, [disk.inode[d] EXCEPT !.size = @ + by, !.ref = @ + by])

(* wrong: the entry of n stays, the one behind it is overwritten. *)
ShiftedLate(d, n) ==
  LET at == CHOOSE k \in 1 .. Size(d) : Block(d)[k].name = n
  IN  [k \in Slots |-> IF k \in at + 1 .. Size(d) - 1 THEN Block(d)[k + 1] ELSE Block(d)[k]]

(* The entries behind that of n move forward by one.                        *)
Shifted(d, n) ==
  LET at == CHOOSE k \in 1 .. Size(d) : Block(d)[k].name = n
  IN  [k \in Slots |-> IF k \in at .. Size(d) - 1 THEN Block(d)[k + 1] ELSE Block(d)[k]]

(* wrong: the block stays taken, or the bit cleared is that of another inode. *)
BlockKept(i) == <<Put("inodemap", i, FALSE)>>
NextFreed(i) ==
  <<Put("blockmap", disk.inode[i].block, FALSE), Put("inodemap", (i + 1) % INODE_NUM, FALSE)>>

FreedBits(i) == <<Put("blockmap", disk.inode[i].block, FALSE), Put("inodemap", i, FALSE)>>

(* The bits cleared when inode i is given up: do_rm's for a file, release's *)
(* for a directory with everything below it.  No tree is deeper than there  *)
(* are inodes.                                                              *)
FreedTo[p \in (0 .. INODE_NUM) \X Inums] ==
  LET depth == p[1]
      i == p[2]
  IN  FreedBits(i) \o
      IF depth = 0 \/ disk.inode[i].type = "FILE" THEN <<>>
      ELSE FlattenSeq([k \in 1 .. Size(i) - 2 |-> FreedTo[<<depth - 1, Block(i)[k + 2].inum>>]])

Freed(i) == FreedTo[<<INODE_NUM, i>>]

-----------------------------------------------------------------------------
InCall(name) == name \in Calls /\ todo = <<>>

Submit(writes, clears) ==
  /\ calls < MaxCalls
  /\ calls' = calls + 1
  /\ todo' = writes
  /\ clearing' = clears

(* do_touch, do_fopen, do_rm and do_rmdir write back the first sector only: *)
(* programs keep directories that small unless the workload has             *)
(* second_sector.                                                           *)
OneSector(size) == size > SectorEntries => "second_sector" \in Calls

(* wrong: the directory is written before what the entry leads to. *)
EntryFirst(new, entry) == entry \o new

InOrder(new, entry) == new \o entry

(* What do_mkdir, do_touch and do_fopen write when there is a free inode.   *)
Created(n, t) ==
  LET i == FirstFree(disk.inodemap)
      b == FirstFree(disk.blockmap)
      d == current_inode
  IN  IF t = "DIRECTORY"
      THEN InOrder(<<Put("inodemap", i, TRUE), TakenBlock(b), Put("inode", i, Inode(t, b)),
                     Put("data", b, FirstSector(NewBlock(d, i), disk.data[b]))>>,
                   <<Put("data", disk.inode[d].block, WithEntry(d, n, t, i)), Resized(d, 1)>>)
      ELSE InOrder(<<Put("inodemap", i, TRUE), TakenBlock(b), Put("inode", i, Inode(t, b))>>,
                   <<Put("data", disk.inode[d].block, FirstSector(WithEntry(d, n, t, i), Block(d))),
                     Resized(d, 1)>>)

CanCreate(n) ==
  /\ Search(current_inode, n) = None
  /\ \E i \in Inums : ~disk.inodemap[i]
  /\ Size(current_inode) < BlockEntries

Mkdir(n) ==
  /\ InCall("mkdir") /\ CanCreate(n)
  /\ Submit(Created(n, "DIRECTORY"), FALSE)
  /\ UNCHANGED <<disk, current_inode, fd_table>>

Touch(n) ==
  /\ InCall("touch") /\ CanCreate(n) /\ OneSector(Size(current_inode) + 1)
  /\ Submit(Created(n, "FILE"), FALSE)
  /\ UNCHANGED <<disk, current_inode, fd_table>>

(* The end of do_fopen.  With no descriptor left it fails, and              *)
(* current_inode stays on the file.                                         *)
Opened(f) ==
  \/ /\ \A fd \in Fds : fd_table[fd] # Root
     /\ current_inode' = f /\ UNCHANGED fd_table
  \/ /\ \E fd \in Fds :
          /\ fd_table[fd] = Root /\ \A e \in 0 .. fd - 1 : fd_table[e] # Root
          /\ fd_table' = [fd_table EXCEPT ![fd] = f]
     /\ UNCHANGED current_inode

Fopen(n) ==
  /\ InCall("fopen")
  /\ \/ /\ IsFile(Search(current_inode, n)) /\ Opened(Search(current_inode, n))
        /\ UNCHANGED <<todo, clearing, calls>>
     \/ /\ CanCreate(n) /\ OneSector(Size(current_inode) + 1)
        /\ Opened(FirstFree(disk.inodemap))
        /\ Submit(Created(n, "FILE"), FALSE)
  /\ UNCHANGED disk

Fclose(fd) ==
  /\ InCall("fclose") /\ fd_table[fd] # Root
  /\ fd_table' = [fd_table EXCEPT ![fd] = Root]
  /\ UNCHANGED <<disk, todo, clearing, calls, current_inode>>

(* do_ln has raised ref when it finds that the new name exists.             *)
Ln(src, new) ==
  LET d == current_inode
      f == Search(d, src)
      referenced == Put("inode", f, [disk.inode[f] EXCEPT !.ref = @ + 1])
  IN  /\ InCall("ln") /\ IsFile(f)
      /\ \/ Search(d, new) # None /\ Submit(<<referenced>>, FALSE)
         \/ /\ Search(d, new) = None /\ Size(d) < BlockEntries
            /\ Submit(<<referenced, Put("data", disk.inode[d].block, WithEntry(d, new, "FILE", f)),
                        Resized(d, 1)>>, FALSE)
      /\ UNCHANGED <<disk, current_inode, fd_table>>

(* Inode i, which the current directory calls n, is given up; then the      *)
(* entry goes, and the directory is one shorter.                            *)
Removed(n, i) ==
  LET d == current_inode
  IN  Freed(i) \o
      <<Put("data", disk.inode[d].block, FirstSector(Shifted(d, n), Block(d))), Resized(d, -1)>>

Open(i) == \E fd \in Fds : fd_table[fd] = i

Rm(n) ==
  LET f == Search(current_inode, n)
  IN  /\ InCall("rm") /\ IsFile(f) /\ OneSector(Size(current_inode))
      /\ ~Open(f)
      /\ \A k \in 1 .. Size(current_inode) :
           Block(current_inode)[k].inum = f => Block(current_inode)[k].name = n
      /\ Submit(Removed(n, f), TRUE)
      /\ UNCHANGED <<disk, current_inode, fd_table>>

Rmdir(n) ==
  LET i == Search(current_inode, n)
  IN  /\ InCall("rmdir") /\ IsDirectory(i) /\ OneSector(Size(current_inode))
      /\ LET bits == ToSet(Freed(i))
         IN  \A j \in Inums : Put("inodemap", j, FALSE) \in bits => ~Open(j) /\ Size(j) < BlockEntries
      /\ Submit(Removed(n, i), TRUE)
      /\ UNCHANGED <<disk, current_inode, fd_table>>

(* do_cd: find_path goes from directory to directory.  When it meets a file *)
(* it returns without a value: do_cd then takes that for success, and stays *)
(* where it has come to, or for failure, and goes back.                     *)
Cd(path) ==
  LET walk[k \in 0 .. Len(path)] ==
        IF k = 0 THEN current_inode
        ELSE IF IsDirectory(walk[k - 1]) THEN Search(walk[k - 1], path[k]) ELSE None
  IN  /\ InCall("cd")
      /\ \/ IsDirectory(walk[Len(path)]) /\ current_inode' = walk[Len(path)]
         \/ \E k \in DOMAIN path : IsFile(walk[k]) /\ current_inode' = walk[k - 1]
      /\ UNCHANGED <<disk, todo, clearing, calls, fd_table>>

(* do_mkfs: the bitmaps, the root's block, inode and directory.  The        *)
(* bitmaps go first, with the superblock; the root follows.                 *)
Formatting ==
  <<<<"blockmap", [b \in Blocks |-> FALSE]>>, <<"inodemap", [i \in Inums |-> i = Root]>>,
    TakenBlock(1), Put("inode", Root, Inode("DIRECTORY", 1)),
    <<"data", [b \in Blocks |-> [k \in Slots |-> Zero]]>>, Put("data", 1, NewBlock(Root, Root))>>

Mkfs ==
  /\ InCall("mkfs") /\ \A fd \in Fds : fd_table[fd] = Root
  /\ Submit(Formatting, TRUE)
  /\ current_inode' = Root
  /\ UNCHANGED <<disk, fd_table>>

(* The next sector is written.                                              *)
Write ==
  /\ todo # <<>>
  /\ LET field == Head(todo)[1]
         new == Head(todo)[2]
     IN  disk' = [disk EXCEPT ![field] =
                    [x \in DOMAIN @ |-> IF x \in DOMAIN new THEN new[x] ELSE @[x]]]
  /\ todo' = Tail(todo)
  /\ clearing' = (clearing /\ Len(todo) > 1)
  /\ UNCHANGED <<calls, current_inode, fd_table>>

(* Power fails, and check_fs finds a file system on the next boot.  Calls   *)
(* that clear bits of the bitmaps first are the removals, which take the    *)
(* entry away last, and do_mkfs, which writes empty bitmaps while the old   *)
(* root still names the old tree.  What a failure within them leaves is     *)
(* beyond what the code can mend: names lead to free inodes and blocks.  It *)
(* happens only when the workload has crash_in_clearing, and nothing here   *)
(* speaks of the disk after it.                                             *)
Reboot ==
  /\ "crash" \in Calls
  /\ clearing => "crash_in_clearing" \in Calls
  /\ todo' = <<>> /\ clearing' = FALSE
  /\ current_inode' = Root
  /\ fd_table' = [fd \in Fds |-> Root]
  /\ UNCHANGED <<disk, calls>>

-----------------------------------------------------------------------------
(* The state after the first do_mkfs.                                       *)
Init ==
  /\ disk = [inodemap |-> [i \in Inums |-> i = Root], blockmap |-> [b \in Blocks |-> b = 1],
             inode |-> [i \in Inums |-> IF i = Root THEN Inode("DIRECTORY", 1) ELSE Inode("FILE", 0)],
             data |-> [b \in Blocks |-> IF b = 1 THEN NewBlock(Root, Root) ELSE [k \in Slots |-> Zero]]]
  /\ todo = <<>> /\ clearing = FALSE /\ calls = 0
  /\ current_inode = Root
  /\ fd_table = [fd \in Fds |-> Root]

Paths == LET Steps == Names \cup {".", ".."} IN {<<n>> : n \in Steps} \cup (Steps \X Steps)

Next ==
  \/ \E n \in Names : Mkdir(n) \/ Touch(n) \/ Fopen(n) \/ Rm(n) \/ Rmdir(n)
  \/ \E src, new \in Names : Ln(src, new)
  \/ \E fd \in Fds : Fclose(fd)
  \/ \E path \in Paths : Cd(path)
  \/ Mkfs
  \/ Write
  \/ Reboot

Spec == Init /\ [][Next]_vars

-----------------------------------------------------------------------------
(* The names in all inodes of directories, and those that lead somewhere    *)
(* from the root.                                                           *)
AllLinks ==
  UNION {{[dir |-> d, name |-> Block(d)[k].name, obj |-> Block(d)[k].inum, type |-> Block(d)[k].type] :
            k \in 3 .. Size(d)} : d \in {i \in Inums : disk.inode[i].type = "DIRECTORY"}}

All == INSTANCE FileTree WITH Objects <- Inums, links <- AllLinks

Links == All!Reached(AllLinks)

Used(L) == {Root} \cup {l.obj : l \in L}
NamesOf(L, i) == {l \in L : l.obj = i}
IsDir(i) == disk.inode[i].type = "DIRECTORY"

(* Every name leads to an inode that is allocated and of its kind, wherever *)
(* in a creation, or between two calls, power fails.  While a removal or a  *)
(* format is under way nothing is said, here and below.                     *)
NamesLeadToInodes ==
  ~clearing => \A l \in Links : disk.inodemap[l.obj] /\ disk.inode[l.obj].type = l.type

(* No two files or directories share a block, and none is free to be handed *)
(* out again.                                                               *)
BlocksAreOwn ==
  ~clearing =>
    LET used == Used(Links)
    IN  \A i \in used :
          /\ disk.blockmap[disk.inode[i].block]
          /\ \A j \in used : disk.inode[i].block = disk.inode[j].block => i = j

(* "." and ".." lead to the directory itself and to the one that names it,  *)
(* and no directory has two names.                                          *)
DotsLeadBack ==
  ~clearing =>
    LET L == Links
    IN  \A d \in {i \in Used(L) : IsDir(i)} :
          /\ Block(d)[1] = Entry(".", "DIRECTORY", d)
          /\ d # Root => \E l \in L : NamesOf(L, d) = {l} /\ Block(d)[2] = Entry("..", "DIRECTORY", l.dir)

(* A directory refers to as many entries as it has, and a file counts at    *)
(* least its names: a failure of power, or of do_ln, never leaves a count   *)
(* too small.                                                               *)
CountsCoverNames ==
  ~clearing =>
    LET L == Links
    IN  \A i \in Used(L) :
          /\ IsDir(i) => disk.inode[i].ref = Cardinality({l \in L : l.dir = i})
          /\ ~IsDir(i) => disk.inode[i].ref + 1 >= Cardinality(NamesOf(L, i))

(* An open file keeps its inode and its block.                              *)
OpenFilesStay ==
  todo = <<>> => \A fd \in Fds : fd_table[fd] # Root =>
    disk.inodemap[fd_table[fd]] /\ disk.blockmap[disk.inode[fd_table[fd]].block]

(* alloc_datablock returns -1 when no block is free, which nobody looks at: *)
(* while there is a free inode, there is a free block too.                  *)
BlockForEveryInode ==
  Cardinality({b \in Blocks : ~disk.blockmap[b]}) >= Cardinality({i \in Inums : ~disk.inodemap[i]})

(* Seen from the programs this is the tree of names of FileTree: every call *)
(* changes it once, and a failure of power, which comes within no removal   *)
(* and no format, leaves it as it was before or as it was meant to become.  *)
Tree == INSTANCE FileTree WITH Objects <- Inums, links <- Links

ImplementsTree == Tree!Spec

=============================================================================
