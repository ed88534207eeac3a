----------------------------- MODULE FileSystem -----------------------------
(***************************************************************************)
(* The file system of src/a3/fs under the shell's commands: the free map   *)
(* in memory and in its file, inodes with direct blocks and one indirect   *)
(* block, the root directory, the list of open inodes and the table of     *)
(* open files.  Lengths are counted in sectors, and sectors are read and   *)
(* written through the cache, as in WriteBackStore while no crash happens. *)
(*                                                                         *)
(* The sectors that formatting takes (the root directory, the data of the  *)
(* free map) never change hands and are left out, except FREE_MAP_SECTOR.  *)
(***************************************************************************)
EXTENDS Integers, Sequences, FiniteSets

CONSTANTS UserNames,    \* names typed by the user
          NumSectors,   \* sectors for files, FREE_MAP_SECTOR included
          NumDirect,    \* DIRECT_BLOCKS_COUNT
          NumIndirect,  \* INDIRECT_BLOCKS_PER_SECTOR
          MaxEntries,   \* bound: entries of the root directory
          MaxSize       \* bound: sectors of a file the user asks for

Sectors == 0 .. NumSectors - 1
FREE_MAP_SECTOR == 0
None == 0  \* a pointer to no sector

\* A file that recover finds in sector i is named recovered0-i: i for short.
Names == UserNames \cup (Sectors \ {None})
Slots == 1 .. MaxEntries
Lengths == 0 .. NumDirect + NumIndirect
Entries == [slot : Slots, name : Names, sector : Sectors]

ASSUME SizeAssumption ==
  /\ NumSectors \in Nat \ {0}
  /\ NumDirect \in Nat \ {0}
  /\ NumIndirect \in Nat \ {0}
  /\ NumDirect + NumIndirect >= NumSectors  \* the disk is full first
  /\ MaxEntries \in Nat \ {0}
  /\ MaxSize \in Lengths
ASSUME NamesAssumption == UserNames \cap Sectors = {}

VARIABLES
  mode,      \* "up", "saving", "restoring", "partial" (defragment), "down",
             \* "mapless" or "undefined"
  bitmap,    \* sectors marked in free_map
  mapfile,   \* sectors marked in the free map file
  disk,      \* contents of the sectors
  root,      \* entries in use of the root directory
  table,     \* file_table: the sector of each open file's inode
  open,      \* open_inodes, by sector
  dangling,  \* open files whose struct inode was freed
  saved      \* the files defragment holds in memory

vars == <<mode, bitmap, mapfile, disk, root, table, open, dangling, saved>>

\* What a sector may hold: an inode, an index block (a zeroed sector reads as
\* an empty one), the inode of the free map, or the bytes of a file.
Inodes == [kind : {"inode"}, len : Lengths,
           direct : [0 .. NumDirect - 1 -> Sectors], index : Sectors]
IndexBlocks == [kind : {"index"}, blocks : [0 .. NumIndirect - 1 -> Sectors]]
MapInode == [kind |-> "map"]
Bytes == [kind |-> "bytes"]
NotOpen == [kind |-> "none"]

NewInode(len) == [kind |-> "inode", len |-> len,
                  direct |-> [i \in 0 .. NumDirect - 1 |-> None],
                  index |-> None]
EmptyIndex == [kind |-> "index",
               blocks |-> [i \in 0 .. NumIndirect - 1 |-> None]]

\* The disk has just been formatted.
Init == /\ mode = "up"
        /\ bitmap = {FREE_MAP_SECTOR}
        /\ mapfile = bitmap
        /\ disk = [s \in Sectors |-> IF s = FREE_MAP_SECTOR THEN MapInode
                                                            ELSE Bytes]
        /\ root = {}
        /\ table = [n \in Names |-> None]
        /\ open = [s \in Sectors |-> NotOpen]
        /\ dangling = {}
        /\ saved = <<>>

-----------------------------------------------------------------------------
(* Allocation.  Sectors are granted lowest first, one at a time; a want is *)
(* a set of positions that are served in order while sectors last.         *)

Free(b) == Sectors \ b
Rank(i, S) == Cardinality({j \in S : j < i})
Nth(r, S) == CHOOSE s \in S : Rank(s, S) = r

\* Mutant of Grant: the highest sectors go first.
GrantFromTop(want, b) ==
  [i \in {i \in want : Rank(i, want) < Cardinality(Free(b))}
     |-> Nth(Cardinality(Free(b)) - 1 - Rank(i, want), Free(b))]

Grant(want, b) ==
  [i \in {i \in want : Rank(i, want) < Cardinality(Free(b))}
     |-> Nth(Rank(i, want), Free(b))]

Granted(g) == {g[i] : i \in DOMAIN g}
Lacking(pointers, n) == {i \in DOMAIN pointers : i < n /\ pointers[i] = None}
Filled(pointers, g) ==
  [i \in DOMAIN pointers |-> IF i \in DOMAIN g THEN g[i] ELSE pointers[i]]
WithBytes(d, S) == [s \in Sectors |-> IF s \in S THEN Bytes ELSE d[s]]

\* The pointers read from a sector taken for an index block.  Those of an
\* inode begin with its direct ones; no file reads them from bytes (Broken).
PointersIn(content) ==
  [i \in 0 .. NumIndirect - 1 |->
     CASE content.kind = "index" -> content.blocks[i]
       [] content.kind = "inode" /\ i < NumDirect -> content.direct[i]
       [] content.kind = "inode" /\ i = NumDirect -> content.index
       [] OTHER -> None]

\* inode_reserve_indirect, for the n sectors past the direct blocks.  When no
\* sector is left for the index block itself, its pointer stays 0 and the
\* code zeroes sector 0.
ReserveIndirect(ino, n, b, d) ==
  LET new == ino.index = None
      at == IF ~new THEN ino.index
            ELSE IF Free(b) = {} THEN None ELSE Nth(0, Free(b))
      d1 == IF new THEN [d EXCEPT ![at] = EmptyIndex] ELSE d
      blocks == PointersIn(d1[at])
      want == Lacking(blocks, n)
      g == Grant(want, b \cup {at})
      ok == DOMAIN g = want
      d2 == WithBytes(d1, Granted(g))
  IN [ok |-> ok,
      ino |-> [ino EXCEPT !.index = at],
      bitmap |-> b \cup {at} \cup Granted(g),
      disk |-> IF ok THEN [d2 EXCEPT ![at] =
                             [kind |-> "index", blocks |-> Filled(blocks, g)]]
                     ELSE d2]

\* inode_reserve: the inode gets sectors up to length n.  Those granted
\* before a failure stay marked.
Reserve(ino, n, b, d) ==
  LET want == Lacking(ino.direct, n)
      g == Grant(want, b)
      ino1 == [ino EXCEPT !.direct = Filled(@, g)]
      b1 == b \cup Granted(g)
      d1 == WithBytes(d, Granted(g))
      ok == DOMAIN g = want
  IN IF ok /\ n > NumDirect
     THEN ReserveIndirect(ino1, n - NumDirect, b1, d1)
     ELSE [ok |-> ok, ino |-> ino1, bitmap |-> b1, disk |-> d1]

-----------------------------------------------------------------------------
(* Inodes and directory entries.                                           *)

\* The sector of the i-th block of an inode.
BlockOf(ino, d, i) == IF i < NumDirect THEN ino.direct[i]
                      ELSE PointersIn(d[ino.index])[i - NumDirect]
DataOf(ino, d) == {BlockOf(ino, d, i) : i \in 0 .. ino.len - 1}
SectorsOf(ino, d) ==
  DataOf(ino, d) \cup (IF ino.len > NumDirect THEN {ino.index} ELSE {})

Listed(n) == \E e \in root : e.name = n
EntryOf(n) == CHOOSE e \in root : e.name = n
Vacant == {i \in Slots : \A e \in root : e.slot # i}

\* The open files and inodes, as one value.
Handles == [table |-> table, open |-> open, dangling |-> dangling]
HandlesBecome(h) == /\ table' = h.table
                    /\ open' = h.open
                    /\ dangling' = h.dangling

\* Mutant of FileOpened: the inode does not get on the list of open inodes.
FileOpenedUnlisted(h, n, s, d) ==
  IF h.table[n] # None THEN h ELSE [h EXCEPT !.table[n] = s]

\* filesys_open and add_to_file_table.
FileOpened(h, n, s, d) ==
  IF h.table[n] # None THEN h
  ELSE [h EXCEPT !.table[n] = s,
                 !.open[s] = IF @ = NotOpen THEN d[s] ELSE @]

\* inode_close frees the inode at once, whoever else uses it: open_cnt is
\* always 1, since inode_reopen does not count (inode.c:161).
InodeClosed(h, s) ==
  [h EXCEPT !.open[s] = NotOpen,
            !.dangling = @ \cup {n \in Names : h.table[n] = s}]

\* Mutant of FileClosed: the inode stays on the list of open inodes.
FileClosedInTable(h, n) == [h EXCEPT !.table[n] = None]

\* remove_from_file_table.
FileClosed(h, n) ==
  IF h.table[n] = None THEN h
  ELSE LET i == InodeClosed(h, h.table[n])
       IN [i EXCEPT !.table[n] = None, !.dangling = @ \ {n}]

\* The inode in sector s, and of file n, as a command sees it.
InodeAt(s) == IF open[s] = NotOpen THEN disk[s] ELSE open[s]
InodeOf(n) == InodeAt(EntryOf(n).sector)

\* Using file n reads freed memory, or takes the bytes of a file for an inode
\* or an index block, or sector 0 for a block.  An inode is read as an index
\* block without harm; `recover 0` can bring that about (CrashConsistency).
Broken(n) ==
  \/ n \in dangling
  \/ /\ Listed(n)
     /\ LET s == EntryOf(n).sector
        IN ~ /\ disk[s].kind = "inode"
             /\ \A ino \in {disk[s], InodeOf(n)} :
                  /\ ino.index # None
                     => disk[ino.index].kind \in {"index", "inode"}
                  /\ None \notin SectorsOf(ino, disk)

\* Mutant of Created: the new inode is not written.
CreatedUnwritten(n, len) ==
  LET s == Nth(0, Free(bitmap))
      r == Reserve(NewInode(len), len, bitmap \cup {s}, disk)
      ok == Free(bitmap) # {} /\ r.ok /\ ~Listed(n)
  IN [ok |-> ok,
      bitmap |-> IF ok THEN r.bitmap ELSE bitmap,
      mapfile |-> IF ok THEN r.bitmap ELSE bitmap,
      disk |-> IF ok THEN r.disk ELSE disk,
      root |-> IF ok
               THEN root \cup {[slot |-> Nth(0, Vacant), name |-> n,
                                sector |-> s]}
               ELSE root]

\* filesys_create of n with len sectors.
Created(n, len) ==
  IF Free(bitmap) = {}
  THEN [ok |-> FALSE, bitmap |-> bitmap, mapfile |-> mapfile, disk |-> disk,
        root |-> root]
  ELSE LET s == Nth(0, Free(bitmap))
           r == Reserve(NewInode(len), len, bitmap \cup {s}, disk)
           ok == r.ok /\ ~Listed(n)
           marked == IF ok THEN r.bitmap ELSE r.bitmap \ {s}
       IN [ok |-> ok,
           bitmap |-> marked,
           mapfile |-> marked,
           disk |-> IF r.ok THEN [r.disk EXCEPT ![s] = r.ino] ELSE r.disk,
           root |-> IF ok
                    THEN root \cup {[slot |-> Nth(0, Vacant), name |-> n,
                                     sector |-> s]}
                    ELSE root]

\* What becomes of the disk when a command has run filesys_create.
CreationBecomes(c) == /\ bitmap' = c.bitmap
                      /\ mapfile' = c.mapfile
                      /\ disk' = c.disk
                      /\ root' = c.root

\* Mutants of Remove: the blocks are not released, or the free map file is
\* not written.
RemoveInodeOnly(n) ==
  LET s == EntryOf(n).sector
  IN /\ root' = root \ {EntryOf(n)}
     /\ bitmap' = bitmap \ {s}
     /\ mapfile' = bitmap'
     /\ HandlesBecome(InodeClosed(FileClosed(Handles, n), s))
RemoveUnsaved(n) ==
  LET s == EntryOf(n).sector
  IN /\ root' = root \ {EntryOf(n)}
     /\ bitmap' = bitmap \ ({s} \cup SectorsOf(disk[s], disk))
     /\ UNCHANGED mapfile
     /\ HandlesBecome(InodeClosed(FileClosed(Handles, n), s))

\* fsutil_rm of n, which is listed.
Remove(n) ==
  LET s == EntryOf(n).sector
      h == FileClosed(Handles, n)
      ino == IF h.open[s] = NotOpen THEN disk[s] ELSE h.open[s]
  IN /\ root' = root \ {EntryOf(n)}
     /\ bitmap' = bitmap \ ({s} \cup SectorsOf(ino, disk))
     /\ mapfile' = bitmap'
     /\ HandlesBecome(InodeClosed(h, s))

-----------------------------------------------------------------------------
(* The commands.                                                           *)

Create(n, len) ==
  /\ mode = "up"
  /\ Vacant # {}
  /\ CreationBecomes(Created(n, len))
  /\ UNCHANGED <<mode, table, open, dangling, saved>>

\* copy_in of a host file of len sectors: one that does not fit is asked for
\* with as many sectors as are free, which its inode makes one too many.
CopyIn(n, len) ==
  /\ mode = "up"
  /\ Vacant # {}
  /\ LET free == Cardinality(Free(bitmap))
         c == Created(n, IF len > free THEN free ELSE len)
     IN /\ CreationBecomes(c)
        /\ HandlesBecome(IF c.ok
                         THEN FileOpened(Handles, n,
                                         Nth(0, Free(bitmap)), c.disk)
                         ELSE Handles)
  /\ UNCHANGED <<mode, saved>>

\* The commands that open a file and leave it open: read, size, seek,
\* copy_out.
Open(n) ==
  /\ mode = "up"
  /\ Listed(n) /\ ~Broken(n)
  /\ HandlesBecome(FileOpened(Handles, n, EntryOf(n).sector, disk))
  /\ UNCHANGED <<mode, bitmap, mapfile, disk, root, saved>>

\* write, from block first of the file on, so that it ends in block len - 1.
\* The inode is written back when the length grows, be it by a few bytes in
\* the last block (back).
Write(n, first, len, back) ==
  /\ mode = "up"
  /\ Listed(n) /\ ~Broken(n)
  /\ LET s == EntryOf(n).sector
         h == FileOpened(Handles, n, s, disk)
         ino == h.open[s]
         r == IF len > ino.len
              THEN Reserve(ino, len, bitmap, disk)
              ELSE [ok |-> TRUE, ino |-> ino, bitmap |-> bitmap,
                    disk |-> disk]
         grown == [r.ino EXCEPT !.len = IF len > @ THEN len ELSE @]
         d == IF r.ok /\ back THEN [r.disk EXCEPT ![s] = grown] ELSE r.disk
     IN /\ len > ino.len => back
        /\ back => len >= ino.len
        /\ bitmap' = r.bitmap
        /\ mapfile' = IF r.bitmap # bitmap THEN r.bitmap ELSE mapfile
        /\ HandlesBecome([h EXCEPT !.open[s] =
                            IF r.ok THEN grown ELSE r.ino])
        /\ disk' = IF r.ok
                   THEN WithBytes(d, {BlockOf(grown, d, i) :
                                        i \in first .. len - 1})
                   ELSE d
  /\ UNCHANGED <<mode, root, saved>>

Close(n) ==
  /\ mode = "up"
  /\ table[n] # None
  /\ ~Broken(n)
  /\ HandlesBecome(FileClosed(Handles, n))
  /\ UNCHANGED <<mode, bitmap, mapfile, disk, root, saved>>

Rm(n) ==
  /\ mode = "up"
  /\ Listed(n) /\ ~Broken(n)
  /\ Remove(n)
  /\ UNCHANGED <<mode, disk, saved>>

\* find_file opens every file by name and closes it by name.
FindFile ==
  /\ mode = "up"
  /\ \A n \in Names : ~Broken(n)
  /\ HandlesBecome([table |-> [n \in Names |-> None],
                    open |-> [s \in Sectors |-> NotOpen],
                    dangling |-> {}])
  /\ UNCHANGED <<mode, bitmap, mapfile, disk, root, saved>>

\* fragmentation_degree and `recover 2` open every file a second time and
\* close it with file_close, which frees the inode the table still points to.
FragmentationDegree ==
  /\ mode = "up"
  /\ \A n \in Names : n \notin dangling => ~Broken(n)
  /\ open' = [s \in Sectors |-> NotOpen]
  /\ dangling' = {n \in Names : table[n] # None}
  /\ UNCHANGED <<mode, bitmap, mapfile, disk, root, table, saved>>

\* `recover 0`: each unmarked sector that holds an inode gets an entry, and
\* is marked, in memory only (fsutil2.c:282), without its blocks.  Files may
\* then share sectors: it is a step of CrashConsistency, not of Next.
Recover ==
  /\ mode = "up"
  /\ LET found == {s \in Free(bitmap) : disk[s].kind = "inode" /\ ~Listed(s)}
     IN /\ Cardinality(found) <= Cardinality(Vacant)
        /\ root' = root \cup {[slot |-> Nth(Rank(s, found), Vacant),
                               name |-> s, sector |-> s] : s \in found}
        /\ bitmap' = bitmap \cup found
  /\ UNCHANGED <<mode, mapfile, disk, table, open, dangling, saved>>

-----------------------------------------------------------------------------
(* defragment reads every file into memory and removes it, in the order of *)
(* the directory, then creates and writes them all again.                  *)

Defragment ==
  /\ mode = "up"
  /\ \A n \in Names : ~Broken(n)
  /\ mode' = IF root = {} THEN "up" ELSE "saving"
  /\ saved' = <<>>
  /\ UNCHANGED <<bitmap, mapfile, disk, root, table, open, dangling>>

\* An open file is closed by inode_close first, and remove_from_file_table
\* then uses its freed inode.  The first fsutil_rm frees the inode of the root
\* directory, too (directory.c:160-165), and from then on the loop reads the
\* directory through freed memory: it may find the next entry, take a reused
\* chunk for the end of the directory and leave the files that remain in
\* place ("partial"), or do anything else.
SaveNext ==
  /\ mode = "saving"
  /\ \E e \in root :
       /\ \A f \in root : e.slot <= f.slot
       /\ ~Broken(e.name)
       /\ saved' = Append(saved, [name |-> e.name,
                                  len |-> InodeOf(e.name).len])
       /\ Remove(e.name)
  /\ mode' \in IF root' = {} THEN {"restoring", "undefined"}
                            ELSE {"saving", "partial", "undefined"}
  /\ UNCHANGED disk

\* fsutil_create and fsutil_write; the files left are lost when one cannot
\* be created.
RestoreNext ==
  /\ mode \in {"restoring", "partial"}
  /\ saved # <<>>
  /\ LET n == Head(saved).name
         c == Created(n, Head(saved).len)
     IN /\ CreationBecomes(c)
        /\ HandlesBecome(IF c.ok
                         THEN FileOpened(Handles, n,
                                         Nth(0, Free(bitmap)), c.disk)
                         ELSE Handles)
        /\ saved' = IF c.ok THEN Tail(saved) ELSE <<>>
        /\ mode' = IF saved' = <<>> THEN "up" ELSE mode

\* Undefined behaviour: what follows is not modelled.
UseBroken(n) == /\ mode \in {"up", "saving"}
                /\ Broken(n)
                /\ mode' = "undefined"
                /\ UNCHANGED <<bitmap, mapfile, disk, root, table, open,
                               dangling, saved>>

-----------------------------------------------------------------------------
\* filesys_done: free_map_close writes nothing.
Shutdown ==
  /\ mode \in {"up", "mapless"}
  /\ mode' = "down"
  /\ table' = [n \in Names |-> None]
  /\ open' = [s \in Sectors |-> NotOpen]
  /\ dangling' = {}
  /\ UNCHANGED <<bitmap, mapfile, disk, root, saved>>

\* Mutant of Boot: the free map file is not read.
BootUnread ==
  /\ mode = "down"
  /\ mode' = "up"
  /\ bitmap' = {FREE_MAP_SECTOR}
  /\ UNCHANGED <<mapfile, disk, root, table, open, dangling, saved>>

\* filesys_init(false) in a new process.  Without the inode of the free map,
\* the bitmap keeps its initial marks and the shell goes on, PANIC or not;
\* what it does then is not modelled.
Boot ==
  /\ mode = "down"
  /\ IF disk[FREE_MAP_SECTOR] = MapInode
     THEN mode' = "up" /\ bitmap' = mapfile
     ELSE mode' = "mapless" /\ bitmap' = {FREE_MAP_SECTOR}
  /\ UNCHANGED <<mapfile, disk, root, table, open, dangling, saved>>

\* filesys_init(true): files are forgotten, their sectors keep what they hold.
Format ==
  /\ mode = "down"
  /\ mode' = "up"
  /\ bitmap' = {FREE_MAP_SECTOR}
  /\ mapfile' = bitmap'
  /\ disk' = [disk EXCEPT ![FREE_MAP_SECTOR] = MapInode]
  /\ root' = {}
  /\ UNCHANGED <<table, open, dangling, saved>>

NamesInUse == {e.name : e \in root}

\* Every command but `recover 0`.
Next ==
  \/ \E n \in UserNames, len \in 0 .. MaxSize : Create(n, len)
  \/ \E n \in UserNames, len \in (1 .. MaxSize) \cup {NumSectors} :
       CopyIn(n, len)
  \/ \E n \in NamesInUse :
       \/ Open(n) \/ Close(n) \/ Rm(n) \/ UseBroken(n)
       \/ \E len \in 1 .. MaxSize, back \in BOOLEAN :
            \E first \in 0 .. len : Write(n, first, len, back)
  \/ FindFile \/ FragmentationDegree
  \/ Defragment \/ SaveNext \/ RestoreNext
  \/ Shutdown \/ Boot \/ Format

Spec == Init /\ [][Next]_vars

-----------------------------------------------------------------------------
\* Every variable keeps its type.
TypeOK ==
  /\ mode \in {"up", "saving", "restoring", "partial", "down", "mapless",
              "undefined"}
  /\ bitmap \subseteq Sectors
  /\ mapfile \subseteq Sectors
  /\ disk \in [Sectors -> {MapInode, Bytes} \cup Inodes \cup IndexBlocks]
  /\ root \subseteq Entries
  /\ table \in [Names -> Sectors]
  /\ open \in [Sectors -> {NotOpen} \cup Inodes]
  /\ dangling \subseteq Names
  /\ saved \in Seq([name : Names, len : Lengths])

\* All sectors of an entry's file, as its inode on disk has them.
Owned(e) == {e.sector} \cup SectorsOf(disk[e.sector], disk)

\* No sector belongs to two files, or to one file twice: what is written to
\* one file never shows in another (inode.c:292-316 writes blindly).
NoSharing ==
  /\ \A e, f \in root : e # f => Owned(e) \cap Owned(f) = {}
  /\ \A e \in root :
       LET ino == disk[e.sector]
       IN Cardinality(Owned(e)) =
            1 + ino.len + (IF ino.len > NumDirect THEN 1 ELSE 0)

\* Every sector of a file is marked in the free map file, or the next process
\* would give it to another file (free-map.c:50-57), and while the shell runs
\* the free map in memory says the same (bitmap.c:273-279 allocates by it).
MarkedOnDisk ==
  /\ \A e \in root : Owned(e) \subseteq mapfile
  /\ mode \in {"up", "saving", "restoring", "partial"} => bitmap = mapfile

\* All sectors that an entry's inode points to, be it past its length, as it
\* is in memory while the file is open.
Claimed(e) ==
  LET ino == InodeAt(e.sector)
      blocks == IF ino.index = None THEN {}
                ELSE Granted(PointersIn(disk[ino.index]))
  IN {e.sector} \cup ((Granted(ino.direct) \cup {ino.index} \cup blocks)
                        \ {None})

\* Sectors marked that no inode points to any more.
Leaked == bitmap \ ({FREE_MAP_SECTOR} \cup UNION {Claimed(e) : e \in root})

\* What a failed extension has added to an inode (inode.c:382, 419).
Spare(e) == Claimed(e) \ Owned(e)

\* A create or copy_in that succeeds strands no sector, and an rm those alone
\* that a failed extension of its file had taken.  The code says that rm gives
\* back "its blocks" (inode.c:170), and of a half-extended file it does not:
\* it forgets the open inode, and counts by the length (fsutil.c:72).
OnlySparesAreStranded ==
  [][mode = "up" /\ mode' = "up" /\ root' # root
       => Leaked' = Leaked \cup UNION {Spare(e) : e \in root \ root'}]_vars

\* The files there are, in the directory or in defragment's hands.
Files == {[name |-> e.name, len |-> disk[e.sector].len] : e \in root}
           \cup {saved[i] : i \in DOMAIN saved}

\* Unless the freed inode of the directory leads to worse, defragment loses no
\* file and changes no length, though it removes them before it creates the
\* first again (fsutil2.c:228, 242) and may end its loop early, some files in
\* memory and the others still in the directory (fsutil2.c:196-201).
DefragmentLosesNothing ==
  [][(mode \in {"saving", "restoring", "partial"} /\ mode' # "undefined")
       => Files' = Files]_vars

\* When its loop has reached the end of the directory and no sector had
\* leaked, defragment leaves each file in one run of sectors, broken only by
\* its index block: as compact as the threshold of fragmentation_degree asks,
\* and more (fsutil2.c:153).
DefragmentCompacts ==
  [][mode = "restoring" /\ mode' = "up" /\ Leaked' = {}
       => \A e \in root' :
            LET ino == disk'[e.sector]
            IN \A i \in 1 .. ino.len - 1 :
                 BlockOf(ino, disk', i) - BlockOf(ino, disk', i - 1)
                   = (IF i = NumDirect THEN 2 ELSE 1)]_vars

\* The list of open inodes and the table of open files agree: a second open
\* finds the first one's inode, and a close takes it off the list
\* (inode.c:91-93).
OpenInodesMatchTable ==
  /\ \A s \in Sectors :
       open[s] # NotOpen <=> \E n \in Names : table[n] = s /\ s # None
                                              /\ n \notin dangling
  /\ \A n \in Names : table[n] # None
                      => \E e \in root : e.name = n /\ e.sector = table[n]
  /\ \A e, f \in root : e.name = f.name \/ e.slot = f.slot => e = f

\* A file's inodes, on disk and in memory, lead to blocks that can be read: an
\* index block is an index block and no block is sector 0, although a full
\* disk leaves half-extended inodes behind (inode.c:382, 419).  So of what
\* Broken lists a command on a file meets the freed struct inode alone.
OnlyFreedInodesBreak ==
  /\ \A n \in Names : Broken(n) => n \in dangling
  /\ \A e \in root : \A ino \in {disk[e.sector], InodeOf(e.name)} :
       ino.index # None => disk[ino.index].kind = "index"

\* An inode is freed by its last user only: "if this was the last reference
\* to INODE, frees its memory" (inode.c:169).
NoDanglingFile == dangling = {}

\* Once the free map cannot be read, the shell halts: PANIC "halts the OS"
\* (debug.h:16).
HaltsWithoutMap == mode # "mapless"
=============================================================================
