-------------------------- MODULE CrashConsistency --------------------------
(***************************************************************************)
(* FileSystem over a write-back cache, in a process that may die: by       *)
(* exit(99) for a script that cannot be opened, at the end of its input,   *)
(* or killed by the user.  filesys_done then does not run, and the next    *)
(* process finds on the disk whatever the cache had written back, sector   *)
(* by sector and in any order, as WriteBackStore says.                     *)
(*                                                                         *)
(* A write-back is taken after the command whose writes it makes durable:  *)
(* no sector is written twice with different contents by one command and   *)
(* evicted in between.  What a user does with a disk after a crash, other  *)
(* than to mount it and open files, is not modelled.                       *)
(***************************************************************************)
EXTENDS FileSystem

\* A directory entry is 36 bytes (directory.h:22-26), and the parent's comes
\* first: 13 more lie wholly in the directory's first sector, which the cache
\* writes back at once.  The fourteenth straddles two sectors and could be torn
\* by a crash; directories of that size are not modelled.
ASSUME EntriesAssumption == MaxEntries <= 13

VARIABLES
  stable,    \* what the device holds of disk, mapfile and root
  base,      \* history: the files as the last clean shutdown left them, less
             \* those that a command changed since
  recovered, \* history: `recover 0` was used since formatting
  crashed    \* the process died without filesys_done

crashVars == <<stable, base, recovered, crashed>>
allVars == <<vars, crashVars>>

Live == [disk |-> disk, mapfile |-> mapfile, root |-> root]

\* A file with everything on the disk that it takes to read it.
Snapshot(e) == [entry |-> e,
                sectors |-> [s \in Owned(e) |-> disk[s]]]
Without(n) == {f \in base : f.entry.name # n}

CInit == /\ Init
         /\ stable = Live
         /\ base = {}
         /\ recovered = FALSE
         /\ crashed = FALSE

-----------------------------------------------------------------------------
(* Write-back.                                                             *)

\* A sector of a file or an inode.
WriteBack(s) == /\ stable' = [stable EXCEPT !.disk[s] = disk[s]]
                /\ stable' # stable

\* The sector of the free map's data.
WriteBackMap == /\ stable' = [stable EXCEPT !.mapfile = mapfile]
                /\ stable' # stable

\* The sector with the entries of the root directory.
WriteBackRoot == /\ stable' = [stable EXCEPT !.root = root]
                 /\ stable' # stable

\* Only write-backs that the properties can tell apart are taken: those of
\* sectors that a file of base uses, of the map and of the directory.  While
\* base is empty, stable is kept equal to Live (Settle).
Settle == stable' = IF base' = {} THEN Live' ELSE stable

Sync == /\ ~crashed
        /\ base # {}
        /\ \/ \E f \in base : \E s \in DOMAIN f.sectors : WriteBack(s)
           \/ WriteBackMap
           \/ WriteBackRoot
        /\ UNCHANGED <<vars, base, recovered, crashed>>

-----------------------------------------------------------------------------
(* Commands, with what they leave of base.                                 *)

\* Commands that change no file that exists, whether they succeed or not.
Spares == /\ \/ \E n \in UserNames, len \in 0 .. MaxSize : Create(n, len)
             \/ \E n \in UserNames, len \in (1 .. MaxSize) \cup {NumSectors} :
                  CopyIn(n, len)
             \/ \E n \in NamesInUse : Open(n) \/ Close(n)
             \/ FindFile \/ FragmentationDegree \/ Boot
          /\ UNCHANGED <<base, recovered>>

\* Commands that change one file.
Changes == \E n \in NamesInUse :
             /\ \/ Rm(n)
                \/ \E len \in 1 .. MaxSize, back \in BOOLEAN :
                     \E first \in 0 .. len : Write(n, first, len, back)
             /\ base' = Without(n)
             /\ UNCHANGED recovered

\* Commands that rebuild the directory, may mark files over each other
\* (recover 0), or lead to undefined behaviour.
Upsets == /\ \/ Recover /\ recovered' = TRUE
             \/ Format /\ recovered' = FALSE
             \/ /\ \/ Defragment \/ SaveNext \/ RestoreNext
                   \/ \E n \in NamesInUse : UseBroken(n)
                /\ UNCHANGED recovered
          /\ base' = {}

CommandStep == /\ ~crashed
               /\ Spares \/ Changes \/ Upsets
               /\ Settle
               /\ UNCHANGED crashed

\* Mutant of CleanShutdown: the directory is not written back.
ShutdownRootless == /\ ~crashed
                    /\ Shutdown
                    /\ stable' = [Live EXCEPT !.root = stable.root]
                    /\ base' = IF mode = "up" /\ ~recovered
                               THEN {Snapshot(e) : e \in root} ELSE {}
                    /\ UNCHANGED <<recovered, crashed>>

\* filesys_done writes everything back.  What recover 0 brought back may
\* share sectors with other files: no file is vouched for after it.
CleanShutdown == /\ ~crashed
                 /\ Shutdown
                 /\ stable' = Live
                 /\ base' = IF mode = "up" /\ ~recovered
                            THEN {Snapshot(e) : e \in root} ELSE {}
                 /\ UNCHANGED <<recovered, crashed>>

\* The process dies, and another will find what is stable.
Crash == /\ ~crashed
         /\ base # {}
         /\ mode \in {"up", "saving", "restoring", "partial"}
         /\ crashed' = TRUE
         /\ mode' = "down"
         /\ disk' = stable.disk
         /\ mapfile' = stable.mapfile
         /\ root' = stable.root
         /\ table' = [n \in Names |-> None]
         /\ open' = [s \in Sectors |-> NotOpen]
         /\ dangling' = {}
         /\ saved' = <<>>
         /\ UNCHANGED <<bitmap, stable, base, recovered>>

\* After a crash: the disk is mounted and files of base are opened.
Remount == /\ crashed
           /\ Boot \/ \E f \in base : Open(f.entry.name)
           /\ UNCHANGED crashVars

CNext == Sync \/ CommandStep \/ CleanShutdown \/ Crash \/ Remount

CSpec == CInit /\ [][CNext]_allVars

-----------------------------------------------------------------------------
\* The history and the device have their types.
CTypeOK == /\ TypeOK
           /\ DOMAIN stable.disk = Sectors
           /\ stable.mapfile \subseteq Sectors
           /\ stable.root \subseteq Entries
           /\ \A f \in base : f.entry \in Entries
           /\ recovered \in BOOLEAN /\ crashed \in BOOLEAN

\* As long as the process lives, the table of open files, the open inodes and
\* the directory agree, also once recover 0 has brought back removed files
\* whose blocks belong to others (fsutil2.c:278-283).
HandlesAgree == ~crashed => OpenInodesMatchTable

\* A file that no command changed since the last clean shutdown survives a
\* crash at any moment: the device holds its entry, its inode, its blocks and
\* their marks, whatever was being created, written, removed or leaked next
\* to it, and however much of that was written back (cache.c:71-99).
OldFilesSurvive ==
  \A f \in base :
    /\ f.entry \in stable.root
    /\ \A e \in stable.root : e.name = f.entry.name => e = f.entry
    /\ \A s \in DOMAIN f.sectors : /\ stable.disk[s] = f.sectors[s]
                                   /\ s \in stable.mapfile

\* After the crash they are found and can be opened.
OldFilesReadable ==
  crashed /\ mode = "up" => \A f \in base : /\ Listed(f.entry.name)
                                            /\ ~Broken(f.entry.name)
=============================================================================
