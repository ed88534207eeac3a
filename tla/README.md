# COMP-310 shells: a TLA+ verification project

The repository holds three versions of a small teaching operating system that
runs inside one host process: a shell (`src/a1`), a shell with processes,
schedulers and demand paging (`src/a2`), and a shell over a file system on a
simulated disk, with a reworked kernel (`src/a3`). This directory models the
parts where a long sequence of legal calls can go wrong: demand paging in `a2`,
the reworked kernel of `a3`, and the file system of `a3` from the bytes of a
file down to its sector cache, with a process that may die.

## 1. The system

All code is single-threaded. What makes it hard is not preemption but:

* **nesting**: a line of a script is a command of the shell, so `run` and
  `exec` inside a script create processes in the middle of the scheduler's loop;
* **shared stores with stale references**: page tables, open-file entries and
  on-disk pointers refer to frames, inodes and sectors that others may have
  taken over;
* **several copies of one datum**: a sector in the cache and on the device, an
  inode in memory and on disk, the free map in memory and in its file;
* **failures in the middle**: a full disk, a missing script, a failed copy, a
  process that dies between two write-backs;
* **checks that do not stop**: `ASSERT` and `PANIC` print a message and return
  (`a3/fs/debug.c:58`).

### Components

| component | state | operations | correct when |
|---|---|---|---|
| a3 buffer cache (`cache.c`) | 64 slots with sector, dirty and reference bits; clock hand | read, write, evict, close | a sector is cached once; clean slots equal the disk; reads return the last write; a crash loses only what was not written back |
| a2 kernel and frame store (`kernel.c`, `pcb.c`, `ready_queue.c`, `shellmemory.c`) | PCBs with PC and page table, ready queue, frames with owner tag and recency | initialize a process, schedule (FCFS, RR), run a line, page fault, terminate | no process is lost or queued twice; a process runs its own lines, in order; every command ends |
| a2 shell and interpreter | the command line, whether a scheduler runs | `run`, `exec`, `quit` | control returns to the caller of each command |
| a3 free map (`free-map.c`, `bitmap.c`) | a bitmap in memory and its file | allocate, release, open, close, create | every sector of a file is marked, in memory and in the file |
| a3 inodes (`inode.c`) | inodes on disk, list of open inodes | create, open, close, remove, read and write with extension | no sector in two files; one in-memory inode per sector; freed by its last user |
| a3 directory and files (`directory.c`, `file.c`, `filesys.c`) | root entries, `cwd`, table of open files | lookup, add, remove; open, close; init, format, done | entries, open files and inodes agree |
| a3 commands (`fsutil.c`, `fsutil2.c`) | the files `defragment` holds | create, copy_in, copy_out, write, read, size, seek, rm, find_file, fragmentation_degree, defragment, recover | files survive defragmentation and get compact; a success strands no sector but those of a failed extension |
| a3 kernel (`kernel.c`, `cpu.c`, `pcb.c`, `linked_list.c`, `shellmemory.c`) | PCBs with one counter per page, LRU list, ready queue, frames | `run`, `exec`, fault, evict, RR | a proper script is run in order and to its end; frames are neither shared nor lost; variables outlive scripts |
| variable stores (a1, a2, a3) | a table of pairs | set, print, resetmem | a set value is read back |
| parsing, one-liners (`shell.c`) | a cursor | split a line at `;` | each part is run once |
| device, partition, list, debug (a3) | host file, links | read, write, print | - |
| `client6.py` | - | an unrelated messaging client | - |

### Interactions

The a2 shell passes each line to the interpreter, which calls
`process_initialize` once per script and then `schedule_by_policy`. The
scheduler pops a process and calls `execute_process`, which fetches lines from
the frame store and passes each to the shell's parser again; while it does,
`in_background` keeps an inner `run` or `exec` from starting a second scheduler.

In a3, `run` and `exec` call `new_proc` per script and then `run_proc_RR`, which
ends with all processes: a nested `exec` runs the processes of its caller, too,
and frees them. The lines of scripts and the variables share one array.

In a3, a file system command calls `fsutil`, which goes through the table of
open files and the directory to an inode. Everything an inode does to the disk
goes through the cache, the free map's file included: it is itself a file whose
inode is in sector 0.

## 2. Modules

| module | models | role |
|---|---|---|
| `WriteBackStore` | the contract of `cache.h` | abstract specification |
| `BufferCache` | `cache.c` over `block.c` | detailed specification, implements `WriteBackStore` |
| `DemandPaging` | the a2 kernel, frame store and script commands | specification |
| `PageKernel` | the a3 kernel, pages, memory of lines and variables, and the prompt | specification |
| `FileSystem` | the a3 free map, inodes, root directory, open files and commands | specification |
| `CrashConsistency` | `FileSystem` over a write-back store, with process death | composition, extends `FileSystem` |
| `TextFile` | the contract of `file.h`: a sequence of bytes with a position | abstract specification |
| `FileBytes` | the loops of `inode_read_at` and `inode_write_at`, positions, and the commands that use them | detailed specification, implements `TextFile` |
| `BufferCacheProofs`, `DemandPagingProofs`, `PageKernelProofs`, `LockstepProofs`, `FileSystemProofs`, `DefragmentProofs`, `CrashProofs`, `FileBytesProofs` | - | theorems |
| `MCBufferCache`, `MCDemandPaging`, `MCPageKernel`, `MCFileSystem`, `MCCrashConsistency`, `MCFileBytes` | - | instances for TLC |

`FileSystem` has every command except `recover 0`, after which files may share
sectors; `CrashConsistency` has that one, too. `FileSystem` sits on the cache:
as long as the process does not die, the cache is, by the theorem `Refinement`,
a store in which a write is visible at once. `FileSystem` therefore has one
value per sector; `CrashConsistency` adds the second, the one on the device, and
`FileBytes` looks into the sectors of one file.

### BufferCache

`cache`, `clock` and `disk` are the variables of the code. A call that hits is
one action (`Hit`); a call that misses is `Evict`, which runs the clock and
writes a dirty victim back, and then `Fill`, which reads the sector and copies
or overwrites it; `buffer_cache_close` is `Close`, a `FlushNext` per slot, and
`Closed`. There is at most one device access per step, so `Crash`, which may
come between any two steps, stands for a process that dies at any moment and is
started again: memory is zeroed, the disk stays. The clock's loop is not
recursive in the model: `StopsAfter(k)` says where it stops, `AfterScan` what
it leaves behind. `reply` records the last answer for the refinement.

The model takes a sector write to be atomic and `access` to be clear in a fresh
process (static storage).

### DemandPaging

| variable | code |
|---|---|
| `mode`, `policy`, `todo`, `id` | where the thread is: at the prompt, in `run` or `exec` with files still to initialize under the next argument number, in a scheduler, or in `execute_process` |
| `pid_counter`, `pcb` | `pcb.c`; `live` is false before `makePCB` and after `freePCB` |
| `queue`, `cur`, `quanta` | the ready queue, the process popped from it, the rest of its turn |
| `frames` | `shellframes`: lines, owner tag, empty |
| `older` | the order of the `lru` stamps, all that the code uses of them |

A line is a pair of file and index. `Calls` and `Quits` say which lines are
`run` or `exec` and which are `quit`; other lines change nothing modelled. The
step of `execute_process` is split per line (`ExecuteLine`), so that a nested
command runs between two lines; `Fault` and `QuantumOver` give the process back
to the tail of the queue (`Requeue`). `FileMissing` and `CopyFails` are the two
failures of `process_initialize`. `run` ignores the second; `exec` passes a
code of `cp` to `handle_error`, which indexes its messages past their end: the
model lets the shell survive or die.

The tag a frame gets is kept as in the code: the argument number (`id`) at
creation and the pid after a fault.

### PageKernel

| variable | code |
|---|---|
| `mode`, `input`, `todo`, `nested` | where the thread is: at the prompt, in `parseInput` with the rest of a one-liner, in `exec` with scripts still to load, in `run_proc_RR`; whether a script line called `exec` |
| `curr`, `turn` | the process popped, and which of the two `run_proc` of its turn is next |
| `pid_counter`, `pcb`, `all`, `queue`, `lru` | `PID_counter`, the PCBs, `ALL_PCB`, `QUEUE`, `LRU_CACHE` |
| `slots`, `store` | `shellmemory`: the part for lines and the part for variables |
| `proper` | history: all scripts run so far are proper |

A page has a counter, three indices into `slots` and three valid bits, and a
PCB has the number of lines read from its file (`pos`): `load_PAGE` takes the
next lines of the file, whichever page they are for. `Loads` is a set of at most
one memory, empty when `frame_alloc` finds no room. `PageFault` is the whole
second half of `run_proc`, with the eviction; `RunLineThenFault` is a line that
returns 1 and is then taken for a fault. `FreesAll` is the end of
`run_proc_RR`: `Cleared` follows `clear_frame` slot by slot, past the frames
into the variables. Lists that are walked past their end, freed memory and
indices out of range lead to `undefined`, or to no step where a property says
that it never happens (`VictimHasPCB`). So does the eviction of a page that never
came to memory, whose indices are 1000 (`a3/pcb.c:186-187`): a fault whose eviction
gave no room leaves such a page in `LRU_CACHE`, which improper scripts alone bring
about.

`count_lines` counts a last line that no newline ends, so the kernel counts
right only for a *proper* script: one that ends without newline, is not empty
and has no blank line. A proper script also has no line that returns 1 and no
nested `exec`. The properties about order, frames and termination are claimed
until an improper script is run; types, victims and variables always.

### FileSystem

| variable | code |
|---|---|
| `bitmap`, `mapfile` | `free_map` in memory, and the content of its file |
| `disk` | per sector: an inode, an index block, bytes, or the free map's inode |
| `root` | entries in use of the root directory, with their position |
| `table`, `open`, `dangling` | `file_table`; `open_inodes`; the open files whose inode was freed under them |
| `saved` | the files `defragment` holds between removing and creating them |
| `mode` | `up`; inside `defragment` (`saving`, `restoring`, `partial`); `down`; `mapless`, booted without a free map; `undefined`, after freed memory or a wrong sector was used |

A command is one action, except `defragment`, which is a step per file, since
it removes all files before it creates the first one again. Lengths are in
sectors. `Reserve` follows the code sector by sector through the direct blocks
and the index block, including what a full disk leaves half done: sectors
granted before the failure stay marked, an index block without a sector is
written to sector 0. Allocation takes the lowest free sector (`Grant`).

`Broken(n)` says that using file `n` would be undefined behaviour: its inode
was freed, or a pointer leads to a sector that is not what the code takes it
for. Commands are modelled for files that are not broken; `UseBroken` is the
step into undefined behaviour, after which nothing is modelled. An inode taken
for an index block, which `recover 0` can bring about, is not on the list: its
pointers are read without harm.

`defragment` uses freed memory whenever there is a file. Its `dir_open_root` sets
`cwd`; the first `fsutil_rm` opens the directory by `dir_reopen(cwd)`, which counts
nothing, and closes it, which frees the one `struct inode` of the root directory and
clears `cwd` (`directory.c:160-165`). The loop reads on through the freed inode
(`fsutil2.c:196-201`), `dir_close` closes it once more, and of an open file the
inode is closed twice in the same way (`fsutil2.c:227-228`). What the freed chunk
holds then depends on the allocator: the next `inode_open` asks for one of its
size. With glibc the loop was seen to reach all files when no file was open, or
only the first; when a later file was open it ended after the first such file, and
the files behind it stayed where they were. So after each removal `SaveNext`
either goes on, or takes the loop to be at its end (`partial` when there are files
left in the directory), or enters `undefined`, for all else that the build may do.
The properties of `defragment` are about the first two.

Left out: contents of files and byte positions (see `FileBytes`), subdirectories
(no command creates one), doubly indirect blocks, the growth of the root
directory past its 1000 entries (`MaxEntries` bounds them), and the sectors
formatting takes for the root directory and the free map's data, which are never
released.

### CrashConsistency

The variables of `FileSystem` are what the process sees through the cache;
`stable` is what the device holds of sectors, free map and directory.
`WriteBack`, `WriteBackMap` and `WriteBackRoot` bring one sector of it up to
date, at any time and in any order, as `Sync` of `WriteBackStore` does.
The entries of the directory are one such sector: an entry has 36 bytes, so
that next to the one of the parent 13 lie in the first sector, and the fourteenth
straddles two. `EntriesAssumption` keeps to 13; a crash that tears an entry of a
larger directory is not modelled. `CleanShutdown` (`filesys_done`) writes everything; `Crash` stands for
`exit(99)` of a script that cannot be opened, the end of the input or a kill,
and leaves the next process with `stable`. `base` is a history variable: the
files as the last clean shutdown left them, less those that a command changed
since. The property is that they survive.

To keep the state small, write-backs are taken between commands and only while
`base` is not empty, and only of sectors that a file of `base` uses, of the map
and of the directory: those are all that the properties read.

### FileBytes

| variable | code |
|---|---|
| `length`, `sectors` | `inode->data.length`, and the contents of the sectors reserved for the inode |
| `pos` | `file->pos` |
| `io` | the loop of `inode_read_at` or `inode_write_at` under way: its buffer, offset and what is done |
| `reply` | what the last call returned |
| `text`, `row` | history: what was copied in, or written in a row |

A command is a first step (`Write`, `Read`, `Dump`, `CopyIn`, `Defragment`), a
`WriteChunk` or `ReadChunk` per sector, and `WriteDone` or `ReadDone`. `Write`
has the extension test and the reservation, `WriteFails` the same on a full
disk, with any number of the lacking sectors granted. It moves the position back by
two each time. From a negative position (after a failed write at the start of the
file, or after `seek` with a negative offset, where the assertion of `file_seek`
only prints) a write that would end before the file begins fails in the same way
(`inode.c:264-269`, `inode_reserve` refuses a negative length), so the position goes
on to -4, -6 and so on, down to the bound `MinPos`; a write that needs more sectors
than there are fails, too. All other reads and writes there go to sector -1 and to
memory before a buffer (`BeforeStart`, undefined). The buffer of `write` ends
in two terminators, that of `copy_in` in one, and `file_write` moves the
position back by two in both cases. `Abstract` maps a write to a call that takes
effect when it starts and a read to one that takes effect when it ends.

## 3. Runs

| run | instance | question |
|---|---|---|
| `MCBufferCache` | 2 slots, 3 sectors, 2 values | inductive invariant, second chance, durability of close, refinement of `WriteBackStore` |
| `MCTightFrames` | `run`, and `exec` of any two scripts, 3 frames | queue, total recency, termination under evictions of live pages; own lines under `run` |
| `MCNestedExec` | scripts that call scripts, fail and quit, 27 frames | inductive invariant of the proofs; own lines only; every command ends |
| `MCPageKernel` | ten scripts, four frames, 3 variables | types, victims, frames, variables; order and termination of proper scripts |
| `MCFileSystem` | 2 names, 5 sectors | sharing, marks, leaks, open files, where pointers lead, defragmentation |
| `MCCrash` | 2 names, 4 sectors, `recover 0` | files of the last shutdown survive any crash; open files and directory agree |
| `MCFileBytes` | sectors of 3 bytes, files up to 8 | refinement of `TextFile`, negative positions included; zeros past the end; texts can be copied out |
| `MCTagConfusion` | nested `run`, 3 frames | violation: finding 1 |
| `MCDanglingFile` | as `MCFileSystem` | violation: finding 2 |
| `MCLostMap` | as `MCFileSystem` | violation: finding 3 |
| `MCVarsErased` | as `MCPageKernel`, fewer commands | violation: finding 4 |
| `MCNegativePosition` | as `MCFileBytes`, no negative offset sought | violation: finding 5 |

### Bounds

* *Cache.* With two slots the clock wraps, both slots can be referenced, and
  three sectors force evictions of clean and dirty slots. The theorems hold for
  every size.
* *Paging.* Pages have three lines and turns two, as in the code, so turns end
  inside pages. Scripts have 0, 2, 5 and 7 lines: no page, part of one, one and
  a part, two and a part. `MaxPid` bounds the processes ever created by refusing
  prompt commands beyond it. `MaxInt` stands for an FCFS turn longer than any
  script. Two frames are what `process_initialize` loads at once; three let two
  processes evict each other; 27 hold the pages of nine processes.
* *The a3 kernel.* Four frames of three lines: the script of ten lines has four
  pages, so two of them, or one and another, evict each other; the scripts of
  one, five and six lines end in the middle of a page and at its end. The store
  of three variables is the smallest that the spill of `clear_frame` (two slots)
  leaves a part of. `MaxPid` is four.
* *File system.* One direct block makes a file of two sectors have an index
  block. Five sectors hold sector 0, and either one file with an index block and
  one without data, or two small ones; each disk-full point of `Reserve` is
  reached. `MaxEntries` is two, `MaxSize` two. User names are symmetric: no
  definition tells two apart, and no liveness property is checked. The same
  properties were checked once on six sectors (1.25 million states).
  `MCCrash` has four sectors and files of one: an old file of two sectors, and a
  new one next to it that is created, fails, or is recovered; `Crash` may come
  after any subset of the write-backs.
* *Bytes.* Sectors of three bytes and files of up to eight make writes begin and
  end at, before and behind a boundary, span three sectors, and leave gaps. Texts
  of one, two and three characters, over two characters. Offsets sought are -5, -1
  and 0 to 8, and `MinPos` is -8: from -5 the shortest text still ends before the
  file, from -1 every text reaches into it, and a failed write at 0 or 1 leads to
  negative positions without a seek.

`CHECK_DEADLOCK FALSE` in the paging runs is for a shell that quit or died and
for a prompt at the bound `MaxPid`; in those of the file system and of
`FileBytes` for `undefined`, and in `MCCrash` also for the end of a remount.

### Fairness

`DemandPaging` and `PageKernel` have a liveness property, `ReturnsToPrompt`,
under weak fairness of `Step`, the disjunction of all that the shell's only
thread does by itself. The thread runs straight on until it reads the next
command, so this says no more than that the host schedules it. No fairness is
assumed of what is typed, nor of a single action. With one frame the property
fails (two processes evict each other's page forever); with the two that a
process loads at creation it was also seen to hold, and the run uses three.

## 4. Findings

1. `MCTagConfusion`: creation tags frames with the argument number
   (`a2/kernel.c:60`), lookup compares pids (`a2/shellmemory.c:308`). A process
   runs another's lines.
2. `MCDanglingFile`: `inode_reopen` counts nothing (`a3/fs/inode.c:161`), so
   `fragmentation_degree` and `recover 2` free the inode of every open file.
3. `MCLostMap`: an index block that finds the disk full is written to sector 0
   (`a3/fs/inode.c:382`); the next boot has no free map and `PANIC` goes on.
4. `MCVarsErased`: at the end of a scheduler `free_PCB` clears three slots from
   each index of a page (`a3/pcb.c:142`), so a page in the last frame takes the
   first two variables with it.
5. `MCNegativePosition`: `file_write` moves the position back by two also when it
   wrote nothing (`a3/fs/file.c:136`); `size`, `cat` and `copy_out` then fail the
   assertion of `file_seek`, and a read, or a write that reaches the file, goes to
   sector -1. More failed writes move the position to -4, -6 and so on.

Because of them `RunsOwnLine` is claimed only where no live process loses a page
to a process with its tag (and `RunKeepsToScript` for `run` alone), variables
only in that none is stored twice, and `NoSharing` and `MarkedOnDisk` only
without `recover 0`. Freed inodes of open files (finding 2), the freed inode of the
directory under `defragment` and negative positions (finding 5) are the ways into
undefined behaviour that the file system's models have; `OnlyFreedInodesBreak` is
about the pointers of files only, which never are one.

Other behaviour seen while modelling, most of it the reason for a restriction of
a property:

* a2: a page evicted in the middle of a turn is loaded again from the line
  reached (`a2/kernel.c:118`), not from its first line; under `exec` the next
  fetch then skips lines. `exec` that fails on a later file leaves the earlier
  ones queued (`a2/interpreter.c:263`).
* a3 kernel: a script that ends with a newline is counted one line too long and
  faults for ever (`a3/pcb.c:130`); `rm` and `read` return 1 when they succeed,
  which `run_proc` takes for a fault (`a3/kernel.c:45`); a nested `exec` frees
  its caller (`a3/kernel.c:176`); `quit` in a script calls `filesys_done` and the
  shell goes on (`a3/shell.c:139`); a script that does not exist ends the shell
  without `filesys_done` (`a3/pcb.c:37`); what follows `run` or `exec` in a
  one-liner is dropped once a script line was run (`a3/shell.c:135`); the copies
  of scripts get a name one character longer each time, in a buffer of 100
  (`a3/interpreter.c:130`).
* a3 files: an `rm` of an open file whose extension failed strands the sectors that
  the extension had taken, although the comment says that the last close of a
  removed inode frees "its blocks" (`a3/fs/inode.c:170`): `fsutil_rm` first closes
  the file, and forgets the inode that knew them (`a3/fs/fsutil.c:72`). The property
  `OnlySparesAreStranded` says that nothing else is stranded. `defragment` reads the
  directory through a freed inode (see FileSystem above) and may leave files where
  they are. A create that fails, or whose name exists, releases the inode's
  sector only (`a3/fs/filesys.c:83`); `copy_in` of a file larger than the free
  space always fails and leaks what it took (`a3/fs/fsutil2.c:41`); `write` after
  `copy_in` overwrites the last character, since the position stops one short of
  the single terminator; `free_map_close` does not write the map
  (`a3/fs/free-map.c:60`), so the marks `recover 0` sets are lost at shutdown.

## 5. Proofs

`tlapm` checks `BufferCacheProofs`, `DemandPagingProofs`, `PageKernelProofs`,
`LockstepProofs`, `FileSystemProofs`, `DefragmentProofs`, `CrashProofs` and
`FileBytesProofs`. The named `ASSUME`s on constants (positive sizes, scripts that
fit a page table, inodes with pointers for the whole disk) are evaluated by TLC on
every run. A few theorems have hypotheses besides: `RoomToStart` (PageKernel), and
`PagesStay`, `PlainRuns` and two frames (the lines run by processes of
DemandPaging); each is stated below with what it stands for.

**BufferCache.** `OneSlotPerSector` and `CleanMatchesDisk` are not inductive
alone: `Fill` needs that the slot at the clock is free and that no slot holds
the requested sector since `Evict` looked, and `Closed` needs that the slots
behind the hand are clean. `IInv` adds these three parts. `Invariance` proves
`Spec => []IInv`, one step per action; `TypeCorrect`, `OneSlot`,
`CleanCanBeDropped`, `Durability` and `SecondChanceHolds` follow from it. `Refinement` proves
`Spec => ImplementsStore` with `View`, the content a read would return, for the
abstract view: `Hit` and `Fill` map to `Read` or `Write`, `Evict` and
`FlushNext` to `Sync` of the sector written, or a stutter, `Closed` to `Close`,
`Crash` to `Crash`.

**DemandPaging.** `QueueIntegrity` needs that no PCB at or beyond `pid_counter`
is live, so that a new process is not in the queue already, and that a command
has at most three files (the type of `id`); `PCInScript` rides along because
the end of a script is tested by equality. `Invariance`, `TypeCorrect` and
`QueueKept` are proved for every set of scripts, any nesting, any number of
frames and any quanta.

**Recency.** `RecencyIsTotal` is inductive together with the fact that no empty
frame carries a tag of a process (`Untagged`): a frame that a process finds
tagged is in use, so touching it adds nothing new to the order. `LastOrders` says
that moving an element, or a new one, behind all others keeps a strict total
order; loading and touching are both that step. `RecencyKept` follows with the
invariant of `DemandPaging` for the page table entry a process looks at.

**Lines run.** With fewer frames than the live processes need, `RunsOwnLine`
is false (an evicted page is loaded again from the line reached), so what is proved
is when it holds. The store has at least two frames, since
`process_initialize` loads two pages and the second must not take the frame of the
first.

* `MixedOnlyByEviction`: `RunsOwnLine` holds of every behaviour in which no live
  process loses a page it has still to run (`PagesStay`), whatever runs beside it
  and however scripts start scripts. The invariant is `OwnPages`: where a process is
  led for a page it has still to run, a frame with its tag holds that page from its
  first line, and a process in the middle of a page finds it tagged, so that it
  faults only at the first line of a page (`FaultAtStart`). The first two pages,
  loaded under the tag `id`, are either faulted on again or right as they are.
  `MCNestedExec` has frames enough that `PagesStay` holds in it.
* `CurrentPageKept` and `RunRunsItsScript`: `CurrentPageIntact` and
  `RunKeepsToScript`, for scripts that hold no `run` or `exec` and `exec` commands
  whose files all exist and can be copied (`PlainRuns`, as in `MCTightFrames`; an
  `exec` that fails halfway leaves processes that a later `run` runs too). There
  `PagesStay` is not assumed but proved of `run`, for any number of frames from
  two up. One process is alive (`Alone`), and the only page loaded ahead of it is
  its second (`Ahead`). The victim of a fault is not that page, because the first
  page was used before it, and recency is a total order: here `RecencyIsTotal` is
  needed.

**PageKernel.** `VariablesStoredOnce` needs one fact about the store (`OneEach`)
that `set` and `clear_frame` keep; it holds across faults and nested `exec`.
`TypeOK` and `VictimHasPCB` are conjuncts of what is proved by a larger
invariant, `IInv`: that a running process has a page left follows only from the
equation that ties every page counter to the number of lines run (`Counter`);
that an eviction finds its PCB, from `LRU_CACHE` naming pages of `ALL_PCB` only,
which a new pid, above all that are in use, cannot break; that an index of a
valid line is a frame, from what `load_PAGE` writes. Loading, evicting and going
one line on have a lemma each about any memory (`LoadsKeeps`, `EvictedKeeps`,
`AdvancedKeeps`), from which each action's step is put together. No script is
assumed to be proper.

**Lockstep** is about proper scripts under the same kernel. `load_PAGE` reads the
next lines of a file, whichever page they are for, so a page that is evicted
with lines still to run could never be loaded again. That this does not happen
is a matter of scheduling, and the invariant `Lockstep` says why:

1. *Frames.* `Frames` ties pages in memory to slots one to one and says which line
   each slot holds; `Reading` and `Begun` say how far each file was read.
2. *Turns.* A turn is two lines, or one line and a fault, or a fault. So the
   processes of an `exec` stay within one turn of each other, in the order of
   their pids: of two that wait, either both had the same turns and the older is
   first, or the younger is first and the older one turn ahead (`TakeTurns`).
3. *Recency.* `LRU_CACHE` is ordered by use, and who used a page last can be read
   off the numbers of lines run (`UsedBefore`). With 2, when a process faults
   its two latest pages, and those of the others, are behind some page that is
   finished, and the victim at the head is finished (`TopTwo`, `Ordered`).

`PInv` adds that it all holds at the prompt and while `exec` loads, and
`LockstepInvariance` proves it with one lemma per action. `FramesAreAccounted`
follows (slots are counted by a bijection with pages times offsets), as do
`ScriptsRunInOrder` and `ProperScriptsAreSafe`. The last assumes `RoomToStart`, that
no typed `exec` starts more scripts than there is room for two pages each: the
default of 30 lines (`a3/Makefile:2`) has room for five, and `exec` takes three.
With less room `exec` does end the shell with `exit(99)`; that `undefined` is not
reached holds without it. In the model `PagesInMemory` takes the domain of each
page table as the range of pages, which may exceed the number of frames.

**FileSystem.** `NoSharing` and `MarkedOnDisk` speak of inodes on disk and are
not inductive: an extension that fails leaves sectors in the open inode that the
one on disk has not got, and the next write uses them. The invariant `Sound` is
therefore about what a file *claims*, its inode's sector and all pointers of the
open inode, those past its length included: claims are marked in the free map
file, two files' claims are disjoint, no pointer occurs twice, all positions up
to the length are filled, and the inode on disk has a subset of the pointers
(`Extends`). `Match` relates the table of open files, the open inodes and the
directory. With both, `IInv` says that in memory and in its file the free map is
the same while the shell runs, and that `defragment` finds a vacant entry for
each file it holds. The argument has four layers:

1. `NthIsMember`, `GrantFacts`: a set of sectors has members of all ranks below
   its size, so granting yields distinct, unmarked sectors.
2. `ReserveFacts`: what `inode_reserve` does, success or not, put into one
   predicate, `Reserved`, position by position; `ReserveTwice` composes the
   direct blocks with the indirect ones.
3. `SoundFrame`, `GoodChanges`: what is done to one file within its claims and
   unmarked sectors leaves all others as they were. `CreatedFacts`,
   `WriteKeepsFile`, `RemoveKeeps`, `GoodOpens` and `GoodCloses` bring the
   commands into that form.
4. One lemma per command, `Invariance`, and the theorems: types, `NoSharing`
   (the sectors of a file are counted by a bijection with its positions),
   `MarkedOnDisk`, `OpenInodesMatchTable`, `OnlyFreedInodesBreak`, and the action
   property `OnlySparesAreStranded`. `Leaked` are the marked sectors that no entry's
   inode, in memory or on disk, points to; `ClaimedIs` and `ClaimedIsThen` tie it to
   the claims of `Sound`. The theorem `StrandedAreSpares` says that a creation that
   succeeds (`CreationLeaksNothing`) adds nothing to it, and a removal
   (`RemovalStrands`) exactly what the open inode has and the one on disk has not.
   `OnlyFreedInodesBreak` also says that what an inode, in memory or on disk, has for
   its index block is an index block, which is stronger than what `Broken` tests.

All sizes are arbitrary; the assumption that an inode has pointers for the whole
disk is what keeps the doubly indirect block out.

**defragment** (`DefragmentProofs`). `filesys_create` fails on a name in use or on
a disk too full, and `defragment` goes on without the file; that it loses none
needs that neither can happen.

* `NothingIsLost` proves `DefragmentLosesNothing` from `DInv`, for every step that
  does not end in `undefined`, and also when the loop ends early and files that are
  held are created again beside others that were never removed: while files are
  held, their names differ from each other and from those in the directory
  (`NamedApart`, `Unlisted`), and the free sectors are enough for all of them
  together (`Room`). `Room` speaks of the sum of the sizes of the files held,
  which would take an induction over `saved`. It is stated as the cardinality of
  a set instead, `Units`: pairs of a file and a number below its size. Removing
  a file frees exactly its size (`RemovalFrees`) and adds as many pairs, and
  creating it takes both away again. `Reserve` succeeds whenever the sectors are
  enough (`RoomToReserve`), because an inode has pointers for the whole disk.
* `FilesAreCompacted` proves `DefragmentCompacts` from `TInv`, for the case that the
  loop has reached the end of the directory: while restoring with nothing leaked,
  the free sectors are `k .. NumSectors - 1` for some `k`, so that the next file
  takes `k`, its blocks behind it and its index block between
  the direct ones and the rest (`InOrder`). It holds when the last file is off the
  disk, since only sector 0 is marked then. A leaked sector would be a mark in the
  middle, hence the condition, and a creation that succeeds, as all of them do by
  `DInv`, leaks nothing (`CreationLeaksNothing`).

**CrashConsistency.** The invariant `CInv` has three parts, for three situations.

1. While the process lives and `recover 0` was not used since formatting, `IInv`
   of `FileSystem` holds as before; it is cited, not proved again.
2. `recover 0` gives entries to inodes whose blocks may belong to others, so
   `Sound` is lost. What remains is `Loose`: types, `Match`, and that sector 0 is
   marked and no file's inode. It is an invariant of every command on its own,
   although no two files need be apart: each lemma of part 2 (`LooseOpens`,
   `CreateLoose`, `WriteLoose`, `RemoveLoose`, `RecoverLoose` and so on) uses that a
   file that is not `Broken` has an inode where a command reads one.
   `HandlesAgree` and the types follow. `FormatIsTight` leads back to `IInv`.
3. A file of `base` is `Guarded`: its entry is in the directory and on the device,
   the only one of its name, and the device holds and marks all that its inode on
   disk points to (`Kept`, past its length too). A command on another file leaves
   what this one claims alone (`Spared`, from `CreatedFacts` and the second part of
   `WriteKeeps`), and a write-back copies what the shell sees, which for these
   sectors is what is there already (`SyncKeeps`). When the process dies,
   `Guarded` is all that the next one has to build on: `Dead` says that the file
   is as it was, that its inode leads to an index block and to no sector 0
   (`Readable`), and that opening such files leaves every inode in memory equal to
   the one on disk (`Mirrors`).

`OldFilesSurviveCrashes` and `OldFilesAreReadable` follow from the third part, for
up to 13 files, which `EntriesAssumption` keeps in one sector of the directory, and
for any number of sectors and write-backs.

**FileBytes.** The invariant `IInv` says of the file at rest that its sectors hold
its length and zeros behind it (`Stored`), of a call in progress how far it has come
(`WriteGoes`, `ReadGoes`), and of the bytes, with the part of a write over them that
is still to come (`View`), that they end in a terminator and hold the text
(`TextGoes`). Byte numbers are split into sector and offset in one lemma (`Split`),
which keeps the rest linear. `TypeCorrect` rests on `Stored`: extensions that fail
half-way, closes and rewriting always leave the sectors that the length needs.
`ZerosBehindTheEnd`, `LastByteTerminates` and `TextStays` are parts of `IInv`.
`Refinement` proves `Spec => ImplementsTextFile`, with `View` for the content: the
first step of a write, and the last of a read, map to the call of `TextFile`, turns
of the loops to stutters, failed writes and seeks, at negative positions too, to
`WriteFails` and `Seek`. Sector size, texts, offsets and `MinPos` are arbitrary.

**Only model-checked**: both `ReturnsToPrompt`, since `tlapm` has no rules for
liveness under fairness.

## 6. Plan

The order was: the cache with its contract and `DemandPaging`, then
`FileSystem`, then what composes or refines them (`CrashConsistency`, `TextFile`
and `FileBytes`) and the other kernel, `PageKernel`; proofs after each. All
modules are written.

### Not modelled

* SJF and AGING with the sorting of the ready queue (a2), and `run_proc_FIFO`
  (a3): no command reaches them.
* The variable stores of a1 and a2: the same first-fit array as a3's.
* Splitting of lines into words, printing, `ls`, `help`, and host commands (`ls`,
  `mkdir`, `touch`, `cd` of a1 and a2): pure input and output.
* a1 as a whole: one loop, variables and host commands. Its `run` calls the
  parser for each line of a script, and a script that runs itself recurses until
  the host's stack ends; there is no other state to go wrong.
* The host files that `recover 1` and `recover 2` write.
* `ide.c`, `partition.c`, `list.c`, `debug.c`, `round.h`: the device, an intrusive
  list and messages, which the models use as sectors, sets and a `PANIC` that does
  not stop.
* `client6.py`: an unrelated messaging client.
