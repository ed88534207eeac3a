----------------------------- MODULE PageKernel -----------------------------
(***************************************************************************)
(* The kernel of the third shell, src/a3: `run` and `exec` make a process  *)
(* of each script, its lines are loaded three at a time into the frames of *)
(* shellmemory, and a round-robin scheduler runs two lines of a process    *)
(* per turn.  Every page has a program counter of its own, and the script  *)
(* file is read on from where the last page ended, never rewound.  The     *)
(* slots after the frames hold the variables of set and resetmem.          *)
(***************************************************************************)
EXTENDS Integers, Sequences, SequencesExt, FiniteSetsExt

CONSTANTS
  Scripts,     \* names of host files
  Missing,     \* those that do not exist
  Lines,       \* the commands of each script, a sequence
  Terminated,  \* scripts whose last line ends with a newline
  Typed,       \* what may be typed: sequences of commands (one-liners)
  Vars,        \* names of variables
  FrameSize,   \* FRAME_STORE_SIZE
  VarSize,     \* VAR_STORE_SIZE
  MaxPid       \* bound: nothing is typed that would need more processes

PageSize == 3
Unloaded == 1000  \* the index of a page that was never loaded
Pids == 1 .. MaxPid
None == 0         \* no process; the var of a free frame slot
NoLine == <<>>
NoVar == "none"
Offsets == 0 .. PageSize - 1
FrameSlots == 0 .. FrameSize - 1
VarSlots == FrameSize .. FrameSize + VarSize - 1

\* Commands as far as processes and variables go.  "one" returns 1 (`rm` that
\* succeeds, `read` of as many bytes as asked, `exec` of four scripts);
\* "say" stands for all that change nothing here, errors included.
Commands ==
  [op : {"say", "blank", "one", "quit", "resetmem"}]
    \cup [op : {"set"}, var : Vars, value : Nat]
    \cup [op : {"exec"}, scripts : {s \in Seq(Scripts) : Len(s) \in 1 .. 3}]

ASSUME StoreAssumption == /\ FrameSize \in Nat /\ FrameSize < Unloaded
                          /\ VarSize \in Nat /\ VarSize >= PageSize - 1
                          /\ MaxPid \in Nat
ASSUME ScriptAssumption == /\ Missing \subseteq Scripts
                           /\ Terminated \subseteq Scripts
                           /\ Lines \in [Scripts -> Seq(Commands)]
                           /\ Typed \subseteq Seq(Commands)

VARIABLES
  mode,         \* "prompt", "parsing", "loading", "scheduling", "running";
                \* "halted" (quit), "dead" (exit(99)) or "undefined"
  input,        \* what parseInput has still to do of the typed one-liner
  todo,         \* scripts that exec has still to make processes of
  nested,       \* exec was called by a line of a script
  curr,         \* the process popped by run_proc_RR
  turn,         \* which run_proc of its turn is next: "first", "second", "only"
  pid_counter,  \* PID_counter
  pcb,          \* process control blocks, by pid
  all,          \* ALL_PCB
  queue,        \* QUEUE
  lru,          \* LRU_CACHE, the most recently used page first
  slots,        \* shellmemory, frames
  store,        \* shellmemory, variables
  proper        \* history: only proper scripts were run (see Proper)

vars == <<mode, input, todo, nested, curr, turn, pid_counter, pcb, all, queue,
          lru, slots, store, proper>>
processes == <<pid_counter, pcb, all, queue, lru, slots>>

-----------------------------------------------------------------------------
(* Scripts and page tables.                                                *)

\* Mutant of CountLines: as if every line ended with a newline.
CountLinesEach(s) ==
  1 + Cardinality({i \in DOMAIN Lines[s] : Lines[s][i].op # "blank"})

\* count_lines: the newlines that end a line which is not blank, plus one.
CountLines(s) ==
  1 + Cardinality({i \in DOMAIN Lines[s] :
                     /\ Lines[s][i].op # "blank"
                     /\ i < Len(Lines[s]) \/ s \in Terminated})

PageTableSize(n) == (n + PageSize - 1) \div PageSize

PAGE_init == [index |-> [j \in Offsets |-> Unloaded],
              valid_bit |-> [j \in Offsets |-> FALSE],
              program_counter |-> 0]

\* A PCB; pos counts the lines read from source_file.
NewPCB(s) == [script |-> s, size |-> CountLines(s), pos |-> 0,
              page_table |-> [i \in 0 .. PageTableSize(CountLines(s)) - 1
                                |-> PAGE_init]]
NoPCB == [script |-> "none", size |-> 0, pos |-> 0, page_table |-> <<>>]

\* A process is done when every page is run to its third line.
PCB_done(b) == \A i \in DOMAIN b.page_table :
                 b.page_table[i].program_counter = PageSize

\* The page a process has come to.
CurrentPage(b) == Min({i \in DOMAIN b.page_table :
                         b.page_table[i].program_counter # PageSize})

-----------------------------------------------------------------------------
(* The memory of the processes: a record of frames (slots) and PCBs.       *)

FreeSlot == [var |-> None, line |-> NoLine]
Memory == [slots |-> slots, pcb |-> pcb]
MemoryBecomes(m) == slots' = m.slots /\ pcb' = m.pcb

\* frame_alloc: the first place where three free slots lie side by side.
Room(m) == {i \in FrameSlots : \A k \in i .. i + PageSize - 1 :
                                 k \in FrameSlots /\ m.slots[k].var = None}
FrameFor(m) == IF Room(m) = {} THEN {} ELSE {Min(Room(m))}

\* Mutant of Got: the end of the file is not noticed.
GotPage(b) == PageSize

\* The lines of script b that fgets still finds, three at most.
Got(b) == Min({PageSize, Len(Lines[b.script]) - b.pos})

\* Mutant of LineRead: the file is opened anew for each page.
LineReadAnew(b, j) == <<b.script, j>>

\* The j-th of the lines that fgets reads next.
LineRead(b, j) == <<b.script, b.pos + j>>

\* load_PAGE of page i of process p into the frame at `at`: it gets the next
\* lines of the file, fewer than three at its end.
LoadedAt(m, p, i, at) ==
  LET b == m.pcb[p]
      page == [b.page_table[i] EXCEPT
                 !.index = [j \in Offsets |-> at + j],
                 !.valid_bit = [j \in Offsets |-> j < Got(b)]]
  IN [slots |-> [k \in FrameSlots |->
                   CASE k - at \notin Offsets -> m.slots[k]
                     [] k - at \in 0 .. Got(b) - 1 ->
                          [var |-> p, line |-> LineRead(b, k - at)]
                     [] OTHER -> [m.slots[k] EXCEPT !.var = p]],
      pcb |-> [m.pcb EXCEPT ![p].pos = @ + Got(b),
                            ![p].page_table[i] = page]]

\* What the memory becomes: one outcome, or none when there is no room.
Loads(m, p, i) == {LoadedAt(m, p, i, at) : at \in FrameFor(m)}

\* Mutant of Evicted: only the first slot of the page is freed.
EvictedFirst(m, page) ==
  LET was == m.pcb[page.pid].page_table[page.i]
      freed == {was.index[0]}
  IN [slots |-> [k \in FrameSlots |-> IF k \in freed THEN FreeSlot
                                                     ELSE m.slots[k]],
      pcb |-> [m.pcb EXCEPT ![page.pid].page_table[page.i] =
                 [was EXCEPT !.index = [j \in Offsets |-> 0],
                             !.valid_bit = [j \in Offsets |-> FALSE]]]]

\* PAGE_evict: the slots its index names are freed, be they still its own.
Evicted(m, page) ==
  LET was == m.pcb[page.pid].page_table[page.i]
      freed == {was.index[j] : j \in Offsets}
  IN [slots |-> [k \in FrameSlots |-> IF k \in freed THEN FreeSlot
                                                     ELSE m.slots[k]],
      pcb |-> [m.pcb EXCEPT ![page.pid].page_table[page.i] =
                 [was EXCEPT !.index = [j \in Offsets |-> 0],
                             !.valid_bit = [j \in Offsets |-> FALSE]]]]

\* The page table entry of a page of LRU_CACHE.
Entry(page) == pcb[page.pid].page_table[page.i]

-----------------------------------------------------------------------------
(* Variables.                                                              *)

FreeVar == [var |-> NoVar, value |-> 0]
Holding(v) == {k \in VarSlots : store[k].var = v}

\* Mutant of StoreAfter: set takes the first slot that is free or the
\* variable's own.
StoreAfterFirstFit(c) ==
  CASE c.op = "resetmem" -> [k \in VarSlots |-> FreeVar]
    [] c.op = "set" /\ Holding(c.var) \cup Holding(NoVar) # {} ->
         [store EXCEPT ![Min(Holding(c.var) \cup Holding(NoVar))] =
                         [var |-> c.var, value |-> c.value]]
    [] OTHER -> store

\* set and resetmem; a variable that finds the store full is dropped.
StoreAfter(c) ==
  CASE c.op = "resetmem" -> [k \in VarSlots |-> FreeVar]
    [] c.op = "set" /\ Holding(c.var) # {} ->
         [store EXCEPT ![Min(Holding(c.var))].value = c.value]
    [] c.op = "set" /\ Holding(c.var) = {} /\ Holding(NoVar) # {} ->
         [store EXCEPT ![Min(Holding(NoVar))] =
                         [var |-> c.var, value |-> c.value]]
    [] OTHER -> store

Init == /\ mode = "prompt"
        /\ input = <<>>
        /\ todo = <<>>
        /\ nested = FALSE
        /\ curr = None
        /\ turn = "only"
        /\ pid_counter = 1
        /\ pcb = [p \in Pids |-> NoPCB]
        /\ all = <<>>
        /\ queue = <<>>
        /\ lru = <<>>
        /\ slots = [k \in FrameSlots |-> FreeSlot]
        /\ store = [k \in VarSlots |-> FreeVar]
        /\ proper = TRUE

-----------------------------------------------------------------------------
(* The prompt, and run and exec.                                           *)

\* A script that the kernel counts right and that holds no command of the
\* kernel's own: its lines are at least one and none is blank, the last one
\* ends without newline, and no line is exec or returns 1.
ProperScript(s) ==
  /\ Lines[s] # <<>>
  /\ s \notin Terminated
  /\ \A i \in DOMAIN Lines[s] : Lines[s][i].op \notin {"blank", "exec", "one"}

\* The scripts that the commands of a one-liner name.
ScriptsIn(line) == MapThenSumSet(LAMBDA i : Len(line[i].scripts),
                                 {i \in DOMAIN line : line[i].op = "exec"})

\* main reads a line and hands it to parseInput.
Type(line) == /\ mode = "prompt"
              /\ pid_counter + ScriptsIn(line) <= MaxPid + 1
              /\ mode' = "parsing"
              /\ input' = line
              /\ UNCHANGED <<todo, nested, curr, turn, processes, store, proper>>

\* A command of the one-liner that changes variables at most.
PromptCommand ==
  /\ mode = "parsing"
  /\ input # <<>>
  /\ Head(input).op \notin {"exec", "quit"}
  /\ store' = StoreAfter(Head(input))
  /\ input' = Tail(input)
  /\ UNCHANGED <<mode, todo, nested, curr, turn, processes, proper>>

PromptQuit ==
  /\ mode = "parsing"
  /\ input # <<>>
  /\ Head(input).op = "quit"
  /\ mode' = "halted"
  /\ UNCHANGED <<input, todo, nested, curr, turn, processes, store, proper>>

PromptExec ==
  /\ mode = "parsing"
  /\ input # <<>>
  /\ Head(input).op = "exec"
  /\ mode' = "loading"
  /\ input' = Tail(input)
  /\ todo' = Head(input).scripts
  /\ proper' = (proper /\ \A s \in Range(todo') : ProperScript(s))
  /\ UNCHANGED <<nested, curr, turn, processes, store>>

EndOfInput ==
  /\ mode = "parsing"
  /\ input = <<>>
  /\ mode' = "prompt"
  /\ UNCHANGED <<input, todo, nested, curr, turn, processes, store, proper>>

\* PCB_init of the next process, with its first two pages loaded.
Initialized(script) ==
  LET p == pid_counter
      m0 == [Memory EXCEPT !.pcb[p] = NewPCB(script)]
  IN IF CountLines(script) <= PageSize
     THEN Loads(m0, p, 0)
     ELSE UNION {Loads(m1, p, 1) : m1 \in Loads(m0, p, 0)}

\* new_proc.
NewProc ==
  /\ mode = "loading"
  /\ todo # <<>>
  /\ pid_counter \in Pids
  /\ Head(todo) \notin Missing
  /\ \E m \in Initialized(Head(todo)) : MemoryBecomes(m)
  /\ LET first == [pid |-> pid_counter, i |-> 0]
     IN lru' = IF CountLines(Head(todo)) <= PageSize
               THEN <<first>> \o lru
               ELSE <<[first EXCEPT !.i = 1], first>> \o lru
  /\ all' = Append(all, pid_counter)
  /\ queue' = Append(queue, pid_counter)
  /\ pid_counter' = pid_counter + 1
  /\ todo' = Tail(todo)
  /\ UNCHANGED <<mode, input, nested, curr, turn, store, proper>>

\* exit(99): the script cannot be opened, or its first pages find no frame.
NewProcDies ==
  /\ mode = "loading"
  /\ todo # <<>>
  /\ pid_counter \in Pids
  /\ Head(todo) \in Missing \/ Initialized(Head(todo)) = {}
  /\ mode' = "dead"
  /\ UNCHANGED <<input, todo, nested, curr, turn, processes, store, proper>>

StartScheduler ==
  /\ mode = "loading"
  /\ todo = <<>>
  /\ mode' = "scheduling"
  /\ UNCHANGED <<input, todo, nested, curr, turn, processes, store, proper>>

-----------------------------------------------------------------------------
(* run_proc_RR.                                                            *)

queue_done == \A k \in DOMAIN queue : PCB_done(pcb[queue[k]])

\* A process that has no line left is popped and not queued again.
Pop ==
  /\ mode = "scheduling"
  /\ ~queue_done
  /\ queue' = Tail(queue)
  /\ IF pcb[Head(queue)].size <= 0
     THEN UNCHANGED <<mode, curr, turn>>
     ELSE /\ mode' = "running"
          /\ curr' = Head(queue)
          /\ turn' = IF pcb[curr'].size > 1 THEN "first" ELSE "only"
  /\ UNCHANGED <<input, todo, nested, pid_counter, pcb, all, lru, slots, store,
                 proper>>

\* The line that cpu_run is about to run, when it is in memory.
Running == mode = "running"
ThisPage == CurrentPage(pcb[curr])
ThisEntry == pcb[curr].page_table[ThisPage]
InMemory == ThisEntry.valid_bit[ThisEntry.program_counter]
Fetched == slots[ThisEntry.index[ThisEntry.program_counter]].line
Command == IF Fetched = NoLine THEN [op |-> "say"]
                               ELSE Lines[Fetched[1]][Fetched[2] + 1]

\* cpu_run's last step, one line on.
Advanced(m) ==
  [m EXCEPT !.pcb[curr].page_table[ThisPage].program_counter = @ + 1,
            !.pcb[curr].size = @ - 1]

\* The first page of LRU_CACHE that remove_elem takes for the current one:
\* pages are compared by the slot their first line is in.
Same == {k \in DOMAIN lru : Entry(lru[k]).index[0] = ThisEntry.index[0]}

\* The page that was run becomes the most recently used one.
Touched == LET k == Min(Same) IN lru' = <<lru[k]>> \o RemoveAt(lru, k)

\* What run_proc_RR does after a run_proc that returned 0.
TurnGoesOn ==
  \/ turn = "first" /\ turn' = "second" /\ UNCHANGED <<mode, curr, queue>>
  \/ /\ turn \in {"second", "only"}
     /\ mode' = "scheduling"
     /\ curr' = None
     /\ queue' = IF turn = "second" THEN Append(queue, curr) ELSE queue
     /\ UNCHANGED turn

\* run_proc of a line that does not return 1; quit ends neither script nor
\* shell.  The input typed is forgotten: strtok has moved to the script line.
RunLine ==
  /\ Running
  /\ InMemory
  /\ Command.op \notin {"exec", "one"}
  /\ Same # {}
  /\ store' = StoreAfter(Command)
  /\ MemoryBecomes(Advanced(Memory))
  /\ Touched
  /\ TurnGoesOn
  /\ input' = <<>>
  /\ UNCHANGED <<todo, nested, pid_counter, all, proper>>

\* pop_tail(LRU_CACHE): the victim, and the pages left.
Popped == [page |-> Last(lru), rest |-> Front(lru)]

\* run_proc after a 1: the page gets the next lines of the file, in place of
\* the least recently used page when no frame is free, and the process is
\* put back at the tail.  PAGE_evict of a page that never came to memory,
\* for the eviction for its sake gave no room, writes past shellmemory.
PageFault(m) ==
  /\ \/ /\ \E loaded \in Loads(m, curr, ThisPage) : MemoryBecomes(loaded)
        /\ lru' = <<[pid |-> curr, i |-> ThisPage]>> \o lru
        /\ mode' = "scheduling"
     \/ /\ Room(m) = {}
        /\ lru # <<>>
        /\ \E e \in {Evicted(m, Popped.page)} :
             IF Room(e) = {}
             THEN MemoryBecomes(e)
             ELSE \E loaded \in Loads(e, curr, ThisPage) : MemoryBecomes(loaded)
        /\ lru' = <<[pid |-> curr, i |-> ThisPage]>> \o Popped.rest
        /\ mode' = IF Entry(Popped.page).index[0] = Unloaded
                   THEN "undefined" ELSE "scheduling"
  /\ curr' = None
  /\ queue' = Append(queue, curr)
  /\ UNCHANGED turn

\* A line that is not in memory.
Fault ==
  /\ Running
  /\ ~InMemory
  /\ PageFault(Memory)
  /\ UNCHANGED <<input, todo, nested, pid_counter, all, store, proper>>

\* A line that returns 1 is run, then taken for a page fault.
RunLineThenFault ==
  /\ Running
  /\ InMemory
  /\ Command.op = "one"
  /\ PageFault(Advanced(Memory))
  /\ input' = <<>>
  /\ UNCHANGED <<todo, nested, pid_counter, all, store, proper>>

\* A line that is run or exec: new processes join the queue, and a scheduler
\* of its own will run them and all that wait.
RunExec ==
  /\ Running
  /\ InMemory
  /\ Command.op = "exec"
  /\ mode' = "loading"
  /\ todo' = Command.scripts
  /\ nested' = TRUE
  /\ input' = <<>>
  /\ proper' = (proper /\ \A s \in Range(todo') : ProperScript(s))
  /\ UNCHANGED <<curr, turn, processes, store>>

\* Mutant of Cleared: mem_free_at instead of clear_frame, for one index.
ClearedOne == {k \in FrameSlots \cup VarSlots :
                 \E p \in Range(all) : \E i \in DOMAIN pcb[p].page_table :
                   k = pcb[p].page_table[i].index[0]}

\* Slots that free_PCB of every process clears: clear_frame clears three from
\* each index of each page.
Cleared == {k \in FrameSlots \cup VarSlots :
              \E p \in Range(all) : \E i \in DOMAIN pcb[p].page_table :
                \E j \in Offsets :
                  k - pcb[p].page_table[i].index[j] \in 0 .. PageSize - 1}

HasUnloaded(b) == \E i \in DOMAIN b.page_table :
                    b.page_table[i].index[0] = Unloaded

\* The end of run_proc_RR, up to the last of the three lists.  Under a nested
\* exec this frees the PCB that the outer scheduler is about to go on with; a
\* page never loaded would make clear_frame write past the memory.
FreesAll ==
  /\ mode = "scheduling"
  /\ queue_done
  /\ mode' = IF nested \/ \E p \in Range(all) : HasUnloaded(pcb[p])
             THEN "undefined" ELSE "parsing"
  /\ slots' = [k \in FrameSlots |-> IF k \in Cleared THEN FreeSlot
                                                     ELSE slots[k]]
  /\ store' = [k \in VarSlots |-> IF k \in Cleared THEN FreeVar
                                                   ELSE store[k]]
  /\ pcb' = [p \in Pids |-> NoPCB]
  /\ all' = <<>>
  /\ queue' = <<>>
  /\ UNCHANGED <<input, todo, nested, curr, turn, pid_counter, proper>>

\* Mutant of Done: LRU_CACHE is not cleared.
DoneKeepsRecency == FreesAll /\ UNCHANGED lru

Done == FreesAll /\ lru' = <<>>

\* What the shell's only thread does by itself.
Step == \/ PromptCommand \/ PromptQuit \/ PromptExec \/ EndOfInput
        \/ NewProc \/ NewProcDies \/ StartScheduler
        \/ Pop \/ RunLine \/ Fault \/ RunLineThenFault \/ RunExec
        \/ Done

Next == Step \/ \E line \in Typed : Type(line)

Spec == Init /\ [][Next]_vars /\ WF_vars(Step)

-----------------------------------------------------------------------------
PageEntries == [index : [Offsets -> FrameSlots \cup {Unloaded}],
                valid_bit : [Offsets -> BOOLEAN],
                program_counter : 0 .. PageSize]

\* Every variable keeps its type: a page counter never passes the third line,
\* a process never runs more lines than counted, and no more lines are read
\* than the file has.
TypeOK ==
  /\ mode \in {"prompt", "parsing", "loading", "scheduling", "running",
               "halted", "dead", "undefined"}
  /\ input \in Seq(Commands)
  /\ todo \in Seq(Scripts)
  /\ nested \in BOOLEAN
  /\ curr \in Pids \cup {None}
  /\ turn \in {"first", "second", "only"}
  /\ pid_counter \in 1 .. MaxPid + 1
  /\ \A p \in Pids :
       LET b == pcb[p]
       IN b # NoPCB =>
            /\ b.script \in Scripts
            /\ b.size \in 0 .. CountLines(b.script)
            /\ b.pos \in 0 .. Len(Lines[b.script])
            /\ b.page_table \in [0 .. PageTableSize(CountLines(b.script)) - 1
                                   -> PageEntries]
  /\ all \in Seq(Pids)
  /\ queue \in Seq(Pids)
  /\ \A k \in DOMAIN lru : lru[k].pid \in Pids /\ lru[k].i \in Nat
  /\ \A k \in FrameSlots : slots[k].var \in Pids \cup {None}
  /\ store \in [VarSlots -> [var : Vars \cup {NoVar}, value : Nat]]
  /\ proper \in BOOLEAN

\* LRU_CACHE lists pages of processes in ALL_PCB only, every page in memory
\* among them, and is not empty while a process runs: pop_tail finds a victim,
\* remove_elem finds the page that was run, and the walk along ALL_PCB ends at
\* the owner of the victim, though it tests for the tail of another list
\* (kernel.c:49) and would run off.
VictimHasPCB ==
  /\ \A k \in DOMAIN lru : /\ lru[k].pid \in Range(all)
                           /\ lru[k].i \in DOMAIN pcb[lru[k].pid].page_table
  /\ \A p \in Range(all) : \A i \in DOMAIN pcb[p].page_table :
       pcb[p].page_table[i].valid_bit[0]
         => \E k \in DOMAIN lru : lru[k] = [pid |-> p, i |-> i]
  /\ mode = "running" => lru # <<>>

\* Proper scripts lead to no undefined behaviour, and never to exit(99) for
\* want of a frame or of a victim; only a missing script kills the shell.
ProperIsSafe ==
  proper => /\ mode # "undefined"
            /\ mode = "dead" => todo # <<>> /\ Head(todo) \in Missing

\* Under proper scripts, two pages in memory share no slot, each slot in
\* use belongs to one of them, and between two commands all are free again:
\* no eviction and no clear_frame takes a slot of somebody else or forgets one.
PagesInMemory == {pg \in UNION {{[pid |-> p, i |-> i] :
                                   i \in DOMAIN pcb[p].page_table} :
                                  p \in Range(all)} :
                    Entry(pg).valid_bit[0]}
FramesAccounted ==
  proper =>
    /\ \A pg \in PagesInMemory : \A j \in Offsets :
         slots[Entry(pg).index[j]].var = pg.pid
    /\ \A k \in FrameSlots : slots[k].var # None =>
         \E pg \in PagesInMemory : \E j \in Offsets : Entry(pg).index[j] = k
    /\ Cardinality({k \in FrameSlots : slots[k].var # None})
         = PageSize * Cardinality(PagesInMemory)

\* A variable is kept in one slot at most, holes that clear_frame tore
\* included, so that print shows the value set last (shellmemory.c:116-134).
OneSlotPerVariable ==
  \A v \in Vars \ {NoVar} : Cardinality(Holding(v)) <= 1

\* A proper script is run line by line in the order of the file, each line
\* once: the k-th line run is the k-th line, though pages are evicted and the
\* file is only ever read on (pcb.c:88).
RunsScriptInOrder ==
  [][proper => \A p \in Pids :
       /\ pcb[p].size > 0 /\ pcb'[p] # NoPCB
       /\ pcb'[p].size < pcb[p].size
       => Fetched = <<pcb[p].script, CountLines(pcb[p].script) - pcb[p].size>>]_vars

\* Under proper scripts every line typed is carried out to the end: all their
\* processes finish and the prompt comes back, or the shell ends.
ReturnsToPrompt ==
  mode # "prompt" ~> mode \in {"prompt", "halted", "dead"} \/ ~proper

\* Scheduling changes no variable by itself: the slots after the frames are
\* "reserved for variables" (shellmemory.c:12-13).
VariablesKept == [][mode = "scheduling" => UNCHANGED store]_vars
=============================================================================
