---------------------------- MODULE DemandPaging ----------------------------
(***************************************************************************)
(* The second shell, src/a2: scripts run as processes whose lines are      *)
(* paged on demand into a small store of frames.  One thread does all the  *)
(* work: it reads a command, initializes a process per script, then lets a *)
(* scheduler pop processes off the ready queue until the queue is empty.   *)
(* A line of a script may itself be `run` or `exec`, which initializes     *)
(* more processes in the middle of the scheduler's loop.                   *)
(***************************************************************************)
EXTENDS Integers, Sequences, Functions

CONSTANTS
  Files,          \* names the commands mention
  Missing,        \* those fopen cannot open
  Uncopied,       \* those `cp` cannot copy to the backing store
  NumLines,       \* lines of each file
  Calls,          \* files a line initializes when it is `exec`, else none
  Quits,          \* lines that are `quit`
  Commands,       \* what is typed at the prompt
  NumFrames,      \* SHELL_FRAMES
  LinesPerFrame,  \* LINES_PER_FRAME
  MaxPages,       \* entries of a page table, 100 in the code
  RRQuantum,      \* lines per turn under RR, 2 in the code
  MaxInt,         \* lines per turn under FCFS
  MaxPid          \* bound: the prompt takes no command past this many PCBs

Pids == 1 .. MaxPid
NoProcess == 0
Frames == 0 .. NumFrames - 1
NoFrame == -1
Offsets == 0 .. LinesPerFrame - 1
Pages == 0 .. MaxPages - 1

\* A line is known by its file and its index there.
Lines == {<<f, i>> : f \in Files, i \in 0 .. MaxPages * LinesPerFrame - 1}
NoLine == <<>>

\* The files of one command: `run` names one, `exec` up to three.
FileLists == {fs \in Seq(Files) : Len(fs) \in 1 .. 3}

ASSUME SizesAssumption ==
  /\ NumFrames \in Nat \ {0}
  /\ LinesPerFrame \in Nat \ {0}
  /\ MaxPages \in Nat \ {0}
  /\ RRQuantum \in Nat \ {0}
  /\ MaxInt \in Nat \ {0}
  /\ MaxPid \in Nat
ASSUME ScriptsAssumption ==
  /\ Files # {}
  /\ Missing \subseteq Files
  /\ Uncopied \subseteq Files
  /\ NumLines \in [Files -> 0 .. MaxPages * LinesPerFrame]
  /\ Calls \in [Lines -> FileLists \cup {<<>>}]
  /\ Quits \subseteq Lines
  /\ Commands \subseteq [policy : {"FCFS", "RR"}, files : FileLists]

VARIABLES
  mode,         \* "prompt", "loading", "scheduling", "running" or "halted"
  policy,       \* policy of the scheduler that runs, or is about to
  todo,         \* files the current run or exec has still to initialize
  id,           \* argument id of the next process_initialize
  pid_counter,  \* the next process id
  pcb,          \* process control blocks, by pid
  queue,        \* the ready queue
  cur,          \* the process of execute_process
  quanta,       \* lines it may still run in this turn
  frames,       \* shellframes
  older         \* pairs of loaded frames, the less recently used one first

vars == <<mode, policy, todo, id, pid_counter, pcb, queue, cur, quanta,
          frames, older>>

\* A PCB; its current_command always equals its PC (kernel.c:130-131).
PCBs == [file : Files, live : BOOLEAN, PC : Nat,
         page_table : [Pages -> Frames \cup {NoFrame}]]

FrameContents == [lines : [Offsets -> Lines \cup {NoLine}],
                  pid : Int, empty : BOOLEAN]

UnusedPCB == [file |-> CHOOSE f \in Files : TRUE, live |-> FALSE, PC |-> 0,
              page_table |-> [p \in Pages |-> NoFrame]]
EmptyFrame == [lines |-> [i \in Offsets |-> NoLine], pid |-> -1,
               empty |-> TRUE]

Init == /\ mode = "prompt"
        /\ policy = "FCFS"
        /\ todo = <<>>
        /\ id = 1
        /\ pid_counter = 1
        /\ pcb = [p \in Pids |-> UnusedPCB]
        /\ queue = <<>>
        /\ cur = NoProcess
        /\ quanta = 0
        /\ frames = [f \in Frames |-> EmptyFrame]
        /\ older = {}

-----------------------------------------------------------------------------
(* The frame store.  The recency stamps of the code only serve to find the *)
(* least recently used frame, so what is kept of them is their order.      *)

Store == [frames |-> frames, older |-> older]

\* Mutant of Touched: the frame keeps its earlier place too.
TouchedTwice(s, f) ==
  s.older \cup {<<g, f>> : g \in {g \in Frames : ~s.frames[g].empty /\ g # f}}

\* Frame f becomes the most recently used one.
Touched(s, f) ==
  {pair \in s.older : pair[1] # f /\ pair[2] # f}
    \cup {<<g, f>> : g \in {g \in Frames : ~s.frames[g].empty /\ g # f}}

\* The frame loadFrame takes: the first empty one, or the least recently
\* used one when none is empty.
Taken(s, f) ==
  \/ /\ s.frames[f].empty
     /\ \A g \in 0 .. f - 1 : ~s.frames[g].empty
  \/ /\ \A g \in Frames : ~s.frames[g].empty
     /\ \A g \in Frames \ {f} : <<f, g>> \in s.older

\* Mutant of Loaded: one line of the file is read ahead of the page.
LoadedFromNext(s, f, script, i, tag) ==
  [frames |-> [s.frames EXCEPT ![f] =
                 [lines |-> [o \in Offsets |->
                               IF i + o + 1 < NumLines[script]
                               THEN <<script, i + o + 1>>
                               ELSE s.frames[f].lines[o]],
                  pid |-> tag,
                  empty |-> FALSE]],
   older |-> Touched(s, f)]

\* loadFrame into frame f, the file being at line i of script: lines past
\* the end of the file leave those of the victim in place.
Loaded(s, f, script, i, tag) ==
  [frames |-> [s.frames EXCEPT ![f] =
                 [lines |-> [o \in Offsets |->
                               IF i + o < NumLines[script]
                               THEN <<script, i + o>>
                               ELSE s.frames[f].lines[o]],
                  pid |-> tag,
                  empty |-> FALSE]],
   older |-> Touched(s, f)]

Keep(s) == frames' = s.frames /\ older' = s.older

-----------------------------------------------------------------------------
(* The prompt, and `run` and `exec`.                                       *)

Command(c) == /\ mode = "prompt"
              /\ pid_counter + Len(c.files) <= MaxPid + 1
              /\ mode' = "loading"
              /\ policy' = c.policy
              /\ todo' = c.files
              /\ id' = 1
              /\ UNCHANGED <<pid_counter, pcb, queue, cur, quanta, frames,
                             older>>

\* `quit` typed at the prompt.
Quit == /\ mode = "prompt"
        /\ mode' = "halted"
        /\ UNCHANGED <<policy, todo, id, pid_counter, pcb, queue, cur, quanta,
                       frames, older>>

\* Mutant of Caller: the prompt comes back whoever issued the command.
CallerPrompt == "prompt"

\* Where control goes once a command has been carried out: on with the line
\* that holds it, or back to the prompt.
Caller == IF cur = NoProcess THEN "prompt" ELSE "running"

\* Mutant of NewPCB: every page points to the frame of the first.
NewPCBOneFrame(f, n, at) ==
  [file |-> f, live |-> TRUE, PC |-> 0,
   page_table |-> [p \in Pages |-> IF p < n THEN at[0] ELSE NoFrame]]

\* A PCB with the pages i < n loaded into frame at[i].
NewPCB(f, n, at) ==
  [file |-> f, live |-> TRUE, PC |-> 0,
   page_table |-> [p \in Pages |-> IF p < n THEN at[p] ELSE NoFrame]]

\* process_initialize: up to two pages are loaded, under the tag id and not
\* under the pid of the new process (kernel.c:60).
ProcessInitialize ==
  /\ mode = "loading"
  /\ todo # <<>>
  /\ LET f == Head(todo)
         s0 == Store
     IN /\ f \notin Missing \cup Uncopied
        /\ pid_counter \in Pids
        /\ \E n \in 0 .. 2, v \in Frames, w \in Frames :
             LET s1 == Loaded(s0, v, f, 0, id)
                 s2 == Loaded(s1, w, f, LinesPerFrame, id)
             IN /\ n = 0 => NumLines[f] = 0
                /\ n = 1 => NumLines[f] \in 1 .. LinesPerFrame
                /\ n = 2 => NumLines[f] > LinesPerFrame
                /\ IF n > 0 THEN Taken(s0, v) ELSE v = 0
                /\ IF n = 2 THEN Taken(s1, w) ELSE w = 0
                /\ Keep(IF n = 0 THEN s0 ELSE IF n = 1 THEN s1 ELSE s2)
                /\ pcb' = [pcb EXCEPT ![pid_counter] =
                             NewPCB(f, n, [i \in 0 .. 1 |->
                                             IF i = 0 THEN v ELSE w])]
        /\ queue' = Append(queue, pid_counter)
        /\ pid_counter' = pid_counter + 1
        /\ todo' = Tail(todo)
        /\ id' = id + 1
        /\ UNCHANGED <<mode, policy, cur, quanta>>

\* A file that does not exist ends the command.  What exec initialized
\* before it stays in the ready queue (interpreter.c:261-265).
FileMissing ==
  /\ mode = "loading"
  /\ todo # <<>>
  /\ Head(todo) \in Missing
  /\ mode' = Caller
  /\ todo' = <<>>
  /\ UNCHANGED <<policy, id, pid_counter, pcb, queue, cur, quanta, frames,
                 older>>

\* A failed copy: run ignores its error code (interpreter.c:245-249); exec
\* indexes error_msgs past its end with it, and survives or dies.
CopyFails ==
  /\ mode = "loading"
  /\ todo # <<>>
  /\ Head(todo) \in Uncopied \ Missing
  /\ \/ mode' = "loading" /\ cur = NoProcess /\ policy = "FCFS"
     \/ /\ cur # NoProcess \/ policy = "RR"
        /\ mode' \in {Caller, "halted"}
  /\ todo' = <<>>
  /\ UNCHANGED <<policy, id, pid_counter, pcb, queue, cur, quanta, frames,
                 older>>

\* schedule_by_policy: a scheduler starts, unless one already runs.
Schedule == /\ mode = "loading"
            /\ todo = <<>>
            /\ mode' = IF cur = NoProcess THEN "scheduling" ELSE "running"
            /\ UNCHANGED <<policy, todo, id, pid_counter, pcb, queue, cur,
                           quanta, frames, older>>

-----------------------------------------------------------------------------
(* The schedulers and execute_process.                                     *)

QueueEmpty == /\ mode = "scheduling"
              /\ queue = <<>>
              /\ mode' = "prompt"
              /\ UNCHANGED <<policy, todo, id, pid_counter, pcb, queue, cur,
                             quanta, frames, older>>

\* Mutant of Dispatch: the head is run without being popped.
DispatchUnpopped == /\ mode = "scheduling"
                    /\ queue # <<>>
                    /\ cur' = Head(queue)
                    /\ quanta' = IF policy = "RR" THEN RRQuantum ELSE MaxInt
                    /\ mode' = "running"
                    /\ UNCHANGED <<policy, todo, id, pid_counter, pcb, queue,
                                   frames, older>>

Dispatch == /\ mode = "scheduling"
            /\ queue # <<>>
            /\ cur' = Head(queue)
            /\ queue' = Tail(queue)
            /\ quanta' = IF policy = "RR" THEN RRQuantum ELSE MaxInt
            /\ mode' = "running"
            /\ UNCHANGED <<policy, todo, id, pid_counter, pcb, frames, older>>

\* Mutant of Finished: the end of the script is recognized a line late.
FinishedLate(p) == pcb[p].PC > NumLines[pcb[p].file]

Finished(p) == pcb[p].PC = NumLines[pcb[p].file]

Terminate == /\ mode = "running"
             /\ Finished(cur)
             /\ pcb' = [pcb EXCEPT ![cur].live = FALSE]
             /\ cur' = NoProcess
             /\ mode' = "scheduling"
             /\ UNCHANGED <<policy, todo, id, pid_counter, queue, quanta,
                            frames, older>>

\* Mutants of Requeue: the process is lost, as under SJF (kernel.c:162-173),
\* or the queue gets the process after it was cleared.
RequeueLost == /\ UNCHANGED queue
               /\ cur' = NoProcess
               /\ mode' = "scheduling"
RequeueCleared == /\ cur' = NoProcess
                  /\ queue' = Append(queue, cur')
                  /\ mode' = "scheduling"

\* The end of a turn: the scheduler puts the process back at the tail.
Requeue == /\ queue' = Append(queue, cur)
           /\ cur' = NoProcess
           /\ mode' = "scheduling"

QuantumOver == /\ mode = "running"
               /\ ~Finished(cur)
               /\ quanta = 0
               /\ Requeue
               /\ UNCHANGED <<policy, todo, id, pid_counter, pcb, quanta,
                              frames, older>>

\* Mutant of PageOf: the page is that of the next line.
PageOfNext(p) == (pcb[p].PC + 1) \div LinesPerFrame

PageOf(p) == pcb[p].PC \div LinesPerFrame
FrameOf(p) == pcb[p].page_table[PageOf(p)]

\* The frame is tagged for the process: getLineFromFrameStore looks into it.
Tagged(p) == FrameOf(p) # NoFrame /\ frames[FrameOf(p)].pid = p

\* What it finds there.
Fetched(p) == frames[FrameOf(p)].lines[pcb[p].PC % LinesPerFrame]

\* A page fault.  The page is read from the line the process has come to,
\* which is the first line of the page only if it had run none of it.
Fault ==
  /\ mode = "running"
  /\ ~Finished(cur)
  /\ quanta > 0
  /\ Tagged(cur) => Fetched(cur) = NoLine
  /\ LET s == IF Tagged(cur)
              THEN [Store EXCEPT !.older = Touched(Store, FrameOf(cur))]
              ELSE Store
     IN \E v \in Frames :
          /\ Taken(s, v)
          /\ Keep(Loaded(s, v, pcb[cur].file, pcb[cur].PC, cur))
          /\ pcb' = [pcb EXCEPT ![cur].page_table[PageOf(cur)] = v]
  /\ Requeue
  /\ UNCHANGED <<policy, todo, id, pid_counter, quanta>>

\* One line is run.
ExecuteLine ==
  /\ mode = "running"
  /\ ~Finished(cur)
  /\ quanta > 0
  /\ Tagged(cur)
  /\ Fetched(cur) # NoLine
  /\ older' = Touched(Store, FrameOf(cur))
  /\ pcb' = [pcb EXCEPT ![cur].PC = @ + 1]
  /\ quanta' = quanta - 1
  /\ LET line == Fetched(cur)
     IN IF line \in Quits
        THEN mode' = "halted" /\ UNCHANGED <<todo, id>>
        ELSE IF Calls[line] # <<>>
        THEN mode' = "loading" /\ todo' = Calls[line] /\ id' = 1
        ELSE UNCHANGED <<mode, todo, id>>
  /\ UNCHANGED <<policy, pid_counter, queue, cur, frames>>

\* What the thread does by itself.
Step == \/ ProcessInitialize \/ FileMissing \/ CopyFails \/ Schedule
        \/ QueueEmpty \/ Dispatch
        \/ Terminate \/ QuantumOver \/ Fault \/ ExecuteLine

Next == Step \/ Quit \/ \E c \in Commands : Command(c)

\* The thread never stops between two commands.
Spec == Init /\ [][Next]_vars /\ WF_vars(Step)

-----------------------------------------------------------------------------
\* Every variable keeps its type.  Page tables and the ready queue hold
\* frames and processes that exist.
TypeOK ==
  /\ mode \in {"prompt", "loading", "scheduling", "running", "halted"}
  /\ policy \in {"FCFS", "RR"}
  /\ todo \in Seq(Files)
  /\ id \in 1 .. 4
  /\ pid_counter \in 1 .. MaxPid + 1
  /\ pcb \in [Pids -> PCBs]
  /\ queue \in Seq(Pids)
  /\ cur \in Pids \cup {NoProcess}
  /\ quanta \in Nat
  /\ frames \in [Frames -> FrameContents]
  /\ older \subseteq Frames \X Frames

\* The processes created and not terminated are exactly the one that runs
\* and those in the ready queue, each there once: a fault or an expired turn
\* loses no process, none runs twice, and a PCB is freed only when the queue
\* does not point to it (ready_queue.c:70).
QueueIntegrity ==
  /\ IsInjective(queue)
  /\ cur \notin Range(queue)
  /\ {p \in Pids : pcb[p].live} = Range(queue) \cup ({cur} \ {NoProcess})
  /\ mode = "running" => cur # NoProcess
  /\ mode \in {"prompt", "scheduling"} => cur = NoProcess

\* The test for the end of a script is an equality (kernel.c:98, 139); a PC
\* must not jump over it.
PCInScript == \A p \in Pids : pcb[p].PC <= NumLines[pcb[p].file]

\* The inductive invariant: new PCBs take a fresh pid, and a command has at
\* most three files.
IInv == /\ TypeOK
        /\ QueueIntegrity
        /\ PCInScript
        /\ \A p \in Pids : p >= pid_counter => ~pcb[p].live
        /\ id + Len(todo) <= 4

\* Under `run`, while the page a live process has come to is in a frame tagged
\* for it, that frame holds the page from its first line on, "where it was
\* before the lines were loaded into the framestore" (kernel.c:117): stale
\* frames, short pages and evictions do not mix lines as long as no other
\* process runs.
CurrentPageIntact ==
  \A p \in Pids :
    policy = "FCFS" /\ pcb[p].live /\ ~Finished(p) /\ Tagged(p)
    => \A o \in Offsets :
         LET i == PageOf(p) * LinesPerFrame + o
         IN i < NumLines[pcb[p].file]
            => frames[FrameOf(p)].lines[o] = <<pcb[p].file, i>>

\* What a step runs of process p is the line that its PC stands for.
OwnLine(p) == pcb'[p].PC = pcb[p].PC + 1
              => Fetched(p) = <<pcb[p].file, pcb[p].PC>>

\* A process runs the line its PC stands for, "the index of line that the
\* task is executing" (pcb.h:10), of its own script: none is skipped, run
\* twice, or taken from somebody else's script.
RunsOwnLine == [][\A p \in Pids : OwnLine(p)]_vars

\* The same for `run` alone, whatever earlier commands left in the frames.
RunKeepsToScript ==
  [][policy = "FCFS" => \A p \in Pids : OwnLine(p)]_vars

\* The recency of the loaded frames is a strict total order, so exactly one
\* victim exists whenever the store is full (shellmemory.c:196-204).
RecencyIsTotal ==
  LET inUse == {f \in Frames : ~frames[f].empty}
  IN /\ older \subseteq inUse \X inUse
     /\ \A f, g \in inUse :
          f # g => (<<f, g>> \in older <=> <<g, f>> \notin older)
     /\ \A f, g, h \in inUse :
          <<f, g>> \in older /\ <<g, h>> \in older => <<f, h>> \in older
     /\ \A f \in inUse : <<f, f>> \notin older

\* A command is carried out to the end: every process it started terminates
\* and the prompt comes back, or the shell quits.  (A command may also ask
\* for one process more than the bound MaxPid lets the model create.)
OutOfPids == todo # <<>> /\ pid_counter \notin Pids
ReturnsToPrompt ==
  mode # "prompt" ~> mode \in {"prompt", "halted"} \/ OutOfPids
=============================================================================
