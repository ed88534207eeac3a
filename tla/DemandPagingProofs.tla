------------------------- MODULE DemandPagingProofs -------------------------
(***************************************************************************)
(* Type correctness and the integrity of the ready queue of DemandPaging,  *)
(* for every set of scripts, every number of frames and every page size;   *)
(* then what is done with the frame store.  The recency of the frames is a *)
(* strict total order, so a full store always has exactly one victim       *)
(* (shellmemory.c:196-204).  Processes run their own lines in order as     *)
(* long as none loses a page it has still to run, and under `run` alone    *)
(* none does.                                                              *)
(***************************************************************************)
EXTENDS DemandPaging, TLAPS

-----------------------------------------------------------------------------
(* The ready queue as a sequence without duplicates.                       *)

\* Adding to the tail (ready_queue.c:30-42) a process that is not there.
LEMMA AddToTail ==
  ASSUME NEW q \in Seq(Pids), NEW p \in Pids, IsInjective(q), p \notin Range(q)
  PROVE  /\ Append(q, p) \in Seq(Pids)
         /\ IsInjective(Append(q, p))
         /\ Range(Append(q, p)) = Range(q) \cup {p}
<1> DEFINE r == Append(q, p)
<1>1. /\ r \in Seq(Pids)
      /\ Len(r) = Len(q) + 1
      /\ \A i \in 1 .. Len(q) : r[i] = q[i]
      /\ r[Len(q) + 1] = p
  OBVIOUS
<1>2. DOMAIN r = 1 .. Len(q) + 1 /\ DOMAIN q = 1 .. Len(q) /\ Len(q) \in Nat
  BY <1>1
<1> HIDE DEF r
<1>3. IsInjective(r)
  BY <1>1, <1>2 DEF IsInjective, Range
<1>4. Range(r) = Range(q) \cup {p}
  BY <1>1, <1>2 DEF Range
<1> QED  BY <1>1, <1>3, <1>4 DEF r

\* Popping the head (ready_queue.c:80-84).
LEMMA PopHead ==
  ASSUME NEW q \in Seq(Pids), q # <<>>, IsInjective(q)
  PROVE  /\ Head(q) \in Pids
         /\ Tail(q) \in Seq(Pids)
         /\ IsInjective(Tail(q))
         /\ Head(q) \notin Range(Tail(q))
         /\ Range(q) = Range(Tail(q)) \cup {Head(q)}
<1> DEFINE r == Tail(q)
           n == Len(q)
<1>1. /\ r \in Seq(Pids)
      /\ n \in Nat \ {0}
      /\ DOMAIN q = 1 .. n
      /\ DOMAIN r = 1 .. n - 1
      /\ \A i \in 1 .. n - 1 : r[i] = q[i + 1]
      /\ Head(q) = q[1]
      /\ q[1] \in Pids
  OBVIOUS
<1> HIDE DEF r, n
<1>2. \A i, j \in 1 .. n : q[i] = q[j] => i = j
  BY <1>1 DEF IsInjective
<1>3. IsInjective(r)
  <2> SUFFICES ASSUME NEW i \in 1 .. n - 1, NEW j \in 1 .. n - 1, r[i] = r[j]
               PROVE  i = j
    BY <1>1 DEF IsInjective
  <2>1. i + 1 \in 1 .. n /\ j + 1 \in 1 .. n /\ q[i + 1] = q[j + 1]
    BY <1>1
  <2>2. i + 1 = j + 1
    BY <2>1, <1>2
  <2> QED  BY <2>2
<1>4. Head(q) \notin Range(r)
  <2> SUFFICES ASSUME NEW i \in 1 .. n - 1, r[i] = q[1] PROVE FALSE
    BY <1>1 DEF Range
  <2>1. i + 1 \in 1 .. n /\ 1 \in 1 .. n /\ q[i + 1] = q[1]
    BY <1>1
  <2>2. i + 1 = 1
    BY <2>1, <1>2
  <2> QED  BY <2>2
<1>5. Range(q) = Range(r) \cup {Head(q)}
  <2>1. ASSUME NEW x \in Range(q) PROVE x \in Range(r) \cup {q[1]}
    <3>1. PICK i \in 1 .. n : x = q[i]
      BY <1>1 DEF Range
    <3>2. CASE i = 1
      BY <3>1, <3>2
    <3>3. CASE i # 1
      <4>1. i - 1 \in 1 .. n - 1 /\ (i - 1) + 1 = i
        BY <1>1, <3>3
      <4>2. r[i - 1] = x
        BY <4>1, <3>1, <1>1
      <4> QED  BY <4>1, <4>2, <1>1 DEF Range
    <3> QED  BY <3>2, <3>3
  <2>2. ASSUME NEW x \in Range(r) PROVE x \in Range(q)
    <3>1. PICK i \in 1 .. n - 1 : x = r[i]
      BY <1>1 DEF Range
    <3>2. i + 1 \in 1 .. n /\ x = q[i + 1]
      BY <3>1, <1>1
    <3> QED  BY <3>2, <1>1 DEF Range
  <2>3. q[1] \in Range(q)
    BY <1>1 DEF Range
  <2> QED  BY <2>1, <2>2, <2>3, <1>1
<1> QED  BY <1>1, <1>3, <1>4, <1>5 DEF r

-----------------------------------------------------------------------------
(* The frame store.                                                        *)

USE SizesAssumption

\* A line before the end of a script lies in a page of the page table.
LEMMA PageInTable ==
  ASSUME NEW i \in Nat, i < MaxPages * LinesPerFrame
  PROVE  /\ i \div LinesPerFrame \in Pages
         /\ i % LinesPerFrame \in Offsets
<1> DEFINE q == i \div LinesPerFrame
           r == i % LinesPerFrame
<1>1. q \in Nat /\ r \in 0 .. LinesPerFrame - 1
  OBVIOUS
<1>2. i = LinesPerFrame * q + r
  OBVIOUS
<1> HIDE DEF q, r
<1>3. q < MaxPages
  <2> SUFFICES ASSUME q >= MaxPages PROVE FALSE
    BY <1>1
  <2>1. LinesPerFrame * q >= LinesPerFrame * MaxPages
    BY <1>1
  <2> QED  BY <1>1, <1>2, <2>1
<1> QED  BY <1>1, <1>3 DEF q, r, Pages, Offsets

\* The longest script fits a page table.
LEMMA CapacityType ==
  /\ MaxPages * LinesPerFrame \in Nat
  /\ \A f \in Files : /\ NumLines[f] \in Nat
                      /\ NumLines[f] <= MaxPages * LinesPerFrame
<1>1. MaxPages * LinesPerFrame \in Nat
  OBVIOUS
<1> QED  BY <1>1, ScriptsAssumption

Stores == [frames : [Frames -> FrameContents],
           older : SUBSET (Frames \X Frames)]

LEMMA StoreType == TypeOK => Store \in Stores
BY DEF TypeOK, Store, Stores

LEMMA TouchedType ==
  ASSUME NEW s \in Stores, NEW f \in Frames
  PROVE  Touched(s, f) \in SUBSET (Frames \X Frames)
BY DEF Touched, Stores

\* loadFrame puts lines of scripts in frames.
LEMMA LoadedType ==
  ASSUME NEW s \in Stores, NEW f \in Frames, NEW script \in Files,
         NEW i \in Nat, NEW tag \in Int
  PROVE  Loaded(s, f, script, i, tag) \in Stores
<1> DEFINE lines == [o \in Offsets |-> IF i + o < NumLines[script]
                                       THEN <<script, i + o>>
                                       ELSE s.frames[f].lines[o]]
           contents == [lines |-> lines, pid |-> tag, empty |-> FALSE]
<1>1. s.frames[f].lines \in [Offsets -> Lines \cup {NoLine}]
  BY DEF Stores, FrameContents
<1>2. ASSUME NEW o \in Offsets, i + o < NumLines[script]
      PROVE  <<script, i + o>> \in Lines
  <2>1. i + o \in 0 .. MaxPages * LinesPerFrame - 1
    BY <1>2, CapacityType DEF Offsets
  <2> QED  BY <2>1 DEF Lines
<1>3. lines \in [Offsets -> Lines \cup {NoLine}]
  BY <1>1, <1>2
<1>4. contents \in FrameContents
  BY <1>3 DEF FrameContents
<1>5. [s.frames EXCEPT ![f] = contents] \in [Frames -> FrameContents]
  BY <1>4 DEF Stores
<1> QED
  BY <1>5, TouchedType, Zenon DEF Loaded, Stores

-----------------------------------------------------------------------------
(* The inductive invariant.                                                *)

\* One to three files are a sequence that long.
LEMMA FileListType ==
  ASSUME NEW fs \in FileLists
  PROVE  fs \in Seq(Files) /\ Len(fs) \in 1 .. 3
BY DEF FileLists

LEMMA InitIInv == Init => IInv
<1> SUFFICES ASSUME Init PROVE IInv
  OBVIOUS
<1>1. UnusedPCB \in PCBs /\ ~UnusedPCB.live /\ UnusedPCB.PC = 0
  BY ScriptsAssumption DEF UnusedPCB, PCBs
<1>2. EmptyFrame \in FrameContents
  BY DEF EmptyFrame, FrameContents
<1>3. TypeOK
  BY <1>1, <1>2 DEF Init, TypeOK, NoProcess
<1>4. QueueIntegrity
  BY <1>1 DEF Init, QueueIntegrity, IsInjective, Range, NoProcess, Pids
<1>5. PCInScript
  BY <1>1, CapacityType DEF Init, PCInScript, PCBs
<1> QED  BY <1>1, <1>3, <1>4, <1>5 DEF Init, IInv

\* A step that leaves the ready queue and the set of live processes alone
\* keeps the integrity of the queue, if it goes to a mode that fits.
LEMMA SameQueue ==
  ASSUME QueueIntegrity, queue' = queue, cur' = cur,
         \A p \in Pids : pcb'[p].live = pcb[p].live,
         mode' = "running" => cur # NoProcess,
         mode' \in {"prompt", "scheduling"} => cur = NoProcess
  PROVE  QueueIntegrity'
BY DEF QueueIntegrity

\* A turn that ends puts the process back in the queue, where it was not.
LEMMA RequeueIntegrity ==
  ASSUME TypeOK, QueueIntegrity, mode = "running", Requeue,
         \A p \in Pids : pcb'[p].live = pcb[p].live
  PROVE  /\ QueueIntegrity'
         /\ queue' \in Seq(Pids)
<1>1. /\ cur \in Pids
      /\ queue \in Seq(Pids)
      /\ IsInjective(queue)
      /\ cur \notin Range(queue)
  BY DEF TypeOK, QueueIntegrity
<1>2. /\ queue' \in Seq(Pids)
      /\ IsInjective(queue')
      /\ Range(queue') = Range(queue) \cup {cur}
  BY <1>1, AddToTail DEF Requeue
<1>3. {p \in Pids : pcb'[p].live} = Range(queue')
  BY <1>1, <1>2 DEF QueueIntegrity
<1>4. NoProcess \notin Pids
  BY DEF NoProcess, Pids
<1>5. cur' = NoProcess /\ mode' = "scheduling"
  BY DEF Requeue
<1>6. NoProcess \notin Range(queue')
  BY <1>3, <1>4
<1> QED
  BY <1>2, <1>3, <1>5, <1>6 DEF QueueIntegrity

\* The prompt takes a command, or quits.
LEMMA PromptIInv ==
  ASSUME IInv, Quit \/ \E c \in Commands : Command(c)
  PROVE  IInv'
<1>1. CASE Quit
  <2>1. TypeOK'
    BY <1>1 DEF IInv, TypeOK, Quit
  <2>2. QueueIntegrity'
    BY <1>1, SameQueue DEF IInv, Quit
  <2> QED  BY <1>1, <2>1, <2>2 DEF IInv, PCInScript, Quit
<1>2. ASSUME NEW c \in Commands, Command(c) PROVE IInv'
  <2>1. c.policy \in {"FCFS", "RR"} /\ c.files \in FileLists
    BY ScriptsAssumption
  <2>2. c.files \in Seq(Files) /\ Len(c.files) \in 1 .. 3
    BY <2>1, FileListType
  <2>3. TypeOK'
    BY <1>2, <2>1, <2>2 DEF IInv, TypeOK, Command
  <2>4. QueueIntegrity'
    BY <1>2, SameQueue DEF IInv, Command
  <2>5. id' + Len(todo') <= 4
    <3>1. id' = 1 /\ Len(todo') \in 1 .. 3
      BY <1>2, <2>2 DEF Command
    <3>2. PICK n \in 1 .. 3 : n = Len(todo')
      BY <3>1
    <3> QED  BY <3>1, <3>2
  <2> QED  BY <1>2, <2>3, <2>4, <2>5 DEF IInv, PCInScript, Command
<1> QED  BY <1>1, <1>2

\* What a command and the scheduler do without touching a process.
LEMMA ControlIInv ==
  ASSUME IInv, FileMissing \/ CopyFails \/ Schedule \/ QueueEmpty
  PROVE  IInv'
<1>1. /\ mode' \in {"prompt", "loading", "scheduling", "running", "halted"}
      /\ todo' \in {todo, <<>>}
      /\ UNCHANGED <<policy, id, pid_counter, pcb, queue, cur, quanta,
                     frames, older>>
  BY DEF FileMissing, CopyFails, Schedule, QueueEmpty, Caller
<1>2. TypeOK'
  <2>1. todo' \in Seq(Files)
    <3>1. todo \in Seq(Files) /\ <<>> \in Seq(Files)
      BY DEF IInv, TypeOK
    <3> QED  BY <3>1, <1>1, Zenon
  <2> QED  BY <1>1, <2>1, Zenon DEF IInv, TypeOK
<1>3. /\ mode' = "running" => cur # NoProcess
      /\ mode' \in {"prompt", "scheduling"} => cur = NoProcess
  BY DEF IInv, QueueIntegrity, FileMissing, CopyFails, Schedule, QueueEmpty,
         Caller
<1>4. QueueIntegrity'
  BY <1>1, <1>3, SameQueue DEF IInv
<1>5. id' + Len(todo') <= 4
  <2>1. CASE todo' = todo
    BY <2>1, <1>1 DEF IInv
  <2>2. CASE todo' = <<>>
    <3>1. id \in 1 .. 4 /\ id' = id /\ Len(todo') = 0
      BY <2>2, <1>1 DEF IInv, TypeOK
    <3> QED  BY <3>1
  <2> QED  BY <2>1, <2>2, <1>1
<1> QED  BY <1>1, <1>2, <1>4, <1>5 DEF IInv, PCInScript

\* A turn begins.
LEMMA DispatchIInv ==
  ASSUME IInv, Dispatch
  PROVE  IInv'
<1>1. /\ queue \in Seq(Pids)
      /\ queue # <<>>
      /\ IsInjective(queue)
  BY DEF IInv, TypeOK, QueueIntegrity, Dispatch
<1>2. /\ cur' = Head(queue)
      /\ cur' \in Pids
      /\ queue' \in Seq(Pids)
      /\ IsInjective(queue')
      /\ cur' \notin Range(queue')
      /\ Range(queue) = Range(queue') \cup {cur'}
  BY <1>1, PopHead DEF Dispatch
<1>3. TypeOK'
  BY <1>2 DEF IInv, TypeOK, Dispatch
<1>4. cur = NoProcess /\ NoProcess \notin Pids
  BY DEF IInv, QueueIntegrity, Dispatch, NoProcess, Pids
<1>5. QueueIntegrity'
  <2>1. {p \in Pids : pcb[p].live} = Range(queue)
    BY <1>4 DEF IInv, QueueIntegrity
  <2>2. cur' # NoProcess
    BY <1>2, <1>4
  <2> QED  BY <1>2, <2>1, <2>2 DEF QueueIntegrity, Dispatch
<1> QED  BY <1>3, <1>5 DEF IInv, PCInScript, Dispatch

\* A process terminates while the queue does not point to it.
LEMMA TerminateIInv ==
  ASSUME IInv, Terminate
  PROVE  IInv'
<1>1. cur \in Pids /\ cur \notin Range(queue)
  BY DEF IInv, TypeOK, QueueIntegrity, Terminate
<1>2. /\ pcb' \in [Pids -> PCBs]
      /\ \A p \in Pids : /\ pcb'[p].PC = pcb[p].PC
                         /\ pcb'[p].file = pcb[p].file
                         /\ p # cur => pcb'[p].live = pcb[p].live
      /\ ~pcb'[cur].live
  BY <1>1 DEF IInv, TypeOK, PCBs, Terminate
<1>3. TypeOK'
  BY <1>2 DEF IInv, TypeOK, Terminate
<1>4. QueueIntegrity'
  <2>1. {p \in Pids : pcb'[p].live} = Range(queue)
    BY <1>1, <1>2 DEF IInv, QueueIntegrity
  <2>2. NoProcess \notin Range(queue)
    BY <2>1 DEF NoProcess, Pids
  <2> QED  BY <2>1, <2>2 DEF IInv, QueueIntegrity, Terminate
<1> QED  BY <1>1, <1>2, <1>3, <1>4 DEF IInv, PCInScript, Terminate

LEMMA QuantumOverIInv ==
  ASSUME IInv, QuantumOver
  PROVE  IInv'
<1>1. QueueIntegrity' /\ queue' \in Seq(Pids)
  BY RequeueIntegrity DEF IInv, QuantumOver
<1>2. TypeOK'
  BY <1>1 DEF IInv, TypeOK, QuantumOver, Requeue
<1> QED  BY <1>1, <1>2 DEF IInv, PCInScript, QuantumOver, Requeue

\* The page a process stands in is one of its page table.
LEMMA CurrentPage ==
  ASSUME IInv, mode = "running", ~Finished(cur)
  PROVE  /\ cur \in Pids
         /\ pcb[cur] \in PCBs
         /\ pcb[cur].PC < NumLines[pcb[cur].file]
         /\ PageOf(cur) \in Pages
         /\ pcb[cur].PC % LinesPerFrame \in Offsets
         /\ Tagged(cur) => FrameOf(cur) \in Frames
<1>1. cur \in Pids /\ pcb[cur] \in PCBs
  BY DEF IInv, TypeOK, QueueIntegrity
<1>2. /\ pcb[cur].PC \in Nat
      /\ pcb[cur].PC < NumLines[pcb[cur].file]
      /\ pcb[cur].PC < MaxPages * LinesPerFrame
  BY <1>1, CapacityType DEF IInv, PCInScript, Finished, PCBs
<1>3. PageOf(cur) \in Pages /\ pcb[cur].PC % LinesPerFrame \in Offsets
  BY <1>2, PageInTable DEF PageOf
<1>4. FrameOf(cur) \in Frames \cup {NoFrame}
  BY <1>1, <1>3 DEF FrameOf, PCBs
<1> QED  BY <1>1, <1>2, <1>3, <1>4 DEF Tagged

\* A page fault changes frames and one page table, and requeues.
LEMMA FaultIInv ==
  ASSUME IInv, Fault
  PROVE  IInv'
<1> DEFINE s == IF Tagged(cur)
                THEN [Store EXCEPT !.older = Touched(Store, FrameOf(cur))]
                ELSE Store
<1>1. mode = "running" /\ ~Finished(cur)
  BY DEF Fault
<1>2. /\ cur \in Pids
      /\ pcb[cur] \in PCBs
      /\ Tagged(cur) => FrameOf(cur) \in Frames
  BY <1>1, CurrentPage
<1>3. s \in Stores
  <2>1. Store \in Stores
    BY StoreType DEF IInv
  <2>2. ASSUME Tagged(cur)
        PROVE  Touched(Store, FrameOf(cur)) \in SUBSET (Frames \X Frames)
    BY <2>1, <2>2, <1>2, TouchedType
  <2> QED  BY <2>1, <2>2 DEF Stores
<1>4. PICK v \in Frames :
        /\ Keep(Loaded(s, v, pcb[cur].file, pcb[cur].PC, cur))
        /\ pcb' = [pcb EXCEPT ![cur].page_table[PageOf(cur)] = v]
  BY DEF Fault
<1> HIDE DEF s
<1>5. /\ frames' \in [Frames -> FrameContents]
      /\ older' \subseteq Frames \X Frames
  <2>1. Loaded(s, v, pcb[cur].file, pcb[cur].PC, cur) \in Stores
    BY <1>2, <1>3, LoadedType DEF PCBs, Pids
  <2> QED  BY <2>1, <1>4 DEF Keep, Stores
<1>6. /\ pcb' \in [Pids -> PCBs]
      /\ \A p \in Pids : /\ pcb'[p].PC = pcb[p].PC
                         /\ pcb'[p].file = pcb[p].file
                         /\ pcb'[p].live = pcb[p].live
  BY <1>2, <1>4 DEF IInv, TypeOK, PCBs
<1>7. QueueIntegrity' /\ queue' \in Seq(Pids)
  BY <1>6, RequeueIntegrity DEF IInv, Fault
<1>8. TypeOK'
  BY <1>5, <1>6, <1>7 DEF IInv, TypeOK, Fault, Requeue
<1> QED  BY <1>6, <1>7, <1>8 DEF IInv, PCInScript, Fault, Requeue

\* One line is run: the PC moves on by one, not past the end.
LEMMA ExecuteLineIInv ==
  ASSUME IInv, ExecuteLine
  PROVE  IInv'
<1>1. /\ cur \in Pids
      /\ pcb[cur] \in PCBs
      /\ pcb[cur].PC < NumLines[pcb[cur].file]
      /\ pcb[cur].PC % LinesPerFrame \in Offsets
      /\ FrameOf(cur) \in Frames
  BY CurrentPage DEF ExecuteLine
<1>2. older' \subseteq Frames \X Frames
  BY <1>1, StoreType, TouchedType DEF IInv, ExecuteLine
<1>3. /\ pcb' \in [Pids -> PCBs]
      /\ \A p \in Pids : /\ pcb'[p].file = pcb[p].file
                         /\ pcb'[p].live = pcb[p].live
                         /\ p # cur => pcb'[p].PC = pcb[p].PC
      /\ pcb'[cur].PC = pcb[cur].PC + 1
  <2>1. pcb \in [Pids -> PCBs] /\ pcb[cur].PC + 1 \in Nat
    BY <1>1 DEF IInv, TypeOK, PCBs
  <2>2. pcb' = [pcb EXCEPT ![cur].PC = pcb[cur].PC + 1]
    BY DEF ExecuteLine
  <2> QED  BY <1>1, <2>1, <2>2 DEF PCBs
<1>4. Fetched(cur) \in Lines
  <2>1. frames[FrameOf(cur)].lines \in [Offsets -> Lines \cup {NoLine}]
    BY <1>1 DEF IInv, TypeOK, FrameContents
  <2>2. Fetched(cur) # NoLine
    BY DEF ExecuteLine
  <2> QED  BY <1>1, <2>1, <2>2 DEF Fetched
<1>5. /\ todo' \in Seq(Files)
      /\ id' \in 1 .. 4
      /\ id' + Len(todo') <= 4
      /\ mode' \in {"running", "loading", "halted"}
  <2>1. CASE Fetched(cur) \in Quits \/ Calls[Fetched(cur)] = <<>>
    BY <2>1 DEF IInv, TypeOK, ExecuteLine
  <2>2. CASE Fetched(cur) \notin Quits /\ Calls[Fetched(cur)] # <<>>
    <3>1. Calls[Fetched(cur)] \in FileLists
      BY <2>2, <1>4, ScriptsAssumption
    <3>2. /\ Calls[Fetched(cur)] \in Seq(Files)
          /\ Len(Calls[Fetched(cur)]) \in 1 .. 3
      BY <3>1, FileListType
    <3>3. mode' = "loading" /\ todo' = Calls[Fetched(cur)] /\ id' = 1
      BY <2>2 DEF ExecuteLine
    <3>4. todo' \in Seq(Files) /\ Len(todo') \in 1 .. 3
      BY <3>2, <3>3
    <3>5. PICK n \in 1 .. 3 : n = Len(todo')
      BY <3>4
    <3>6. id' = 1
      BY <3>3
    <3>7. id' + Len(todo') <= 4
      BY <3>5, <3>6
    <3> QED  BY <3>3, <3>4, <3>7
  <2> QED  BY <2>1, <2>2
<1>6. quanta' \in Nat
  BY DEF IInv, TypeOK, ExecuteLine
<1>7. TypeOK'
  BY <1>2, <1>3, <1>5, <1>6 DEF IInv, TypeOK, ExecuteLine
<1>8. QueueIntegrity'
  BY <1>3, <1>5, SameQueue DEF IInv, QueueIntegrity, ExecuteLine
<1>9. PCInScript'
  <2> SUFFICES ASSUME NEW p \in Pids
               PROVE  pcb'[p].PC <= NumLines[pcb'[p].file]
    BY DEF PCInScript
  <2>1. CASE p = cur
    BY <2>1, <1>1, <1>3, CapacityType DEF PCBs
  <2>2. CASE p # cur
    BY <2>2, <1>3 DEF IInv, PCInScript
  <2> QED  BY <2>1, <2>2
<1> QED  BY <1>3, <1>5, <1>7, <1>8, <1>9 DEF IInv, ExecuteLine

\* A process is created under a fresh pid and queued once.
LEMMA ProcessInitializeIInv ==
  ASSUME IInv, ProcessInitialize
  PROVE  IInv'
<1> DEFINE f == Head(todo)
           p0 == pid_counter
           s1(v) == Loaded(Store, v, f, 0, id)
           s2(v, w) == Loaded(s1(v), w, f, LinesPerFrame, id)
<1>1. /\ f \in Files
      /\ Tail(todo) \in Seq(Files)
      /\ Len(Tail(todo)) = Len(todo) - 1
      /\ Len(todo) \in Nat \ {0}
      /\ id \in 1 .. 4
      /\ p0 \in Pids
  BY DEF IInv, TypeOK, ProcessInitialize
<1>2. PICK n \in 0 .. 2, v \in Frames, w \in Frames :
        /\ Keep(IF n = 0 THEN Store ELSE IF n = 1 THEN s1(v) ELSE s2(v, w))
        /\ pcb' = [pcb EXCEPT ![p0] =
                     NewPCB(f, n, [i \in 0 .. 1 |-> IF i = 0 THEN v ELSE w])]
  BY ZenonT(60) DEF ProcessInitialize
<1>3. Store \in Stores /\ s1(v) \in Stores /\ s2(v, w) \in Stores
  <2>1. Store \in Stores
    BY StoreType DEF IInv
  <2>2. s1(v) \in Stores
    BY <1>1, <2>1, LoadedType
  <2>3. s2(v, w) \in Stores
    BY <1>1, <2>2, LoadedType
  <2> QED  BY <2>1, <2>2, <2>3
<1> HIDE DEF s1, s2
<1>4. /\ frames' \in [Frames -> FrameContents]
      /\ older' \subseteq Frames \X Frames
  BY <1>2, <1>3 DEF Keep, Stores
<1> DEFINE new == NewPCB(f, n, [i \in 0 .. 1 |-> IF i = 0 THEN v ELSE w])
<1>5. new \in PCBs /\ new.live /\ new.PC = 0 /\ new.file = f
  <2> DEFINE at == [i \in 0 .. 1 |-> IF i = 0 THEN v ELSE w]
             table == [p \in Pages |-> IF p < n THEN at[p] ELSE NoFrame]
  <2>1. ASSUME NEW p \in Pages, p < n PROVE at[p] \in Frames
    <3>1. p \in 0 .. 1
      BY <2>1 DEF Pages
    <3> QED  BY <3>1
  <2>2. table \in [Pages -> Frames \cup {NoFrame}]
    BY <2>1
  <2> HIDE DEF table
  <2>3. new = [file |-> f, live |-> TRUE, PC |-> 0, page_table |-> table]
    BY DEF NewPCB, table
  <2>4. f \in Files
    BY <1>1
  <2> HIDE DEF f
  <2>5. [file |-> f, live |-> TRUE, PC |-> 0, page_table |-> table] \in PCBs
    BY <2>2, <2>4 DEF PCBs
  <2> HIDE DEF new
  <2> QED  BY <2>3, <2>5
<1> HIDE DEF new
<1>6. /\ pcb' \in [Pids -> PCBs]
      /\ pcb'[p0] = new
      /\ \A p \in Pids \ {p0} : pcb'[p] = pcb[p]
  BY <1>1, <1>2, <1>5 DEF IInv, TypeOK, new
<1>7. /\ p0 \notin Range(queue)
      /\ p0 # cur
      /\ queue \in Seq(Pids)
      /\ IsInjective(queue)
  <2>1. ~pcb[p0].live
    BY <1>1 DEF IInv, TypeOK, Pids
  <2>2. p0 \notin Range(queue) \cup ({cur} \ {NoProcess})
    BY <2>1, <1>1 DEF IInv, QueueIntegrity
  <2>3. p0 # NoProcess
    BY <1>1 DEF Pids, NoProcess
  <2> QED  BY <2>2, <2>3 DEF IInv, TypeOK, QueueIntegrity
<1>8. /\ queue' \in Seq(Pids)
      /\ IsInjective(queue')
      /\ Range(queue') = Range(queue) \cup {p0}
  BY <1>1, <1>7, AddToTail DEF ProcessInitialize
<1>9. QueueIntegrity'
  <2>1. {p \in Pids : pcb'[p].live} = {p \in Pids : pcb[p].live} \cup {p0}
    BY <1>1, <1>5, <1>6
  <2>2. mode' = mode /\ cur' = cur
    BY DEF ProcessInitialize
  <2> QED  BY <1>7, <1>8, <2>1, <2>2 DEF IInv, QueueIntegrity
<1>10. TypeOK'
  BY <1>1, <1>4, <1>6, <1>8 DEF IInv, TypeOK, ProcessInitialize, Pids
<1>11. PCInScript'
  BY <1>1, <1>5, <1>6, CapacityType DEF IInv, PCInScript
<1>12. (\A p \in Pids : p >= pid_counter => ~pcb[p].live)'
  BY <1>1, <1>6 DEF IInv, TypeOK, ProcessInitialize, Pids
<1>13. id' + Len(todo') <= 4
  BY <1>1 DEF IInv, ProcessInitialize
<1> QED  BY <1>9, <1>10, <1>11, <1>12, <1>13 DEF IInv

LEMMA NextIInv == IInv /\ [Next]_vars => IInv'
<1> SUFFICES ASSUME IInv, [Next]_vars PROVE IInv'
  OBVIOUS
<1>1. CASE UNCHANGED vars
  BY <1>1 DEF vars, IInv, TypeOK, QueueIntegrity, PCInScript
<1>2. CASE Step
  BY <1>2, ProcessInitializeIInv, ControlIInv, DispatchIInv, TerminateIInv,
     QuantumOverIInv, FaultIInv, ExecuteLineIInv DEF Step
<1>3. CASE Quit \/ \E c \in Commands : Command(c)
  BY <1>3, PromptIInv
<1> QED  BY <1>1, <1>2, <1>3 DEF Next

\* The invariant the other theorems rest on holds in every state.
THEOREM Invariance == Spec => []IInv
BY InitIInv, NextIInv, PTL DEF Spec

\* Every variable keeps its type: frames hold lines of scripts, page tables
\* lead to frames, the queue holds processes.
THEOREM TypeCorrect == Spec => []TypeOK
<1>1. IInv => TypeOK
  BY DEF IInv
<1> QED  BY <1>1, Invariance, PTL

\* No process is lost or queued twice, whatever faults, turns that end and
\* processes started in the middle of a line come together.
THEOREM QueueKept == Spec => []QueueIntegrity
<1>1. IInv => QueueIntegrity
  BY DEF IInv
<1> QED  BY <1>1, Invariance, PTL

-----------------------------------------------------------------------------
(* The frame store: recency as an order.                                   *)

\* r is a strict total order on U.
Orders(r, U) ==
  /\ r \subseteq U \X U
  /\ \A f, g \in U : f # g => (<<f, g>> \in r <=> <<g, f>> \notin r)
  /\ \A f, g, h \in U : <<f, g>> \in r /\ <<g, h>> \in r => <<f, h>> \in r
  /\ \A f \in U : <<f, f>> \notin r

\* r with f moved behind the others of U.
Last(r, U, f) == {pair \in r : pair[1] # f /\ pair[2] # f}
                   \cup {<<g, f>> : g \in U \ {f}}

InUse(s) == {f \in Frames : ~s.frames[f].empty}

\* No process takes an empty frame for its own.
Untagged(s) == \A f \in Frames : s.frames[f].empty => s.frames[f].pid = -1

\* What every step keeps of the frame store.
Sorted(s) == Orders(s.older, InUse(s)) /\ Untagged(s)

-----------------------------------------------------------------------------
\* An element, new or not, that goes to the end of a strict total order.
LEMMA LastOrders ==
  ASSUME NEW r, NEW U, NEW f, Orders(r, U)
  PROVE  Orders(Last(r, U, f), U \cup {f})
<1> DEFINE q == Last(r, U, f)
           W == U \cup {f}
<1>1. \A a, b : <<a, b>> \in q <=> \/ <<a, b>> \in r /\ a # f /\ b # f
                                   \/ a \in U \ {f} /\ b = f
  BY DEF Last
<1>2. q \subseteq W \X W
  <2>1. r \subseteq U \X U
    BY DEF Orders
  <2> QED  BY <2>1 DEF Last
<1>3. \A a, b : <<a, b>> \in r => a \in U /\ b \in U
  BY DEF Orders
<1> HIDE DEF q
<1>4. \A a, b \in W : a # b => (<<a, b>> \in q <=> <<b, a>> \notin q)
  BY <1>1 DEF Orders
<1>5. \A a, b, c \in W : <<a, b>> \in q /\ <<b, c>> \in q => <<a, c>> \in q
  <2> SUFFICES ASSUME NEW a \in W, NEW b \in W, NEW c \in W,
                      <<a, b>> \in q, <<b, c>> \in q
               PROVE  <<a, c>> \in q
    OBVIOUS
  <2>1. b # f /\ <<a, b>> \in r /\ a # f /\ a \in U /\ b \in U
    BY <1>1, <1>3
  <2>2. CASE c = f
    BY <2>1, <2>2, <1>1
  <2>3. CASE c # f
    BY <2>1, <2>3, <1>1 DEF Orders
  <2> QED  BY <2>2, <2>3
<1>6. \A a \in W : <<a, a>> \notin q
  BY <1>1 DEF Orders
<1>7. Orders(q, W)
  BY <1>2, <1>4, <1>5, <1>6 DEF Orders
<1> QED  BY <1>7 DEF q

\* A frame in use is looked into.
LEMMA TouchedSorted ==
  ASSUME NEW s \in Stores, Sorted(s), NEW f \in InUse(s)
  PROVE  Sorted([s EXCEPT !.older = Touched(s, f)])
<1> DEFINE t == [s EXCEPT !.older = Touched(s, f)]
<1>1. t.older = Last(s.older, InUse(s), f) /\ t.frames = s.frames
  <2>1. Touched(s, f) = Last(s.older, InUse(s), f)
    BY DEF Touched, Last, InUse
  <2> QED  BY <2>1 DEF Stores
<1>2. InUse(t) = InUse(s) \cup {f} /\ Untagged(t)
  BY <1>1 DEF InUse, Untagged, Sorted
<1> HIDE DEF t
<1>3. Orders(t.older, InUse(t))
  BY <1>1, <1>2, LastOrders DEF Sorted
<1>4. Sorted(t)
  BY <1>2, <1>3 DEF Sorted
<1> QED  BY <1>4 DEF t

\* A page is loaded, into an empty frame or over a victim.
LEMMA LoadedSorted ==
  ASSUME NEW s \in Stores, Sorted(s), NEW f \in Frames, NEW script,
         NEW i, NEW tag
  PROVE  Sorted(Loaded(s, f, script, i, tag))
<1> DEFINE t == Loaded(s, f, script, i, tag)
<1>1. t.older = Last(s.older, InUse(s), f)
  BY DEF Loaded, Touched, Last, InUse
<1>2. /\ ~t.frames[f].empty
      /\ \A g \in Frames \ {f} : t.frames[g] = s.frames[g]
  BY DEF Loaded, Stores
<1>3. InUse(t) = InUse(s) \cup {f} /\ Untagged(t)
  BY <1>2 DEF InUse, Untagged, Sorted
<1> HIDE DEF t
<1>4. Orders(t.older, InUse(t))
  BY <1>1, <1>3, LastOrders DEF Sorted
<1>5. Sorted(t)
  BY <1>3, <1>4 DEF Sorted
<1> QED  BY <1>5 DEF t

LEMMA KeepSorted ==
  ASSUME NEW s, Sorted(s), Keep(s)
  PROVE  Sorted(Store)'
BY DEF Keep, Store, Sorted, Orders, InUse, Untagged

LEMMA UnchangedSorted ==
  ASSUME Sorted(Store), UNCHANGED <<frames, older>>
  PROVE  Sorted(Store)'
BY DEF Store, Sorted, Orders, InUse, Untagged

-----------------------------------------------------------------------------
\* The frame a process finds tagged for it is in use.
LEMMA TaggedInUse ==
  ASSUME IInv, Sorted(Store), mode = "running", ~Finished(cur), Tagged(cur)
  PROVE  FrameOf(cur) \in InUse(Store)
<1>1. cur \in Pids /\ FrameOf(cur) \in Frames
  BY CurrentPage
<1>2. frames[FrameOf(cur)].pid = cur /\ cur # -1
  BY <1>1 DEF Tagged, Pids
<1> QED  BY <1>1, <1>2 DEF Sorted, Untagged, InUse, Store

LEMMA ProcessInitializeSorted ==
  ASSUME IInv, Sorted(Store), ProcessInitialize
  PROVE  Sorted(Store)'
<1> DEFINE f == Head(todo)
           s1(v) == Loaded(Store, v, f, 0, id)
           s2(v, w) == Loaded(s1(v), w, f, LinesPerFrame, id)
<1>1. Store \in Stores /\ f \in Files /\ id \in Int
  BY StoreType DEF IInv, TypeOK, ProcessInitialize
<1>2. PICK n \in 0 .. 2, v \in Frames, w \in Frames :
        Keep(IF n = 0 THEN Store ELSE IF n = 1 THEN s1(v) ELSE s2(v, w))
  BY DEF ProcessInitialize
<1>3. s1(v) \in Stores /\ Sorted(s1(v))
  BY <1>1, LoadedType, LoadedSorted
<1>4. Sorted(s2(v, w))
  BY <1>3, LoadedSorted
<1> HIDE DEF s1, s2
<1>5. CASE n = 0
  BY <1>2, <1>5, KeepSorted
<1>6. CASE n = 1
  BY <1>2, <1>3, <1>6, KeepSorted
<1>7. CASE n = 2
  BY <1>2, <1>4, <1>7, KeepSorted
<1> QED  BY <1>5, <1>6, <1>7

LEMMA FaultSorted ==
  ASSUME IInv, Sorted(Store), Fault
  PROVE  Sorted(Store)'
<1> DEFINE s == IF Tagged(cur)
                THEN [Store EXCEPT !.older = Touched(Store, FrameOf(cur))]
                ELSE Store
<1>1. mode = "running" /\ ~Finished(cur)
  BY DEF Fault
<1>2. Store \in Stores
  BY StoreType DEF IInv
<1>3. s \in Stores /\ Sorted(s)
  <2>1. CASE Tagged(cur)
    <3>1. FrameOf(cur) \in InUse(Store) /\ FrameOf(cur) \in Frames
      BY <1>1, <2>1, TaggedInUse, CurrentPage
    <3>2. s = [Store EXCEPT !.older = Touched(Store, FrameOf(cur))]
      BY <2>1
    <3>3. Touched(Store, FrameOf(cur)) \in SUBSET (Frames \X Frames)
      BY <1>2, <3>1, TouchedType
    <3>4. s \in Stores
      BY <1>2, <3>2, <3>3 DEF Stores
    <3>5. Sorted(s)
      BY <1>2, <3>1, <3>2, TouchedSorted
    <3> QED  BY <3>4, <3>5
  <2>2. CASE ~Tagged(cur)
    BY <1>2, <2>2
  <2> QED  BY <2>1, <2>2
<1>4. PICK v \in Frames : Keep(Loaded(s, v, pcb[cur].file, pcb[cur].PC, cur))
  BY DEF Fault
<1> HIDE DEF s
<1>5. Sorted(Loaded(s, v, pcb[cur].file, pcb[cur].PC, cur))
  BY <1>3, LoadedSorted
<1> QED  BY <1>4, <1>5, KeepSorted

LEMMA ExecuteLineSorted ==
  ASSUME IInv, Sorted(Store), ExecuteLine
  PROVE  Sorted(Store)'
<1> DEFINE t == [Store EXCEPT !.older = Touched(Store, FrameOf(cur))]
<1>1. FrameOf(cur) \in InUse(Store)
  BY TaggedInUse DEF ExecuteLine
<1>2. Sorted(t)
  BY <1>1, StoreType, TouchedSorted DEF IInv
<1>3. Keep(t)
  BY DEF Keep, Store, ExecuteLine
<1> HIDE DEF t
<1> QED  BY <1>2, <1>3, KeepSorted

LEMMA NextSorted == IInv /\ Sorted(Store) /\ [Next]_vars => Sorted(Store)'
<1> SUFFICES ASSUME IInv, Sorted(Store), [Next]_vars PROVE Sorted(Store)'
  OBVIOUS
<1>1. CASE UNCHANGED <<frames, older>>
  BY <1>1, UnchangedSorted
<1>2. CASE ProcessInitialize
  BY <1>2, ProcessInitializeSorted
<1>3. CASE Fault
  BY <1>3, FaultSorted
<1>4. CASE ExecuteLine
  BY <1>4, ExecuteLineSorted
<1> QED
  BY <1>1, <1>2, <1>3, <1>4
  DEF Next, Step, Command, Quit, FileMissing, CopyFails, Schedule, QueueEmpty,
      Dispatch, Terminate, QuantumOver, vars

\* The recency of the loaded frames is a strict total order: whatever is
\* loaded, evicted or looked into, one victim exists and only one.
THEOREM RecencyKept == Spec => []RecencyIsTotal
<1>1. Init => Sorted(Store)
  BY DEF Init, Store, EmptyFrame, Sorted, Orders, InUse, Untagged
<1>2. Sorted(Store) => RecencyIsTotal
  BY DEF Sorted, Orders, InUse, Store, RecencyIsTotal
<1> QED  BY <1>1, <1>2, NextSorted, Invariance, PTL DEF Spec

-----------------------------------------------------------------------------
(* The lines that processes run.                                           *)

USE SizesAssumption

\* The frame holds page q of the script.
HoldsPage(frame, script, q) ==
  \A o \in Offsets :
    LET i == q * LinesPerFrame + o
    IN i < NumLines[script] => frame.lines[o] = <<script, i>>

\* Where process p is led for page q, it does not take other lines for it.
Intact(p, q) ==
  LET f == pcb[p].page_table[q]
  IN f # NoFrame /\ frames[f].pid = p => HoldsPage(frames[f], pcb[p].file, q)

\* No live process will be led astray, and one that is in the middle of a
\* page finds it loaded.
OwnPages ==
  \A p \in Pids : pcb[p].live =>
    /\ \A q \in Pages : q >= PageOf(p) => Intact(p, q)
    /\ pcb[p].PC % LinesPerFrame # 0 /\ ~Finished(p) => Tagged(p)

\* No live process loses a page it has still to run, other than by loading it
\* again itself.
PagesStay ==
  \A p \in Pids, q \in Pages :
    LET f == pcb[p].page_table[q]
    IN f # NoFrame /\ pcb[p].live /\ q >= PageOf(p)
         => \/ frames'[f] = frames[f]
            \/ mode = "running" /\ p = cur /\ q = PageOf(p)

\* A line in its page, and the line behind it.
LEMMA NextLine ==
  ASSUME NEW i \in Nat
  PROVE  /\ i \div LinesPerFrame \in Nat
         /\ i % LinesPerFrame \in Offsets
         /\ i = (i \div LinesPerFrame) * LinesPerFrame + (i % LinesPerFrame)
         /\ (i + 1) \div LinesPerFrame >= i \div LinesPerFrame
         /\ (i + 1) % LinesPerFrame # 0
              => (i + 1) \div LinesPerFrame = i \div LinesPerFrame
<1> DEFINE L == LinesPerFrame
           q == i \div L
           r == i % L
           k == (i + 1) \div L
           m == (i + 1) % L
<1>1. /\ L \in Nat \ {0}
      /\ q \in Nat /\ r \in 0 .. L - 1 /\ k \in Nat /\ m \in 0 .. L - 1
  OBVIOUS
<1>2. i = L * q + r /\ i + 1 = L * k + m
  OBVIOUS
<1>3. q * L = L * q
  OBVIOUS
<1> HIDE DEF L, q, r, k, m
<1>4. k >= q
  <2> SUFFICES ASSUME k <= q - 1 PROVE FALSE
    BY <1>1
  <2>1. L * k <= L * (q - 1)
    BY <1>1
  <2>2. L * (q - 1) = L * q - L
    BY <1>1
  <2>3. L * k \in Int /\ L * q \in Int
    BY <1>1
  <2> QED  BY <1>1, <1>2, <2>1, <2>2, <2>3
<1>5. ASSUME m # 0 PROVE k = q
  <2> SUFFICES ASSUME k >= q + 1 PROVE FALSE
    BY <1>1, <1>4
  <2>1. L * k >= L * (q + 1)
    BY <1>1
  <2>2. L * (q + 1) = L * q + L
    BY <1>1
  <2>3. L * k \in Int /\ L * q \in Int
    BY <1>1
  <2> QED  BY <1>1, <1>2, <1>5, <2>1, <2>2, <2>3
<1> QED
  BY <1>1, <1>2, <1>3, <1>4, <1>5 DEF L, q, r, k, m, Offsets

\* What loadFrame puts into a frame, and that it leaves the others alone.
LEMMA LoadedPage ==
  ASSUME NEW s \in Stores, NEW f \in Frames, NEW script, NEW tag,
         NEW q \in Nat, NEW i, i = q * LinesPerFrame
  PROVE  /\ HoldsPage(Loaded(s, f, script, i, tag).frames[f], script, q)
         /\ Loaded(s, f, script, i, tag).frames[f].pid = tag
         /\ ~Loaded(s, f, script, i, tag).frames[f].empty
         /\ \A g \in Frames \ {f} :
              Loaded(s, f, script, i, tag).frames[g] = s.frames[g]
         /\ Loaded(s, f, script, i, tag).older = Touched(s, f)
<1> DEFINE t == Loaded(s, f, script, i, tag)
<1>1. /\ t.frames[f] = [lines |-> [o \in Offsets |->
                                     IF i + o < NumLines[script]
                                     THEN <<script, i + o>>
                                     ELSE s.frames[f].lines[o]],
                        pid |-> tag, empty |-> FALSE]
      /\ \A g \in Frames \ {f} : t.frames[g] = s.frames[g]
      /\ t.older = Touched(s, f)
  BY DEF Loaded, Stores
<1> HIDE DEF t
<1>2. HoldsPage(t.frames[f], script, q)
  BY <1>1 DEF HoldsPage
<1>3. t.frames[f].pid = tag /\ ~t.frames[f].empty
  BY <1>1
<1> QED  BY <1>1, <1>2, <1>3 DEF t

\* The frame loaded last is not the victim of the next load.
LEMMA TakenTwice ==
  ASSUME NumFrames >= 2, NEW s \in Stores, NEW v \in Frames, NEW w \in Frames,
         NEW script, NEW i, NEW tag, Taken(Loaded(s, v, script, i, tag), w)
  PROVE  w # v
<1> SUFFICES ASSUME w = v PROVE FALSE
  OBVIOUS
<1> DEFINE t == Loaded(s, v, script, i, tag)
<1>1. ~t.frames[v].empty /\ t.older = Touched(s, v)
  BY DEF Loaded, Stores
<1>2. \A g \in Frames \ {v} : <<v, g>> \in t.older
  BY <1>1 DEF Taken
<1>3. PICK g \in Frames \ {v} : TRUE
  <2>1. 0 \in Frames /\ 1 \in Frames
    BY DEF Frames
  <2> QED  BY <2>1
<1>4. <<v, g>> \in Touched(s, v)
  BY <1>1, <1>2
<1> QED  BY <1>4 DEF Touched

\* The first line of a page.
LEMMA MultipleOfPage ==
  ASSUME NEW k \in Nat
  PROVE  (k * LinesPerFrame) % LinesPerFrame = 0
<1> DEFINE i == k * LinesPerFrame
           q == i \div LinesPerFrame
           r == i % LinesPerFrame
<1>1. i \in Nat
  OBVIOUS
<1>2. LinesPerFrame \in Nat \ {0} /\ q \in Nat /\ r \in 0 .. LinesPerFrame - 1
  BY <1>1
<1>3. i = LinesPerFrame * q + r /\ i = LinesPerFrame * k
  BY <1>1
<1> HIDE DEF i, q, r
<1>4. ~(q < k)
  <2> SUFFICES ASSUME q < k PROVE FALSE
    OBVIOUS
  <2>1. LinesPerFrame * (q + 1) <= LinesPerFrame * k
    BY <1>2
  <2>2. LinesPerFrame * (q + 1) = LinesPerFrame * q + LinesPerFrame
    BY <1>2
  <2>3. LinesPerFrame * k \in Int /\ LinesPerFrame * q \in Int
    BY <1>2
  <2> QED  BY <1>2, <1>3, <2>1, <2>2, <2>3
<1>5. ~(q > k)
  <2> SUFFICES ASSUME q > k PROVE FALSE
    OBVIOUS
  <2>1. LinesPerFrame * q >= LinesPerFrame * (k + 1)
    BY <1>2
  <2>2. LinesPerFrame * (k + 1) = LinesPerFrame * k + LinesPerFrame
    BY <1>2
  <2>3. LinesPerFrame * k \in Int /\ LinesPerFrame * q \in Int
    BY <1>2
  <2> QED  BY <1>2, <1>3, <2>1, <2>2, <2>3
<1>6. q = k
  BY <1>2, <1>4, <1>5
<1>7. LinesPerFrame * k \in Int
  BY <1>2
<1>8. r = 0
  BY <1>2, <1>3, <1>6, <1>7
<1> QED  BY <1>8 DEF i, r

\* The process that runs is alive.
LEMMA CurIsLive ==
  ASSUME IInv, mode = "running"
  PROVE  cur \in Pids /\ pcb[cur].live
BY DEF IInv, TypeOK, QueueIntegrity

\* What a process finds under its tag is its own line.
LEMMA FetchedIsOwn ==
  ASSUME IInv, OwnPages, NEW p \in Pids, pcb[p].live, ~Finished(p), Tagged(p)
  PROVE  /\ HoldsPage(frames[FrameOf(p)], pcb[p].file, PageOf(p))
         /\ Fetched(p) = <<pcb[p].file, pcb[p].PC>>
<1>1. pcb[p] \in PCBs
  BY DEF IInv, TypeOK
<1>2. /\ pcb[p].PC \in Nat
      /\ pcb[p].PC < NumLines[pcb[p].file]
      /\ pcb[p].PC < MaxPages * LinesPerFrame
  <2>1. /\ pcb[p].PC \in Nat /\ pcb[p].file \in Files
        /\ pcb[p].PC <= NumLines[pcb[p].file]
        /\ pcb[p].PC # NumLines[pcb[p].file]
    BY <1>1 DEF IInv, PCInScript, Finished, PCBs
  <2> QED  BY <2>1, CapacityType
<1>3. PageOf(p) \in Pages /\ pcb[p].PC % LinesPerFrame \in Offsets
  BY <1>2, PageInTable DEF PageOf
<1>4. PageOf(p) >= PageOf(p)
  BY <1>3 DEF Pages
<1>5. HoldsPage(frames[FrameOf(p)], pcb[p].file, PageOf(p))
  BY <1>3, <1>4 DEF OwnPages, Intact, Tagged, FrameOf
<1>6. pcb[p].PC = PageOf(p) * LinesPerFrame + (pcb[p].PC % LinesPerFrame)
  BY <1>2, NextLine DEF PageOf
<1>7. Fetched(p) = <<pcb[p].file, pcb[p].PC>>
  BY <1>2, <1>3, <1>5, <1>6 DEF HoldsPage, Fetched
<1> QED  BY <1>5, <1>7

\* A process that runs only its own lines faults at the first line of a page
\* that is not loaded for it.
LEMMA FaultAtStart ==
  ASSUME IInv, OwnPages, Fault
  PROVE  /\ ~Tagged(cur)
         /\ pcb[cur].PC = PageOf(cur) * LinesPerFrame
         /\ PageOf(cur) \in Pages
         /\ \E v \in Frames :
              /\ Taken(Store, v)
              /\ Keep(Loaded(Store, v, pcb[cur].file, pcb[cur].PC, cur))
              /\ pcb' = [pcb EXCEPT ![cur].page_table[PageOf(cur)] = v]
<1>1. mode = "running" /\ ~Finished(cur)
  BY DEF Fault
<1>2. /\ cur \in Pids /\ pcb[cur].live /\ pcb[cur] \in PCBs
      /\ PageOf(cur) \in Pages
  BY <1>1, CurIsLive, CurrentPage
<1>3. ~Tagged(cur)
  <2> SUFFICES ASSUME Tagged(cur) PROVE FALSE
    OBVIOUS
  <2>1. Fetched(cur) = <<pcb[cur].file, pcb[cur].PC>>
    BY <1>1, <1>2, FetchedIsOwn
  <2>2. Fetched(cur) = <<>>
    BY DEF Fault, NoLine
  <2> QED  BY <2>1, <2>2
<1>4. pcb[cur].PC % LinesPerFrame = 0
  BY <1>1, <1>2, <1>3 DEF OwnPages
<1>5. pcb[cur].PC = PageOf(cur) * LinesPerFrame
  <2>1. pcb[cur].PC \in Nat
    BY <1>2 DEF PCBs
  <2>2. /\ pcb[cur].PC = PageOf(cur) * LinesPerFrame
                           + (pcb[cur].PC % LinesPerFrame)
        /\ PageOf(cur) \in Nat
    BY <2>1, NextLine DEF PageOf
  <2> QED  BY <1>4, <2>2
<1> QED  BY <1>2, <1>3, <1>5, Zenon DEF Fault

\* The pages of p are as they were, and p has come no less far.
LEMMA OwnPagesFrame ==
  ASSUME OwnPages, PagesStay, NEW p \in Pids, pcb'[p] = pcb[p], pcb[p].live,
         NEW q \in Pages, q >= PageOf(p), ~(mode = "running" /\ p = cur)
  PROVE  Intact(p, q)'
<1>1. PICK f : f = pcb[p].page_table[q]
  OBVIOUS
<1>2. PICK script : script = pcb[p].file
  OBVIOUS
<1>3. f # NoFrame /\ frames[f].pid = p => HoldsPage(frames[f], script, q)
  BY <1>1, <1>2 DEF OwnPages, Intact
<1>4. f # NoFrame => frames'[f] = frames[f]
  BY <1>1 DEF PagesStay
<1>5. pcb'[p].page_table[q] = f /\ pcb'[p].file = script
  BY <1>1, <1>2
<1>6. f # NoFrame /\ frames'[f].pid = p => HoldsPage(frames'[f], script, q)
  BY <1>3, <1>4
<1> QED  BY <1>5, <1>6 DEF Intact

\* A line stays in a page of the table.
LEMMA MidPage ==
  ASSUME IInv, NEW p \in Pids, ~Finished(p)
  PROVE  PageOf(p) \in Pages
<1>1. pcb[p] \in PCBs
  BY DEF IInv, TypeOK
<1>2. /\ pcb[p].PC \in Nat /\ pcb[p].file \in Files
      /\ pcb[p].PC <= NumLines[pcb[p].file]
      /\ pcb[p].PC # NumLines[pcb[p].file]
  BY <1>1 DEF IInv, PCInScript, Finished, PCBs
<1>3. pcb[p].PC < MaxPages * LinesPerFrame
  BY <1>2, CapacityType
<1> QED  BY <1>2, <1>3, PageInTable DEF PageOf

LEMMA TaggedStays ==
  ASSUME IInv, PagesStay, NEW p \in Pids, pcb'[p] = pcb[p], pcb[p].live,
         ~Finished(p), Tagged(p), ~(mode = "running" /\ p = cur)
  PROVE  Tagged(p)'
<1>1. PageOf(p) \in Pages /\ PageOf(p) >= PageOf(p)
  BY MidPage DEF Pages
<1>2. frames'[FrameOf(p)] = frames[FrameOf(p)]
  BY <1>1 DEF PagesStay, Tagged, FrameOf
<1> QED  BY <1>2 DEF Tagged, FrameOf, PageOf

\* The other processes, while one is created or faults.
LEMMA OthersOwn ==
  ASSUME IInv, OwnPages, PagesStay, NEW p \in Pids, pcb'[p] = pcb[p],
         pcb[p].live, ~(mode = "running" /\ p = cur)
  PROVE  /\ \A q \in Pages : q >= PageOf(p)' => Intact(p, q)'
         /\ pcb'[p].PC % LinesPerFrame # 0 /\ ~Finished(p)' => Tagged(p)'
<1>1. PageOf(p)' = PageOf(p) /\ Finished(p)' = Finished(p)
  BY DEF PageOf, Finished
<1>2. pcb[p].PC % LinesPerFrame # 0 /\ ~Finished(p) => Tagged(p)
  BY DEF OwnPages
<1> QED  BY <1>1, <1>2, OwnPagesFrame, TaggedStays

LEMMA FaultOwn ==
  ASSUME IInv, OwnPages, PagesStay, Fault
  PROVE  OwnPages'
<1>1. mode = "running" /\ ~Finished(cur)
  BY DEF Fault
<1>2. /\ cur \in Pids /\ pcb[cur].live /\ pcb[cur] \in PCBs
      /\ pcb \in [Pids -> PCBs]
  BY <1>1, CurIsLive, CurrentPage DEF IInv, TypeOK
<1>3. PICK c \in Pids : c = cur
  BY <1>2
<1>4. PICK k : k = PageOf(c)
  OBVIOUS
<1>5. PICK script : script = pcb[c].file
  OBVIOUS
<1>6. /\ k \in Pages /\ pcb[c].PC = k * LinesPerFrame
      /\ \E v \in Frames :
           /\ Taken(Store, v)
           /\ Keep(Loaded(Store, v, script, pcb[c].PC, c))
           /\ pcb' = [pcb EXCEPT ![c].page_table[k] = v]
  BY <1>3, <1>4, <1>5, FaultAtStart
<1>7. PICK v \in Frames :
           /\ Keep(Loaded(Store, v, script, pcb[c].PC, c))
           /\ pcb' = [pcb EXCEPT ![c].page_table[k] = v]
  BY <1>6
<1>8. Store \in Stores /\ k \in Nat
  BY <1>6, StoreType DEF IInv, Pages
<1>9. HoldsPage(frames'[v], script, k)
  BY <1>6, <1>7, <1>8, LoadedPage DEF Keep
<1>10. /\ \A p \in Pids \ {c} : pcb'[p] = pcb[p]
       /\ pcb'[c].PC = pcb[c].PC /\ pcb'[c].file = script
       /\ pcb'[c].live
       /\ pcb'[c].page_table = [pcb[c].page_table EXCEPT ![k] = v]
       /\ pcb[c].page_table \in [Pages -> Frames \cup {NoFrame}]
  BY <1>2, <1>3, <1>5, <1>7 DEF PCBs
<1>11. pcb'[c].PC % LinesPerFrame = 0
  BY <1>6, <1>8, <1>10, MultipleOfPage
<1>12. ASSUME NEW q \in Pages, q >= PageOf(c)'
       PROVE  Intact(c, q)'
  <2>1. q >= PageOf(c)
    BY <1>10, <1>12 DEF PageOf
  <2>2. CASE q = k
    <3>1. pcb'[c].page_table[q] = v
      BY <1>6, <1>10, <2>2
    <3> QED  BY <1>9, <1>10, <2>2, <3>1 DEF Intact
  <2>3. CASE q # k
    <3>1. PICK f : f = pcb[c].page_table[q]
      OBVIOUS
    <3>2. pcb'[c].page_table[q] = f
      BY <1>10, <2>3, <3>1
    <3>3. f # NoFrame /\ frames[f].pid = c => HoldsPage(frames[f], script, q)
      BY <1>2, <1>3, <1>5, <2>1, <3>1 DEF OwnPages, Intact
    <3>4. f # NoFrame => frames'[f] = frames[f]
      BY <1>2, <1>3, <1>4, <2>1, <2>3, <3>1 DEF PagesStay
    <3>5. f # NoFrame /\ frames'[f].pid = c
            => HoldsPage(frames'[f], script, q)
      BY <3>3, <3>4
    <3> QED  BY <1>10, <3>2, <3>5 DEF Intact
  <2> QED  BY <2>2, <2>3
<1>13. ASSUME NEW p \in Pids, p # c, pcb'[p].live
       PROVE  /\ \A q \in Pages : q >= PageOf(p)' => Intact(p, q)'
              /\ (pcb'[p].PC % LinesPerFrame # 0) /\ ~Finished(p)'
                   => Tagged(p)'
  BY <1>3, <1>10, <1>13, OthersOwn
<1>14. ASSUME NEW p \in Pids, pcb'[p].live
       PROVE  /\ \A q \in Pages : q >= PageOf(p)' => Intact(p, q)'
              /\ (pcb'[p].PC % LinesPerFrame # 0) /\ ~Finished(p)'
                   => Tagged(p)'
  <2>1. CASE p = c
    BY <1>11, <1>12, <2>1
  <2>2. CASE p # c
    BY <1>13, <1>14, <2>2
  <2> QED  BY <2>1, <2>2
<1> QED  BY <1>14 DEF OwnPages

\* Process c is new.  The first n pages of its script f are loaded, each in a
\* frame of its own.
Created(c, f, n, v, w) ==
  /\ \A p \in Pids \ {c} : pcb'[p] = pcb[p]
  /\ pcb'[c].live /\ pcb'[c].PC = 0 /\ pcb'[c].file = f
  /\ \A q \in Pages : pcb'[c].page_table[q]
       = IF q >= n THEN NoFrame ELSE IF q = 0 THEN v ELSE w
  /\ n > 0 => HoldsPage(frames'[v], f, 0)
  /\ n = 2 => /\ HoldsPage(frames'[w], f, 1)
              /\ ~frames'[w].empty
              /\ v # w
              /\ <<v, w>> \in older'

LEMMA NewProcess ==
  ASSUME NumFrames >= 2, IInv, ProcessInitialize
  PROVE  \E n \in 0 .. 2, v \in Frames, w \in Frames :
           Created(pid_counter, Head(todo), n, v, w)
<1> DEFINE f == Head(todo)
           c == pid_counter
           s1(v) == Loaded(Store, v, f, 0, id)
           s2(v, w) == Loaded(s1(v), w, f, LinesPerFrame, id)
           new(n, v, w) ==
             NewPCB(f, n, [i \in 0 .. 1 |-> IF i = 0 THEN v ELSE w])
<1>1. f \in Files /\ c \in Pids
  BY DEF IInv, TypeOK, ProcessInitialize
<1>2. PICK n \in 0 .. 2, v \in Frames, w \in Frames :
        /\ n = 2 => Taken(s1(v), w)
        /\ Keep(IF n = 0 THEN Store ELSE IF n = 1 THEN s1(v) ELSE s2(v, w))
        /\ pcb' = [pcb EXCEPT ![c] = new(n, v, w)]
  BY ZenonT(60) DEF ProcessInitialize
<1>3. Store \in Stores
  BY StoreType DEF IInv
<1>4. s1(v) \in Stores
  BY <1>1, <1>3, LoadedType DEF IInv, TypeOK
<1>5. HoldsPage(s1(v).frames[v], f, 0) /\ ~s1(v).frames[v].empty
  <2> HIDE DEF f
  <2>1. PICK i, q : i = 0 /\ q = 0
    OBVIOUS
  <2>2. q \in Nat /\ i = q * LinesPerFrame
    BY <2>1
  <2>3. /\ HoldsPage(Loaded(Store, v, f, i, id).frames[v], f, q)
        /\ ~Loaded(Store, v, f, i, id).frames[v].empty
    BY <1>3, <2>2, LoadedPage
  <2> QED  BY <2>1, <2>3
<1>6. n = 2 => v # w
  BY <1>2, <1>3, TakenTwice
<1> HIDE DEF s1
<1>7. /\ HoldsPage(s2(v, w).frames[w], f, 1) /\ ~s2(v, w).frames[w].empty
      /\ \A g \in Frames \ {w} : s2(v, w).frames[g] = s1(v).frames[g]
      /\ s2(v, w).older = Touched(s1(v), w)
  <2> HIDE DEF f
  <2>1. PICK s, i, q : s = s1(v) /\ i = LinesPerFrame /\ q = 1
    OBVIOUS
  <2>2. s \in Stores /\ q \in Nat /\ i = q * LinesPerFrame
    BY <1>4, <2>1
  <2> DEFINE t == Loaded(s, w, f, i, id)
  <2>3. /\ HoldsPage(t.frames[w], f, q)
        /\ ~t.frames[w].empty
        /\ \A g \in Frames \ {w} : t.frames[g] = s.frames[g]
        /\ t.older = Touched(s, w)
    BY <2>2, LoadedPage
  <2> HIDE DEF t
  <2>4. s2(v, w) = t
    BY <2>1 DEF t
  <2> QED  BY <2>1, <2>3, <2>4
<1> HIDE DEF s2
<1>8. /\ n = 1 => frames' = s1(v).frames
      /\ n = 2 => frames' = s2(v, w).frames /\ older' = s2(v, w).older
  BY <1>2 DEF Keep
<1>9. /\ \A p \in Pids \ {c} : pcb'[p] = pcb[p]
      /\ pcb'[c] = new(n, v, w)
  BY <1>1, <1>2 DEF IInv, TypeOK
<1>10. /\ new(n, v, w).live /\ new(n, v, w).PC = 0 /\ new(n, v, w).file = f
       /\ \A q \in Pages : new(n, v, w).page_table[q]
            = IF q >= n THEN NoFrame ELSE IF q = 0 THEN v ELSE w
  BY DEF NewPCB, Pages
<1> HIDE DEF new, f, c
<1>11. n = 2 => <<v, w>> \in older'
  BY <1>5, <1>6, <1>7, <1>8 DEF Touched
<1>12. n > 0 => HoldsPage(frames'[v], f, 0)
  <2>1. CASE n = 1
    BY <1>5, <1>8, <2>1
  <2>2. CASE n = 2
    <3>1. frames'[v] = s1(v).frames[v]
      BY <1>6, <1>7, <1>8, <2>2
    <3> QED  BY <1>5, <3>1
  <2> QED  BY <2>1, <2>2
<1>13. n = 2 => HoldsPage(frames'[w], f, 1) /\ ~frames'[w].empty
  BY <1>7, <1>8
<1>14. /\ pcb'[c].live /\ pcb'[c].PC = 0 /\ pcb'[c].file = f
       /\ \A q \in Pages : pcb'[c].page_table[q]
            = IF q >= n THEN NoFrame ELSE IF q = 0 THEN v ELSE w
  BY <1>9, <1>10
<1>15. Created(c, f, n, v, w)
  BY <1>6, <1>9, <1>11, <1>12, <1>13, <1>14 DEF Created
<1> QED  BY <1>15 DEF f, c

LEMMA ProcessInitializeOwn ==
  ASSUME NumFrames >= 2, IInv, OwnPages, PagesStay, ProcessInitialize
  PROVE  OwnPages'
<1>1. PICK c, f : c = pid_counter /\ f = Head(todo)
  OBVIOUS
<1>2. PICK n \in 0 .. 2, v \in Frames, w \in Frames : Created(c, f, n, v, w)
  BY <1>1, NewProcess
<1>3. pcb'[c].PC % LinesPerFrame = 0
  <2>1. 0 \in Nat /\ 0 = 0 * LinesPerFrame
    OBVIOUS
  <2> QED  BY <1>2, <2>1, MultipleOfPage DEF Created
<1>4. ASSUME NEW q \in Pages
      PROVE  Intact(c, q)'
  <2>1. CASE q >= n
    BY <1>2, <2>1 DEF Intact, Created
  <2>2. CASE q = 0 /\ n > 0
    <3>1. pcb'[c].page_table[q] = v
      BY <1>2, <2>2 DEF Created
    <3> QED  BY <1>2, <2>2, <3>1 DEF Intact, Created
  <2>3. CASE q = 1 /\ n = 2
    <3>1. pcb'[c].page_table[q] = w
      BY <1>2, <2>3 DEF Created
    <3> QED  BY <1>2, <2>3, <3>1 DEF Intact, Created
  <2> QED  BY <2>1, <2>2, <2>3 DEF Pages
<1>5. ASSUME NEW p \in Pids, p # c, pcb'[p].live
      PROVE  /\ \A q \in Pages : q >= PageOf(p)' => Intact(p, q)'
             /\ (pcb'[p].PC % LinesPerFrame # 0) /\ ~Finished(p)'
                  => Tagged(p)'
  <2>1. mode # "running"
    BY DEF ProcessInitialize
  <2>2. pcb'[p] = pcb[p]
    BY <1>2, <1>5 DEF Created
  <2> QED  BY <1>5, <2>1, <2>2, OthersOwn
<1>6. ASSUME NEW p \in Pids, pcb'[p].live
      PROVE  /\ \A q \in Pages : q >= PageOf(p)' => Intact(p, q)'
             /\ (pcb'[p].PC % LinesPerFrame # 0) /\ ~Finished(p)'
                  => Tagged(p)'
  <2>1. CASE p = c
    BY <1>3, <1>4, <2>1
  <2>2. CASE p # c
    BY <1>5, <1>6, <2>2
  <2> QED  BY <2>1, <2>2
<1> QED  BY <1>6 DEF OwnPages

LEMMA ExecuteLineOwn ==
  ASSUME IInv, OwnPages, PagesStay, ExecuteLine
  PROVE  OwnPages'
<1>1. mode = "running" /\ Tagged(cur) /\ frames' = frames /\ cur' = cur
  BY DEF ExecuteLine
<1>2. /\ cur \in Pids /\ pcb[cur].live /\ pcb[cur] \in PCBs
      /\ pcb \in [Pids -> PCBs]
  BY <1>1, CurIsLive DEF IInv, TypeOK
<1>3. PICK c \in Pids : c = cur
  BY <1>2
<1>4. PICK i \in Nat : i = pcb[c].PC
  BY <1>2, <1>3 DEF PCBs
<1>5. /\ \A p \in Pids \ {c} : pcb'[p] = pcb[p]
      /\ pcb'[c].PC = i + 1 /\ pcb'[c].file = pcb[c].file
      /\ pcb'[c].page_table = pcb[c].page_table
  BY <1>2, <1>3, <1>4 DEF ExecuteLine, PCBs
<1>6. /\ PageOf(c)' = (i + 1) \div LinesPerFrame
      /\ PageOf(c) = i \div LinesPerFrame
  BY <1>4, <1>5 DEF PageOf
<1>7. PICK k \in Nat, m \in Nat : k = PageOf(c) /\ m = PageOf(c)'
  <2>1. i + 1 \in Nat
    OBVIOUS
  <2>2. (i + 1) \div LinesPerFrame \in Nat /\ i \div LinesPerFrame \in Nat
    BY <2>1, NextLine
  <2> QED  BY <1>6, <2>2
<1>8. m >= k /\ ((i + 1) % LinesPerFrame # 0 => m = k)
  BY <1>6, <1>7, NextLine
<1>9. ASSUME NEW q \in Pages, q >= PageOf(c)'
      PROVE  Intact(c, q)'
  <2>1. q >= k
    BY <1>7, <1>8, <1>9 DEF Pages
  <2>2. Intact(c, q)
    BY <1>2, <1>3, <1>7, <2>1 DEF OwnPages
  <2> QED  BY <1>1, <1>5, <2>2 DEF Intact
<1>10. (pcb'[c].PC % LinesPerFrame # 0) => Tagged(c)'
  <2> SUFFICES ASSUME (i + 1) % LinesPerFrame # 0 PROVE Tagged(c)'
    BY <1>5
  <2>1. PageOf(c)' = PageOf(c)
    BY <1>7, <1>8
  <2>2. FrameOf(c)' = FrameOf(c)
    BY <1>5, <2>1 DEF FrameOf
  <2> QED  BY <1>1, <1>3, <2>2 DEF Tagged
<1>11. ASSUME NEW p \in Pids, pcb'[p].live
       PROVE  /\ \A q \in Pages : q >= PageOf(p)' => Intact(p, q)'
              /\ (pcb'[p].PC % LinesPerFrame # 0) /\ ~Finished(p)'
                   => Tagged(p)'
  <2>1. CASE p = c
    BY <1>9, <1>10, <2>1
  <2>2. CASE p # c
    <3>1. pcb'[p] = pcb[p] /\ p # cur
      BY <1>3, <1>5, <2>2
    <3> QED  BY <1>11, <3>1, OthersOwn
  <2> QED  BY <2>1, <2>2
<1> QED  BY <1>11 DEF OwnPages

\* The steps that only end a process, if they touch one at all.
LEMMA UnchangedOwn ==
  ASSUME OwnPages, frames' = frames,
         \A p \in Pids : pcb'[p].live => pcb'[p] = pcb[p]
  PROVE  OwnPages'
<1> SUFFICES ASSUME NEW p \in Pids, pcb'[p].live
             PROVE  /\ \A q \in Pages : q >= PageOf(p)' => Intact(p, q)'
                    /\ (pcb'[p].PC % LinesPerFrame # 0) /\ ~Finished(p)'
                         => Tagged(p)'
  BY DEF OwnPages
<1>1. pcb'[p] = pcb[p]
  OBVIOUS
<1>2. /\ PageOf(p)' = PageOf(p) /\ Finished(p)' = Finished(p)
      /\ Tagged(p)' = Tagged(p)
  BY <1>1 DEF PageOf, Finished, Tagged, FrameOf
<1>3. ASSUME NEW q \in Pages, Intact(p, q) PROVE Intact(p, q)'
  BY <1>1, <1>3 DEF Intact
<1> QED  BY <1>1, <1>2, <1>3 DEF OwnPages

\* No process gets lines mixed in the pages it has still to run, unless one
\* of them is evicted.
LEMMA OwnPagesKept ==
  NumFrames >= 2 => (IInv /\ OwnPages /\ [Next]_vars /\ PagesStay => OwnPages')
<1> SUFFICES ASSUME NumFrames >= 2, IInv, OwnPages, [Next]_vars, PagesStay
             PROVE  OwnPages'
  OBVIOUS
<1>1. CASE ProcessInitialize
  BY <1>1, ProcessInitializeOwn
<1>2. CASE Fault
  BY <1>2, FaultOwn
<1>3. CASE ExecuteLine
  BY <1>3, ExecuteLineOwn
<1>4. CASE Terminate
  <2>1. frames' = frames
    BY <1>4 DEF Terminate
  <2>2. ASSUME NEW p \in Pids, pcb'[p].live PROVE pcb'[p] = pcb[p]
    <3>1. p # cur /\ cur \in Pids
      BY <1>4, <2>2, CurIsLive DEF Terminate, IInv, TypeOK, PCBs
    <3> QED  BY <1>4, <3>1 DEF Terminate, IInv, TypeOK
  <2> QED  BY <2>1, <2>2, UnchangedOwn
<1>5. CASE UNCHANGED <<pcb, frames>>
  BY <1>5, UnchangedOwn
<1> QED
  BY <1>1, <1>2, <1>3, <1>4, <1>5
  DEF Next, Step, Command, Quit, FileMissing, CopyFails, Schedule, QueueEmpty,
      Dispatch, QuantumOver, vars

\* A PC goes up by one only where a line is run.
LEMMA OnlyExecuteLine ==
  ASSUME IInv, [Next]_vars, NEW p \in Pids, pcb'[p].PC = pcb[p].PC + 1
  PROVE  ExecuteLine /\ p = cur
<1>1. pcb \in [Pids -> PCBs] /\ pcb[p].PC \in Nat
  BY DEF IInv, TypeOK, PCBs
<1>2. pcb'[p].PC # pcb[p].PC /\ pcb'[p].PC # 0
  BY <1>1
<1>3. CASE ProcessInitialize
  <2>1. PICK n \in 0 .. 2, v \in Frames, w \in Frames :
          pcb' = [pcb EXCEPT ![pid_counter] =
                    NewPCB(Head(todo), n, [i \in 0 .. 1 |->
                                             IF i = 0 THEN v ELSE w])]
    BY <1>3, ZenonT(60) DEF ProcessInitialize
  <2>2. pcb'[p].PC \in {0, pcb[p].PC}
    BY <1>1, <2>1 DEF NewPCB
  <2> QED  BY <1>2, <2>2
<1>4. CASE Fault
  <2>1. PICK v, q :
          pcb' = [pcb EXCEPT ![cur].page_table[q] = v]
    BY <1>4 DEF Fault
  <2>2. pcb'[p].PC = pcb[p].PC
    BY <1>1, <2>1 DEF PCBs
  <2> QED  BY <1>2, <2>2
<1>5. CASE Terminate
  <2>1. pcb'[p].PC = pcb[p].PC
    BY <1>1, <1>5 DEF Terminate, PCBs
  <2> QED  BY <1>2, <2>1
<1>6. CASE ExecuteLine
  <2>1. p # cur => pcb'[p] = pcb[p]
    BY <1>1, <1>6 DEF ExecuteLine
  <2> QED  BY <1>2, <1>6, <2>1
<1>7. CASE UNCHANGED pcb
  BY <1>2, <1>7
<1> QED
  BY <1>3, <1>4, <1>5, <1>6, <1>7
  DEF Next, Step, Command, Quit, FileMissing, CopyFails, Schedule, QueueEmpty,
      Dispatch, QuantumOver, vars

LEMMA OwnLineRun ==
  IInv /\ OwnPages /\ [Next]_vars => \A p \in Pids : OwnLine(p)
<1> SUFFICES ASSUME IInv, OwnPages, [Next]_vars, NEW p \in Pids,
                    pcb'[p].PC = pcb[p].PC + 1
             PROVE  Fetched(p) = <<pcb[p].file, pcb[p].PC>>
  BY DEF OwnLine
<1>1. ExecuteLine /\ p = cur
  BY OnlyExecuteLine
<1>2. mode = "running" /\ ~Finished(p) /\ Tagged(p)
  BY <1>1 DEF ExecuteLine
<1>3. pcb[p].live
  BY <1>1, <1>2, CurIsLive
<1> QED  BY <1>2, <1>3, FetchedIsOwn

\* As long as no live process loses a page it has still to run, processes run
\* their own lines, in order and each once, whatever runs beside them and
\* however often they fault: lines get mixed only through evictions.
THEOREM MixedOnlyByEviction ==
  ASSUME NumFrames >= 2
  PROVE  Spec /\ [][PagesStay]_vars => RunsOwnLine
<1>1. Init => OwnPages
  BY ScriptsAssumption DEF Init, OwnPages, UnusedPCB
<1>2. IInv /\ OwnPages /\ [Next]_vars /\ [PagesStay]_vars => OwnPages'
  <2>1. OwnPages /\ UNCHANGED vars => OwnPages'
    BY UnchangedOwn DEF vars
  <2> QED  BY <2>1, OwnPagesKept
<1>3. IInv /\ OwnPages /\ [Next]_vars => [\A p \in Pids : OwnLine(p)]_vars
  BY OwnLineRun
<1> QED  BY <1>1, <1>2, <1>3, Invariance, PTL DEF Spec, RunsOwnLine

-----------------------------------------------------------------------------
(* `run` on its own: with at most one live process, no page it has still   *)
(* to run is ever the victim.                                              *)

NoneLive == \A p \in Pids : ~pcb[p].live

\* Scripts hold no `run` and no `exec`, `run` names one file, and `exec` names
\* only files that can be opened and copied.
PlainRuns ==
  /\ \A line \in Lines : Calls[line] = <<>>
  /\ \A c \in Commands :
       /\ c.policy = "FCFS" => Len(c.files) = 1
       /\ c.policy = "RR" => \A i \in DOMAIN c.files :
                               c.files[i] \notin Missing \cup Uncopied

\* A command starts with no process alive, and `run` creates one.
Alone ==
  /\ mode = "prompt" => NoneLive
  /\ mode = "loading" => cur = NoProcess
  /\ mode = "loading" /\ policy = "FCFS" =>
       Len(todo) <= 1 /\ (todo # <<>> => NoneLive)
  /\ mode = "loading" /\ policy = "RR" =>
       \A i \in DOMAIN todo : todo[i] \notin Missing \cup Uncopied
  /\ policy = "FCFS" => \A p, r \in Pids : pcb[p].live /\ pcb[r].live => p = r

\* The only page loaded ahead of the one process p has come to is the second,
\* and the frame of the first has then been used no later, until the first is
\* loaded again under the tag of p.
Ahead(p) ==
  \A q \in Pages :
    q > PageOf(p) /\ pcb[p].page_table[q] # NoFrame =>
      LET v == pcb[p].page_table[0]
          w == pcb[p].page_table[1]
      IN /\ q = 1 /\ v # NoFrame /\ v # w /\ ~frames[w].empty
         /\ ~Tagged(p) => <<v, w>> \in older

RunInv == /\ Alone
          /\ policy = "FCFS" => /\ OwnPages
                                /\ \A p \in Pids : pcb[p].live => Ahead(p)

\* A sequence of files and its tail.
LEMMA TailOf ==
  ASSUME NEW s \in Seq(Files), s # <<>>
  PROVE  /\ Head(s) = s[1] /\ 1 \in DOMAIN s
         /\ Tail(s) \in Seq(Files)
         /\ Len(Tail(s)) = Len(s) - 1
         /\ \A i \in DOMAIN Tail(s) :
              i + 1 \in DOMAIN s /\ Tail(s)[i] = s[i + 1]
         /\ Len(s) <= 1 => Tail(s) = <<>>
OBVIOUS

\* The ready queue is empty when the prompt comes back.
LEMMA QueueEmptyNoneLive ==
  ASSUME IInv, QueueEmpty
  PROVE  NoneLive
BY DEF IInv, QueueIntegrity, QueueEmpty, NoneLive, Range

LEMMA SameAlone ==
  ASSUME Alone, policy' = policy,
         mode' \in {mode, "scheduling", "running", "halted"},
         mode' = "loading" => cur' = cur /\ todo' = todo,
         \A p \in Pids : pcb'[p].live => pcb[p].live
  PROVE  Alone'
BY DEF Alone, NoneLive

LEMMA CommandAlone ==
  ASSUME PlainRuns, IInv, Alone, NEW c \in Commands, Command(c)
  PROVE  Alone' /\ NoneLive'
<1>1. /\ mode = "prompt" /\ mode' = "loading" /\ policy' = c.policy
      /\ todo' = c.files /\ cur' = cur /\ pcb' = pcb
  BY DEF Command
<1>2. NoneLive' /\ cur' = NoProcess
  BY <1>1 DEF Alone, NoneLive, IInv, QueueIntegrity
<1>3. policy' = "FCFS" => Len(todo') <= 1
  <2>1. PICK n : n = Len(todo')
    OBVIOUS
  <2>2. policy' = "FCFS" => n = 1
    BY <1>1, <2>1 DEF PlainRuns
  <2>3. policy' = "FCFS" => n <= 1
    BY <2>2
  <2> QED  BY <2>1, <2>3
<1>4. policy' = "RR" => \A i \in DOMAIN todo' :
                          todo'[i] \notin Missing \cup Uncopied
  BY <1>1 DEF PlainRuns
<1>5. \A p \in Pids : ~pcb'[p].live
  BY <1>2 DEF NoneLive
<1> QED  BY <1>1, <1>2, <1>3, <1>4, <1>5 DEF Alone

LEMMA ProcessInitializeAlone ==
  ASSUME IInv, Alone, ProcessInitialize
  PROVE  Alone'
<1>1. /\ mode = "loading" /\ mode' = mode /\ policy' = policy
      /\ todo # <<>> /\ todo \in Seq(Files) /\ todo' = Tail(todo) /\ cur' = cur
  BY DEF ProcessInitialize, IInv, TypeOK
<1>2. policy = "FCFS" => Len(todo') <= 1 /\ todo' = <<>>
  BY <1>1, TailOf DEF Alone
<1>3. ASSUME policy = "RR", NEW i \in DOMAIN todo'
      PROVE  todo'[i] \notin Missing \cup Uncopied
  <2>1. i + 1 \in DOMAIN todo /\ todo'[i] = todo[i + 1]
    BY <1>1, <1>3, TailOf
  <2> QED  BY <1>1, <1>3, <2>1 DEF Alone
<1>4. policy = "FCFS" => \A p, r \in Pids :
                           pcb'[p].live /\ pcb'[r].live => p = r
  <2> SUFFICES ASSUME policy = "FCFS", NEW p \in Pids, NEW r \in Pids,
                      pcb'[p].live, pcb'[r].live
               PROVE  p = r
    OBVIOUS
  <2>1. NoneLive
    BY <1>1 DEF Alone
  <2>2. \A x \in Pids \ {pid_counter} : pcb'[x] = pcb[x]
    BY DEF ProcessInitialize, IInv, TypeOK
  <2> QED  BY <2>1, <2>2 DEF NoneLive
<1> QED  BY <1>1, <1>2, <1>3, <1>4 DEF Alone, NoneLive

LEMMA EndOfCommandAlone ==
  ASSUME IInv, Alone, FileMissing \/ CopyFails
  PROVE  Alone'
<1>1. /\ mode = "loading" /\ policy' = policy /\ todo # <<>>
      /\ todo \in Seq(Files) /\ todo' = <<>> /\ cur' = cur /\ pcb' = pcb
      /\ Head(todo) \in Missing \cup Uncopied /\ cur = NoProcess
  BY DEF FileMissing, CopyFails, IInv, TypeOK, Alone
<1>2. policy = "FCFS"
  <2> SUFFICES ASSUME policy = "RR" PROVE FALSE
    BY DEF IInv, TypeOK
  <2> QED  BY <1>1, TailOf DEF Alone
<1>3. NoneLive /\ NoneLive'
  BY <1>1, <1>2 DEF Alone, NoneLive
<1>4. Len(todo') <= 1
  BY <1>1
<1> QED  BY <1>1, <1>2, <1>3, <1>4 DEF Alone, NoneLive

LEMMA ExecuteLineAlone ==
  ASSUME PlainRuns, IInv, Alone, ExecuteLine
  PROVE  Alone'
<1>1. mode = "running" /\ ~Finished(cur) /\ Tagged(cur)
  BY DEF ExecuteLine
<1>2. /\ cur \in Pids /\ pcb[cur] \in PCBs /\ PageOf(cur) \in Pages
      /\ pcb[cur].PC \in Nat /\ FrameOf(cur) \in Frames
  BY <1>1, CurrentPage DEF PCBs
<1>3. Fetched(cur) \in Lines
  <2>1. pcb[cur].PC % LinesPerFrame \in Offsets
    BY <1>2, NextLine
  <2>2. frames[FrameOf(cur)].lines \in [Offsets -> Lines \cup {NoLine}]
    BY <1>2 DEF IInv, TypeOK, FrameContents
  <2>3. Fetched(cur) # NoLine
    BY DEF ExecuteLine
  <2> QED  BY <2>1, <2>2, <2>3 DEF Fetched
<1>4. Calls[Fetched(cur)] = <<>>
  BY <1>3 DEF PlainRuns
<1>5. mode' \in {"running", "halted"}
  BY <1>1, <1>4 DEF ExecuteLine
<1>6. \A p \in Pids : pcb'[p].live = pcb[p].live
  BY <1>2 DEF ExecuteLine, IInv, TypeOK, PCBs
<1>7. policy' = policy
  BY DEF ExecuteLine
<1> QED  BY <1>5, <1>6, <1>7, SameAlone

LEMMA AloneKept ==
  ASSUME PlainRuns, IInv, Alone, [Next]_vars
  PROVE  Alone'
<1>1. CASE Step
  <2>1. CASE ProcessInitialize
    BY <2>1, ProcessInitializeAlone
  <2>2. CASE FileMissing \/ CopyFails
    BY <2>2, EndOfCommandAlone
  <2>3. CASE Schedule
    BY <2>3, SameAlone DEF Schedule
  <2>4. CASE QueueEmpty
    BY <2>4, QueueEmptyNoneLive DEF QueueEmpty, Alone, NoneLive
  <2>5. CASE Dispatch
    BY <2>5, SameAlone DEF Dispatch
  <2>6. CASE Terminate
    <3>1. \A p \in Pids : pcb'[p].live => pcb[p].live
      BY <2>6, CurIsLive DEF Terminate, IInv, TypeOK, PCBs
    <3> QED  BY <2>6, <3>1, SameAlone DEF Terminate
  <2>7. CASE QuantumOver
    BY <2>7, SameAlone DEF QuantumOver, Requeue
  <2>8. CASE Fault
    <3>1. PICK v, q :
            pcb' = [pcb EXCEPT ![cur].page_table[q] = v]
      BY <2>8 DEF Fault
    <3>2. \A p \in Pids : pcb'[p].live = pcb[p].live
      BY <3>1 DEF IInv, TypeOK, PCBs
    <3>3. policy' = policy /\ mode' = "scheduling"
      BY <2>8 DEF Fault, Requeue
    <3> QED  BY <3>2, <3>3, SameAlone
  <2>9. CASE ExecuteLine
    BY <2>9, ExecuteLineAlone
  <2> QED
    BY <1>1, <2>1, <2>2, <2>3, <2>4, <2>5, <2>6, <2>7, <2>8, <2>9 DEF Step
<1>2. CASE Quit
  BY <1>2, SameAlone DEF Quit
<1>3. ASSUME NEW c \in Commands, Command(c) PROVE Alone'
  BY <1>3, CommandAlone
<1>4. CASE UNCHANGED vars
  BY <1>4, SameAlone DEF vars
<1> QED  BY <1>1, <1>2, <1>3, <1>4 DEF Next

\* A fault of the only process evicts no page it has still to run.
LEMMA FaultStays ==
  ASSUME IInv, Sorted(Store), Alone, OwnPages, policy = "FCFS", Ahead(cur),
         Fault
  PROVE  /\ PagesStay
         /\ \A p \in Pids : pcb'[p].live => Ahead(p)'
<1>1. mode = "running" /\ ~Finished(cur)
  BY DEF Fault
<1>2. /\ cur \in Pids /\ pcb[cur].live /\ pcb[cur] \in PCBs
      /\ pcb \in [Pids -> PCBs]
  BY <1>1, CurIsLive, CurrentPage DEF IInv, TypeOK
<1>3. PICK c \in Pids : c = cur
  BY <1>2
<1>4. \A p \in Pids : pcb[p].live => p = c
  BY <1>2, <1>3 DEF Alone
<1>5. PICK k : k = PageOf(c)
  OBVIOUS
<1>6. PICK v \in Frames :
        /\ k \in Pages
        /\ ~Tagged(c)
        /\ Taken(Store, v)
        /\ Keep(Loaded(Store, v, pcb[c].file, pcb[c].PC, c))
        /\ pcb' = [pcb EXCEPT ![c].page_table[k] = v]
  BY <1>3, <1>5, FaultAtStart
<1>7. Store \in Stores
  BY StoreType DEF IInv
<1>8. /\ frames'[v].pid = c /\ ~frames'[v].empty
      /\ \A g \in Frames \ {v} : frames'[g] = frames[g]
  BY <1>6, <1>7 DEF Loaded, Keep, Stores, Store
<1>9. /\ \A p \in Pids \ {c} : pcb'[p] = pcb[p]
      /\ pcb'[c].PC = pcb[c].PC
      /\ pcb'[c].page_table = [pcb[c].page_table EXCEPT ![k] = v]
      /\ pcb[c].page_table \in [Pages -> Frames \cup {NoFrame}]
  BY <1>2, <1>3, <1>6 DEF PCBs
<1>10. \A p \in Pids : pcb'[p].live => p = c
  BY <1>4, <1>9
<1>11. ASSUME NEW q \in Pages, q > k, pcb[c].page_table[q] # NoFrame
       PROVE  /\ q = 1 /\ k = 0 /\ pcb[c].page_table[q] # v
              /\ ~frames[pcb[c].page_table[q]].empty
  <2>1. PICK f : f = pcb[c].page_table[0]
    OBVIOUS
  <2>2. PICK g : g = pcb[c].page_table[1]
    OBVIOUS
  <2>3. /\ q = 1 /\ f # NoFrame /\ f # g /\ ~frames[g].empty
        /\ <<f, g>> \in older
    BY <1>3, <1>5, <1>6, <1>11, <2>1, <2>2 DEF Ahead
  <2>4. k = 0 /\ 0 \in Pages
    BY <1>6, <1>11, <2>3 DEF Pages
  <2>5. f \in Frames /\ g \in Frames
    BY <1>9, <1>11, <2>1, <2>2, <2>3, <2>4
  <2>6. <<g, f>> \notin older
    BY <2>3, <2>5 DEF Sorted, Orders, Store
  <2>7. g # v
    <3> SUFFICES ASSUME g = v PROVE FALSE
      OBVIOUS
    <3>1. <<g, f>> \in older
      BY <1>6, <2>3, <2>5 DEF Taken, Store
    <3> QED  BY <2>6, <3>1
  <2> QED  BY <2>2, <2>3, <2>4, <2>7
<1>12. PagesStay
  <2> SUFFICES ASSUME NEW p \in Pids, NEW q \in Pages, pcb[p].live,
                      pcb[p].page_table[q] # NoFrame, q >= PageOf(p),
                      ~(mode = "running" /\ p = cur /\ q = PageOf(p))
               PROVE  frames'[pcb[p].page_table[q]]
                        = frames[pcb[p].page_table[q]]
    BY DEF PagesStay
  <2>1. p = c /\ q > k
    BY <1>1, <1>3, <1>4, <1>5, <1>6 DEF Pages
  <2>2. pcb[c].page_table[q] \in Frames \ {v}
    BY <1>9, <1>11, <2>1
  <2> QED  BY <1>8, <2>1, <2>2
<1>13. Ahead(c)'
  <2>1. PageOf(c)' = k
    BY <1>5, <1>9 DEF PageOf
  <2> SUFFICES ASSUME NEW q \in Pages, q > k,
                      pcb'[c].page_table[q] # NoFrame
               PROVE  /\ q = 1 /\ pcb'[c].page_table[0] # NoFrame
                      /\ pcb'[c].page_table[0] # pcb'[c].page_table[1]
                      /\ ~frames'[pcb'[c].page_table[1]].empty
                      /\ Tagged(c)'
    BY <2>1 DEF Ahead
  <2>2. q # k /\ k \in Pages
    BY <1>6 DEF Pages
  <2>3. pcb'[c].page_table[q] = pcb[c].page_table[q]
    BY <1>9, <2>2
  <2>4. /\ q = 1 /\ k = 0 /\ pcb[c].page_table[q] # v
        /\ ~frames[pcb[c].page_table[q]].empty
    BY <1>11, <2>3
  <2>5. pcb'[c].page_table[k] = v /\ v # NoFrame
    BY <1>9, <2>2 DEF Frames, NoFrame
  <2>6. pcb[c].page_table[q] \in Frames \ {v}
    BY <1>9, <2>3, <2>4
  <2>7. Tagged(c)'
    BY <1>8, <2>1, <2>5 DEF Tagged, FrameOf
  <2> QED  BY <1>8, <2>3, <2>4, <2>5, <2>6, <2>7
<1> QED  BY <1>10, <1>12, <1>13

LEMMA ProcessInitializeAhead ==
  ASSUME NumFrames >= 2, IInv, Alone, OwnPages, policy = "FCFS",
         ProcessInitialize
  PROVE  /\ OwnPages'
         /\ \A p \in Pids : pcb'[p].live => Ahead(p)'
<1>1. NoneLive
  BY DEF ProcessInitialize, Alone
<1>2. OwnPages'
  <2>1. PagesStay
    BY <1>1 DEF PagesStay, NoneLive
  <2> QED  BY <2>1, ProcessInitializeOwn
<1>3. PICK c, f : c = pid_counter /\ f = Head(todo)
  OBVIOUS
<1>4. PICK n \in 0 .. 2, v \in Frames, w \in Frames : Created(c, f, n, v, w)
  BY <1>3, NewProcess
<1>5. \A p \in Pids : pcb'[p].live => p = c
  BY <1>1, <1>4 DEF Created, NoneLive
<1>6. Ahead(c)'
  <2>1. PageOf(c)' \in Nat
    <3>1. pcb'[c].PC = 0 /\ 0 \in Nat
      BY <1>4 DEF Created
    <3> QED  BY <3>1, NextLine DEF PageOf
  <2> SUFFICES ASSUME NEW q \in Pages, q > 0, pcb'[c].page_table[q] # NoFrame
               PROVE  /\ q = 1 /\ pcb'[c].page_table[0] # NoFrame
                      /\ pcb'[c].page_table[0] # pcb'[c].page_table[1]
                      /\ ~frames'[pcb'[c].page_table[1]].empty
                      /\ <<pcb'[c].page_table[0], pcb'[c].page_table[1]>>
                           \in older'
    <3>1. \A q \in Pages : q > PageOf(c)' => q > 0
      BY <2>1 DEF Pages
    <3> QED  BY <3>1 DEF Ahead
  <2>2. q = 1 /\ n = 2 /\ 0 \in Pages
    BY <1>4 DEF Created, Pages
  <2>3. pcb'[c].page_table[0] = v /\ pcb'[c].page_table[1] = w
    BY <1>4, <2>2 DEF Created
  <2>4. v # w /\ v # NoFrame /\ ~frames'[w].empty /\ <<v, w>> \in older'
    BY <1>4, <2>2 DEF Created, Frames, NoFrame
  <2> QED  BY <2>2, <2>3, <2>4
<1> QED  BY <1>2, <1>5, <1>6

LEMMA ExecuteLineAhead ==
  ASSUME IInv, Alone, OwnPages, policy = "FCFS", Ahead(cur), ExecuteLine
  PROVE  /\ OwnPages'
         /\ \A p \in Pids : pcb'[p].live => Ahead(p)'
<1>1. mode = "running" /\ Tagged(cur) /\ frames' = frames
  BY DEF ExecuteLine
<1>2. /\ cur \in Pids /\ pcb[cur].live /\ pcb[cur] \in PCBs
      /\ pcb \in [Pids -> PCBs]
  BY <1>1, CurIsLive DEF IInv, TypeOK
<1>3. OwnPages'
  <2>1. PagesStay
    BY <1>1 DEF PagesStay
  <2> QED  BY <2>1, ExecuteLineOwn
<1>4. PICK c \in Pids : c = cur
  BY <1>2
<1>5. PICK i \in Nat : i = pcb[c].PC
  BY <1>2, <1>4 DEF PCBs
<1>6. /\ \A p \in Pids \ {c} : pcb'[p] = pcb[p]
      /\ pcb'[c].PC = i + 1 /\ pcb'[c].page_table = pcb[c].page_table
  BY <1>2, <1>4, <1>5 DEF ExecuteLine, PCBs
<1>7. \A p \in Pids : pcb'[p].live => p = c
  BY <1>2, <1>4, <1>6 DEF Alone
<1>8. /\ PageOf(c)' = (i + 1) \div LinesPerFrame
      /\ PageOf(c) = i \div LinesPerFrame
  BY <1>5, <1>6 DEF PageOf
<1>9. PICK k \in Nat, m \in Nat : k = PageOf(c) /\ m = PageOf(c)'
  <2>1. i + 1 \in Nat
    OBVIOUS
  <2>2. (i + 1) \div LinesPerFrame \in Nat /\ i \div LinesPerFrame \in Nat
    BY <2>1, NextLine
  <2> QED  BY <1>8, <2>2
<1>10. m >= k
  BY <1>8, <1>9, NextLine
<1>11. Ahead(c)'
  <2> SUFFICES ASSUME NEW q \in Pages, q > m, pcb[c].page_table[q] # NoFrame
               PROVE  /\ q = 1 /\ pcb[c].page_table[0] # NoFrame
                      /\ pcb[c].page_table[0] # pcb[c].page_table[1]
                      /\ ~frames[pcb[c].page_table[1]].empty
                      /\ Tagged(c)'
    BY <1>1, <1>6, <1>9 DEF Ahead
  <2>1. q > k
    BY <1>10 DEF Pages
  <2>2. /\ q = 1 /\ pcb[c].page_table[0] # NoFrame
        /\ pcb[c].page_table[0] # pcb[c].page_table[1]
        /\ ~frames[pcb[c].page_table[1]].empty
    BY <1>4, <1>9, <2>1 DEF Ahead
  <2>3. m = k
    BY <1>10, <2>2
  <2>4. FrameOf(c)' = FrameOf(c)
    BY <1>6, <1>9, <2>3 DEF FrameOf
  <2>5. Tagged(c)'
    BY <1>1, <1>4, <2>4 DEF Tagged
  <2> QED  BY <2>2, <2>5
<1> QED  BY <1>3, <1>7, <1>11

\* The steps that leave the frames alone, and at most end a process.
LEMMA UnchangedAhead ==
  ASSUME NEW p \in Pids, Ahead(p), pcb'[p] = pcb[p], frames' = frames,
         older' = older
  PROVE  Ahead(p)'
<1>1. PageOf(p)' = PageOf(p) /\ Tagged(p)' = Tagged(p)
  BY DEF PageOf, Tagged, FrameOf
<1> QED  BY <1>1 DEF Ahead

LEMMA RunInvKept ==
  NumFrames >= 2 /\ PlainRuns
  => (IInv /\ Sorted(Store) /\ RunInv /\ [Next]_vars => RunInv')
<1> SUFFICES ASSUME NumFrames >= 2, PlainRuns, IInv, Sorted(Store), RunInv,
                    [Next]_vars
             PROVE  RunInv'
  OBVIOUS
<1>1. Alone /\ Alone'
  BY AloneKept DEF RunInv
<1>2. ASSUME NEW c \in Commands, Command(c) PROVE RunInv'
  BY <1>1, <1>2, CommandAlone DEF RunInv, OwnPages, NoneLive
<1> SUFFICES ASSUME ~ \E c \in Commands : Command(c), policy' = "FCFS"
             PROVE  OwnPages' /\ \A p \in Pids : pcb'[p].live => Ahead(p)'
  BY <1>1, <1>2 DEF RunInv
<1>3. policy = "FCFS"
  BY DEF Next, Step, Quit, ProcessInitialize, FileMissing, CopyFails, Schedule,
         QueueEmpty, Dispatch, Terminate, QuantumOver, Fault, ExecuteLine, vars
<1>4. OwnPages /\ \A p \in Pids : pcb[p].live => Ahead(p)
  BY <1>3 DEF RunInv
<1>5. CASE ProcessInitialize
  BY <1>1, <1>3, <1>4, <1>5, ProcessInitializeAhead
<1>6. CASE Fault
  <2>1. Ahead(cur)
    BY <1>4, <1>6, CurIsLive DEF Fault
  <2> QED  BY <1>1, <1>3, <1>4, <1>6, <2>1, FaultStays, FaultOwn
<1>7. CASE ExecuteLine
  <2>1. Ahead(cur)
    BY <1>4, <1>7, CurIsLive DEF ExecuteLine
  <2> QED  BY <1>1, <1>3, <1>4, <1>7, <2>1, ExecuteLineAhead
<1>8. CASE Terminate
  <2>1. frames' = frames /\ older' = older
    BY <1>8 DEF Terminate
  <2>2. ASSUME NEW p \in Pids, pcb'[p].live PROVE pcb'[p] = pcb[p]
    <3>1. p # cur /\ cur \in Pids
      BY <1>8, <2>2, CurIsLive DEF Terminate, IInv, TypeOK, PCBs
    <3> QED  BY <1>8, <3>1 DEF Terminate, IInv, TypeOK
  <2> QED  BY <1>4, <2>1, <2>2, UnchangedOwn, UnchangedAhead
<1>9. CASE UNCHANGED <<pcb, frames, older>>
  BY <1>4, <1>9, UnchangedOwn, UnchangedAhead
<1> QED
  BY <1>5, <1>6, <1>7, <1>8, <1>9
  DEF Next, Step, Quit, FileMissing, CopyFails, Schedule, QueueEmpty,
      Dispatch, QuantumOver, vars

LEMMA RunInvariant ==
  ASSUME NumFrames >= 2, PlainRuns
  PROVE  Spec => [](IInv /\ RunInv)
<1>1. Init => RunInv
  BY ScriptsAssumption
  DEF Init, RunInv, Alone, NoneLive, OwnPages, UnusedPCB
<1>2. Init => Sorted(Store)
  BY DEF Init, Store, EmptyFrame, Sorted, Orders, InUse, Untagged
<1>3. IInv /\ Sorted(Store) /\ RunInv /\ [Next]_vars => RunInv'
  BY RunInvKept
<1> QED  BY <1>1, <1>2, <1>3, NextSorted, Invariance, PTL DEF Spec

\* Under `run`, with nothing else alive, the page the process has come to is
\* never mixed with lines of another page: stale frames, short pages and
\* evictions notwithstanding.
THEOREM CurrentPageKept ==
  ASSUME NumFrames >= 2, PlainRuns
  PROVE  Spec => []CurrentPageIntact
<1>1. IInv /\ RunInv => CurrentPageIntact
  <2> SUFFICES ASSUME IInv, OwnPages, NEW p \in Pids, pcb[p].live,
                      ~Finished(p), Tagged(p)
               PROVE  HoldsPage(frames[FrameOf(p)], pcb[p].file, PageOf(p))
    BY DEF RunInv, CurrentPageIntact, HoldsPage
  <2> QED  BY FetchedIsOwn
<1> QED  BY <1>1, RunInvariant, PTL

\* A process started by `run` runs the lines of its script in order, each
\* once, whatever earlier commands left in the frames.
THEOREM RunRunsItsScript ==
  ASSUME NumFrames >= 2, PlainRuns
  PROVE  Spec => RunKeepsToScript
<1>1. IInv /\ RunInv /\ [Next]_vars
      => [policy = "FCFS" => \A p \in Pids : OwnLine(p)]_vars
  BY OwnLineRun DEF RunInv
<1> QED  BY <1>1, RunInvariant, PTL DEF Spec, RunKeepsToScript

=============================================================================
