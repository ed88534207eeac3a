-------------------------- MODULE PageKernelProofs --------------------------
(***************************************************************************)
(* What holds of the third kernel for all scripts, one-liners and sizes of *)
(* the memory: types, the owners of the pages in LRU_CACHE, and variables  *)
(* that are kept in one slot each.                                         *)
(***************************************************************************)
EXTENDS PageKernel, FiniteSetTheorems, WellFoundedInduction, TLAPS

USE StoreAssumption

-----------------------------------------------------------------------------
(* The first of the slots that hold a variable.                            *)

LEMMA VarSlotsType == VarSlots \subseteq Nat /\ IsFiniteSet(VarSlots)
<1>1. VarSlots \subseteq Nat
  BY DEF VarSlots
<1>2. IsFiniteSet(VarSlots)
  BY FS_Interval DEF VarSlots
<1> QED
  BY <1>1, <1>2

\* A search along the slots that succeeds ends at one of those sought.
LEMMA MinIsMember ==
  ASSUME NEW S \in SUBSET Nat, S # {}
  PROVE  Min(S) \in S /\ \A y \in S : Min(S) <= y
<1>1. PICK x \in S : \A y \in S : ~ (<<y, x>> \in OpToRel(<, Nat))
  BY NatLessThanWellFounded, WFMin
<1>2. ASSUME NEW y \in S, y < x
      PROVE  <<y, x>> \in OpToRel(<, Nat)
  <2> y \in Nat /\ x \in Nat
    OBVIOUS
  <2> <<y, x>> \in Nat \X Nat /\ <<y, x>>[1] < <<y, x>>[2]
    BY <1>2
  <2> QED
    BY Zenon DEF OpToRel
<1>3. \A y \in S : ~(y < x)
  BY <1>1, <1>2, Zenon
<1>4. \A y \in S : x <= y
  BY <1>3
<1> QED
  BY <1>4 DEF Min

-----------------------------------------------------------------------------
(* Variables.                                                              *)

\* The invariant of the variable slots: each holds a name and a value, and no
\* name is in two of them.
OneEach(st) ==
  /\ st = [k \in VarSlots |-> [var |-> st[k].var, value |-> st[k].value]]
  /\ \A j, k \in VarSlots :
       st[j].var = st[k].var /\ st[j].var # NoVar => j = k

\* set writes the slot that has the name or, when none has it, a free one; a
\* lookup that stopped at the first free slot would double the name.
LEMMA SetKeepsOneEach ==
  ASSUME NEW c, OneEach(store)
  PROVE  OneEach(StoreAfter(c))
<1> USE DEF OneEach, FreeVar
<1>1. CASE c.op = "resetmem"
  BY <1>1 DEF StoreAfter
<1>2. CASE c.op = "set" /\ Holding(c.var) # {}
  <2> DEFINE at == Min(Holding(c.var))
  <2>1. at \in VarSlots /\ store[at].var = c.var
    BY <1>2, MinIsMember, VarSlotsType DEF Holding
  <2>2. StoreAfter(c) = [store EXCEPT ![at].value = c.value]
    BY <1>2 DEF StoreAfter
  <2> HIDE DEF at
  <2>3. \A k \in VarSlots : StoreAfter(c)[k].var = store[k].var
    BY <2>1, <2>2
  <2> QED
    BY <2>1, <2>2, <2>3
<1>3. CASE c.op = "set" /\ Holding(c.var) = {} /\ Holding(NoVar) # {}
  <2> DEFINE at == Min(Holding(NoVar))
  <2>1. at \in VarSlots /\ store[at].var = NoVar
    BY <1>3, MinIsMember, VarSlotsType DEF Holding
  <2>2. StoreAfter(c) =
          [store EXCEPT ![at] = [var |-> c.var, value |-> c.value]]
    BY <1>3 DEF StoreAfter
  <2>3. \A k \in VarSlots : store[k].var # c.var
    BY <1>3 DEF Holding
  <2> HIDE DEF at
  <2> QED
    BY <2>1, <2>2, <2>3
<1>4. CASE ~ \/ c.op = "resetmem"
             \/ c.op = "set" /\ (Holding(c.var) # {} \/ Holding(NoVar) # {})
  BY <1>4 DEF StoreAfter
<1> QED
  BY <1>1, <1>2, <1>3, <1>4

\* clear_frame makes holes among the variables, and no name appears anew.
LEMMA ClearKeepsOneEach ==
  ASSUME OneEach(store), FreesAll
  PROVE  OneEach(store')
<1>1. store' = [k \in VarSlots |-> IF k \in Cleared THEN FreeVar ELSE store[k]]
  BY DEF FreesAll
<1> HIDE DEF Cleared
<1> QED
  BY <1>1 DEF OneEach, FreeVar

LEMMA NextOneEach == OneEach(store) /\ [Next]_vars => OneEach(store)'
<1> SUFFICES ASSUME OneEach(store), [Next]_vars
             PROVE  OneEach(store')
  OBVIOUS
<1>1. CASE PromptCommand
  BY <1>1, SetKeepsOneEach DEF PromptCommand
<1>2. CASE RunLine
  BY <1>2, SetKeepsOneEach DEF RunLine
<1>3. CASE Done
  BY <1>3, ClearKeepsOneEach DEF Done
<1>4. CASE PromptQuit \/ PromptExec \/ EndOfInput \/ StartScheduler \/ Pop
  BY <1>4 DEF PromptQuit, PromptExec, EndOfInput, StartScheduler, Pop
<1>5. CASE NewProc \/ NewProcDies \/ \E line \in Typed : Type(line)
  BY <1>5 DEF NewProc, NewProcDies, Type
<1>6. CASE Fault \/ RunLineThenFault \/ RunExec
  BY <1>6 DEF Fault, RunLineThenFault, RunExec
<1>7. CASE UNCHANGED vars
  BY <1>7 DEF vars
<1> QED
  BY <1>1, <1>2, <1>3, <1>4, <1>5, <1>6, <1>7 DEF Next, Step

\* OneEach, in the words of the property.
LEMMA OneEachMeans == OneEach(store) => OneSlotPerVariable
<1> SUFFICES ASSUME OneEach(store), NEW v \in Vars \ {NoVar}
             PROVE  Cardinality(Holding(v)) <= 1
  BY DEF OneSlotPerVariable
<1>1. CASE Holding(v) = {}
  BY <1>1, FS_EmptySet
<1>2. CASE Holding(v) # {}
  <2>1. PICK k : k \in Holding(v)
    BY <1>2
  <2>2. \A j \in Holding(v) : j = k
    BY <2>1 DEF Holding, OneEach
  <2>3. Holding(v) = {k}
    BY <2>1, <2>2
  <2>4. Cardinality({k}) = 1
    BY FS_Singleton, Zenon
  <2> QED
    BY <2>3, <2>4
<1> QED
  BY <1>1, <1>2

\* A variable is kept in one slot at most, whatever scripts are run, faults
\* and nested exec included, and however large the memory is.
THEOREM VariablesStoredOnce == Spec => []OneSlotPerVariable
<1>1. Init => OneEach(store)
  BY DEF Init, OneEach, FreeVar
<1>2. QED
  BY <1>1, NextOneEach, OneEachMeans, PTL DEF Spec

-----------------------------------------------------------------------------
(* Processes.                                                              *)

\* The counter of page i after n lines.
Counter(n, i) == IF n >= PageSize * (i + 1) THEN PageSize
                 ELSE IF n <= PageSize * i THEN 0
                 ELSE n - PageSize * i

PCBs(s) == [script : {s}, size : 0 .. CountLines(s), pos : 0 .. Len(Lines[s]),
            page_table : [0 .. PageTableSize(CountLines(s)) - 1 -> PageEntries]]

\* A PCB in use.  Without the equation on counters, nothing would say that a
\* process with lines left has a page to run.
Process(b) ==
  /\ b.script \in Scripts
  /\ b \in PCBs(b.script)
  /\ \A i \in DOMAIN b.page_table :
       /\ b.page_table[i].program_counter =
            Counter(CountLines(b.script) - b.size, i)
       /\ \A j \in Offsets : b.page_table[i].valid_bit[j]
                               => b.page_table[i].index[j] \in FrameSlots

\* A script is never counted as empty, and its lines fit the page table.
LEMMA CountLinesType ==
  ASSUME NEW s \in Scripts
  PROVE  /\ CountLines(s) \in Nat /\ CountLines(s) >= 1
         /\ PageTableSize(CountLines(s)) \in Nat
         /\ PageTableSize(CountLines(s)) >= 1
         /\ CountLines(s) > PageSize => PageTableSize(CountLines(s)) >= 2
         /\ CountLines(s) <= PageSize * PageTableSize(CountLines(s))
<1>1. Lines[s] \in Seq(Commands)
  BY ScriptAssumption
<1>2. IsFiniteSet(DOMAIN Lines[s])
  <2>1. DOMAIN Lines[s] = 1 .. Len(Lines[s]) /\ Len(Lines[s]) \in Nat
    BY <1>1
  <2> QED
    BY <2>1, FS_Interval
<1>3. CountLines(s) \in Nat /\ CountLines(s) >= 1
  <2> DEFINE L == {i \in DOMAIN Lines[s] :
                     /\ Lines[s][i].op # "blank"
                     /\ i < Len(Lines[s]) \/ s \in Terminated}
  <2>1. Cardinality(L) \in Nat
    BY <1>2, FS_Subset, FS_CardinalityType
  <2>2. CountLines(s) = 1 + Cardinality(L)
    BY DEF CountLines
  <2> QED
    BY <2>1, <2>2
<1> DEFINE n == CountLines(s)
<1>4. PageTableSize(n) = (n + 2) \div 3
  BY <1>3 DEF PageTableSize, PageSize
<1> HIDE DEF n
<1> QED
  BY <1>3, <1>4 DEF n, PageSize

\* The search for the page to run succeeds as long as a line is left.
LEMMA CurrentPageType ==
  ASSUME NEW b, Process(b), b.size > 0
  PROVE  /\ CurrentPage(b) \in DOMAIN b.page_table
         /\ CurrentPage(b) \in Nat
         /\ PageSize * CurrentPage(b) <= CountLines(b.script) - b.size
         /\ CountLines(b.script) - b.size < PageSize * (CurrentPage(b) + 1)
<1> DEFINE n == CountLines(b.script)
           pages == PageTableSize(n)
           run == n - b.size
           open == {i \in DOMAIN b.page_table :
                      b.page_table[i].program_counter # PageSize}
<1>1. n \in Nat /\ pages \in Nat /\ pages >= 1 /\ n <= PageSize * pages
  BY CountLinesType DEF Process
<1>2. b.size \in 0 .. n /\ DOMAIN b.page_table = 0 .. pages - 1
  BY DEF Process, PCBs
<1>3. \A i \in 0 .. pages - 1 : b.page_table[i].program_counter = Counter(run, i)
  BY <1>2 DEF Process
<1> HIDE DEF n, pages
<1>4. run \in Nat /\ run < PageSize * pages
  BY <1>1, <1>2 DEF PageSize
<1> HIDE DEF run
<1>5. \A i \in 0 .. pages - 1 : i \in open <=> run < PageSize * (i + 1)
  BY <1>2, <1>3, <1>4 DEF Counter, PageSize
<1>6. pages - 1 \in open
  BY <1>1, <1>4, <1>5 DEF PageSize
<1>7. open \subseteq 0 .. pages - 1
  BY <1>2
<1> HIDE DEF open
<1> DEFINE c == Min(open)
<1>8. c \in open /\ \A i \in open : c <= i
  BY <1>6, <1>7, MinIsMember
<1> HIDE DEF c
<1>9. PageSize * c <= run
  <2>1. CASE c = 0
    BY <2>1, <1>4 DEF PageSize
  <2>2. CASE c # 0
    <3>1. c - 1 \in 0 .. pages - 1 /\ c - 1 \notin open /\ c \in Nat
      BY <2>2, <1>1, <1>7, <1>8
    <3> QED
      BY <3>1, <1>4, <1>5 DEF PageSize
  <2> QED
    BY <2>1, <2>2
<1>10. CurrentPage(b) = c
  BY DEF CurrentPage, c, open
<1> QED
  BY <1>2, <1>5, <1>7, <1>8, <1>9, <1>10 DEF n, run

-----------------------------------------------------------------------------
(* The memory of the processes.                                            *)

\* A line in memory: a place in a script that exists.
LineIds == {NoLine} \cup UNION {{s} \X (0 .. Len(Lines[s]) - 1) : s \in Scripts}

\* Slots and PCBs when the processes of ALL_PCB are those of A.
MemoryOK(m, A) ==
  /\ m.slots \in [FrameSlots -> [var : Pids \cup {None}, line : LineIds]]
  /\ m.pcb = [p \in Pids |-> m.pcb[p]]
  /\ \A p \in Pids : IF p \in A THEN Process(m.pcb[p]) ELSE m.pcb[p] = NoPCB

\* Memories with the same processes, sizes and page tables' sizes.
SameTables(m, n, A) ==
  \A p \in A : /\ n.pcb[p].script = m.pcb[p].script
               /\ n.pcb[p].size = m.pcb[p].size
               /\ DOMAIN n.pcb[p].page_table = DOMAIN m.pcb[p].page_table

\* The pages of a memory whose first line is valid.
Valid(m, A) == {pg \in [pid : A, i : Nat] :
                  /\ pg.i \in DOMAIN m.pcb[pg.pid].page_table
                  /\ m.pcb[pg.pid].page_table[pg.i].valid_bit[0]}

LEMMA OffsetsAre == Offsets = {0, 1, 2} /\ 0 \in Offsets
BY DEF Offsets, PageSize

\* load_PAGE reads no line past the end of the file.
LEMMA GotType ==
  ASSUME NEW b, Process(b)
  PROVE  /\ Got(b) \in 0 .. PageSize
         /\ b.pos + Got(b) \in 0 .. Len(Lines[b.script])
         /\ \A j \in Offsets : j < Got(b) => LineRead(b, j) \in LineIds
<1> DEFINE len == Len(Lines[b.script])
<1>1. len \in Nat /\ b.pos \in 0 .. len /\ b.script \in Scripts
  BY ScriptAssumption DEF Process, PCBs
<1> HIDE DEF len
<1>2. {PageSize, len - b.pos} \in SUBSET Nat
  BY <1>1 DEF PageSize
<1>3. /\ Got(b) \in {PageSize, len - b.pos}
      /\ \A y \in {PageSize, len - b.pos} : Got(b) <= y
  BY <1>2, MinIsMember DEF Got, len
<1>4. Got(b) \in 0 .. PageSize /\ b.pos + Got(b) \in 0 .. len
  BY <1>1, <1>3 DEF PageSize
<1>5. ASSUME NEW j \in Offsets, j < Got(b)
      PROVE  LineRead(b, j) \in LineIds
  <2>1. b.pos + j \in 0 .. len - 1
    BY <1>1, <1>4, <1>5 DEF Offsets, PageSize
  <2> QED
    BY <2>1, <1>1 DEF LineRead, LineIds, len
<1> QED
  BY <1>4, <1>5 DEF len

\* frame_alloc finds three slots of the frame store, or nothing.
LEMMA FrameForType ==
  ASSUME NEW m, NEW at \in FrameFor(m)
  PROVE  /\ at \in FrameSlots /\ at \in Nat
         /\ \A j \in Offsets : at + j \in FrameSlots
         /\ FrameSize > 0
<1>1. Room(m) # {} /\ at = Min(Room(m))
  BY DEF FrameFor
<1>2. Room(m) \subseteq FrameSlots /\ FrameSlots \subseteq Nat
  BY DEF Room, FrameSlots
<1>3. at \in Room(m)
  BY <1>1, <1>2, MinIsMember
<1>4. \A k \in at .. at + PageSize - 1 : k \in FrameSlots
  BY <1>3 DEF Room
<1>5. at \in Nat /\ at \in FrameSlots
  BY <1>2, <1>3
<1> QED
  BY <1>4, <1>5 DEF Offsets, PageSize, FrameSlots

\* A page that is loaded gets slots of the frame store, and lines that exist.
LEMMA LoadsKeeps ==
  ASSUME NEW m, NEW A \in SUBSET Pids, NEW p \in A, MemoryOK(m, A),
         NEW i \in DOMAIN m.pcb[p].page_table, NEW n \in Loads(m, p, i)
  PROVE  /\ MemoryOK(n, A)
         /\ SameTables(m, n, A)
         /\ Valid(n, A) \subseteq Valid(m, A) \cup {[pid |-> p, i |-> i]}
         /\ FrameSize > 0
<1> DEFINE b == m.pcb[p]
           got == Got(b)
<1>1. PICK at \in FrameFor(m) : n = LoadedAt(m, p, i, at)
  BY DEF Loads
<1>2. /\ at \in FrameSlots /\ at \in Nat
      /\ \A j \in Offsets : at + j \in FrameSlots
      /\ FrameSize > 0
  BY FrameForType
<1>3. Process(b)
  BY DEF MemoryOK
<1>4. /\ got \in 0 .. PageSize
      /\ b.pos + got \in 0 .. Len(Lines[b.script])
      /\ \A j \in Offsets : j < got => LineRead(b, j) \in LineIds
  BY <1>3, GotType
<1> DEFINE page == [b.page_table[i] EXCEPT
                      !.index = [j \in Offsets |-> at + j],
                      !.valid_bit = [j \in Offsets |-> j < got]]
<1>5. n.pcb = [m.pcb EXCEPT ![p].pos = @ + got, ![p].page_table[i] = page]
  BY <1>1 DEF LoadedAt
<1>6. n.slots = [k \in FrameSlots |->
                   CASE k - at \notin Offsets -> m.slots[k]
                     [] k - at \in 0 .. got - 1 -> [var |-> p, line |-> LineRead(b, k - at)]
                     [] OTHER -> [m.slots[k] EXCEPT !.var = p]]
  BY <1>1 DEF LoadedAt
<1> HIDE DEF got
<1>7. n.slots \in [FrameSlots -> [var : Pids \cup {None}, line : LineIds]]
  <2>1. ASSUME NEW k \in FrameSlots
        PROVE  n.slots[k] \in [var : Pids \cup {None}, line : LineIds]
    <3>1. m.slots[k] \in [var : Pids \cup {None}, line : LineIds]
      BY DEF MemoryOK
    <3>2. CASE k - at \notin Offsets
      <4>1. n.slots[k] = m.slots[k]
        BY <1>4, <1>6, <3>2 DEF Offsets, PageSize
      <4> QED
        BY <3>1, <4>1
    <3>3. CASE k - at \in 0 .. got - 1
      <4>1. k - at \in Offsets /\ k - at < got
        BY <1>4, <3>3 DEF Offsets, PageSize
      <4>2. LineRead(b, k - at) \in LineIds
        BY <1>4, <4>1
      <4>3. n.slots[k] = [var |-> p, line |-> LineRead(b, k - at)]
        BY <1>6, <3>3, <4>1
      <4> QED
        BY <4>2, <4>3
    <3>4. CASE k - at \in Offsets /\ k - at \notin 0 .. got - 1
      <4>1. n.slots[k] = [m.slots[k] EXCEPT !.var = p]
        BY <1>6, <3>4
      <4> QED
        BY <3>1, <4>1
    <3> QED
      BY <3>2, <3>3, <3>4
  <2> QED
    BY <2>1, <1>6
<1>8. /\ b \in PCBs(b.script) /\ b.script \in Scripts
      /\ b.page_table[i] \in PageEntries
  BY <1>3 DEF Process, PCBs
<1>9. /\ page \in PageEntries
      /\ page.program_counter = b.page_table[i].program_counter
      /\ \A j \in Offsets : page.index[j] \in FrameSlots
  <2>1. [j \in Offsets |-> at + j] \in [Offsets -> FrameSlots \cup {Unloaded}]
    BY <1>2
  <2>2. [j \in Offsets |-> j < got] \in [Offsets -> BOOLEAN]
    OBVIOUS
  <2> QED
    BY <2>1, <2>2, <1>2, <1>8 DEF PageEntries
<1> HIDE DEF page
<1> DEFINE c == n.pcb[p]
<1>10. c = [b EXCEPT !.pos = b.pos + got,
                     !.page_table = [b.page_table EXCEPT ![i] = page]]
  BY <1>5 DEF MemoryOK, Process, PCBs
<1>11. \A q \in Pids : q # p => n.pcb[q] = m.pcb[q]
  BY <1>5 DEF MemoryOK
<1>12. n.pcb = [q \in Pids |-> n.pcb[q]]
  BY <1>5 DEF MemoryOK
<1> HIDE DEF c, b
<1>13. /\ c \in PCBs(b.script)
       /\ c.script = b.script /\ c.size = b.size
       /\ c.page_table = [b.page_table EXCEPT ![i] = page]
  BY <1>4, <1>8, <1>9, <1>10 DEF PCBs
<1>14. DOMAIN c.page_table = DOMAIN b.page_table
  BY <1>13
<1>15. \A k \in DOMAIN b.page_table :
         c.page_table[k] = IF k = i THEN page ELSE b.page_table[k]
  BY <1>8, <1>13 DEF PCBs
<1>16. Process(c)
  <2>1. c.script \in Scripts /\ c \in PCBs(c.script)
    BY <1>3, <1>13 DEF Process, b
  <2>2. ASSUME NEW k \in DOMAIN c.page_table
        PROVE  /\ c.page_table[k].program_counter =
                    Counter(CountLines(c.script) - c.size, k)
               /\ \A j \in Offsets : c.page_table[k].valid_bit[j]
                    => c.page_table[k].index[j] \in FrameSlots
    <3>1. /\ b.page_table[k].program_counter =
               Counter(CountLines(b.script) - b.size, k)
          /\ \A j \in Offsets : b.page_table[k].valid_bit[j]
               => b.page_table[k].index[j] \in FrameSlots
      BY <1>3, <1>14, <2>2 DEF Process, b
    <3>2. CASE k = i
      BY <1>9, <1>13, <1>14, <1>15, <2>2, <3>1, <3>2
    <3>3. CASE k # i
      BY <1>13, <1>14, <1>15, <2>2, <3>1, <3>3
    <3> QED  BY <3>2, <3>3
  <2> QED  BY <2>1, <2>2 DEF Process
<1>17. MemoryOK(n, A)
  BY <1>7, <1>11, <1>12, <1>16 DEF MemoryOK, c
<1>18. SameTables(m, n, A)
  BY <1>11, <1>13, <1>14 DEF SameTables, b, c, MemoryOK
<1>19. ASSUME NEW pg \in Valid(n, A), pg # [pid |-> p, i |-> i]
       PROVE  pg \in Valid(m, A)
  <2>1. pg \in [pid : A, i : Nat]
    BY DEF Valid
  <2>2. CASE pg.pid # p
    BY <1>11, <2>1, <2>2 DEF Valid
  <2>3. CASE pg.pid = p
    <3>1. pg.i # i
      BY <1>19, <2>1, <2>3
    <3>2. pg.i \in DOMAIN c.page_table /\ c.page_table[pg.i].valid_bit[0]
      BY <2>3 DEF Valid, c
    <3>3. pg.i \in DOMAIN b.page_table /\ b.page_table[pg.i].valid_bit[0]
      BY <1>14, <1>15, <3>1, <3>2
    <3> QED
      BY <2>1, <2>3, <3>3 DEF Valid, b
  <2> QED
    BY <2>2, <2>3
<1> QED
  BY <1>2, <1>17, <1>18, <1>19

\* PAGE_evict leaves a page with no valid line, and all others as they were.
LEMMA EvictedKeeps ==
  ASSUME NEW m, NEW A \in SUBSET Pids, NEW pg \in [pid : A, i : Nat],
         pg.i \in DOMAIN m.pcb[pg.pid].page_table,
         MemoryOK(m, A), FrameSize > 0
  PROVE  /\ MemoryOK(Evicted(m, pg), A)
         /\ SameTables(m, Evicted(m, pg), A)
         /\ Valid(Evicted(m, pg), A) \subseteq Valid(m, A) \ {pg}
<1> DEFINE p == pg.pid
           i == pg.i
           n == Evicted(m, pg)
           b == m.pcb[p]
           c == n.pcb[p]
           page == [b.page_table[i] EXCEPT
                      !.index = [j \in Offsets |-> 0],
                      !.valid_bit = [j \in Offsets |-> FALSE]]
<1>1. p \in A /\ p \in Pids /\ i \in DOMAIN b.page_table
  OBVIOUS
<1>2. n.pcb = [m.pcb EXCEPT ![p].page_table[i] = page]
  BY DEF Evicted
<1>3. \A k \in FrameSlots : n.slots[k] \in {FreeSlot, m.slots[k]}
  BY DEF Evicted
<1>4. n.slots = [k \in FrameSlots |-> n.slots[k]]
  BY DEF Evicted
<1> HIDE DEF n
<1>5. n.slots \in [FrameSlots -> [var : Pids \cup {None}, line : LineIds]]
  <2>1. ASSUME NEW k \in FrameSlots
        PROVE  n.slots[k] \in [var : Pids \cup {None}, line : LineIds]
    <3>1. m.slots[k] \in [var : Pids \cup {None}, line : LineIds]
      BY DEF MemoryOK
    <3>2. FreeSlot \in [var : Pids \cup {None}, line : LineIds]
      BY DEF FreeSlot, LineIds
    <3> QED
      BY <1>3, <3>1, <3>2
  <2> QED
    BY <1>4, <2>1
<1>6. Process(b)
  BY <1>1 DEF MemoryOK
<1>7. /\ b \in PCBs(b.script) /\ b.script \in Scripts
      /\ b.page_table[i] \in PageEntries
  BY <1>1, <1>6 DEF Process, PCBs
<1>8. /\ page \in PageEntries
      /\ page.program_counter = b.page_table[i].program_counter
      /\ \A j \in Offsets : ~page.valid_bit[j]
  <2>1. 0 \in FrameSlots
    BY DEF FrameSlots
  <2>2. [j \in Offsets |-> 0] \in [Offsets -> FrameSlots \cup {Unloaded}]
    BY <2>1
  <2>3. [j \in Offsets |-> FALSE] \in [Offsets -> BOOLEAN]
    OBVIOUS
  <2> QED
    BY <2>2, <2>3, <1>7 DEF PageEntries
<1> HIDE DEF page
<1>9. c = [b EXCEPT !.page_table = [b.page_table EXCEPT ![i] = page]]
  BY <1>1, <1>2 DEF MemoryOK, Process, PCBs
<1>10. \A q \in Pids : q # p => n.pcb[q] = m.pcb[q]
  BY <1>2 DEF MemoryOK
<1>11. n.pcb = [q \in Pids |-> n.pcb[q]]
  BY <1>2 DEF MemoryOK
<1> HIDE DEF c, b
<1>12. /\ c \in PCBs(b.script)
       /\ c.script = b.script /\ c.size = b.size
       /\ c.page_table = [b.page_table EXCEPT ![i] = page]
  BY <1>7, <1>8, <1>9 DEF PCBs
<1>13. DOMAIN c.page_table = DOMAIN b.page_table
  BY <1>12
<1>14. \A k \in DOMAIN b.page_table :
         c.page_table[k] = IF k = i THEN page ELSE b.page_table[k]
  BY <1>7, <1>12 DEF PCBs
<1>15. Process(c)
  BY <1>6, <1>7, <1>8, <1>12, <1>13, <1>14 DEF Process
<1>16. MemoryOK(n, A)
  BY <1>5, <1>10, <1>11, <1>15 DEF MemoryOK, c
<1>17. SameTables(m, n, A)
  BY <1>10, <1>12, <1>13 DEF SameTables, b, c
<1>18. ASSUME NEW q \in Valid(n, A)
       PROVE  q \in Valid(m, A) /\ q # pg
  <2>1. q \in [pid : A, i : Nat]
    BY DEF Valid
  <2>2. CASE q.pid # p
    BY <1>10, <2>1, <2>2 DEF Valid
  <2>3. CASE q.pid = p
    <3>1. q.i \in DOMAIN c.page_table /\ c.page_table[q.i].valid_bit[0]
      BY <2>3 DEF Valid, c
    <3>2. q.i # i
      BY <1>8, <1>13, <1>14, <3>1, OffsetsAre
    <3>3. q.i \in DOMAIN b.page_table /\ b.page_table[q.i].valid_bit[0]
      BY <1>13, <1>14, <3>1, <3>2
    <3> QED
      BY <2>1, <2>3, <3>2, <3>3 DEF Valid, b
  <2> QED
    BY <2>2, <2>3
<1> QED
  BY <1>16, <1>17, <1>18 DEF n

-----------------------------------------------------------------------------
(* Lists: ALL_PCB, QUEUE and LRU_CACHE.                                    *)

LEMMA AddedLast ==
  ASSUME NEW S, NEW q \in Seq(S), NEW x \in S
  PROVE  Append(q, x) \in Seq(S) /\ Range(Append(q, x)) = Range(q) \cup {x}
<1> DEFINE r == Append(q, x)
<1>1. /\ r \in Seq(S) /\ DOMAIN r = 1 .. Len(q) + 1
      /\ \A k \in 1 .. Len(q) : r[k] = q[k]
      /\ r[Len(q) + 1] = x
      /\ Len(q) \in Nat /\ DOMAIN q = 1 .. Len(q)
  OBVIOUS
<1> HIDE DEF r
<1>2. Range(r) = Range(q) \cup {x}
  BY <1>1 DEF Range
<1> QED
  BY <1>1, <1>2 DEF r

LEMMA AddedFirst ==
  ASSUME NEW S, NEW q \in Seq(S), NEW x \in S
  PROVE  /\ <<x>> \o q \in Seq(S) /\ <<x>> \o q # <<>>
         /\ Range(<<x>> \o q) = Range(q) \cup {x}
<1> DEFINE r == <<x>> \o q
           n == Len(q)
<1>1. n \in Nat /\ DOMAIN q = 1 .. n
  OBVIOUS
<1>2. /\ r \in Seq(S) /\ DOMAIN r = 1 .. n + 1 /\ r # <<>>
      /\ r[1] = x
      /\ \A k \in 2 .. n + 1 : r[k] = q[k - 1]
  OBVIOUS
<1> HIDE DEF r, n
<1>3. ASSUME NEW y \in Range(q)
      PROVE  y \in Range(r)
  <2>1. PICK k \in 1 .. n : y = q[k]
    BY <1>1 DEF Range
  <2>2. k + 1 \in 2 .. n + 1 /\ (k + 1) - 1 = k
    BY <1>1
  <2>3. y = r[k + 1] /\ k + 1 \in DOMAIN r
    BY <1>1, <1>2, <2>1, <2>2
  <2> QED
    BY <2>3 DEF Range
<1>4. x \in Range(r)
  <2>1. 1 \in DOMAIN r
    BY <1>1, <1>2
  <2> QED
    BY <1>2, <2>1 DEF Range
<1>5. ASSUME NEW y \in Range(r)
      PROVE  y \in Range(q) \cup {x}
  <2>1. PICK k \in 1 .. n + 1 : y = r[k]
    BY <1>2 DEF Range
  <2>2. CASE k = 1
    BY <1>2, <2>1, <2>2
  <2>3. CASE k # 1
    <3>1. k \in 2 .. n + 1 /\ k - 1 \in 1 .. n
      BY <1>1, <2>3
    <3> QED
      BY <1>1, <1>2, <2>1, <3>1 DEF Range
  <2> QED
    BY <2>2, <2>3
<1> QED
  BY <1>2, <1>3, <1>4, <1>5 DEF r

LEMMA HeadAndTail ==
  ASSUME NEW S, NEW q \in Seq(S), q # <<>>
  PROVE  /\ Head(q) \in Range(q) /\ Head(q) \in S
         /\ Tail(q) \in Seq(S) /\ Range(Tail(q)) \subseteq Range(q)
<1> DEFINE r == Tail(q)
<1>1. /\ r \in Seq(S) /\ DOMAIN r = 1 .. Len(q) - 1
      /\ \A k \in 1 .. Len(q) - 1 : r[k] = q[k + 1]
      /\ Len(q) \in Nat \ {0} /\ DOMAIN q = 1 .. Len(q)
      /\ Head(q) = q[1] /\ q[1] \in S
  OBVIOUS
<1> HIDE DEF r
<1>2. Head(q) \in Range(q)
  <2>1. 1 \in DOMAIN q
    BY <1>1
  <2> QED
    BY <1>1, <2>1 DEF Range
<1>3. ASSUME NEW y \in Range(r)
      PROVE  y \in Range(q)
  <2>1. PICK k \in 1 .. Len(q) - 1 : y = r[k]
    BY <1>1 DEF Range
  <2>2. k + 1 \in DOMAIN q /\ y = q[k + 1]
    BY <1>1, <2>1
  <2> QED
    BY <2>2 DEF Range
<1> QED
  BY <1>1, <1>2, <1>3 DEF r

\* pop_tail takes one page; the others stay.
LEMMA LastAndFront ==
  ASSUME NEW S, NEW q \in Seq(S), q # <<>>
  PROVE  /\ Last(q) \in Range(q)
         /\ Front(q) \in Seq(S)
         /\ Range(Front(q)) \subseteq Range(q)
         /\ Range(q) \subseteq Range(Front(q)) \cup {Last(q)}
<1> DEFINE r == Front(q)
           n == Len(q)
<1>1. n \in Nat \ {0} /\ DOMAIN q = 1 .. n /\ \A k \in 1 .. n : q[k] \in S
  OBVIOUS
<1>2. /\ r \in Seq(S) /\ DOMAIN r = 1 .. n - 1
      /\ \A k \in 1 .. n - 1 : r[k] = q[k]
  BY <1>1 DEF Front
<1>3. Last(q) = q[n]
  BY DEF Last
<1> HIDE DEF r, n
<1>4. n \in DOMAIN q /\ \A k \in 1 .. n - 1 : k \in DOMAIN q
  BY <1>1
<1>5. ASSUME NEW y \in Range(q), y # q[n]
      PROVE  y \in Range(r)
  <2>1. PICK k \in 1 .. n : y = q[k]
    BY <1>1 DEF Range
  <2>2. k \in 1 .. n - 1
    BY <1>1, <1>5, <2>1
  <2> QED
    BY <1>2, <2>1, <2>2 DEF Range
<1>6. Range(r) \subseteq Range(q) /\ q[n] \in Range(q)
  BY <1>2, <1>4 DEF Range
<1> QED
  BY <1>2, <1>3, <1>5, <1>6 DEF r

\* remove_elem and append_head keep the pages that are listed.
LEMMA MovedToFront ==
  ASSUME NEW S, NEW q \in Seq(S), NEW k \in DOMAIN q
  PROVE  /\ <<q[k]>> \o RemoveAt(q, k) \in Seq(S)
         /\ <<q[k]>> \o RemoveAt(q, k) # <<>>
         /\ Range(<<q[k]>> \o RemoveAt(q, k)) = Range(q)
<1> DEFINE n == Len(q)
           r == RemoveAt(q, k)
<1>1. n \in Nat /\ DOMAIN q = 1 .. n /\ k \in 1 .. n /\ q[k] \in S
  OBVIOUS
<1> DEFINE u == SubSeq(q, 1, k - 1)
           v == SubSeq(q, k + 1, n)
<1>2. /\ u \in Seq(S) /\ Len(u) = k - 1
      /\ \A j \in 1 .. k - 1 : u[j] = q[j]
  BY <1>1
<1>3. /\ v \in Seq(S) /\ Len(v) = n - k
      /\ \A j \in 1 .. n - k : v[j] = q[j + k]
  BY <1>1
<1>4. r = u \o v
  BY DEF RemoveAt
<1> HIDE DEF n, r, u, v
<1>5. /\ r \in Seq(S) /\ DOMAIN r = 1 .. n - 1
      /\ \A j \in 1 .. k - 1 : r[j] = q[j]
      /\ \A j \in k .. n - 1 : r[j] = q[j + 1]
  <2>1. r \in Seq(S) /\ Len(r) = n - 1
    <3> u \in Seq(S) /\ v \in Seq(S)
      BY <1>2, <1>3
    <3>1. u \o v \in Seq(S) /\ Len(u \o v) = Len(u) + Len(v)
      OBVIOUS
    <3>2. Len(u) + Len(v) = n - 1
      BY <1>1, <1>2, <1>3
    <3> QED
      BY <1>4, <3>1, <3>2
  <2>2. \A j \in 1 .. k - 1 : r[j] = u[j]
    BY <1>1, <1>2, <1>3, <1>4
  <2>3. ASSUME NEW j \in k .. n - 1
        PROVE  r[j] = q[j + 1]
    <3>1. r[j] = v[j - (k - 1)]
      BY <1>1, <1>2, <1>3, <1>4
    <3>2. j - (k - 1) \in 1 .. n - k /\ (j - (k - 1)) + k = j + 1
      BY <1>1
    <3> QED
      BY <1>3, <3>1, <3>2
  <2> QED
    BY <1>2, <2>1, <2>2, <2>3
<1>6. ASSUME NEW y \in Range(q), y # q[k]
      PROVE  y \in Range(r)
  <2>1. PICK j \in 1 .. n : y = q[j]
    BY <1>1 DEF Range
  <2>2. CASE j < k
    <3>1. j \in 1 .. k - 1 /\ j \in DOMAIN r
      BY <1>1, <1>5, <2>2
    <3> QED
      BY <1>5, <2>1, <3>1 DEF Range
  <2>3. CASE j > k
    <3>1. j - 1 \in k .. n - 1 /\ (j - 1) + 1 = j /\ j - 1 \in DOMAIN r
      BY <1>1, <1>5, <2>3
    <3>2. r[j - 1] = q[j]
      BY <1>5, <3>1
    <3> QED
      BY <2>1, <3>1, <3>2 DEF Range
  <2> QED
    BY <1>1, <1>6, <2>1, <2>2, <2>3
<1>7. ASSUME NEW y \in Range(r)
      PROVE  y \in Range(q)
  <2>1. PICK j \in 1 .. n - 1 : y = r[j]
    BY <1>5 DEF Range
  <2>2. y = q[j] \/ y = q[j + 1]
    BY <1>1, <1>5, <2>1
  <2>3. j \in DOMAIN q /\ j + 1 \in DOMAIN q
    BY <1>1
  <2> QED
    BY <2>2, <2>3 DEF Range
<1>8. q[k] \in Range(q)
  BY DEF Range
<1>9. /\ <<q[k]>> \o r \in Seq(S) /\ <<q[k]>> \o r # <<>>
      /\ Range(<<q[k]>> \o r) = Range(r) \cup {q[k]}
  BY <1>1, <1>5, AddedFirst
<1> QED
  BY <1>6, <1>7, <1>8, <1>9 DEF r

-----------------------------------------------------------------------------
(* Commands.                                                               *)

StoreType == [VarSlots -> [var : Vars \cup {NoVar}, value : Nat]]

LEMMA SetKeepsType ==
  ASSUME NEW c \in Commands, store \in StoreType
  PROVE  StoreAfter(c) \in StoreType
<1>1. c.op = "set" => c.var \in Vars /\ c.value \in Nat
  BY DEF Commands
<1>2. CASE c.op = "resetmem"
  <2>1. StoreAfter(c) = [k \in VarSlots |-> FreeVar]
    BY <1>2 DEF StoreAfter
  <2> QED
    BY <2>1 DEF FreeVar, StoreType
<1>3. CASE c.op = "set" /\ Holding(c.var) # {}
  <2> DEFINE at == Min(Holding(c.var))
  <2>1. at \in VarSlots
    BY <1>3, MinIsMember, VarSlotsType DEF Holding
  <2>2. StoreAfter(c) = [store EXCEPT ![at].value = c.value]
    BY <1>3 DEF StoreAfter
  <2> HIDE DEF at
  <2> QED
    BY <1>1, <1>3, <2>1, <2>2 DEF StoreType
<1>4. CASE c.op = "set" /\ Holding(c.var) = {} /\ Holding(NoVar) # {}
  <2> DEFINE at == Min(Holding(NoVar))
  <2>1. at \in VarSlots
    BY <1>4, MinIsMember, VarSlotsType DEF Holding
  <2>2. StoreAfter(c) =
          [store EXCEPT ![at] = [var |-> c.var, value |-> c.value]]
    BY <1>4 DEF StoreAfter
  <2> HIDE DEF at
  <2> QED
    BY <1>1, <1>4, <2>1, <2>2 DEF StoreType
<1>5. CASE ~ \/ c.op = "resetmem"
             \/ c.op = "set" /\ (Holding(c.var) # {} \/ Holding(NoVar) # {})
  BY <1>5 DEF StoreAfter
<1> QED
  BY <1>2, <1>3, <1>4, <1>5

LEMMA HeadOfInput ==
  ASSUME input \in Seq(Commands), input # <<>>
  PROVE  Head(input) \in Commands /\ Tail(input) \in Seq(Commands)
OBVIOUS

LEMMA ExecScripts ==
  ASSUME NEW c \in Commands, c.op = "exec"
  PROVE  c.scripts \in Seq(Scripts)
BY DEF Commands

-----------------------------------------------------------------------------
(* The invariant.                                                          *)

Pages == [pid : Pids, i : Nat]

\* The pages of the page tables.
TablePages(m, A) == {pg \in [pid : A, i : Nat] :
                       pg.i \in DOMAIN m.pcb[pg.pid].page_table}

\* l is an LRU_CACHE for memory m.
ListsPages(l, m, A) == /\ l \in Seq(Pages)
                       /\ Range(l) \subseteq TablePages(m, A)
                       /\ Valid(m, A) \subseteq Range(l)

Control ==
  /\ mode \in {"prompt", "parsing", "loading", "scheduling", "running",
               "halted", "dead", "undefined"}
  /\ input \in Seq(Commands)
  /\ todo \in Seq(Scripts)
  /\ nested \in BOOLEAN
  /\ turn \in {"first", "second", "only"}
  /\ proper \in BOOLEAN
  /\ store \in StoreType

Lists ==
  /\ pid_counter \in 1 .. MaxPid + 1
  /\ all \in Seq(Pids) /\ \A p \in Range(all) : p < pid_counter
  /\ queue \in Seq(Pids) /\ Range(queue) \subseteq Range(all)
  /\ curr \in Pids \cup {None}

\* The process that runs has a line left, two at the start of a full turn.
Runs == mode = "running" =>
          /\ curr \in Range(all)
          /\ pcb[curr].size > IF turn = "first" THEN 1 ELSE 0

Holds == /\ MemoryOK(Memory, Range(all))
         /\ ListsPages(lru, Memory, Range(all))
         /\ all # <<>> => lru # <<>> /\ FrameSize > 0

IInv == Control /\ Lists /\ Runs /\ Holds

LEMMA AllArePids == Lists => Range(all) \in SUBSET Pids
BY DEF Lists, Range

\* The invariant says what the run checks.
LEMMA IInvTypeOK == IInv => TypeOK
<1> SUFFICES ASSUME IInv PROVE TypeOK
  OBVIOUS
<1> DEFINE A == Range(all)
<1>1. Control /\ Lists /\ MemoryOK(Memory, A) /\ ListsPages(lru, Memory, A)
  BY DEF IInv, Holds
<1>2. ASSUME NEW p \in Pids, pcb[p] # NoPCB
      PROVE  /\ pcb[p].script \in Scripts
             /\ pcb[p].size \in 0 .. CountLines(pcb[p].script)
             /\ pcb[p].pos \in 0 .. Len(Lines[pcb[p].script])
             /\ pcb[p].page_table
                  \in [0 .. PageTableSize(CountLines(pcb[p].script)) - 1
                         -> PageEntries]
  <2>1. Process(pcb[p])
    BY <1>1, <1>2 DEF MemoryOK, Memory
  <2> QED
    BY <2>1 DEF Process, PCBs
<1>3. \A k \in DOMAIN lru : lru[k].pid \in Pids /\ lru[k].i \in Nat
  <2>1. \A k \in DOMAIN lru : lru[k] \in Pages
    BY <1>1 DEF ListsPages
  <2> QED
    BY <2>1 DEF Pages
<1>4. \A k \in FrameSlots : slots[k].var \in Pids \cup {None}
  BY <1>1 DEF MemoryOK, Memory
<1> QED
  BY <1>1, <1>2, <1>3, <1>4 DEF TypeOK, Control, Lists, StoreType

LEMMA IInvVictim == IInv => VictimHasPCB
<1> SUFFICES ASSUME IInv PROVE VictimHasPCB
  OBVIOUS
<1> DEFINE A == Range(all)
<1>1. Lists /\ Runs /\ MemoryOK(Memory, A) /\ ListsPages(lru, Memory, A)
  BY DEF IInv, Holds
<1>2. ASSUME NEW k \in DOMAIN lru
      PROVE  /\ lru[k].pid \in A
             /\ lru[k].i \in DOMAIN pcb[lru[k].pid].page_table
  <2>1. lru[k] \in TablePages(Memory, A)
    BY <1>1 DEF ListsPages, Range
  <2> QED
    BY <2>1 DEF TablePages, Memory
<1>3. ASSUME NEW p \in A, NEW i \in DOMAIN pcb[p].page_table,
             pcb[p].page_table[i].valid_bit[0]
      PROVE  \E k \in DOMAIN lru : lru[k] = [pid |-> p, i |-> i]
  <2>1. i \in Nat
    <3>1. Process(pcb[p])
      BY <1>1, AllArePids DEF MemoryOK, Memory
    <3>2. PageTableSize(CountLines(pcb[p].script)) \in Nat
      BY <3>1, CountLinesType DEF Process
    <3> QED
      BY <3>1, <3>2 DEF Process, PCBs
  <2>2. [pid |-> p, i |-> i] \in Valid(Memory, A)
    BY <1>3, <2>1 DEF Valid, Memory
  <2> QED
    BY <1>1, <2>2 DEF ListsPages, Range
<1>4. mode = "running" => lru # <<>>
  <2>1. mode = "running" => all # <<>>
    BY <1>1 DEF Runs, Range
  <2> QED
    BY <2>1 DEF IInv, Holds
<1> QED
  BY <1>2, <1>3, <1>4 DEF VictimHasPCB

-----------------------------------------------------------------------------
(* Initially, and when a scheduler has ended, there are no processes.      *)

LEMMA NoProcesses ==
  ASSUME NEW m, m.pcb = [p \in Pids |-> NoPCB],
         m.slots \in [FrameSlots -> [var : Pids \cup {None}, line : LineIds]]
  PROVE  MemoryOK(m, {}) /\ ListsPages(<<>>, m, {})
<1>1. MemoryOK(m, {})
  BY DEF MemoryOK
<1>2. ListsPages(<<>>, m, {})
  BY DEF ListsPages, Range, Valid
<1> QED
  BY <1>1, <1>2

LEMMA EmptyRange == Range(<<>>) = {}
BY DEF Range

LEMMA InitIInv == Init => IInv
<1> SUFFICES ASSUME Init PROVE IInv
  OBVIOUS
<1>1. Control
  <2>1. store \in StoreType
    BY DEF Init, StoreType, FreeVar
  <2>2. <<>> \in Seq(Commands) /\ <<>> \in Seq(Scripts)
    OBVIOUS
  <2> QED
    BY <2>1, <2>2 DEF Init, Control
<1>2. Lists
  BY EmptyRange DEF Init, Lists
<1>3. Runs
  BY DEF Init, Runs
<1>4. Holds
  <2>1. FreeSlot \in [var : Pids \cup {None}, line : LineIds]
    BY DEF FreeSlot, LineIds
  <2>2. /\ Memory.pcb = [p \in Pids |-> NoPCB]
        /\ Memory.slots
             \in [FrameSlots -> [var : Pids \cup {None}, line : LineIds]]
    BY <2>1 DEF Init, Memory
  <2>3. MemoryOK(Memory, {}) /\ ListsPages(<<>>, Memory, {})
    BY <2>2, NoProcesses
  <2> QED
    BY <2>3, EmptyRange DEF Init, Holds
<1> QED
  BY <1>1, <1>2, <1>3, <1>4 DEF IInv

\* free_PCB of all processes.
LEMMA DoneIInv == IInv /\ Done => IInv'
<1> SUFFICES ASSUME IInv, Done PROVE IInv'
  OBVIOUS
<1>1. Control /\ Lists /\ MemoryOK(Memory, Range(all))
  BY DEF IInv, Holds
<1>2. /\ mode' \in {"undefined", "parsing"}
      /\ pcb' = [p \in Pids |-> NoPCB]
      /\ all' = <<>> /\ queue' = <<>> /\ lru' = <<>>
      /\ UNCHANGED <<input, todo, nested, curr, turn, pid_counter, proper>>
  BY DEF Done, FreesAll
<1>3. store' \in StoreType
  <2>1. store' = [k \in VarSlots |-> IF k \in Cleared THEN FreeVar ELSE store[k]]
    BY DEF Done, FreesAll
  <2> HIDE DEF Cleared
  <2> QED
    BY <1>1, <2>1 DEF Control, StoreType, FreeVar
<1>4. slots' \in [FrameSlots -> [var : Pids \cup {None}, line : LineIds]]
  <2>1. slots' = [k \in FrameSlots |-> IF k \in Cleared THEN FreeSlot
                                                        ELSE slots[k]]
    BY DEF Done, FreesAll
  <2>2. FreeSlot \in [var : Pids \cup {None}, line : LineIds]
    BY DEF FreeSlot, LineIds
  <2>3. slots \in [FrameSlots -> [var : Pids \cup {None}, line : LineIds]]
    BY <1>1 DEF MemoryOK, Memory
  <2> HIDE DEF Cleared
  <2> QED
    BY <2>1, <2>2, <2>3
<1>5. Control'
  BY <1>1, <1>2, <1>3 DEF Control
<1>6. Lists'
  BY <1>1, <1>2, EmptyRange DEF Lists
<1>7. Runs'
  BY <1>2 DEF Runs
<1>8. Holds'
  <2>1. MemoryOK(Memory', {}) /\ ListsPages(<<>>, Memory', {})
    BY <1>2, <1>4, NoProcesses DEF Memory
  <2> QED
    BY <1>2, <2>1, EmptyRange DEF Holds
<1> QED
  BY <1>5, <1>6, <1>7, <1>8 DEF IInv

-----------------------------------------------------------------------------
(* Steps that leave the memory of the processes alone.                     *)

LEMMA HoldsUnchanged ==
  ASSUME Holds, UNCHANGED <<pcb, all, lru, slots>>
  PROVE  Holds'
BY DEF Holds, Memory

LEMMA PromptIInv ==
  ASSUME IInv,
         \/ \E line \in Typed : Type(line)
         \/ PromptCommand \/ PromptQuit \/ PromptExec \/ EndOfInput
  PROVE  IInv'
<1>1. Control /\ Lists /\ Holds
  BY DEF IInv
<1>2. /\ mode' # "running"
      /\ UNCHANGED <<curr, pid_counter, pcb, all, queue, lru, slots>>
  BY DEF Type, PromptCommand, PromptQuit, PromptExec, EndOfInput, processes
<1>3. Lists' /\ Runs' /\ Holds'
  BY <1>1, <1>2, HoldsUnchanged DEF Lists, Runs
<1>4. Control'
  <2>1. ASSUME NEW line \in Typed, Type(line)
        PROVE  Control'
    BY <1>1, <2>1, ScriptAssumption DEF Type, Control
  <2>2. CASE PromptCommand
    BY <1>1, <2>2, HeadOfInput, SetKeepsType DEF PromptCommand, Control
  <2>3. CASE PromptQuit
    BY <1>1, <2>3 DEF PromptQuit, Control
  <2>4. CASE PromptExec
    <3>1. proper' \in BOOLEAN
      BY <2>4 DEF PromptExec
    <3> QED
      BY <1>1, <2>4, <3>1, HeadOfInput, ExecScripts DEF PromptExec, Control
  <2>5. CASE EndOfInput
    BY <1>1, <2>5 DEF EndOfInput, Control
  <2> QED
    BY <2>1, <2>2, <2>3, <2>4, <2>5
<1> QED
  BY <1>3, <1>4 DEF IInv

LEMMA SchedulerIInv ==
  ASSUME IInv, NewProcDies \/ StartScheduler \/ Pop
  PROVE  IInv'
<1>1. Control /\ Lists /\ Runs /\ Holds
  BY DEF IInv
<1>2. /\ UNCHANGED <<input, todo, nested, pid_counter, pcb, all, lru, slots,
                     store, proper>>
  BY DEF NewProcDies, StartScheduler, Pop, processes
<1>3. Holds'
  BY <1>1, <1>2, HoldsUnchanged
<1>4. CASE NewProcDies \/ StartScheduler
  <2>1. /\ mode' \in {"dead", "scheduling"}
        /\ UNCHANGED <<curr, turn, queue>>
    BY <1>4 DEF NewProcDies, StartScheduler, processes
  <2>2. Control' /\ Lists' /\ Runs'
    BY <1>1, <1>2, <2>1 DEF Control, Lists, Runs
  <2> QED
    BY <1>3, <2>2 DEF IInv
<1>5. CASE Pop
  <2>1. queue # <<>>
    BY <1>5 DEF Pop, queue_done
  <2>2. /\ Head(queue) \in Range(queue) /\ Head(queue) \in Pids
        /\ Tail(queue) \in Seq(Pids) /\ Range(Tail(queue)) \subseteq Range(queue)
    BY <1>1, <2>1, HeadAndTail DEF Lists
  <2>3. /\ mode' = mode /\ mode = "scheduling"
        /\ UNCHANGED <<curr, turn>> /\ queue' = Tail(queue)
        \/ /\ mode' = "running" /\ curr' = Head(queue)
           /\ queue' = Tail(queue)
           /\ pcb[curr'].size > 0
           /\ turn' = IF pcb[curr'].size > 1 THEN "first" ELSE "only"
    <3>1. pcb[Head(queue)].size \in Nat
      <4>1. Head(queue) \in Range(all) /\ Head(queue) \in Pids
        BY <1>1, <2>2 DEF Lists
      <4>2. Process(pcb[Head(queue)])
        BY <1>1, <4>1 DEF Holds, MemoryOK, Memory
      <4>3. CountLines(pcb[Head(queue)].script) \in Nat
        BY <4>2, CountLinesType DEF Process
      <4> QED
        BY <4>2, <4>3 DEF Process, PCBs
    <3>2. pcb[Head(queue)].size > 0 \/ pcb[Head(queue)].size <= 0
      BY <3>1
    <3> QED
      BY <1>5, <3>1, <3>2 DEF Pop
  <2>4. Control'
    BY <1>1, <1>2, <2>3 DEF Control
  <2>5. Lists'
    BY <1>1, <1>2, <2>2, <2>3 DEF Lists
  <2>6. Runs'
    BY <1>1, <1>2, <2>2, <2>3 DEF Runs, Lists
  <2> QED
    BY <1>3, <2>4, <2>5, <2>6 DEF IInv
<1> QED
  BY <1>4, <1>5

-----------------------------------------------------------------------------
(* Steps of the process that runs.                                         *)

\* The page it has come to is in its page table, at a line of the page.
LEMMA ThisPageType ==
  ASSUME IInv, Running
  PROVE  /\ curr \in Range(all) /\ curr \in Pids
         /\ Process(pcb[curr]) /\ pcb[curr].size > 0
         /\ ThisPage \in DOMAIN pcb[curr].page_table /\ ThisPage \in Nat
         /\ ThisEntry \in PageEntries
         /\ ThisEntry.program_counter \in Offsets
         /\ ThisEntry.program_counter =
              CountLines(pcb[curr].script) - pcb[curr].size - PageSize * ThisPage
<1> DEFINE b == pcb[curr]
           n == CountLines(b.script)
<1>1. curr \in Range(all) /\ b.size > IF turn = "first" THEN 1 ELSE 0
  BY DEF IInv, Runs, Running
<1>2. curr \in Pids
  BY <1>1, AllArePids DEF IInv
<1>3. Process(b)
  BY <1>1, <1>2 DEF IInv, Holds, MemoryOK, Memory
<1>4. n \in Nat /\ b.size \in 0 .. n
  BY <1>3, CountLinesType DEF Process, PCBs
<1>5. b.size > 0
  BY <1>1, <1>4
<1>6. /\ ThisPage \in DOMAIN b.page_table /\ ThisPage \in Nat
      /\ PageSize * ThisPage <= n - b.size
      /\ n - b.size < PageSize * (ThisPage + 1)
  BY <1>3, <1>5, CurrentPageType DEF ThisPage
<1>7. ThisEntry.program_counter = Counter(n - b.size, ThisPage)
  BY <1>3, <1>6 DEF Process, ThisEntry
<1>8. ThisEntry \in PageEntries
  BY <1>3, <1>6 DEF Process, PCBs, ThisEntry
<1>9. /\ ThisEntry.program_counter = n - b.size - PageSize * ThisPage
      /\ ThisEntry.program_counter \in Offsets
  <2> DEFINE run == n - b.size
             i == ThisPage
  <2>1. run \in Nat /\ i \in Nat /\ PageSize * i <= run /\ run < PageSize * (i + 1)
    BY <1>4, <1>6
  <2>2. ThisEntry.program_counter = Counter(run, i)
    BY <1>7
  <2> HIDE DEF run, i
  <2>3. /\ ThisEntry.program_counter = run - PageSize * i
        /\ ThisEntry.program_counter \in Offsets
    BY <2>1, <2>2 DEF Counter, PageSize, Offsets
  <2> QED
    BY <2>3 DEF run, i
<1> QED
  BY <1>1, <1>2, <1>3, <1>5, <1>6, <1>8, <1>9

\* The line that is run is a command of a script.
LEMMA CommandType ==
  ASSUME IInv, Running, InMemory
  PROVE  Command \in Commands
<1>1. ThisEntry.index[ThisEntry.program_counter] \in FrameSlots
  BY ThisPageType DEF InMemory, ThisEntry, Process
<1>2. Fetched \in LineIds
  BY <1>1 DEF Fetched, IInv, Holds, MemoryOK, Memory
<1>3. CASE Fetched = NoLine
  BY <1>3 DEF Command, Commands
<1>4. CASE Fetched # NoLine
  <2>1. PICK s \in Scripts : Fetched \in {s} \X (0 .. Len(Lines[s]) - 1)
    BY <1>2, <1>4 DEF LineIds
  <2>2. Lines[s] \in Seq(Commands)
    BY ScriptAssumption
  <2>3. Fetched[1] = s /\ Fetched[2] + 1 \in DOMAIN Lines[s]
    BY <2>1, <2>2
  <2>4. Lines[s][Fetched[2] + 1] \in Commands
    BY <2>2, <2>3
  <2> QED
    BY <1>4, <2>3, <2>4 DEF Command
<1> QED
  BY <1>3, <1>4

\* One line on: the counter of the page and the lines left stay in step.
LEMMA AdvancedKeeps ==
  ASSUME IInv, Running
  PROVE  /\ MemoryOK(Advanced(Memory), Range(all))
         /\ TablePages(Advanced(Memory), Range(all)) =
              TablePages(Memory, Range(all))
         /\ Valid(Advanced(Memory), Range(all)) = Valid(Memory, Range(all))
         /\ Advanced(Memory).pcb[curr].size = pcb[curr].size - 1
<1> DEFINE A == Range(all)
           m == Advanced(Memory)
           i == ThisPage
           b == pcb[curr]
           c == m.pcb[curr]
           n == CountLines(b.script)
           page == [b.page_table[i] EXCEPT !.program_counter = @ + 1]
<1>1. /\ curr \in A /\ curr \in Pids /\ A \in SUBSET Pids
      /\ Process(b) /\ b.size > 0
      /\ i \in DOMAIN b.page_table /\ i \in Nat
      /\ ThisEntry \in PageEntries
      /\ ThisEntry.program_counter \in Offsets
      /\ ThisEntry.program_counter = n - b.size - PageSize * i
  BY ThisPageType, AllArePids DEF IInv
<1>2. MemoryOK(Memory, A)
  BY DEF IInv, Holds
<1>3. pcb = [p \in Pids |-> pcb[p]]
  BY <1>2 DEF MemoryOK, Memory
<1>4. b \in PCBs(b.script) /\ b.script \in Scripts
  BY <1>1 DEF Process
<1>5. n \in Nat /\ b.size \in 0 .. n
  BY <1>4, CountLinesType DEF PCBs
<1>6. b.page_table[i] \in PageEntries /\ ThisEntry = b.page_table[i]
  BY <1>1 DEF ThisEntry
<1>7. /\ m.slots = slots
      /\ m.pcb = [pcb EXCEPT ![curr].page_table[i].program_counter = @ + 1,
                             ![curr].size = @ - 1]
  BY DEF Advanced, Memory
<1> HIDE DEF m, n
<1>8. \A p \in Pids : p # curr => m.pcb[p] = pcb[p]
  BY <1>3, <1>7
<1>9. m.pcb = [p \in Pids |-> m.pcb[p]]
  BY <1>3, <1>7
<1>10. c = [b EXCEPT !.page_table = [b.page_table EXCEPT ![i] = page],
                     !.size = b.size - 1]
  BY <1>1, <1>3, <1>4, <1>7 DEF PCBs
<1>11. /\ page \in PageEntries
       /\ page.program_counter = b.page_table[i].program_counter + 1
       /\ page.valid_bit = b.page_table[i].valid_bit
       /\ page.index = b.page_table[i].index
  BY <1>1, <1>6 DEF PageEntries, Offsets, PageSize
<1> HIDE DEF page, c, b
<1>12. /\ c \in PCBs(b.script) /\ c.script = b.script /\ c.size = b.size - 1
       /\ c.page_table = [b.page_table EXCEPT ![i] = page]
  <2>1. b.size - 1 \in 0 .. CountLines(b.script)
    BY <1>1, <1>5 DEF n
  <2>2. /\ b.page_table \in [0 .. PageTableSize(CountLines(b.script)) - 1
                               -> PageEntries]
        /\ b = [script |-> b.script, size |-> b.size, pos |-> b.pos,
                page_table |-> b.page_table]
        /\ b.pos \in 0 .. Len(Lines[b.script])
    BY <1>4 DEF PCBs
  <2>3. [b.page_table EXCEPT ![i] = page]
          \in [0 .. PageTableSize(CountLines(b.script)) - 1 -> PageEntries]
    BY <1>11, <2>2
  <2>4. c = [script |-> b.script, size |-> b.size - 1, pos |-> b.pos,
             page_table |-> [b.page_table EXCEPT ![i] = page]]
    BY <1>10, <2>2
  <2> QED
    BY <2>1, <2>2, <2>3, <2>4 DEF PCBs
<1>13. DOMAIN c.page_table = DOMAIN b.page_table
  BY <1>12
<1>14. \A k \in DOMAIN b.page_table :
         c.page_table[k] = IF k = i THEN page ELSE b.page_table[k]
  BY <1>4, <1>12 DEF PCBs
<1>15. ASSUME NEW k \in DOMAIN c.page_table
       PROVE  c.page_table[k].program_counter = Counter(n - c.size, k)
  <2>1. k \in Nat
    <3>1. PageTableSize(CountLines(b.script)) \in Nat
      BY <1>4, CountLinesType
    <3> QED
      BY <1>13, <1>4, <3>1 DEF PCBs
  <2>2. b.page_table[k].program_counter = Counter(n - b.size, k)
    BY <1>1, <1>13 DEF Process, n
  <2>3. n - c.size = (n - b.size) + 1 /\ n - b.size \in Nat
    BY <1>5, <1>12
  <2>4. /\ PageSize * i <= n - b.size
        /\ n - b.size < PageSize * (i + 1)
        /\ b.page_table[i].program_counter = (n - b.size) - PageSize * i
    BY <1>1, <1>6, <2>3 DEF Offsets, PageSize
  <2>5. c.page_table[k].program_counter =
          IF k = i THEN b.page_table[i].program_counter + 1
                   ELSE b.page_table[k].program_counter
    BY <1>11, <1>13, <1>14
  <2> DEFINE run == n - b.size
  <2>6. /\ run \in Nat /\ PageSize * i <= run /\ run < PageSize * (i + 1)
        /\ c.page_table[k].program_counter =
             IF k = i THEN (run - PageSize * i) + 1 ELSE Counter(run, k)
    BY <2>2, <2>3, <2>4, <2>5
  <2> HIDE DEF run
  <2>7. c.page_table[k].program_counter = Counter(run + 1, k)
    BY <1>1, <2>1, <2>6 DEF Counter, PageSize
  <2> QED
    BY <2>3, <2>7 DEF run
<1>16. Process(c)
  <2>1. \A k \in DOMAIN c.page_table : \A j \in Offsets :
          c.page_table[k].valid_bit[j] => c.page_table[k].index[j] \in FrameSlots
    BY <1>1, <1>11, <1>13, <1>14 DEF Process
  <2> QED
    BY <1>4, <1>12, <1>15, <2>1 DEF Process, n
<1>17. MemoryOK(m, A)
  <2>1. m.slots \in [FrameSlots -> [var : Pids \cup {None}, line : LineIds]]
    BY <1>2, <1>7 DEF MemoryOK, Memory
  <2>2. \A p \in Pids : IF p \in A THEN Process(m.pcb[p]) ELSE m.pcb[p] = NoPCB
    BY <1>1, <1>2, <1>8, <1>16 DEF MemoryOK, Memory, c
  <2> QED
    BY <1>9, <2>1, <2>2 DEF MemoryOK
<1>18. \A p \in A : DOMAIN m.pcb[p].page_table = DOMAIN pcb[p].page_table
  BY <1>1, <1>8, <1>13 DEF b, c
<1>19. \A p \in A : \A k \in DOMAIN pcb[p].page_table :
         m.pcb[p].page_table[k].valid_bit = pcb[p].page_table[k].valid_bit
  BY <1>1, <1>8, <1>11, <1>14 DEF b, c
<1>20. TablePages(m, A) = TablePages(Memory, A)
  BY <1>18 DEF TablePages, Memory
<1>21. Valid(m, A) = Valid(Memory, A)
  BY <1>18, <1>19 DEF Valid, Memory
<1> QED
  BY <1>12, <1>17, <1>20, <1>21 DEF m, c, b

LEMMA SamePages ==
  ASSUME NEW m, NEW n, NEW A, SameTables(m, n, A)
  PROVE  TablePages(n, A) = TablePages(m, A)
BY DEF SameTables, TablePages

\* A page that is loaded and put at the head of LRU_CACHE.
LEMMA LoadedIsListed ==
  ASSUME NEW m, NEW A \in SUBSET Pids, NEW p \in A, MemoryOK(m, A),
         NEW i \in Nat, i \in DOMAIN m.pcb[p].page_table,
         NEW n \in Loads(m, p, i), NEW l, ListsPages(l, m, A)
  PROVE  /\ MemoryOK(n, A) /\ SameTables(m, n, A)
         /\ ListsPages(<<[pid |-> p, i |-> i]>> \o l, n, A)
         /\ <<[pid |-> p, i |-> i]>> \o l # <<>>
         /\ FrameSize > 0
<1> DEFINE pg == [pid |-> p, i |-> i]
<1>1. /\ MemoryOK(n, A) /\ SameTables(m, n, A)
      /\ Valid(n, A) \subseteq Valid(m, A) \cup {pg}
      /\ FrameSize > 0
  BY LoadsKeeps
<1>2. pg \in Pages /\ pg \in TablePages(m, A)
  BY DEF Pages, TablePages
<1> HIDE DEF pg
<1>3. l \in Seq(Pages)
  BY DEF ListsPages
<1>4. /\ <<pg>> \o l \in Seq(Pages) /\ <<pg>> \o l # <<>>
      /\ Range(<<pg>> \o l) = Range(l) \cup {pg}
  BY <1>2, <1>3, AddedFirst
<1>5. TablePages(n, A) = TablePages(m, A)
  BY <1>1, SamePages
<1>6. ListsPages(<<pg>> \o l, n, A)
  BY <1>1, <1>2, <1>4, <1>5 DEF ListsPages
<1> QED
  BY <1>1, <1>4, <1>6 DEF pg

LEMMA HoldsAfter ==
  ASSUME NEW n, NEW A, MemoryBecomes(n), MemoryOK(n, A), Range(all') = A,
         ListsPages(lru', n, A), lru' # <<>>, FrameSize > 0
  PROVE  Holds'
<1>1. Memory'.slots = n.slots /\ Memory'.pcb = n.pcb
  BY DEF Memory, MemoryBecomes
<1>2. MemoryOK(Memory', A) /\ ListsPages(lru', Memory', A)
  BY <1>1 DEF MemoryOK, ListsPages, TablePages, Valid
<1> QED
  BY <1>2 DEF Holds

\* run_proc after a 1, with the memory as the line left it.
LEMMA PageFaultHolds ==
  ASSUME IInv, Running, NEW m, MemoryOK(m, Range(all)),
         TablePages(m, Range(all)) = TablePages(Memory, Range(all)),
         Valid(m, Range(all)) = Valid(Memory, Range(all)),
         PageFault(m), all' = all
  PROVE  Holds'
<1> DEFINE A == Range(all)
           pg == [pid |-> curr, i |-> ThisPage]
<1>1. /\ A \in SUBSET Pids /\ curr \in A /\ curr \in Pids
      /\ ThisPage \in Nat /\ ThisPage \in DOMAIN pcb[curr].page_table
  BY ThisPageType, AllArePids DEF IInv
<1>2. pg \in TablePages(m, A)
  BY <1>1 DEF TablePages, Memory
<1>3. ThisPage \in DOMAIN m.pcb[curr].page_table
  BY <1>2 DEF TablePages
<1>4. ListsPages(lru, m, A)
  BY DEF IInv, Holds, ListsPages
<1>5. FrameSize > 0
  <2>1. all # <<>>
    BY <1>1, EmptyRange
  <2> QED
    BY <2>1 DEF IInv, Holds
<1>6. ASSUME NEW loaded \in Loads(m, curr, ThisPage), MemoryBecomes(loaded),
             lru' = <<pg>> \o lru
      PROVE  Holds'
  BY <1>1, <1>3, <1>4, <1>6, LoadedIsListed, HoldsAfter
<1>7. ASSUME lru # <<>>, lru' = <<pg>> \o Popped.rest,
             IF Room(Evicted(m, Popped.page)) = {}
             THEN MemoryBecomes(Evicted(m, Popped.page))
             ELSE \E loaded \in Loads(Evicted(m, Popped.page), curr, ThisPage) :
                    MemoryBecomes(loaded)
      PROVE  Holds'
  <2> DEFINE e == Evicted(m, Popped.page)
             victim == Popped.page
             rest == Popped.rest
  <2>1. lru \in Seq(Pages) /\ Range(lru) \subseteq TablePages(m, A)
    BY <1>4 DEF ListsPages
  <2>2. /\ victim \in Range(lru) /\ rest \in Seq(Pages)
        /\ Range(rest) \subseteq Range(lru)
        /\ Range(lru) \subseteq Range(rest) \cup {victim}
    BY <1>7, <2>1, LastAndFront DEF Popped
  <2>3. /\ victim \in [pid : A, i : Nat]
        /\ victim.i \in DOMAIN m.pcb[victim.pid].page_table
    BY <2>1, <2>2 DEF TablePages
  <2>4. /\ MemoryOK(e, A) /\ SameTables(m, e, A)
        /\ Valid(e, A) \subseteq Valid(m, A) \ {victim}
    BY <1>1, <1>5, <2>3, EvictedKeeps
  <2>5. TablePages(e, A) = TablePages(m, A)
    BY <2>4, SamePages
  <2> HIDE DEF e, victim, rest
  <2>6. ListsPages(rest, e, A)
    BY <1>4, <2>1, <2>2, <2>4, <2>5 DEF ListsPages
  <2>7. ThisPage \in DOMAIN e.pcb[curr].page_table
    BY <1>1, <1>3, <2>4 DEF SameTables
  <2>8. CASE Room(e) = {}
    <3>1. MemoryBecomes(e)
      BY <1>7, <2>8 DEF e
    <3>2. pg \in Pages
      BY <1>1 DEF Pages
    <3>3. /\ <<pg>> \o rest \in Seq(Pages) /\ <<pg>> \o rest # <<>>
          /\ Range(<<pg>> \o rest) = Range(rest) \cup {pg}
      BY <2>2, <3>2, AddedFirst
    <3>4. ListsPages(<<pg>> \o rest, e, A)
      BY <1>2, <2>5, <2>6, <3>3 DEF ListsPages
    <3>5. lru' = <<pg>> \o rest
      BY <1>7 DEF rest
    <3> QED
      BY <1>5, <2>4, <3>1, <3>3, <3>4, <3>5, HoldsAfter
  <2>9. CASE Room(e) # {}
    <3>1. PICK loaded \in Loads(e, curr, ThisPage) : MemoryBecomes(loaded)
      BY <1>7, <2>9 DEF e
    <3>2. lru' = <<pg>> \o rest
      BY <1>7 DEF rest
    <3> QED
      BY <1>1, <2>4, <2>6, <2>7, <3>1, <3>2, LoadedIsListed, HoldsAfter
  <2> QED
    BY <2>8, <2>9
<1> QED
  BY <1>6, <1>7 DEF PageFault

LEMMA RunLineIInv == IInv /\ RunLine => IInv'
<1> SUFFICES ASSUME IInv, RunLine PROVE IInv'
  OBVIOUS
<1> DEFINE A == Range(all)
           m == Advanced(Memory)
<1>1. Running /\ InMemory /\ Control /\ Lists /\ Runs /\ Holds
  BY DEF RunLine, IInv
<1>2. /\ MemoryOK(m, A) /\ TablePages(m, A) = TablePages(Memory, A)
      /\ Valid(m, A) = Valid(Memory, A)
      /\ m.pcb[curr].size = pcb[curr].size - 1
  BY <1>1, AdvancedKeeps
<1>3. /\ curr \in A /\ curr \in Pids /\ pcb[curr].size \in Nat
  <2>1. curr \in A /\ curr \in Pids /\ Process(pcb[curr])
    BY <1>1, ThisPageType
  <2> QED
    BY <2>1, CountLinesType DEF Process, PCBs
<1>4. /\ MemoryBecomes(m) /\ store' = StoreAfter(Command) /\ Same # {} /\ Touched
      /\ TurnGoesOn /\ input' = <<>>
      /\ UNCHANGED <<todo, nested, pid_counter, all, proper>>
  BY DEF RunLine
<1> HIDE DEF m
<1>5. Holds'
  <2>1. ListsPages(lru, Memory, A) /\ lru \in Seq(Pages)
    BY <1>1 DEF Holds, ListsPages
  <2>2. Min(Same) \in DOMAIN lru
    <3>1. Same \subseteq DOMAIN lru /\ DOMAIN lru \subseteq Nat
      BY <2>1 DEF Same
    <3> QED
      BY <1>4, <3>1, MinIsMember
  <2>3. lru' = <<lru[Min(Same)]>> \o RemoveAt(lru, Min(Same))
    BY <1>4 DEF Touched
  <2>4. lru' \in Seq(Pages) /\ lru' # <<>> /\ Range(lru') = Range(lru)
    BY <2>1, <2>2, <2>3, MovedToFront
  <2>5. ListsPages(lru', m, A)
    BY <1>2, <2>1, <2>4 DEF ListsPages
  <2>6. FrameSize > 0
    BY <1>1, <1>3, EmptyRange DEF Holds
  <2> QED
    BY <1>2, <1>4, <2>4, <2>5, <2>6, HoldsAfter
<1>6. Control'
  <2>1. store' \in StoreType
    BY <1>1, <1>4, CommandType, SetKeepsType DEF Control
  <2>2. mode' \in {mode, "scheduling"} /\ turn' \in {turn, "second"}
    BY <1>4 DEF TurnGoesOn
  <2>3. <<>> \in Seq(Commands)
    OBVIOUS
  <2> QED
    BY <1>1, <1>4, <2>1, <2>2, <2>3 DEF Control
<1>7. Lists'
  <2>1. /\ Append(queue, curr) \in Seq(Pids)
        /\ Range(Append(queue, curr)) = Range(queue) \cup {curr}
    BY <1>1, <1>3, AddedLast DEF Lists
  <2>2. queue' \in {queue, Append(queue, curr)} /\ curr' \in {curr, None}
    BY <1>4 DEF TurnGoesOn
  <2> QED
    BY <1>1, <1>3, <1>4, <2>1, <2>2 DEF Lists
<1>8. Runs'
  <2>1. CASE turn = "first" /\ turn' = "second" /\ UNCHANGED <<mode, curr, queue>>
    <3>1. pcb[curr].size > 1
      BY <1>1, <2>1 DEF Runs, Running
    <3>2. pcb'[curr].size = pcb[curr].size - 1
      BY <1>2, <1>4 DEF MemoryBecomes
    <3> QED
      BY <1>3, <1>4, <2>1, <3>1, <3>2 DEF Runs
  <2>2. CASE mode' = "scheduling"
    BY <2>2 DEF Runs
  <2> QED
    BY <1>4, <2>1, <2>2 DEF TurnGoesOn
<1> QED
  BY <1>5, <1>6, <1>7, <1>8 DEF IInv

LEMMA FaultIInv == IInv /\ (Fault \/ RunLineThenFault) => IInv'
<1> SUFFICES ASSUME IInv, Fault \/ RunLineThenFault PROVE IInv'
  OBVIOUS
<1>1. Running /\ Control /\ Lists /\ Holds
  BY DEF Fault, RunLineThenFault, IInv
<1>2. PICK m \in {Memory, Advanced(Memory)} : PageFault(m)
  BY DEF Fault, RunLineThenFault
<1>3. /\ input' \in {input, <<>>}
      /\ UNCHANGED <<todo, nested, pid_counter, all, store, proper>>
  BY DEF Fault, RunLineThenFault
<1>4. /\ MemoryOK(m, Range(all))
      /\ TablePages(m, Range(all)) = TablePages(Memory, Range(all))
      /\ Valid(m, Range(all)) = Valid(Memory, Range(all))
  BY <1>1, AdvancedKeeps DEF Holds
<1>5. Holds'
  BY <1>1, <1>2, <1>3, <1>4, PageFaultHolds
<1>6. /\ mode' \in {"scheduling", "undefined"} /\ curr' = None /\ turn' = turn
      /\ queue' = Append(queue, curr)
  BY <1>2 DEF PageFault
<1>7. Control'
  <2>1. <<>> \in Seq(Commands)
    OBVIOUS
  <2> QED
    BY <1>1, <1>3, <1>6, <2>1 DEF Control
<1>8. Lists'
  <2>1. curr \in Pids /\ curr \in Range(all)
    BY <1>1, ThisPageType
  <2>2. /\ Append(queue, curr) \in Seq(Pids)
        /\ Range(Append(queue, curr)) = Range(queue) \cup {curr}
    BY <1>1, <2>1, AddedLast DEF Lists
  <2> QED
    BY <1>1, <1>3, <1>6, <2>1, <2>2 DEF Lists
<1>9. Runs'
  BY <1>6 DEF Runs
<1> QED
  BY <1>5, <1>7, <1>8, <1>9 DEF IInv

LEMMA RunExecIInv == IInv /\ RunExec => IInv'
<1> SUFFICES ASSUME IInv, RunExec PROVE IInv'
  OBVIOUS
<1>1. /\ Control /\ Lists /\ Holds /\ Running /\ InMemory
      /\ Command.op = "exec"
  BY DEF RunExec, IInv
<1>2. /\ mode' = "loading" /\ todo' = Command.scripts /\ nested' = TRUE
      /\ input' = <<>> /\ proper' \in BOOLEAN
      /\ UNCHANGED <<curr, turn, pid_counter, pcb, all, queue, lru, slots, store>>
  BY DEF RunExec, processes
<1>3. todo' \in Seq(Scripts) /\ <<>> \in Seq(Commands)
  BY <1>1, <1>2, CommandType, ExecScripts
<1>4. Control'
  BY <1>1, <1>2, <1>3 DEF Control
<1>5. Lists' /\ Runs'
  BY <1>1, <1>2 DEF Lists, Runs
<1>6. Holds'
  BY <1>1, <1>2, HoldsUnchanged
<1> QED
  BY <1>4, <1>5, <1>6 DEF IInv

-----------------------------------------------------------------------------
(* A new process.                                                          *)

\* It starts with all of its lines left and none of its pages loaded.
LEMMA NewPCBType ==
  ASSUME NEW s \in Scripts
  PROVE  /\ Process(NewPCB(s)) /\ NewPCB(s).script = s
         /\ DOMAIN NewPCB(s).page_table = 0 .. PageTableSize(CountLines(s)) - 1
         /\ \A i \in DOMAIN NewPCB(s).page_table :
              ~NewPCB(s).page_table[i].valid_bit[0]
<1> DEFINE n == CountLines(s)
           pages == PageTableSize(n)
           b == NewPCB(s)
<1>1. n \in Nat /\ pages \in Nat /\ Len(Lines[s]) \in Nat
  BY CountLinesType, ScriptAssumption
<1>2. b = [script |-> s, size |-> n, pos |-> 0,
           page_table |-> [i \in 0 .. pages - 1 |-> PAGE_init]]
  BY DEF NewPCB
<1>3. /\ PAGE_init \in PageEntries /\ PAGE_init.program_counter = 0
      /\ \A j \in Offsets : ~PAGE_init.valid_bit[j]
  BY DEF PAGE_init, PageEntries, PageSize
<1> HIDE DEF n, pages, b
<1>4. b \in PCBs(s)
  BY <1>1, <1>2, <1>3 DEF PCBs, n, pages
<1>5. ASSUME NEW i \in 0 .. pages - 1
      PROVE  Counter(0, i) = 0
  BY <1>1 DEF Counter, PageSize
<1>6. Process(b)
  <2>1. CountLines(b.script) - b.size = 0
    BY <1>1, <1>2 DEF n
  <2> QED
    BY <1>2, <1>3, <1>4, <1>5, <2>1 DEF Process
<1> QED
  BY <1>2, <1>3, <1>6, OffsetsAre DEF b, n, pages

LEMMA NewProcIInv == IInv /\ NewProc => IInv'
<1> SUFFICES ASSUME IInv, NewProc PROVE IInv'
  OBVIOUS
<1> DEFINE A == Range(all)
           p == pid_counter
           s == Head(todo)
           B == A \cup {p}
           m0 == [Memory EXCEPT !.pcb[p] = NewPCB(s)]
           first == [pid |-> p, i |-> 0]
           second == [pid |-> p, i |-> 1]
<1>1. /\ Control /\ Lists /\ Holds /\ A \in SUBSET Pids
      /\ mode' = mode /\ mode = "loading"
      /\ p \in Pids /\ p \notin A
      /\ s \in Scripts /\ Tail(todo) \in Seq(Scripts)
  <2>1. Control /\ Lists /\ Holds
    BY DEF IInv
  <2>2. A \in SUBSET Pids
    BY <2>1, AllArePids
  <2>3. p \in Pids /\ mode' = mode /\ mode = "loading" /\ todo # <<>>
    BY DEF NewProc
  <2>4. p \notin A
    BY <2>1, <2>3 DEF Lists
  <2>5. s \in Scripts /\ Tail(todo) \in Seq(Scripts)
    BY <2>1, <2>3, HeadAndTail DEF Control
  <2> QED
    BY <2>1, <2>2, <2>3, <2>4, <2>5
<1>2. PICK n \in Initialized(s) : MemoryBecomes(n)
  BY DEF NewProc
<1>3. /\ all' = Append(all, p) /\ queue' = Append(queue, p)
      /\ pid_counter' = p + 1 /\ todo' = Tail(todo)
      /\ UNCHANGED <<input, nested, curr, turn, store, proper>>
  BY DEF NewProc
<1>4. lru' = IF CountLines(s) <= PageSize THEN <<first>> \o lru
                                          ELSE <<second, first>> \o lru
  <2>1. [first EXCEPT !.i = 1] = second
    OBVIOUS
  <2>2. lru' = IF CountLines(s) <= PageSize
               THEN <<first>> \o lru
               ELSE <<[first EXCEPT !.i = 1], first>> \o lru
    BY Zenon DEF NewProc
  <2> QED
    BY <2>1, <2>2, Zenon
<1>5. /\ all' \in Seq(Pids) /\ Range(all') = B
      /\ queue' \in Seq(Pids) /\ Range(queue') \subseteq B
  BY <1>1, <1>3, AddedLast DEF Lists
<1>6. /\ MemoryOK(m0, B)
      /\ m0.pcb[p] = NewPCB(s)
      /\ \A q \in A : m0.pcb[q] = pcb[q]
  <2>1. pcb = [q \in Pids |-> pcb[q]] /\ MemoryOK(Memory, A)
    BY <1>1 DEF Holds, MemoryOK, Memory
  <2>2. m0.slots = slots /\ m0.pcb = [pcb EXCEPT ![p] = NewPCB(s)]
    BY DEF Memory
  <2> HIDE DEF m0
  <2>3. /\ m0.pcb = [q \in Pids |-> m0.pcb[q]]
        /\ m0.pcb[p] = NewPCB(s)
        /\ \A q \in Pids : q # p => m0.pcb[q] = pcb[q]
    BY <1>1, <2>1, <2>2
  <2>4. Process(NewPCB(s))
    BY <1>1, NewPCBType
  <2>5. \A q \in Pids : IF q \in B THEN Process(m0.pcb[q]) ELSE m0.pcb[q] = NoPCB
    BY <2>1, <2>3, <2>4 DEF MemoryOK, Memory
  <2> QED
    BY <1>1, <2>1, <2>2, <2>3, <2>5 DEF MemoryOK, Memory
<1>7. /\ DOMAIN NewPCB(s).page_table = 0 .. PageTableSize(CountLines(s)) - 1
      /\ \A i \in DOMAIN NewPCB(s).page_table :
           ~NewPCB(s).page_table[i].valid_bit[0]
  BY <1>1, NewPCBType
<1> HIDE DEF m0
<1>8. ListsPages(lru, m0, B)
  <2>1. ListsPages(lru, Memory, A)
    BY <1>1 DEF Holds
  <2>2. TablePages(Memory, A) \subseteq TablePages(m0, B)
    BY <1>6 DEF TablePages, Memory
  <2>3. ASSUME NEW pg \in Valid(m0, B)
        PROVE  pg \in Valid(Memory, A)
    <3>1. pg \in [pid : B, i : Nat]
      BY DEF Valid
    <3>2. pg.pid # p
      BY <1>6, <1>7 DEF Valid
    <3> QED
      BY <1>6, <3>1, <3>2 DEF Valid, Memory
  <2> QED
    BY <2>1, <2>2, <2>3 DEF ListsPages
<1>9. /\ B \in SUBSET Pids /\ p \in B /\ 0 \in Nat /\ 1 \in Nat
      /\ 0 \in DOMAIN m0.pcb[p].page_table
      /\ CountLines(s) > PageSize => 1 \in DOMAIN m0.pcb[p].page_table
  BY <1>1, <1>6, <1>7, CountLinesType
<1>10. Control' /\ Lists' /\ Runs'
  <2>1. Control'
    BY <1>1, <1>3 DEF Control
  <2>2. pid_counter' \in 1 .. MaxPid + 1 /\ \A q \in B : q < pid_counter'
    <3>1. p \in Int /\ \A q \in A : q \in Int /\ q < p
      BY <1>1 DEF Lists, Pids
    <3> QED
      BY <1>1, <1>3, <3>1 DEF Pids
  <2>3. Lists'
    BY <1>1, <1>3, <1>5, <2>2 DEF Lists
  <2>4. Runs'
    BY <1>1 DEF Runs
  <2> QED
    BY <2>1, <2>3, <2>4
<1>11. CASE CountLines(s) <= PageSize
  <2>1. n \in Loads(m0, p, 0)
    BY <1>2, <1>11 DEF Initialized, m0
  <2>2. /\ MemoryOK(n, B) /\ ListsPages(<<first>> \o lru, n, B)
        /\ <<first>> \o lru # <<>> /\ FrameSize > 0
    BY <1>6, <1>8, <1>9, <2>1, LoadedIsListed
  <2>3. Holds'
    BY <1>2, <1>4, <1>5, <1>11, <2>2, HoldsAfter
  <2> QED
    BY <1>10, <2>3 DEF IInv
<1>12. CASE CountLines(s) > PageSize
  <2>1. PICK m1 \in Loads(m0, p, 0) : n \in Loads(m1, p, 1)
    <3>1. Initialized(s) =
            IF CountLines(s) <= PageSize
            THEN Loads(m0, p, 0)
            ELSE UNION {Loads(m1, p, 1) : m1 \in Loads(m0, p, 0)}
      BY DEF Initialized, m0
    <3>2. ~(CountLines(s) <= PageSize)
      BY <1>1, <1>12, CountLinesType DEF PageSize
    <3> QED
      BY <1>2, <3>1, <3>2, Zenon
  <2>2. /\ MemoryOK(m1, B) /\ ListsPages(<<first>> \o lru, m1, B)
        /\ SameTables(m0, m1, B)
    BY <1>6, <1>8, <1>9, <2>1, LoadedIsListed
  <2>3. 1 \in DOMAIN m1.pcb[p].page_table
    BY <1>9, <1>12, <2>2 DEF SameTables
  <2>4. /\ MemoryOK(n, B) /\ ListsPages(<<second>> \o (<<first>> \o lru), n, B)
        /\ <<second>> \o (<<first>> \o lru) # <<>> /\ FrameSize > 0
    BY <1>9, <2>1, <2>2, <2>3, LoadedIsListed
  <2>5. lru' = <<second>> \o (<<first>> \o lru)
    <3>1. lru \in Seq(Pages) /\ first \in Pages /\ second \in Pages
      BY <1>1, <1>8 DEF ListsPages, Pages
    <3> HIDE DEF first, second
    <3>2. <<second, first>> \o lru = <<second>> \o (<<first>> \o lru)
      BY <3>1
    <3>3. lru' = <<second, first>> \o lru
      BY <1>1, <1>4, <1>12, CountLinesType DEF PageSize
    <3> QED
      BY <3>2, <3>3
  <2>6. Holds'
    BY <1>2, <1>5, <2>4, <2>5, HoldsAfter
  <2> QED
    BY <1>10, <2>6 DEF IInv
<1> QED
  BY <1>1, <1>11, <1>12, CountLinesType DEF PageSize

-----------------------------------------------------------------------------
(* All steps.                                                              *)

LEMMA NextIInv == IInv /\ [Next]_vars => IInv'
<1> SUFFICES ASSUME IInv, [Next]_vars PROVE IInv'
  OBVIOUS
<1>1. CASE UNCHANGED vars
  BY <1>1 DEF vars, IInv, Control, Lists, Runs, Holds, Memory
<1>2. CASE \/ \E line \in Typed : Type(line)
           \/ PromptCommand \/ PromptQuit \/ PromptExec \/ EndOfInput
  BY <1>2, PromptIInv
<1>3. CASE NewProcDies \/ StartScheduler \/ Pop
  BY <1>3, SchedulerIInv
<1>4. CASE NewProc
  BY <1>4, NewProcIInv
<1>5. CASE RunLine
  BY <1>5, RunLineIInv
<1>6. CASE Fault \/ RunLineThenFault
  BY <1>6, FaultIInv
<1>7. CASE RunExec
  BY <1>7, RunExecIInv
<1>8. CASE Done
  BY <1>8, DoneIInv
<1> QED
  BY <1>1, <1>2, <1>3, <1>4, <1>5, <1>6, <1>7, <1>8 DEF Next, Step

\* Every reachable state satisfies the invariant: page counters that follow
\* from the lines run, lists that name living processes only, and memory that
\* belongs to them, across the faults of run_proc (kernel.c:37-77).
THEOREM Invariance == Spec => []IInv
<1>1. QED
  BY InitIInv, NextIInv, PTL DEF Spec

\* Page counters, sizes and file positions stay in their ranges: no line is
\* read past the end of a script, no page run past its third line.
THEOREM TypeCorrect == Spec => []TypeOK
<1>1. QED
  BY Invariance, IInvTypeOK, PTL

\* A victim is there whenever run_proc pops one, and its PCB is in ALL_PCB, so
\* that the walk that tests for the tail of another list (kernel.c:49) ends
\* there; remove_elem finds the page that was run.
THEOREM VictimFound == Spec => []VictimHasPCB
<1>1. QED
  BY Invariance, IInvVictim, PTL
=============================================================================
