--------------------------- MODULE LockstepProofs ---------------------------
(***************************************************************************)
(* Proper scripts under the third kernel, for all sizes of the memory and  *)
(* all numbers and lengths of scripts.  The processes of one exec take     *)
(* their turns in lockstep, a page fault costing each the turn it costs    *)
(* the others, and so the page that LRU_CACHE offers as a victim is never  *)
(* one that still has lines to run: had it been, the file would be read on *)
(* from where another page ended (pcb.c:88) and lines would be lost.       *)
(***************************************************************************)
EXTENDS PageKernelProofs

-----------------------------------------------------------------------------
(* Processes and pages of a memory m.                                      *)

\* The lines counted for process p, how many of them it has run, and how many
\* its source_file was read on.
Total(m, p) == CountLines(m.pcb[p].script)
Run(m, p) == Total(m, p) - m.pcb[p].size
Pos(m, p) == m.pcb[p].pos
\* There is a line left to run.
Live(m, p) == m.pcb[p].size > 0
Page(p, i) == [pid |-> p, i |-> i]
\* A page's entry in the page table, and the slot its first line is in.
EntryIn(m, pg) == m.pcb[pg.pid].page_table[pg.i]
At(m, pg) == EntryIn(m, pg).index[0]

\* A page in memory: three slots side by side that belong to its process, the
\* lines of the script in their order in them.
Resident(m, pg) ==
  /\ PageSize * pg.i < Pos(m, pg.pid)
  /\ \A j \in Offsets :
       /\ EntryIn(m, pg).index[j] = At(m, pg) + j
       /\ At(m, pg) + j \in FrameSlots
       /\ m.slots[At(m, pg) + j].var = pg.pid
       /\ EntryIn(m, pg).valid_bit[j]
            <=> PageSize * pg.i + j < Total(m, pg.pid)
       /\ PageSize * pg.i + j < Total(m, pg.pid)
            => m.slots[At(m, pg) + j].line =
                 <<m.pcb[pg.pid].script, PageSize * pg.i + j>>

\* S are the pages in memory of the processes A: no two share a slot, and no
\* other slot is in use.
Frames(S, m, A) ==
  /\ \A x \in S : Resident(m, x)
  /\ \A p \in A : \A i \in DOMAIN m.pcb[p].page_table :
       \/ Page(p, i) \in S
       \/ \A j \in Offsets : ~m.pcb[p].page_table[i].valid_bit[j]
  /\ \A x, y \in S : \A j, k \in Offsets :
       At(m, x) + j = At(m, y) + k => x = y
  /\ \A k \in FrameSlots : m.slots[k].var # None =>
       \E x \in S : \E j \in Offsets : k = At(m, x) + j

NoRepeats(l) == \A a, b \in DOMAIN l : l[a] = l[b] => a = b

\* Files are read page by page, the lines run are lines read, and from the
\* third page on a page is read only when the process has come to it.
Reading(m, A) ==
  \A p \in A :
    /\ ProperScript(m.pcb[p].script)
    /\ Pos(m, p) = Total(m, p) \/ Pos(m, p) % PageSize = 0
    /\ Run(m, p) <= Pos(m, p)
    /\ \A i \in Nat : i >= 2 /\ PageSize * i < Pos(m, p)
                        => PageSize * i <= Run(m, p)
    /\ \A i \in DOMAIN m.pcb[p].page_table :
         m.pcb[p].page_table[i].index[0] = Unloaded <=> PageSize * i >= Pos(m, p)

\* exec has loaded two pages, or all there are.
Begun(m, A) == \A p \in A : Pos(m, p) = Total(m, p) \/ Pos(m, p) >= 2 * PageSize

\* The two pages that a process read last are in memory while it has lines
\* left.
TopTwo(S, m, A) ==
  \A p \in A : \A i \in Nat :
    Live(m, p) /\ PageSize * i < Pos(m, p) /\ Pos(m, p) <= PageSize * (i + 2)
      => Page(p, i) \in S

\* Page y was certainly used later than page x, as the lines run tell.
UsedBefore(m, x, y) ==
  \/ y.i >= x.i + 2
  \/ y.i = x.i + 1 /\ Run(m, y.pid) >= PageSize * x.i + 5
  \/ /\ y.i = x.i
     /\ x.pid < y.pid
     /\ Run(m, x.pid) >= PageSize * (x.i + 1)
     /\ Run(m, y.pid) >= PageSize * (x.i + 1)

\* LRU_CACHE has it in front then.
Recency(l, m) ==
  \A a, b \in DOMAIN l : UsedBefore(m, l[a], l[b]) => b < a

\* Between the two lines of its turn.
MidTurn(p) == mode = "running" /\ turn = "second" /\ p = curr
\* The lines p had run when its turn began, and whether the first line of the
\* turn was, or will be, in memory.
Start(p) == IF MidTurn(p) THEN Run(Memory, p) - 1 ELSE Run(Memory, p)
Hit(p) == MidTurn(p) \/ Run(Memory, p) < Pos(Memory, p)
\* Line k (from 0) is the first of a page that is loaded by a page fault.
FirstOfPage(k) == k >= 2 * PageSize /\ k % PageSize = 0
\* Two processes that have had the same turns, and two of which q is one turn
\* ahead of p: after a page fault in the first line it is at the same line
\* with the page there, after one in the second line it is one line ahead,
\* else two.
Even(p, q) == Start(p) = Start(q) /\ (Hit(p) <=> Hit(q))
Turned(p, q) ==
  \/ ~Hit(p) /\ Start(q) = Start(p) /\ Hit(q)
  \/ Hit(p) /\ FirstOfPage(Start(p) + 1) /\ Start(q) = Start(p) + 1 /\ Hit(q)
  \/ /\ Hit(p) /\ ~FirstOfPage(Start(p) + 1)
     /\ Start(q) = Start(p) + 2
     /\ Hit(q) <=> ~FirstOfPage(Start(q))
\* p has its turn before q has.
InTurn(p, q) ==
  \/ \E a, b \in DOMAIN queue : a < b /\ queue[a] = p /\ queue[b] = q
  \/ mode = "running" /\ p = curr /\ q \in Range(queue)
\* Of two processes that wait, the one with the smaller pid is first with the
\* same turns behind them, or second and one turn ahead.
TakeTurns ==
  \A p, q \in Range(all) :
    InTurn(p, q) /\ Live(Memory, p) /\ Live(Memory, q)
      => \/ p < q /\ Even(p, q)
         \/ q < p /\ Turned(p, q)
\* Nobody with lines left is forgotten.
AllWait ==
  \A p \in Range(all) :
    Live(Memory, p) => p \in Range(queue) \/ (mode = "running" /\ p = curr)
\* Nobody, not even who has ended, is more than a turn ahead of one that runs.
Together ==
  \A p, q \in Range(all) : Live(Memory, p) =>
    /\ p < q => Run(Memory, q) <= Run(Memory, p)
    /\ Run(Memory, q) <= Start(p) + 2
\* What the kind of a turn says of the lines left and read.
TurnOfTwo ==
  mode = "running" =>
    /\ turn = "only" => pcb[curr].size = 1
    /\ turn = "second" /\ FirstOfPage(Run(Memory, curr))
         => Run(Memory, curr) = Pos(Memory, curr)
Lockstep == TakeTurns /\ AllWait /\ Together /\ TurnOfTwo

\* What holds of the phases of the shell.
Phase ==
  /\ ~nested /\ mode # "undefined"
  /\ \A s \in Range(todo) : ProperScript(s)
  /\ mode \in {"prompt", "parsing", "halted"} => all = <<>> /\ lru = <<>>
  /\ mode = "loading" => /\ queue = all
                         /\ \A p \in Range(all) : Run(Memory, p) = 0
                         /\ \A a, b \in DOMAIN all : a < b => all[a] < all[b]

\* LRU_CACHE l and a memory m that fit each other.
Ordered(l, m, A) ==
  /\ Reading(m, A)
  /\ NoRepeats(l)
  /\ Frames(Range(l), m, A)
  /\ TopTwo(Range(l), m, A)
  /\ Recency(l, m)

\* The invariant, as long as only proper scripts were run.
Well == /\ Phase
        /\ Ordered(lru, Memory, Range(all))
        /\ Begun(Memory, Range(all))
        /\ mode \in {"scheduling", "running"} => Lockstep
PInv == proper => Well

-----------------------------------------------------------------------------
(* Scripts and processes in numbers.                                       *)

\* The lines of a proper script are counted right.
LEMMA ProperTotal ==
  ASSUME NEW s \in Scripts, ProperScript(s)
  PROVE  CountLines(s) = Len(Lines[s])
<1> DEFINE n == Len(Lines[s])
           counted == {i \in DOMAIN Lines[s] :
                         /\ Lines[s][i].op # "blank"
                         /\ i < Len(Lines[s]) \/ s \in Terminated}
<1>1. Lines[s] \in Seq(Commands) /\ Lines[s] # <<>>
  BY ScriptAssumption DEF ProperScript
<1>2. n \in Nat /\ n >= 1 /\ DOMAIN Lines[s] = 1 .. n
  BY <1>1
<1>3. counted = 1 .. n - 1
  BY <1>2 DEF ProperScript
<1>4. Cardinality(1 .. n - 1) = n - 1
  BY <1>2, FS_Interval
<1>5. CountLines(s) = 1 + Cardinality(counted)
  BY DEF CountLines
<1>6. Cardinality(counted) = n - 1
  BY <1>3, <1>4
<1> HIDE DEF counted
<1> QED
  BY <1>2, <1>5, <1>6

\* The ranges of these numbers.
LEMMA ProcessNumbers ==
  ASSUME NEW m, NEW A \in SUBSET Pids, NEW p \in A, MemoryOK(m, A)
  PROVE  /\ p \in Nat /\ p # None
         /\ Total(m, p) \in Nat /\ Total(m, p) >= 1
         /\ Run(m, p) \in Nat /\ Run(m, p) <= Total(m, p)
         /\ Live(m, p) <=> Run(m, p) < Total(m, p)
         /\ Pos(m, p) \in Nat
         /\ m.pcb[p].script \in Scripts
         /\ Pos(m, p) <= Len(Lines[m.pcb[p].script])
         /\ m.pcb[p].size = Total(m, p) - Run(m, p)
         /\ \A i : i \in DOMAIN m.pcb[p].page_table
                     <=> i \in Nat /\ PageSize * i < Total(m, p)
<1> DEFINE b == m.pcb[p]
           n == CountLines(b.script)
           pages == PageTableSize(n)
<1>1. Process(b)
  BY DEF MemoryOK
<1>2. /\ b.script \in Scripts /\ b.size \in 0 .. n
      /\ b.pos \in 0 .. Len(Lines[b.script])
      /\ DOMAIN b.page_table = 0 .. pages - 1
  BY <1>1 DEF Process, PCBs
<1>3. n \in Nat /\ n >= 1
  BY <1>2, CountLinesType
<1>4. Len(Lines[b.script]) \in Nat
  BY <1>2, ScriptAssumption
<1>5. Run(m, p) = n - b.size /\ Total(m, p) = n /\ Pos(m, p) = b.pos
  BY DEF Run, Total, Pos
<1>6. Live(m, p) <=> b.size > 0
  BY DEF Live
<1> HIDE DEF b, n
<1>7. ASSUME NEW i
      PROVE  i \in 0 .. pages - 1 <=> i \in Nat /\ 3 * i < n
  <2>1. pages = (n + 2) \div 3
    BY <1>3 DEF PageTableSize, PageSize
  <2> HIDE DEF pages
  <2>2. pages \in Nat /\ 3 * pages >= n /\ 3 * pages <= n + 2
    BY <1>3, <2>1
  <2> QED
    BY <1>3, <2>2
<1>8. p \in Nat /\ p # None
  BY DEF Pids, None
<1> QED
  BY <1>2, <1>3, <1>4, <1>5, <1>6, <1>7, <1>8 DEF PageSize, b

-----------------------------------------------------------------------------
(* What loading, evicting and running a line do to a memory.               *)

\* Three free slots from `at` on.
FreeFrame(m, at) == /\ at \in Nat
                    /\ \A j \in Offsets : /\ at + j \in FrameSlots
                                          /\ m.slots[at + j].var = None

\* n is m with page i of process p loaded into the frame at `at`.
IsLoaded(m, n, A, p, i, at) ==
  /\ SameTables(m, n, A)
  /\ \A q \in A : q # p => Pos(n, q) = Pos(m, q)
  /\ Pos(n, p) = IF PageSize * (i + 1) <= Total(m, p) THEN PageSize * (i + 1)
                                                      ELSE Total(m, p)
  /\ \A q \in A : \A k \in DOMAIN m.pcb[q].page_table :
       ~(q = p /\ k = i)
         => n.pcb[q].page_table[k] = m.pcb[q].page_table[k]
  /\ \A j \in Offsets :
       /\ n.pcb[p].page_table[i].index[j] = at + j
       /\ n.pcb[p].page_table[i].valid_bit[j]
            <=> PageSize * i + j < Total(m, p)
       /\ n.slots[at + j].var = p
       /\ PageSize * i + j < Total(m, p)
            => n.slots[at + j].line = <<m.pcb[p].script, PageSize * i + j>>
  /\ \A k \in FrameSlots : (\A j \in Offsets : k # at + j)
                             => n.slots[k] = m.slots[k]

\* n is m with page pg evicted.
IsEvicted(m, n, A, pg) ==
  /\ SameTables(m, n, A)
  /\ \A q \in A : Pos(n, q) = Pos(m, q)
  /\ \A q \in A : \A k \in DOMAIN m.pcb[q].page_table :
       ~(q = pg.pid /\ k = pg.i)
         => n.pcb[q].page_table[k] = m.pcb[q].page_table[k]
  /\ \A j \in Offsets : /\ EntryIn(n, pg).index[j] = 0
                        /\ ~EntryIn(n, pg).valid_bit[j]
  /\ \A k \in FrameSlots :
       IF \E j \in Offsets : k = EntryIn(m, pg).index[j]
       THEN n.slots[k].var = None ELSE n.slots[k] = m.slots[k]

\* n is m one line of process p further.
IsAdvanced(m, n, A, p) ==
  /\ n.slots = m.slots
  /\ \A q \in A :
       /\ n.pcb[q].script = m.pcb[q].script
       /\ n.pcb[q].size = IF q = p THEN m.pcb[q].size - 1 ELSE m.pcb[q].size
       /\ Pos(n, q) = Pos(m, q)
       /\ DOMAIN n.pcb[q].page_table = DOMAIN m.pcb[q].page_table
       /\ \A k \in DOMAIN m.pcb[q].page_table :
            /\ n.pcb[q].page_table[k].index = m.pcb[q].page_table[k].index
            /\ n.pcb[q].page_table[k].valid_bit = m.pcb[q].page_table[k].valid_bit

\* frame_alloc finds a free frame.
LEMMA FrameIsFree ==
  ASSUME NEW m, NEW at \in FrameFor(m)
  PROVE  FreeFrame(m, at)
<1>1. Room(m) # {} /\ at = Min(Room(m))
  BY DEF FrameFor
<1>2. Room(m) \subseteq FrameSlots /\ FrameSlots \subseteq Nat
  BY DEF Room, FrameSlots
<1>3. at \in Room(m) /\ at \in Nat
  BY <1>1, <1>2, MinIsMember
<1>4. \A k \in at .. at + PageSize - 1 : k \in FrameSlots /\ m.slots[k].var = None
  BY <1>3 DEF Room
<1>5. \A j \in Offsets : at + j \in at .. at + PageSize - 1
  BY <1>3 DEF Offsets, PageSize
<1> QED
  BY <1>3, <1>4, <1>5 DEF FreeFrame

\* What load_PAGE gets of a proper script: the lines of the page, of which
\* the last page may have fewer than three.
LEMMA GotIs ==
  ASSUME NEW m, NEW A \in SUBSET Pids, NEW p \in A, MemoryOK(m, A),
         ProperScript(m.pcb[p].script), NEW i \in DOMAIN m.pcb[p].page_table,
         Pos(m, p) = PageSize * i
  PROVE  /\ Got(m.pcb[p]) \in 1 .. PageSize
         /\ Pos(m, p) + Got(m.pcb[p]) =
              IF PageSize * (i + 1) <= Total(m, p) THEN PageSize * (i + 1)
                                                   ELSE Total(m, p)
         /\ \A j \in Offsets : j < Got(m.pcb[p])
                                 <=> PageSize * i + j < Total(m, p)
<1> DEFINE b == m.pcb[p]
           n == Total(m, p)
           got == Got(b)
<1>1. n = Len(Lines[b.script]) /\ b.pos = PageSize * i
  BY ProperTotal, ProcessNumbers DEF Total, Pos
<1>2. n \in Nat /\ i \in Nat /\ PageSize * i < n
  BY ProcessNumbers
<1>3. {PageSize, n - PageSize * i} \in SUBSET Nat
  BY <1>2 DEF PageSize
<1>4. got = Min({PageSize, n - PageSize * i})
  BY <1>1 DEF Got
<1> HIDE DEF n, got
<1>5. /\ got \in {PageSize, n - PageSize * i}
      /\ \A y \in {PageSize, n - PageSize * i} : got <= y
  BY <1>3, <1>4, MinIsMember
<1>6. got = IF 3 <= n - 3 * i THEN 3 ELSE n - 3 * i
  BY <1>2, <1>5 DEF PageSize
<1>7. \A j \in Offsets : j < got <=> 3 * i + j < n
  BY <1>2, <1>6 DEF Offsets, PageSize
<1>8. /\ got \in 1 .. 3
      /\ 3 * i + got = IF 3 * (i + 1) <= n THEN 3 * (i + 1) ELSE n
  BY <1>2, <1>6 DEF PageSize
<1> QED
  BY <1>7, <1>8 DEF PageSize, n, got

\* load_PAGE into a free frame.
LEMMA LoadedIs ==
  ASSUME NEW m, NEW A \in SUBSET Pids, NEW p \in A, MemoryOK(m, A),
         ProperScript(m.pcb[p].script), NEW i \in DOMAIN m.pcb[p].page_table,
         Pos(m, p) = PageSize * i, NEW at, FreeFrame(m, at)
  PROVE  IsLoaded(m, LoadedAt(m, p, i, at), A, p, i, at)
<1> DEFINE b == m.pcb[p]
           got == Got(b)
           n == LoadedAt(m, p, i, at)
           page == [b.page_table[i] EXCEPT
                      !.index = [j \in Offsets |-> at + j],
                      !.valid_bit = [j \in Offsets |-> j < got]]
           c == n.pcb[p]
<1>1. /\ got \in 1 .. PageSize
      /\ Pos(m, p) + got =
           IF PageSize * (i + 1) <= Total(m, p) THEN PageSize * (i + 1)
                                                ELSE Total(m, p)
      /\ \A j \in Offsets : j < got <=> PageSize * i + j < Total(m, p)
  BY GotIs
<1>2. n.pcb = [m.pcb EXCEPT ![p].pos = @ + got, ![p].page_table[i] = page]
  BY DEF LoadedAt
<1>3. n.slots = [k \in FrameSlots |->
                   CASE k - at \notin Offsets -> m.slots[k]
                     [] k - at \in 0 .. got - 1 ->
                          [var |-> p, line |-> LineRead(b, k - at)]
                     [] OTHER -> [m.slots[k] EXCEPT !.var = p]]
  BY DEF LoadedAt
<1>4. /\ Process(b) /\ p \in Pids
      /\ m.slots \in [FrameSlots -> [var : Pids \cup {None}, line : LineIds]]
      /\ m.pcb = [q \in Pids |-> m.pcb[q]]
  BY DEF MemoryOK
<1>5. /\ b \in PCBs(b.script)
      /\ b.page_table[i] \in PageEntries
  BY <1>4 DEF Process, PCBs
<1> HIDE DEF got, n
<1>6. /\ \A j \in Offsets : page.index[j] = at + j
      /\ \A j \in Offsets : page.valid_bit[j] <=> j < got
  BY <1>5 DEF PageEntries
<1> HIDE DEF page
<1>7. c = [b EXCEPT !.pos = b.pos + got,
                    !.page_table = [b.page_table EXCEPT ![i] = page]]
  BY <1>2, <1>4, <1>5 DEF PCBs
<1>8. \A q \in Pids : q # p => n.pcb[q] = m.pcb[q]
  BY <1>2, <1>4
<1> HIDE DEF c, b
<1>9. /\ c.script = b.script /\ c.size = b.size
      /\ c.pos = b.pos + got
      /\ DOMAIN c.page_table = DOMAIN b.page_table
      /\ \A k \in DOMAIN b.page_table :
           c.page_table[k] = IF k = i THEN page ELSE b.page_table[k]
  BY <1>5, <1>7 DEF PCBs
<1>10. SameTables(m, n, A)
  BY <1>8, <1>9 DEF SameTables, b, c
<1>11. \A q \in A : q # p => Pos(n, q) = Pos(m, q)
  BY <1>8 DEF Pos
<1>12. Pos(n, p) = IF PageSize * (i + 1) <= Total(m, p) THEN PageSize * (i + 1)
                                                        ELSE Total(m, p)
  BY <1>1, <1>9 DEF Pos, b, c
<1>13. \A q \in A : \A k \in DOMAIN m.pcb[q].page_table :
         ~(q = p /\ k = i)
           => n.pcb[q].page_table[k] = m.pcb[q].page_table[k]
  BY <1>8, <1>9 DEF b, c
<1>14. n.pcb[p].page_table[i] = page
  BY <1>9 DEF b, c
<1>15. ASSUME NEW j \in Offsets
       PROVE  /\ n.slots[at + j].var = p
              /\ j < got => n.slots[at + j].line = <<b.script, PageSize * i + j>>
  <2>1. at + j \in FrameSlots /\ (at + j) - at = j /\ j \in Nat
    BY DEF FreeFrame, Offsets, PageSize
  <2>2. m.slots[at + j] \in [var : Pids \cup {None}, line : LineIds]
    BY <1>4, <2>1
  <2>3. CASE j < got
    <3>1. j \in 0 .. got - 1
      BY <1>1, <2>1, <2>3
    <3>2. n.slots[at + j] = [var |-> p, line |-> LineRead(b, j)]
      BY <1>3, <2>1, <3>1
    <3>3. LineRead(b, j) = <<b.script, PageSize * i + j>>
      BY DEF LineRead, Pos, b
    <3> QED
      BY <3>2, <3>3
  <2>4. CASE ~(j < got)
    <3>1. j \notin 0 .. got - 1
      BY <1>1, <2>1, <2>4
    <3>2. n.slots[at + j] = [m.slots[at + j] EXCEPT !.var = p]
      BY <1>3, <2>1, <3>1
    <3> QED
      BY <2>2, <2>4, <3>2
  <2> QED
    BY <2>3, <2>4
<1>16. ASSUME NEW k \in FrameSlots, \A j \in Offsets : k # at + j
       PROVE  n.slots[k] = m.slots[k]
  <2>1. k - at \notin Offsets
    <3>1. k \in Int /\ at \in Int
      BY DEF FreeFrame, FrameSlots
    <3>2. k = at + (k - at)
      BY <3>1
    <3> QED
      BY <1>16, <3>2
  <2> QED
    BY <1>1, <1>3, <2>1 DEF Offsets, PageSize
<1>17. \A j \in Offsets :
         /\ n.pcb[p].page_table[i].index[j] = at + j
         /\ n.pcb[p].page_table[i].valid_bit[j]
              <=> PageSize * i + j < Total(m, p)
         /\ n.slots[at + j].var = p
         /\ PageSize * i + j < Total(m, p)
              => n.slots[at + j].line = <<m.pcb[p].script, PageSize * i + j>>
  BY <1>1, <1>6, <1>14, <1>15 DEF b
<1> QED
  BY <1>10, <1>11, <1>12, <1>13, <1>16, <1>17 DEF IsLoaded, n

\* PAGE_evict.
LEMMA EvictedIs ==
  ASSUME NEW m, NEW A \in SUBSET Pids, NEW pg \in [pid : A, i : Nat],
         pg.i \in DOMAIN m.pcb[pg.pid].page_table, MemoryOK(m, A)
  PROVE  IsEvicted(m, Evicted(m, pg), A, pg)
<1> DEFINE p == pg.pid
           i == pg.i
           n == Evicted(m, pg)
           b == m.pcb[p]
           c == n.pcb[p]
           page == [b.page_table[i] EXCEPT
                      !.index = [j \in Offsets |-> 0],
                      !.valid_bit = [j \in Offsets |-> FALSE]]
           freed == {b.page_table[i].index[j] : j \in Offsets}
<1>1. p \in A /\ p \in Pids /\ i \in DOMAIN b.page_table
  OBVIOUS
<1>2. n.pcb = [m.pcb EXCEPT ![p].page_table[i] = page]
  BY DEF Evicted
<1>3. n.slots = [k \in FrameSlots |-> IF k \in freed THEN FreeSlot
                                                     ELSE m.slots[k]]
  BY DEF Evicted
<1> HIDE DEF n
<1>4. Process(b) /\ m.pcb = [q \in Pids |-> m.pcb[q]]
  BY <1>1 DEF MemoryOK
<1>5. b \in PCBs(b.script) /\ b.page_table[i] \in PageEntries
  BY <1>1, <1>4 DEF Process, PCBs
<1>6. \A j \in Offsets : page.index[j] = 0 /\ ~page.valid_bit[j]
  BY <1>5 DEF PageEntries
<1> HIDE DEF page
<1>7. c = [b EXCEPT !.page_table = [b.page_table EXCEPT ![i] = page]]
  BY <1>1, <1>2, <1>4, <1>5 DEF PCBs
<1>8. \A q \in Pids : q # p => n.pcb[q] = m.pcb[q]
  BY <1>2, <1>4
<1>9. \A k \in FrameSlots :
        IF \E j \in Offsets : k = EntryIn(m, pg).index[j]
        THEN n.slots[k].var = None ELSE n.slots[k] = m.slots[k]
  <2>1. FreeSlot.var = None
    BY DEF FreeSlot
  <2>2. \A k : k \in freed <=> \E j \in Offsets : k = EntryIn(m, pg).index[j]
    BY DEF EntryIn
  <2> HIDE DEF freed
  <2> QED
    BY <1>3, <2>1, <2>2
<1> HIDE DEF c, b
<1>10. /\ c.script = b.script /\ c.size = b.size /\ c.pos = b.pos
       /\ DOMAIN c.page_table = DOMAIN b.page_table
       /\ \A k \in DOMAIN b.page_table :
            c.page_table[k] = IF k = i THEN page ELSE b.page_table[k]
  BY <1>5, <1>7 DEF PCBs
<1>11. SameTables(m, n, A)
  BY <1>8, <1>10 DEF SameTables, b, c
<1>12. \A q \in A : Pos(n, q) = Pos(m, q)
  BY <1>8, <1>10 DEF Pos, b, c
<1>13. \A q \in A : \A k \in DOMAIN m.pcb[q].page_table :
         ~(q = pg.pid /\ k = pg.i)
           => n.pcb[q].page_table[k] = m.pcb[q].page_table[k]
  BY <1>8, <1>10 DEF b, c
<1>14. EntryIn(n, pg) = page
  BY <1>1, <1>10 DEF EntryIn, b, c
<1> QED
  BY <1>6, <1>9, <1>11, <1>12, <1>13, <1>14 DEF IsEvicted, n

\* cpu_run.
LEMMA AdvancedIs ==
  ASSUME IInv, Running
  PROVE  IsAdvanced(Memory, Advanced(Memory), Range(all), curr)
<1> DEFINE A == Range(all)
           m == Advanced(Memory)
           i == ThisPage
           b == pcb[curr]
           c == m.pcb[curr]
           page == [b.page_table[i] EXCEPT !.program_counter = @ + 1]
<1>1. /\ curr \in A /\ curr \in Pids /\ A \in SUBSET Pids
      /\ Process(b) /\ i \in DOMAIN b.page_table
  BY ThisPageType, AllArePids DEF IInv
<1>2. MemoryOK(Memory, A)
  BY DEF IInv, Holds
<1>3. pcb = [p \in Pids |-> pcb[p]]
  BY <1>2 DEF MemoryOK, Memory
<1>4. b \in PCBs(b.script) /\ b.page_table[i] \in PageEntries
  BY <1>1 DEF Process, PCBs
<1>5. /\ m.slots = slots
      /\ m.pcb = [pcb EXCEPT ![curr].page_table[i].program_counter = @ + 1,
                             ![curr].size = @ - 1]
  BY DEF Advanced, Memory
<1> HIDE DEF m
<1>6. \A p \in Pids : p # curr => m.pcb[p] = pcb[p]
  BY <1>3, <1>5
<1>7. c = [b EXCEPT !.page_table = [b.page_table EXCEPT ![i] = page],
                    !.size = b.size - 1]
  BY <1>1, <1>3, <1>4, <1>5 DEF PCBs
<1>8. /\ page.valid_bit = b.page_table[i].valid_bit
      /\ page.index = b.page_table[i].index
  BY <1>4 DEF PageEntries
<1> HIDE DEF page, c, b
<1>9. /\ c.script = b.script /\ c.size = b.size - 1 /\ c.pos = b.pos
      /\ DOMAIN c.page_table = DOMAIN b.page_table
      /\ \A k \in DOMAIN b.page_table :
           c.page_table[k] = IF k = i THEN page ELSE b.page_table[k]
  BY <1>4, <1>7 DEF PCBs
<1>10. ASSUME NEW q \in A
       PROVE  /\ m.pcb[q].script = pcb[q].script
              /\ m.pcb[q].size = IF q = curr THEN pcb[q].size - 1
                                             ELSE pcb[q].size
              /\ Pos(m, q) = Pos(Memory, q)
              /\ DOMAIN m.pcb[q].page_table = DOMAIN pcb[q].page_table
              /\ \A k \in DOMAIN pcb[q].page_table :
                   /\ m.pcb[q].page_table[k].index = pcb[q].page_table[k].index
                   /\ m.pcb[q].page_table[k].valid_bit
                        = pcb[q].page_table[k].valid_bit
  <2>1. CASE q # curr
    BY <1>1, <1>6, <2>1 DEF Pos, Memory
  <2>2. CASE q = curr
    BY <1>8, <1>9, <2>2 DEF Pos, Memory, b, c
  <2> QED
    BY <2>1, <2>2
<1> QED
  BY <1>5, <1>10 DEF IsAdvanced, Memory, m

-----------------------------------------------------------------------------
(* Frames: each page in memory has one of its own, with its own lines.     *)

\* Neither changes what was run.
LEMMA SameNumbers ==
  ASSUME NEW m, NEW n, NEW A, SameTables(m, n, A), NEW p \in A
  PROVE  /\ Total(n, p) = Total(m, p) /\ Run(n, p) = Run(m, p)
         /\ Live(n, p) <=> Live(m, p)
         /\ n.pcb[p].script = m.pcb[p].script
         /\ DOMAIN n.pcb[p].page_table = DOMAIN m.pcb[p].page_table
BY DEF SameTables, Total, Run, Live

\* A page is unaffected by what happens to other pages and slots.
LEMMA StaysResident ==
  ASSUME NEW m, NEW n, NEW x, Resident(m, x),
         EntryIn(n, x).index = EntryIn(m, x).index,
         EntryIn(n, x).valid_bit = EntryIn(m, x).valid_bit,
         PageSize * x.i < Pos(n, x.pid),
         Total(n, x.pid) = Total(m, x.pid),
         n.pcb[x.pid].script = m.pcb[x.pid].script,
         \A j \in Offsets : n.slots[At(m, x) + j] = m.slots[At(m, x) + j]
  PROVE  Resident(n, x) /\ At(n, x) = At(m, x)
<1>1. At(n, x) = At(m, x)
  BY DEF At
<1> QED
  BY <1>1 DEF Resident

\* PAGE_evict frees the frame of its page and no slot of another's.
LEMMA EvictedFrames ==
  ASSUME NEW m, NEW n, NEW A \in SUBSET Pids, NEW S, NEW v \in S,
         S \subseteq TablePages(m, A), MemoryOK(m, A),
         Frames(S, m, A), IsEvicted(m, n, A, v)
  PROVE  Frames(S \ {v}, n, A)
<1>1. ASSUME NEW x \in S \ {v}
      PROVE  Resident(n, x) /\ At(n, x) = At(m, x)
  <2>1. x.pid \in A /\ x.i \in DOMAIN m.pcb[x.pid].page_table
    BY DEF TablePages
  <2>2. ~(x.pid = v.pid /\ x.i = v.i)
    BY DEF TablePages
  <2>3. EntryIn(n, x) = EntryIn(m, x)
    BY <2>1, <2>2 DEF IsEvicted, EntryIn
  <2>4. Resident(m, x) /\ Resident(m, v)
    BY DEF Frames
  <2>5. /\ Total(n, x.pid) = Total(m, x.pid)
        /\ n.pcb[x.pid].script = m.pcb[x.pid].script
        /\ Pos(n, x.pid) = Pos(m, x.pid)
    BY <2>1, SameNumbers DEF IsEvicted
  <2>6. ASSUME NEW j \in Offsets
        PROVE  n.slots[At(m, x) + j] = m.slots[At(m, x) + j]
    <3>1. \A k \in Offsets : At(m, x) + j # At(m, v) + k
      BY DEF Frames
    <3>2. \A k \in Offsets : EntryIn(m, v).index[k] = At(m, v) + k
      BY <2>4 DEF Resident
    <3>3. At(m, x) + j \in FrameSlots
      BY <2>4 DEF Resident
    <3> QED
      BY <3>1, <3>2, <3>3 DEF IsEvicted
  <2>7. PageSize * x.i < Pos(n, x.pid)
    BY <2>4, <2>5 DEF Resident
  <2> QED
    BY <2>3, <2>4, <2>5, <2>6, <2>7, StaysResident
<1>2. ASSUME NEW p \in A, NEW i \in DOMAIN n.pcb[p].page_table
      PROVE  \/ Page(p, i) \in S \ {v}
             \/ \A j \in Offsets : ~n.pcb[p].page_table[i].valid_bit[j]
  <2>1. i \in DOMAIN m.pcb[p].page_table
    BY SameNumbers DEF IsEvicted
  <2>2. CASE p = v.pid /\ i = v.i
    BY <2>2 DEF IsEvicted, EntryIn
  <2>3. CASE ~(p = v.pid /\ i = v.i)
    <3>1. n.pcb[p].page_table[i] = m.pcb[p].page_table[i]
      BY <2>1, <2>3 DEF IsEvicted
    <3>2. Page(p, i) # v
      BY <2>3 DEF Page
    <3> QED
      BY <2>1, <3>1, <3>2 DEF Frames
  <2> QED
    BY <2>2, <2>3
<1>3. \A x, y \in S \ {v} : \A j, k \in Offsets :
        At(n, x) + j = At(n, y) + k => x = y
  BY <1>1 DEF Frames
<1>4. ASSUME NEW k \in FrameSlots, n.slots[k].var # None
      PROVE  \E x \in S \ {v} : \E j \in Offsets : k = At(n, x) + j
  <2>1. /\ ~ \E j \in Offsets : k = EntryIn(m, v).index[j]
        /\ n.slots[k] = m.slots[k]
    BY <1>4 DEF IsEvicted
  <2>2. PICK x \in S : \E j \in Offsets : k = At(m, x) + j
    BY <1>4, <2>1 DEF Frames
  <2>3. x # v
    <3>1. \A j \in Offsets : EntryIn(m, v).index[j] = At(m, v) + j
      BY DEF Frames, Resident
    <3> QED
      BY <2>1, <2>2, <3>1
  <2> QED
    BY <1>1, <2>2, <2>3
<1> QED
  BY <1>1, <1>2, <1>3, <1>4 DEF Frames

\* load_PAGE takes slots that no page has.
LEMMA LoadedFrames ==
  ASSUME NEW m, NEW n, NEW A \in SUBSET Pids, NEW S,
         S \subseteq TablePages(m, A), MemoryOK(m, A), Frames(S, m, A),
         NEW p \in A, NEW i \in DOMAIN m.pcb[p].page_table,
         Page(p, i) \notin S, Pos(m, p) = PageSize * i,
         NEW at, FreeFrame(m, at), IsLoaded(m, n, A, p, i, at)
  PROVE  Frames(S \cup {Page(p, i)}, n, A)
<1> DEFINE new == Page(p, i)
<1>1. /\ p \in Nat /\ p # None /\ i \in Nat
      /\ Total(m, p) \in Nat /\ PageSize * i < Total(m, p)
  BY ProcessNumbers
<1>2. new.pid = p /\ new.i = i
  BY DEF Page
<1>3. ASSUME NEW x \in S
      PROVE  /\ x.pid \in A /\ x.i \in DOMAIN m.pcb[x.pid].page_table
             /\ x.i \in Nat /\ Resident(m, x)
             /\ ~(x.pid = p /\ x.i = i)
             /\ \A j, k \in Offsets : At(m, x) + j # at + k
  <2>1. x \in [pid : A, i : Nat] /\ x.i \in DOMAIN m.pcb[x.pid].page_table
    BY DEF TablePages
  <2>2. x.pid \in A /\ x.i \in Nat /\ Resident(m, x)
    BY <2>1 DEF Frames
  <2>3. x # new
    OBVIOUS
  <2>4. ~(x.pid = p /\ x.i = i)
    BY <2>1, <2>3 DEF Page
  <2>5. x.pid # None
    BY <2>2, ProcessNumbers
  <2>6. \A j \in Offsets : m.slots[At(m, x) + j].var # None
    BY <2>2, <2>5 DEF Resident
  <2>7. \A k \in Offsets : m.slots[at + k].var = None
    BY DEF FreeFrame
  <2> QED
    BY <2>1, <2>2, <2>4, <2>6, <2>7
<1>4. ASSUME NEW x \in S
      PROVE  Resident(n, x) /\ At(n, x) = At(m, x)
  <2>1. EntryIn(n, x) = EntryIn(m, x)
    BY <1>3 DEF IsLoaded, EntryIn
  <2>2. /\ Total(n, x.pid) = Total(m, x.pid)
        /\ n.pcb[x.pid].script = m.pcb[x.pid].script
    BY <1>3, SameNumbers DEF IsLoaded
  <2>3. PageSize * x.i < Pos(n, x.pid)
    <3>1. PageSize * x.i < Pos(m, x.pid)
      BY <1>3 DEF Resident
    <3>2. CASE x.pid # p
      BY <1>3, <3>1, <3>2 DEF IsLoaded
    <3>3. CASE x.pid = p
      <4>1. 3 * x.i < 3 * i
        BY <3>1, <3>3 DEF PageSize
      <4>2. Pos(n, p) = IF 3 * (i + 1) <= Total(m, p) THEN 3 * (i + 1)
                                                      ELSE Total(m, p)
        BY DEF IsLoaded, PageSize
      <4> QED
        BY <1>1, <1>3, <3>3, <4>1, <4>2 DEF PageSize
    <3> QED
      BY <3>2, <3>3
  <2>4. ASSUME NEW j \in Offsets
        PROVE  n.slots[At(m, x) + j] = m.slots[At(m, x) + j]
    <3>1. At(m, x) + j \in FrameSlots /\ \A k \in Offsets : At(m, x) + j # at + k
      BY <1>3 DEF Resident
    <3> QED
      BY <3>1 DEF IsLoaded
  <2> QED
    BY <1>3, <2>1, <2>2, <2>3, <2>4, StaysResident
<1>5. Resident(n, new) /\ At(n, new) = at
  <2>1. /\ Total(n, p) = Total(m, p) /\ n.pcb[p].script = m.pcb[p].script
    BY SameNumbers DEF IsLoaded
  <2>2. EntryIn(n, new) = n.pcb[p].page_table[i]
    BY <1>2 DEF EntryIn
  <2>3. At(n, new) = at
    <3>1. EntryIn(n, new).index[0] = at + 0
      BY <2>2, OffsetsAre DEF IsLoaded
    <3> QED
      BY <3>1 DEF At, FreeFrame
  <2>4. PageSize * i < Pos(n, p)
    <3>1. Pos(n, p) = IF 3 * (i + 1) <= Total(m, p) THEN 3 * (i + 1)
                                                    ELSE Total(m, p)
      BY DEF IsLoaded, PageSize
    <3> QED
      BY <1>1, <3>1 DEF PageSize
  <2>5. \A j \in Offsets : at + j \in FrameSlots
    BY DEF FreeFrame
  <2> QED
    BY <1>2, <2>1, <2>2, <2>3, <2>4, <2>5 DEF Resident, IsLoaded
<1>6. ASSUME NEW q \in A, NEW k \in DOMAIN n.pcb[q].page_table
      PROVE  \/ Page(q, k) \in S \cup {new}
             \/ \A j \in Offsets : ~n.pcb[q].page_table[k].valid_bit[j]
  <2>1. k \in DOMAIN m.pcb[q].page_table
    BY SameNumbers DEF IsLoaded
  <2>2. CASE q = p /\ k = i
    BY <2>2
  <2>3. CASE ~(q = p /\ k = i)
    <3>1. n.pcb[q].page_table[k] = m.pcb[q].page_table[k]
      BY <2>1, <2>3 DEF IsLoaded
    <3> QED
      BY <2>1, <3>1 DEF Frames
  <2> QED
    BY <2>2, <2>3
<1>7. ASSUME NEW x \in S \cup {new}, NEW y \in S \cup {new},
             NEW j \in Offsets, NEW k \in Offsets, At(n, x) + j = At(n, y) + k
      PROVE  x = y
  <2>1. CASE x \in S /\ y \in S
    BY <1>4, <1>7, <2>1 DEF Frames
  <2>2. CASE x \in S /\ y = new
    BY <1>3, <1>4, <1>5, <1>7, <2>2
  <2>3. CASE x = new /\ y \in S
    BY <1>3, <1>4, <1>5, <1>7, <2>3
  <2> QED
    BY <2>1, <2>2, <2>3
<1>8. ASSUME NEW k \in FrameSlots, n.slots[k].var # None
      PROVE  \E x \in S \cup {new} : \E j \in Offsets : k = At(n, x) + j
  <2>1. CASE \E j \in Offsets : k = at + j
    BY <1>5, <2>1
  <2>2. CASE \A j \in Offsets : k # at + j
    <3>1. m.slots[k].var # None
      BY <1>8, <2>2 DEF IsLoaded
    <3>2. PICK x \in S : \E j \in Offsets : k = At(m, x) + j
      BY <3>1 DEF Frames
    <3> QED
      BY <1>4, <3>2
  <2> QED
    BY <2>1, <2>2
<1> HIDE DEF new
<1>9. \A x \in S \cup {new} : Resident(n, x)
  BY <1>4, <1>5
<1> QED
  BY <1>6, <1>7, <1>8, <1>9 DEF Frames, new

\* Running a line moves no page.
LEMMA AdvancedFrames ==
  ASSUME NEW m, NEW n, NEW A \in SUBSET Pids, NEW S,
         S \subseteq TablePages(m, A), Frames(S, m, A),
         NEW p \in A, IsAdvanced(m, n, A, p)
  PROVE  Frames(S, n, A)
<1>1. ASSUME NEW x \in S
      PROVE  Resident(n, x) /\ At(n, x) = At(m, x)
  <2>1. x.pid \in A /\ x.i \in DOMAIN m.pcb[x.pid].page_table /\ Resident(m, x)
    BY DEF TablePages, Frames
  <2>2. /\ EntryIn(n, x).index = EntryIn(m, x).index
        /\ EntryIn(n, x).valid_bit = EntryIn(m, x).valid_bit
        /\ Total(n, x.pid) = Total(m, x.pid)
        /\ n.pcb[x.pid].script = m.pcb[x.pid].script
        /\ Pos(n, x.pid) = Pos(m, x.pid)
        /\ n.slots = m.slots
    BY <2>1 DEF IsAdvanced, EntryIn, Total
  <2>3. PageSize * x.i < Pos(n, x.pid)
    BY <2>1, <2>2 DEF Resident
  <2> QED
    BY <2>1, <2>2, <2>3, StaysResident
<1>2. ASSUME NEW q \in A, NEW k \in DOMAIN n.pcb[q].page_table
      PROVE  \/ Page(q, k) \in S
             \/ \A j \in Offsets : ~n.pcb[q].page_table[k].valid_bit[j]
  <2>1. /\ k \in DOMAIN m.pcb[q].page_table
        /\ n.pcb[q].page_table[k].valid_bit = m.pcb[q].page_table[k].valid_bit
    BY DEF IsAdvanced
  <2> QED
    BY <2>1 DEF Frames
<1>3. n.slots = m.slots
  BY DEF IsAdvanced
<1> QED
  BY <1>1, <1>2, <1>3 DEF Frames

-----------------------------------------------------------------------------
(* Files are read on page by page.                                         *)

\* A page that will not be run any more: its process has ended, or has come
\* to a later page.
Spent(m, x) == ~Live(m, x.pid) \/ PageSize * (x.i + 2) < Pos(m, x.pid)

\* What loading, evicting and running a line do to the reading of the files.
LEMMA EvictedReading ==
  ASSUME NEW m, NEW n, NEW A \in SUBSET Pids, MemoryOK(m, A), Reading(m, A),
         NEW v \in TablePages(m, A), Resident(m, v), IsEvicted(m, n, A, v)
  PROVE  Reading(n, A)
<1> SUFFICES ASSUME NEW p \in A
             PROVE  /\ ProperScript(n.pcb[p].script)
                    /\ Pos(n, p) = Total(n, p) \/ Pos(n, p) % PageSize = 0
                    /\ Run(n, p) <= Pos(n, p)
                    /\ \A i \in Nat : i >= 2 /\ PageSize * i < Pos(n, p)
                                        => PageSize * i <= Run(n, p)
                    /\ \A i \in DOMAIN n.pcb[p].page_table :
                         n.pcb[p].page_table[i].index[0] = Unloaded
                           <=> PageSize * i >= Pos(n, p)
  BY DEF Reading
<1>1. /\ Total(n, p) = Total(m, p) /\ Run(n, p) = Run(m, p)
      /\ n.pcb[p].script = m.pcb[p].script
      /\ DOMAIN n.pcb[p].page_table = DOMAIN m.pcb[p].page_table
      /\ Pos(n, p) = Pos(m, p)
  BY SameNumbers DEF IsEvicted
<1>2. ASSUME NEW i \in DOMAIN n.pcb[p].page_table
      PROVE  n.pcb[p].page_table[i].index[0] = Unloaded
               <=> PageSize * i >= Pos(n, p)
  <2>1. CASE p = v.pid /\ i = v.i
    <3>1. n.pcb[p].page_table[i].index[0] = 0
      BY <2>1, OffsetsAre DEF IsEvicted, EntryIn
    <3>2. PageSize * i < Pos(m, p)
      BY <2>1 DEF Resident
    <3>3. PageSize * i \in Nat /\ Pos(m, p) \in Nat
      BY <1>1, ProcessNumbers DEF PageSize
    <3> QED
      BY <1>1, <3>1, <3>2, <3>3 DEF Unloaded
  <2>2. CASE ~(p = v.pid /\ i = v.i)
    BY <1>1, <2>2 DEF IsEvicted, Reading
  <2> QED
    BY <2>1, <2>2
<1> QED
  BY <1>1, <1>2 DEF Reading

LEMMA LoadedReading ==
  ASSUME NEW m, NEW n, NEW A \in SUBSET Pids, MemoryOK(m, A), Reading(m, A),
         NEW p \in A, NEW i \in DOMAIN m.pcb[p].page_table,
         Pos(m, p) = PageSize * i, i >= 2 => Run(m, p) = PageSize * i,
         NEW at, FreeFrame(m, at), IsLoaded(m, n, A, p, i, at)
  PROVE  Reading(n, A)
<1>1. ASSUME NEW q \in A
      PROVE  /\ Total(n, q) = Total(m, q) /\ Run(n, q) = Run(m, q)
             /\ n.pcb[q].script = m.pcb[q].script
             /\ DOMAIN n.pcb[q].page_table = DOMAIN m.pcb[q].page_table
             /\ q # p => Pos(n, q) = Pos(m, q)
             /\ \A k \in DOMAIN m.pcb[q].page_table :
                  ~(q = p /\ k = i)
                    => n.pcb[q].page_table[k] = m.pcb[q].page_table[k]
  BY SameNumbers DEF IsLoaded
<1>2. /\ i \in Nat /\ Total(m, p) \in Nat /\ 3 * i < Total(m, p)
      /\ Run(m, p) \in Nat
  BY ProcessNumbers DEF PageSize
<1>3. /\ 3 * i < Pos(n, p) /\ Pos(n, p) <= 3 * (i + 1) /\ Pos(n, p) \in Nat
      /\ Pos(n, p) = Total(m, p) \/ Pos(n, p) = 3 * (i + 1)
  <2>1. Pos(n, p) = IF 3 * (i + 1) <= Total(m, p) THEN 3 * (i + 1)
                                                  ELSE Total(m, p)
    BY DEF IsLoaded, PageSize
  <2> QED
    BY <1>2, <2>1
<1>4. ASSUME NEW q \in A
      PROVE  /\ ProperScript(n.pcb[q].script)
             /\ Pos(n, q) = Total(n, q) \/ Pos(n, q) % PageSize = 0
             /\ Run(n, q) <= Pos(n, q)
             /\ \A k \in Nat : k >= 2 /\ PageSize * k < Pos(n, q)
                                 => PageSize * k <= Run(n, q)
             /\ \A k \in DOMAIN n.pcb[q].page_table :
                  n.pcb[q].page_table[k].index[0] = Unloaded
                    <=> PageSize * k >= Pos(n, q)
  <2>1. CASE q # p
    BY <1>1, <2>1 DEF Reading
  <2>2. CASE q = p
    <3>1. ProperScript(n.pcb[p].script)
      BY <1>1 DEF Reading
    <3>2. Pos(n, p) = Total(n, p) \/ Pos(n, p) % 3 = 0
      BY <1>1, <1>2, <1>3
    <3>3. Run(n, p) <= Pos(n, p)
      <4>1. Run(m, p) <= 3 * i
        BY DEF Reading, PageSize
      <4> QED
        BY <1>1, <1>2, <1>3, <4>1
    <3>4. ASSUME NEW k \in Nat, k >= 2, 3 * k < Pos(n, p)
          PROVE  3 * k <= Run(n, p)
      <4>1. k <= i /\ Run(m, p) = 3 * i
        BY <1>2, <1>3, <3>4 DEF PageSize
      <4> QED
        BY <1>1, <1>2, <4>1
    <3>5. ASSUME NEW k \in DOMAIN n.pcb[p].page_table
          PROVE  n.pcb[p].page_table[k].index[0] = Unloaded <=> 3 * k >= Pos(n, p)
      <4>1. k \in DOMAIN m.pcb[p].page_table /\ k \in Nat
        BY <1>1, ProcessNumbers
      <4>2. CASE k = i
        <5>1. n.pcb[p].page_table[k].index[0] = at
          BY <4>2, OffsetsAre DEF IsLoaded, FreeFrame
        <5>2. at < Unloaded /\ at \in Nat
          <6>1. at + 0 \in FrameSlots /\ at \in Nat
            BY OffsetsAre DEF FreeFrame
          <6>2. at < FrameSize
            BY <6>1, StoreAssumption DEF FrameSlots
          <6> QED
            BY <6>1, <6>2, StoreAssumption DEF Unloaded
        <5> QED
          BY <1>2, <1>3, <4>2, <5>1, <5>2
      <4>3. CASE k # i
        <5>1. n.pcb[p].page_table[k] = m.pcb[p].page_table[k]
          BY <1>1, <4>1, <4>3
        <5>2. m.pcb[p].page_table[k].index[0] = Unloaded <=> 3 * k >= 3 * i
          BY <4>1 DEF Reading, PageSize
        <5>3. 3 * k >= 3 * i <=> 3 * k >= Pos(n, p)
          BY <1>2, <1>3, <4>1, <4>3
        <5> QED
          BY <5>1, <5>2, <5>3
      <4> QED
        BY <4>2, <4>3
    <3> QED
      BY <2>2, <3>1, <3>2, <3>3, <3>4, <3>5 DEF PageSize
  <2> QED
    BY <2>1, <2>2
<1> QED
  BY <1>4 DEF Reading

\* Only the process that runs is a line further.
LEMMA AdvancedNumbers ==
  ASSUME NEW m, NEW n, NEW A \in SUBSET Pids, NEW p \in A, NEW q \in A,
         MemoryOK(m, A), IsAdvanced(m, n, A, p)
  PROVE  /\ Total(n, q) = Total(m, q) /\ Pos(n, q) = Pos(m, q)
         /\ Run(n, q) = IF q = p THEN Run(m, q) + 1 ELSE Run(m, q)
         /\ n.pcb[q].script = m.pcb[q].script
         /\ DOMAIN n.pcb[q].page_table = DOMAIN m.pcb[q].page_table
         /\ q # p => (Live(n, q) <=> Live(m, q))
<1>1. Total(m, q) \in Nat /\ m.pcb[q].size = Total(m, q) - Run(m, q)
      /\ Run(m, q) \in Nat
  BY ProcessNumbers
<1>2. /\ n.pcb[q].script = m.pcb[q].script
      /\ n.pcb[q].size = IF q = p THEN m.pcb[q].size - 1 ELSE m.pcb[q].size
      /\ Pos(n, q) = Pos(m, q)
      /\ DOMAIN n.pcb[q].page_table = DOMAIN m.pcb[q].page_table
  BY DEF IsAdvanced
<1>3. Total(n, q) = Total(m, q)
  BY <1>2 DEF Total
<1>4. Run(n, q) = Total(m, q) - n.pcb[q].size
  BY <1>3 DEF Run
<1>5. Run(n, q) = IF q = p THEN Run(m, q) + 1 ELSE Run(m, q)
  <2>1. CASE q = p
    <3>1. n.pcb[q].size = m.pcb[q].size - 1
      BY <1>2, <2>1
    <3> HIDE DEF Run
    <3> QED
      BY <1>1, <1>4, <2>1, <3>1
  <2>2. CASE q # p
    BY <1>1, <1>2, <1>4, <2>2
  <2> QED
    BY <2>1, <2>2
<1>6. q # p => (Live(n, q) <=> Live(m, q))
  BY <1>2 DEF Live
<1> QED
  BY <1>2, <1>3, <1>5, <1>6

LEMMA AdvancedReading ==
  ASSUME NEW m, NEW n, NEW A \in SUBSET Pids, MemoryOK(m, A), Reading(m, A),
         NEW p \in A, IsAdvanced(m, n, A, p), Run(m, p) < Pos(m, p)
  PROVE  Reading(n, A)
<1> SUFFICES ASSUME NEW q \in A
             PROVE  /\ ProperScript(n.pcb[q].script)
                    /\ Pos(n, q) = Total(n, q) \/ Pos(n, q) % PageSize = 0
                    /\ Run(n, q) <= Pos(n, q)
                    /\ \A i \in Nat : i >= 2 /\ PageSize * i < Pos(n, q)
                                        => PageSize * i <= Run(n, q)
                    /\ \A i \in DOMAIN n.pcb[q].page_table :
                         n.pcb[q].page_table[i].index[0] = Unloaded
                           <=> PageSize * i >= Pos(n, q)
  BY DEF Reading
<1>1. /\ Total(n, q) = Total(m, q) /\ Pos(n, q) = Pos(m, q)
      /\ Run(n, q) = IF q = p THEN Run(m, q) + 1 ELSE Run(m, q)
      /\ n.pcb[q].script = m.pcb[q].script
      /\ DOMAIN n.pcb[q].page_table = DOMAIN m.pcb[q].page_table
  BY AdvancedNumbers, ZenonT(60)
<1>2. Run(m, q) \in Nat /\ Pos(m, q) \in Nat
  BY ProcessNumbers
<1>3. Run(m, q) <= Pos(m, q)
  BY DEF Reading
<1>4. Run(n, q) <= Pos(n, q)
  BY <1>1, <1>2, <1>3
<1>5. ASSUME NEW i \in Nat, i >= 2, PageSize * i < Pos(n, q)
      PROVE  PageSize * i <= Run(n, q)
  <2>1. PageSize * i <= Run(m, q)
    BY <1>1, <1>5 DEF Reading
  <2> QED
    BY <1>1, <1>2, <2>1 DEF PageSize
<1>6. ASSUME NEW i \in DOMAIN n.pcb[q].page_table
      PROVE  n.pcb[q].page_table[i].index[0] = Unloaded
               <=> PageSize * i >= Pos(n, q)
  <2>1. n.pcb[q].page_table[i].index = m.pcb[q].page_table[i].index
    BY <1>1 DEF IsAdvanced
  <2> QED
    BY <1>1, <2>1 DEF Reading
<1> QED
  BY <1>1, <1>4, <1>5, <1>6 DEF Reading

-----------------------------------------------------------------------------
(* The last two pages read of a process that runs stay in memory.          *)

\* The two pages read last stay in memory, if only spent pages leave it.
LEMMA LoadedTopTwo ==
  ASSUME NEW m, NEW n, NEW A \in SUBSET Pids, MemoryOK(m, A),
         NEW S, TopTwo(S, m, A),
         NEW p \in A, NEW i \in DOMAIN m.pcb[p].page_table,
         Pos(m, p) = PageSize * i,
         NEW at, IsLoaded(m, n, A, p, i, at),
         NEW T, \A x \in S : x \in T \/ Spent(n, x)
  PROVE  TopTwo(T \cup {Page(p, i)}, n, A)
<1> SUFFICES ASSUME NEW q \in A, NEW k \in Nat, Live(n, q),
                    PageSize * k < Pos(n, q), Pos(n, q) <= PageSize * (k + 2)
             PROVE  Page(q, k) \in T \cup {Page(p, i)}
  BY DEF TopTwo
<1>1. Live(m, q)
  BY SameNumbers DEF IsLoaded
<1>2. /\ i \in Nat /\ Total(m, p) \in Nat /\ 3 * i < Total(m, p)
      /\ Pos(m, q) \in Nat
  BY ProcessNumbers DEF PageSize
<1>3. Pos(n, q) \in Nat
  BY <1>2 DEF IsLoaded, PageSize
<1>4. Page(q, k) \in S => Page(q, k) \in T
  <2>1. Page(q, k).pid = q /\ Page(q, k).i = k
    BY DEF Page
  <2>2. ~Spent(n, Page(q, k))
    BY <1>3, <2>1 DEF Spent, PageSize
  <2> QED
    BY <2>2
<1>5. CASE q # p
  <2>1. Pos(n, q) = Pos(m, q)
    BY <1>5 DEF IsLoaded
  <2> QED
    BY <1>1, <1>4, <2>1 DEF TopTwo
<1>6. CASE q = p /\ k # i
  <2>1. Pos(n, p) = IF 3 * (i + 1) <= Total(m, p) THEN 3 * (i + 1)
                                                  ELSE Total(m, p)
    BY DEF IsLoaded, PageSize
  <2>2. 3 * k < 3 * i /\ 3 * i <= 3 * (k + 2)
    BY <1>2, <1>6, <2>1 DEF PageSize
  <2>3. Page(p, k) \in S
    BY <1>1, <1>6, <2>2 DEF TopTwo, PageSize
  <2> QED
    BY <1>4, <1>6, <2>3
<1>7. CASE q = p /\ k = i
  BY <1>7
<1> QED
  BY <1>5, <1>6, <1>7

LEMMA EvictedTopTwo ==
  ASSUME NEW m, NEW n, NEW A, NEW S, TopTwo(S, m, A), NEW v,
         IsEvicted(m, n, A, v)
  PROVE  TopTwo(S, n, A)
BY SameNumbers DEF TopTwo, IsEvicted

LEMMA AdvancedTopTwo ==
  ASSUME NEW m, NEW n, NEW A \in SUBSET Pids, MemoryOK(m, A),
         NEW S, TopTwo(S, m, A), NEW p \in A, Live(m, p), IsAdvanced(m, n, A, p)
  PROVE  TopTwo(S, n, A)
<1> SUFFICES ASSUME NEW q \in A, NEW k \in Nat, Live(n, q),
                    PageSize * k < Pos(n, q), Pos(n, q) <= PageSize * (k + 2)
             PROVE  Page(q, k) \in S
  BY DEF TopTwo
<1>1. Pos(n, q) = Pos(m, q) /\ (q # p => (Live(n, q) <=> Live(m, q)))
  BY AdvancedNumbers, Zenon
<1>2. Live(m, q)
  BY <1>1
<1> QED
  BY <1>1, <1>2 DEF TopTwo

-----------------------------------------------------------------------------
(* LRU_CACHE as a list: who stands before whom.                            *)

\* Where the element at place a stood before the one at k came to the front.
Old(k, a) == IF a = 1 THEN k ELSE IF a <= k THEN a - 1 ELSE a

\* An element moved to the front of a sequence.
LEMMA MovedPlaces ==
  ASSUME NEW S, NEW q \in Seq(S), NEW k \in DOMAIN q
  PROVE  /\ DOMAIN (<<q[k]>> \o RemoveAt(q, k)) = DOMAIN q
         /\ \A a \in DOMAIN q : /\ Old(k, a) \in DOMAIN q
                                /\ (<<q[k]>> \o RemoveAt(q, k))[a] = q[Old(k, a)]
<1> DEFINE n == Len(q)
           r == RemoveAt(q, k)
           u == SubSeq(q, 1, k - 1)
           v == SubSeq(q, k + 1, n)
           s == <<q[k]>> \o r
<1>1. n \in Nat /\ DOMAIN q = 1 .. n /\ k \in 1 .. n /\ q[k] \in S
  OBVIOUS
<1>2. /\ u \in Seq(S) /\ Len(u) = k - 1
      /\ \A j \in 1 .. k - 1 : u[j] = q[j]
  BY <1>1
<1>3. /\ v \in Seq(S) /\ Len(v) = n - k
      /\ \A j \in 1 .. n - k : v[j] = q[j + k]
  BY <1>1
<1>4. r = u \o v
  BY DEF RemoveAt
<1> HIDE DEF n, r, u, v
<1>5. r \in Seq(S) /\ Len(r) = n - 1
  <2> u \in Seq(S) /\ v \in Seq(S)
    BY <1>2, <1>3
  <2>1. u \o v \in Seq(S) /\ Len(u \o v) = Len(u) + Len(v)
    OBVIOUS
  <2>2. Len(u) + Len(v) = n - 1
    BY <1>1, <1>2, <1>3
  <2> QED
    BY <1>4, <2>1, <2>2
<1>6. \A j \in 1 .. k - 1 : r[j] = q[j]
  BY <1>1, <1>2, <1>3, <1>4
<1>7. ASSUME NEW j \in k .. n - 1
      PROVE  r[j] = q[j + 1]
  <2>1. r[j] = v[j - (k - 1)]
    BY <1>1, <1>2, <1>3, <1>4
  <2>2. j - (k - 1) \in 1 .. n - k /\ (j - (k - 1)) + k = j + 1
    BY <1>1
  <2> QED
    BY <1>3, <2>1, <2>2
<1>8. /\ DOMAIN s = 1 .. n
      /\ s[1] = q[k]
      /\ \A a \in 2 .. n : s[a] = r[a - 1]
  <2>1. <<q[k]>> \in Seq(S) /\ Len(<<q[k]>>) = 1 /\ <<q[k]>>[1] = q[k]
    BY <1>1
  <2>2. s \in Seq(S) /\ Len(s) = n
    BY <1>1, <1>5, <2>1
  <2>3. DOMAIN s = 1 .. n
    BY <2>2
  <2>4. s[1] = q[k]
    BY <1>1, <1>5, <2>1
  <2>5. \A a \in 2 .. n : s[a] = r[a - 1]
    BY <1>1, <1>5, <2>1
  <2> QED
    BY <2>3, <2>4, <2>5
<1> HIDE DEF s
<1>9. ASSUME NEW a \in 1 .. n
      PROVE  Old(k, a) \in 1 .. n /\ s[a] = q[Old(k, a)]
  <2>1. CASE a = 1
    BY <1>1, <1>8, <2>1 DEF Old
  <2>2. CASE a # 1 /\ a <= k
    <3>1. a \in 2 .. n /\ a - 1 \in 1 .. k - 1 /\ Old(k, a) = a - 1
      BY <1>1, <2>2 DEF Old
    <3> QED
      BY <1>1, <1>6, <1>8, <3>1
  <2>3. CASE a # 1 /\ a > k
    <3>1. a \in 2 .. n /\ a - 1 \in k .. n - 1 /\ Old(k, a) = a /\ (a - 1) + 1 = a
      BY <1>1, <2>3 DEF Old
    <3> QED
      BY <1>1, <1>7, <1>8, <3>1
  <2> QED
    BY <1>1, <2>1, <2>2, <2>3
<1> QED
  BY <1>1, <1>8, <1>9 DEF n, r, s

LEMMA MovedNoRepeats ==
  ASSUME NEW S, NEW q \in Seq(S), NEW k \in DOMAIN q, NoRepeats(q)
  PROVE  NoRepeats(<<q[k]>> \o RemoveAt(q, k))
<1> DEFINE s == <<q[k]>> \o RemoveAt(q, k)
<1>1. /\ DOMAIN s = DOMAIN q
      /\ \A a \in DOMAIN q : Old(k, a) \in DOMAIN q /\ s[a] = q[Old(k, a)]
  BY MovedPlaces
<1> HIDE DEF s
<1>2. DOMAIN q \subseteq Nat /\ k \in Nat
  OBVIOUS
<1>3. ASSUME NEW a \in DOMAIN q, NEW b \in DOMAIN q, s[a] = s[b]
      PROVE  a = b
  <2>1. Old(k, a) = Old(k, b)
    BY <1>1, <1>3 DEF NoRepeats
  <2> QED
    BY <1>2, <2>1 DEF Old
<1> QED
  BY <1>1, <1>3 DEF NoRepeats, s

\* Moving the page just used to the front keeps the order of LRU_CACHE.
LEMMA MovedRecency ==
  ASSUME NEW S, NEW q \in Seq(S), NEW k \in DOMAIN q, NEW m, NEW n,
         NoRepeats(q), Recency(q, m),
         \A y \in Range(q) : ~UsedBefore(n, q[k], y),
         \A x, y \in Range(q) : x # q[k] /\ y # q[k] /\ UsedBefore(n, x, y)
                                  => UsedBefore(m, x, y)
  PROVE  Recency(<<q[k]>> \o RemoveAt(q, k), n)
<1> DEFINE s == <<q[k]>> \o RemoveAt(q, k)
<1>1. /\ DOMAIN s = DOMAIN q
      /\ \A a \in DOMAIN q : Old(k, a) \in DOMAIN q /\ s[a] = q[Old(k, a)]
  BY MovedPlaces
<1> HIDE DEF s
<1>2. DOMAIN q \subseteq Nat /\ k \in Nat
  OBVIOUS
<1>3. ASSUME NEW a \in DOMAIN q, NEW b \in DOMAIN q, UsedBefore(n, s[a], s[b])
      PROVE  b < a
  <2>1. s[a] \in Range(q) /\ s[b] \in Range(q)
    BY <1>1 DEF Range
  <2>2. s[a] # q[k]
    BY <1>3, <2>1
  <2>3. a # 1
    BY <1>1, <2>2 DEF Old
  <2>4. CASE b = 1
    <3> HIDE DEF Old
    <3>1. a \in 1 .. Len(q) /\ Len(q) \in Nat
      OBVIOUS
    <3> QED
      BY <2>3, <2>4, <3>1
  <2>5. CASE b # 1
    <3>1. s[b] # q[k]
      <4>1. Old(k, b) # k
        BY <1>2, <2>5 DEF Old
      <4> QED
        BY <1>1, <4>1 DEF NoRepeats
    <3>2. UsedBefore(m, q[Old(k, a)], q[Old(k, b)])
      BY <1>1, <1>3, <2>1, <2>2, <3>1
    <3>3. Old(k, b) < Old(k, a)
      BY <1>1, <3>2 DEF Recency
    <3> QED
      BY <1>2, <2>3, <2>5, <3>3 DEF Old
  <2> QED
    BY <2>4, <2>5
<1> QED
  BY <1>1, <1>3 DEF Recency, s

\* An element added in front.
LEMMA ConsPlaces ==
  ASSUME NEW S, NEW q \in Seq(S), NEW x \in S
  PROVE  /\ DOMAIN (<<x>> \o q) = 1 .. Len(q) + 1
         /\ (<<x>> \o q)[1] = x
         /\ \A a \in DOMAIN (<<x>> \o q) :
              a # 1 => a - 1 \in DOMAIN q /\ (<<x>> \o q)[a] = q[a - 1]
<1> DEFINE r == <<x>> \o q
           n == Len(q)
<1>1. n \in Nat /\ DOMAIN q = 1 .. n
  OBVIOUS
<1>2. /\ DOMAIN r = 1 .. n + 1
      /\ r[1] = x
      /\ \A k \in 2 .. n + 1 : r[k] = q[k - 1]
  OBVIOUS
<1> HIDE DEF r, n
<1>3. \A a \in 1 .. n + 1 : a # 1 => a \in 2 .. n + 1 /\ a - 1 \in 1 .. n
  BY <1>1
<1> QED
  BY <1>1, <1>2, <1>3 DEF r, n

LEMMA ConsNoRepeats ==
  ASSUME NEW S, NEW q \in Seq(S), NEW x \in S, NoRepeats(q), x \notin Range(q)
  PROVE  NoRepeats(<<x>> \o q)
<1> DEFINE r == <<x>> \o q
           n == Len(q)
<1>1. /\ DOMAIN r = 1 .. n + 1 /\ r[1] = x /\ n \in Nat
      /\ \A a \in DOMAIN r : a # 1 => a - 1 \in DOMAIN q /\ r[a] = q[a - 1]
  BY ConsPlaces
<1> HIDE DEF r, n
<1>2. ASSUME NEW a \in DOMAIN r, NEW b \in DOMAIN r, r[a] = r[b]
      PROVE  a = b
  <2>1. \A c \in DOMAIN r : c # 1 => r[c] \in Range(q)
    BY <1>1 DEF Range
  <2>2. CASE a = 1 \/ b = 1
    BY <1>1, <1>2, <2>1, <2>2
  <2>3. CASE a # 1 /\ b # 1
    <3>1. a - 1 = b - 1
      BY <1>1, <1>2, <2>3 DEF NoRepeats
    <3> QED
      BY <1>1, <3>1
  <2> QED
    BY <2>2, <2>3
<1> QED
  BY <1>2 DEF NoRepeats, r

\* So does adding the page just loaded in front.
LEMMA ConsRecency ==
  ASSUME NEW S, NEW q \in Seq(S), NEW x \in S, NEW m, NEW n, Recency(q, m),
         \A y \in Range(q) \cup {x} : ~UsedBefore(n, x, y),
         \A y, z \in Range(q) : UsedBefore(n, y, z) => UsedBefore(m, y, z)
  PROVE  Recency(<<x>> \o q, n)
<1> DEFINE r == <<x>> \o q
           len == Len(q)
<1>1. /\ DOMAIN r = 1 .. len + 1 /\ r[1] = x /\ len \in Nat
      /\ \A a \in DOMAIN r : a # 1 => a - 1 \in DOMAIN q /\ r[a] = q[a - 1]
  BY ConsPlaces
<1> HIDE DEF r, len
<1>2. ASSUME NEW a \in DOMAIN r, NEW b \in DOMAIN r, UsedBefore(n, r[a], r[b])
      PROVE  b < a
  <2>1. \A c \in DOMAIN r : c # 1 => r[c] \in Range(q)
    BY <1>1 DEF Range
  <2>2. a # 1
    BY <1>1, <1>2, <2>1
  <2>3. CASE b = 1
    BY <1>1, <2>2, <2>3
  <2>4. CASE b # 1
    <3>1. UsedBefore(m, q[a - 1], q[b - 1])
      BY <1>1, <1>2, <2>1, <2>2, <2>4
    <3>2. b - 1 < a - 1
      BY <1>1, <2>2, <2>4, <3>1 DEF Recency
    <3> QED
      BY <1>1, <3>2
  <2> QED
    BY <2>3, <2>4
<1> QED
  BY <1>2 DEF Recency, r

\* The last element taken away.
LEMMA FrontPlaces ==
  ASSUME NEW S, NEW q \in Seq(S), q # <<>>
  PROVE  /\ Len(q) \in Nat \ {0} /\ DOMAIN q = 1 .. Len(q)
         /\ DOMAIN Front(q) = 1 .. Len(q) - 1
         /\ \A a \in DOMAIN Front(q) : a \in DOMAIN q /\ Front(q)[a] = q[a]
         /\ Len(q) \in DOMAIN q /\ Last(q) = q[Len(q)]
<1> DEFINE n == Len(q)
           r == Front(q)
<1>1. n \in Nat \ {0} /\ DOMAIN q = 1 .. n /\ \A k \in 1 .. n : q[k] \in S
  OBVIOUS
<1>2. DOMAIN r = 1 .. n - 1 /\ \A k \in 1 .. n - 1 : r[k] = q[k]
  BY <1>1 DEF Front
<1>3. Last(q) = q[n]
  BY DEF Last
<1> HIDE DEF r, n
<1>4. n \in DOMAIN q /\ \A k \in 1 .. n - 1 : k \in DOMAIN q
  BY <1>1
<1> QED
  BY <1>1, <1>2, <1>3, <1>4 DEF r, n

\* And so does popping the tail.
LEMMA FrontKeeps ==
  ASSUME NEW S, NEW q \in Seq(S), q # <<>>, NEW m, NEW n,
         NoRepeats(q), Recency(q, m),
         \A y, z \in Range(q) : UsedBefore(n, y, z) => UsedBefore(m, y, z)
  PROVE  /\ NoRepeats(Front(q))
         /\ Recency(Front(q), n)
         /\ Range(Front(q)) = Range(q) \ {Last(q)}
<1> DEFINE r == Front(q)
<1>1. /\ Len(q) \in Nat \ {0} /\ DOMAIN q = 1 .. Len(q)
      /\ DOMAIN r = 1 .. Len(q) - 1
      /\ \A a \in DOMAIN r : a \in DOMAIN q /\ r[a] = q[a]
      /\ Len(q) \in DOMAIN q /\ Last(q) = q[Len(q)]
  BY FrontPlaces
<1>2. /\ Range(r) \subseteq Range(q)
      /\ Range(q) \subseteq Range(r) \cup {Last(q)}
  BY LastAndFront
<1> HIDE DEF r
<1>3. \A a \in DOMAIN r : r[a] # q[Len(q)]
  <2>1. \A a \in DOMAIN r : a # Len(q)
    BY <1>1
  <2> QED
    BY <1>1, <2>1 DEF NoRepeats
<1>4. Last(q) \notin Range(r)
  BY <1>1, <1>3 DEF Range
<1>5. \A a \in DOMAIN r : r[a] \in Range(q)
  BY <1>1 DEF Range
<1>6. NoRepeats(r)
  BY <1>1 DEF NoRepeats
<1>7. ASSUME NEW a \in DOMAIN r, NEW b \in DOMAIN r, UsedBefore(n, r[a], r[b])
      PROVE  b < a
  <2>1. UsedBefore(m, q[a], q[b])
    BY <1>1, <1>5, <1>7
  <2> QED
    BY <1>1, <2>1 DEF Recency
<1>8. Recency(r, n)
  BY <1>7 DEF Recency
<1> QED
  BY <1>2, <1>4, <1>6, <1>8 DEF r

\* The page at the end of LRU_CACHE is used before no other.
LEMMA LastIsOldest ==
  ASSUME NEW S, NEW q \in Seq(S), q # <<>>, NEW m, Recency(q, m),
         NEW y \in Range(q)
  PROVE  ~UsedBefore(m, y, Last(q))
<1>1. /\ Len(q) \in Nat /\ DOMAIN q = 1 .. Len(q)
      /\ Len(q) \in DOMAIN q /\ Last(q) = q[Len(q)]
  BY FrontPlaces
<1>2. PICK a \in DOMAIN q : y = q[a]
  BY DEF Range
<1>3. SUFFICES ASSUME UsedBefore(m, y, Last(q)) PROVE FALSE
  OBVIOUS
<1>4. Len(q) < a
  BY <1>1, <1>2, <1>3 DEF Recency
<1> QED
  BY <1>1, <1>2, <1>4

-----------------------------------------------------------------------------
(* The order of LRU_CACHE over the steps of a process.                     *)

\* No page after the second is in memory before its process has come to it.
Come(m, S) == \A x \in S : x.i >= 2 => PageSize * x.i <= Run(m, x.pid)

\* A page in memory beyond the second was come to.
LEMMA OrderedCome ==
  ASSUME NEW l, NEW m, NEW A, Reading(m, A), Frames(Range(l), m, A),
         Range(l) \subseteq TablePages(m, A)
  PROVE  Come(m, Range(l))
<1> SUFFICES ASSUME NEW x \in Range(l), x.i >= 2
             PROVE  PageSize * x.i <= Run(m, x.pid)
  BY DEF Come
<1>1. x.pid \in A /\ x.i \in Nat
  BY DEF TablePages
<1>2. PageSize * x.i < Pos(m, x.pid)
  BY DEF Frames, Resident
<1> QED
  BY <1>1, <1>2 DEF Reading

\* No page is used after the one that runs: the other processes are not far
\* enough ahead, those behind it in the table not ahead at all.
LEMMA TouchedIsNewest ==
  ASSUME NEW m, NEW n, NEW A \in SUBSET Pids, NEW p \in A, NEW S,
         MemoryOK(m, A), IsAdvanced(m, n, A, p),
         S \subseteq TablePages(m, A), Come(m, S),
         NEW i \in Nat, PageSize * i <= Run(m, p), Run(m, p) < PageSize * (i + 1),
         \A q \in A : Run(m, q) <= Run(m, p) + 2,
         \A q \in A : p < q => Run(m, q) <= Run(m, p),
         NEW y \in S
  PROVE  ~UsedBefore(n, Page(p, i), y)
<1> DEFINE q == y.pid
           j == y.i
<1>1. q \in A /\ j \in Nat /\ (j >= 2 => 3 * j <= Run(m, q))
  BY DEF TablePages, Come, PageSize
<1>2. Run(n, q) = (IF q = p THEN Run(m, q) + 1 ELSE Run(m, q))
      /\ Run(n, p) = Run(m, p) + 1
  <2>1. \A r \in A : Run(n, r) = IF r = p THEN Run(m, r) + 1 ELSE Run(m, r)
    BY AdvancedNumbers, ZenonT(60)
  <2> HIDE DEF q
  <2> QED
    BY <1>1, <2>1
<1>3. /\ Run(m, p) \in Nat /\ Run(m, q) \in Nat /\ p \in Nat /\ q \in Nat
      /\ 3 * i <= Run(m, p) /\ Run(m, p) < 3 * i + 3
  BY <1>1, ProcessNumbers DEF PageSize
<1>4. /\ Run(m, q) <= Run(m, p) + 2
      /\ p < q => Run(m, q) <= Run(m, p)
  BY <1>1
<1>5. Page(p, i).pid = p /\ Page(p, i).i = i
  BY DEF Page
<1>6. /\ UsedBefore(n, Page(p, i), y) <=>
           \/ j >= i + 2
           \/ j = i + 1 /\ Run(n, q) >= 3 * i + 5
           \/ /\ j = i /\ p < q
              /\ Run(n, p) >= 3 * (i + 1) /\ Run(n, q) >= 3 * (i + 1)
  BY <1>5 DEF UsedBefore, PageSize
<1> HIDE DEF q, j
<1>7. CASE q = p
  <2>1. Run(n, q) = Run(m, p) + 1
    BY <1>2, <1>7
  <2> QED
    BY <1>1, <1>3, <1>6, <1>7, <2>1
<1>8. CASE q # p
  <2>1. Run(n, q) = Run(m, q)
    BY <1>2, <1>8
  <2>2. ~(j >= i + 2)
    BY <1>1, <1>3, <1>4
  <2>3. ~(j = i + 1 /\ Run(n, q) >= 3 * i + 5)
    BY <1>1, <1>3, <1>4, <2>1
  <2>4. ~(j = i /\ p < q /\ Run(n, p) >= 3 * (i + 1) /\ Run(n, q) >= 3 * (i + 1))
    BY <1>1, <1>2, <1>3, <1>4, <2>1
  <2> QED
    BY <1>6, <2>2, <2>3, <2>4
<1> QED
  BY <1>7, <1>8

\* The line that is run changes nothing about the order of other pages.
LEMMA OthersKeepOrder ==
  ASSUME NEW m, NEW n, NEW A \in SUBSET Pids, NEW p \in A, NEW S,
         MemoryOK(m, A), IsAdvanced(m, n, A, p), S \subseteq TablePages(m, A),
         NEW i \in Nat, PageSize * i <= Run(m, p), Run(m, p) < PageSize * (i + 1),
         NEW x \in S, NEW y \in S, x # Page(p, i), y # Page(p, i),
         UsedBefore(n, x, y)
  PROVE  UsedBefore(m, x, y)
<1>1. /\ x.pid \in A /\ y.pid \in A /\ x.i \in Nat /\ y.i \in Nat
      /\ ~(x.pid = p /\ x.i = i) /\ ~(y.pid = p /\ y.i = i)
  BY DEF TablePages, Page
<1>2. ASSUME NEW z \in S, ~(z.pid = p /\ z.i = i)
      PROVE  /\ Run(n, z.pid) >= 3 * z.i + 2 => Run(m, z.pid) >= 3 * z.i + 2
             /\ Run(n, z.pid) >= 3 * z.i + 3 => Run(m, z.pid) >= 3 * z.i + 3
  <2>1. z.pid \in A /\ z.i \in Nat
    BY DEF TablePages
  <2>2. /\ Run(m, z.pid) \in Nat /\ Run(m, p) \in Nat
        /\ 3 * i <= Run(m, p) /\ Run(m, p) < 3 * i + 3
    BY <2>1, ProcessNumbers DEF PageSize
  <2>3. Run(n, z.pid) = IF z.pid = p THEN Run(m, z.pid) + 1 ELSE Run(m, z.pid)
    BY <2>1, AdvancedNumbers
  <2>4. CASE z.pid = p
    <3>1. Run(n, p) = Run(m, p) + 1 /\ z.i # i
      BY <1>2, <2>3, <2>4
    <3> QED
      BY <2>1, <2>2, <2>4, <3>1
  <2>5. CASE z.pid # p
    BY <2>3, <2>5
  <2> QED
    BY <2>4, <2>5
<1>3. /\ Run(n, y.pid) >= 3 * y.i + 2 => Run(m, y.pid) >= 3 * y.i + 2
      /\ Run(n, y.pid) >= 3 * y.i + 3 => Run(m, y.pid) >= 3 * y.i + 3
      /\ Run(n, x.pid) >= 3 * x.i + 3 => Run(m, x.pid) >= 3 * x.i + 3
  BY <1>1, <1>2
<1> QED
  BY <1>1, <1>3 DEF UsedBefore, PageSize

\* No page in memory is used after the one that is loaded.
LEMMA LoadedIsNewest ==
  ASSUME NEW m, NEW n, NEW A \in SUBSET Pids, NEW p \in A, NEW S,
         MemoryOK(m, A), SameTables(m, n, A),
         S \subseteq TablePages(m, A), Come(m, S),
         NEW i \in Nat, Run(m, p) <= PageSize * i,
         \A q \in A : Run(m, q) <= Run(m, p) + 2,
         NEW y \in S \cup {Page(p, i)}
  PROVE  ~UsedBefore(n, Page(p, i), y)
<1> DEFINE q == y.pid
           j == y.i
<1>1. Page(p, i).pid = p /\ Page(p, i).i = i
  BY DEF Page
<1>2. q \in A /\ j \in Nat /\ (j >= 2 => 3 * j <= Run(m, q) \/ j = i)
  BY <1>1 DEF TablePages, Come, PageSize
<1>3. Run(n, q) = Run(m, q) /\ Run(n, p) = Run(m, p)
  BY <1>2, SameNumbers
<1>4. /\ Run(m, p) \in Nat /\ Run(m, q) \in Nat /\ Run(m, p) <= 3 * i
      /\ Run(m, q) <= Run(m, p) + 2
  BY <1>2, ProcessNumbers DEF PageSize
<1>5. /\ UsedBefore(n, Page(p, i), y) <=>
           \/ j >= i + 2
           \/ j = i + 1 /\ Run(n, q) >= 3 * i + 5
           \/ /\ j = i /\ p < q
              /\ Run(n, p) >= 3 * (i + 1) /\ Run(n, q) >= 3 * (i + 1)
  BY <1>1 DEF UsedBefore, PageSize
<1> HIDE DEF q, j
<1> QED
  BY <1>2, <1>3, <1>4, <1>5

\* Loading and evicting change no order of use.
LEMMA SameOrder ==
  ASSUME NEW m, NEW n, NEW A, SameTables(m, n, A), NEW S,
         S \subseteq TablePages(m, A), NEW x \in S, NEW y \in S,
         UsedBefore(n, x, y)
  PROVE  UsedBefore(m, x, y)
<1>1. x.pid \in A /\ y.pid \in A
  BY DEF TablePages
<1>2. Run(n, x.pid) = Run(m, x.pid) /\ Run(n, y.pid) = Run(m, y.pid)
  BY <1>1, SameNumbers
<1> QED
  BY <1>2 DEF UsedBefore

\* A line of the page that is moved to the front.
LEMMA OrderedAdvanced ==
  ASSUME NEW m, NEW n, NEW A \in SUBSET Pids, NEW p \in A, NEW i \in Nat,
         NEW l \in Seq(Pages), NEW k \in DOMAIN l, l[k] = Page(p, i),
         Range(l) \subseteq TablePages(m, A), MemoryOK(m, A),
         IsAdvanced(m, n, A, p), Ordered(l, m, A),
         Live(m, p), Run(m, p) < Pos(m, p),
         PageSize * i <= Run(m, p), Run(m, p) < PageSize * (i + 1),
         \A q \in A : Run(m, q) <= Run(m, p) + 2,
         \A q \in A : p < q => Run(m, q) <= Run(m, p)
  PROVE  Ordered(<<l[k]>> \o RemoveAt(l, k), n, A)
<1> DEFINE s == <<l[k]>> \o RemoveAt(l, k)
<1>1. /\ Reading(m, A) /\ NoRepeats(l) /\ Frames(Range(l), m, A)
      /\ TopTwo(Range(l), m, A) /\ Recency(l, m)
  BY DEF Ordered
<1>2. Range(s) = Range(l)
  BY MovedToFront
<1>3. NoRepeats(s)
  BY <1>1, MovedNoRepeats
<1>4. Reading(n, A) /\ Frames(Range(l), n, A) /\ TopTwo(Range(l), n, A)
  BY <1>1, AdvancedReading, AdvancedFrames, AdvancedTopTwo
<1>5. Come(m, Range(l))
  BY <1>1, OrderedCome
<1>6. \A y \in Range(l) : ~UsedBefore(n, l[k], y)
  BY <1>5, TouchedIsNewest
<1>7. \A x, y \in Range(l) : x # l[k] /\ y # l[k] /\ UsedBefore(n, x, y)
                               => UsedBefore(m, x, y)
  BY OthersKeepOrder
<1>8. Recency(s, n)
  BY <1>1, <1>6, <1>7, MovedRecency
<1> HIDE DEF s
<1> QED
  BY <1>2, <1>3, <1>4, <1>8 DEF Ordered, s

\* A page that is loaded into a free frame.
LEMMA OrderedLoaded ==
  ASSUME NEW m, NEW n, NEW A \in SUBSET Pids, NEW p \in A,
         NEW i \in DOMAIN m.pcb[p].page_table, NEW at,
         NEW l \in Seq(Pages), Page(p, i) \notin Range(l),
         Range(l) \subseteq TablePages(m, A), MemoryOK(m, A), Ordered(l, m, A),
         FreeFrame(m, at), IsLoaded(m, n, A, p, i, at),
         Pos(m, p) = PageSize * i, i >= 2 => Run(m, p) = PageSize * i,
         \A q \in A : Run(m, q) <= Run(m, p) + 2
  PROVE  Ordered(<<Page(p, i)>> \o l, n, A)
<1> DEFINE pg == Page(p, i)
           s == <<pg>> \o l
<1>1. /\ Reading(m, A) /\ NoRepeats(l) /\ Frames(Range(l), m, A)
      /\ TopTwo(Range(l), m, A) /\ Recency(l, m)
  BY DEF Ordered
<1>2. i \in Nat /\ SameTables(m, n, A)
  BY ProcessNumbers DEF IsLoaded
<1>3. pg \in Pages
  BY <1>2 DEF Page, Pages
<1>4. Run(m, p) <= PageSize * i
  BY <1>1 DEF Reading
<1>5. Range(s) = Range(l) \cup {pg}
  BY <1>3, AddedFirst
<1>6. NoRepeats(s)
  BY <1>1, <1>3, ConsNoRepeats
<1>7. Reading(n, A)
  BY <1>1, LoadedReading
<1>8. Frames(Range(l) \cup {pg}, n, A)
  BY <1>1, LoadedFrames
<1>9. TopTwo(Range(l) \cup {pg}, n, A)
  BY <1>1, LoadedTopTwo
<1>10. Come(m, Range(l))
  BY <1>1, OrderedCome
<1>11. \A y \in Range(l) \cup {pg} : ~UsedBefore(n, pg, y)
  BY <1>2, <1>4, <1>10, LoadedIsNewest
<1>12. \A x, y \in Range(l) : UsedBefore(n, x, y) => UsedBefore(m, x, y)
  BY <1>2, SameOrder
<1> HIDE DEF pg
<1>13. Recency(s, n)
  BY <1>1, <1>3, <1>11, <1>12, ConsRecency
<1> HIDE DEF s
<1> QED
  BY <1>5, <1>6, <1>7, <1>8, <1>9, <1>13 DEF Ordered, s, pg

\* A page that is loaded in place of the least recently used one.
LEMMA OrderedReplaced ==
  ASSUME NEW m, NEW e, NEW n, NEW A \in SUBSET Pids, NEW p \in A,
         NEW i \in DOMAIN m.pcb[p].page_table, NEW at,
         NEW l \in Seq(Pages), l # <<>>, Page(p, i) \notin Range(l),
         Range(l) \subseteq TablePages(m, A), MemoryOK(m, A), MemoryOK(e, A),
         Ordered(l, m, A), IsEvicted(m, e, A, Last(l)),
         FreeFrame(e, at), IsLoaded(e, n, A, p, i, at),
         Pos(m, p) = PageSize * i, i >= 2 => Run(m, p) = PageSize * i,
         \A q \in A : Run(m, q) <= Run(m, p) + 2,
         Spent(n, Last(l))
  PROVE  Ordered(<<Page(p, i)>> \o Front(l), n, A)
<1> DEFINE pg == Page(p, i)
           f == Front(l)
           v == Last(l)
           S == Range(l)
<1>1. /\ Reading(m, A) /\ NoRepeats(l) /\ Frames(S, m, A)
      /\ TopTwo(S, m, A) /\ Recency(l, m)
  BY DEF Ordered
<1>2. v \in S /\ f \in Seq(Pages)
  BY LastAndFront
<1>3. /\ SameTables(m, e, A) /\ SameTables(e, n, A)
      /\ TablePages(e, A) = TablePages(m, A)
  BY SamePages DEF IsEvicted, IsLoaded
<1>4. \A x, y \in S : UsedBefore(e, x, y) => UsedBefore(m, x, y)
  BY <1>3, SameOrder
<1>5. NoRepeats(f) /\ Recency(f, e) /\ Range(f) = S \ {v}
  BY <1>1, <1>4, FrontKeeps
<1>6. v \in TablePages(m, A) /\ Resident(m, v)
  BY <1>1, <1>2 DEF Frames
<1>7. Reading(e, A)
  BY <1>1, <1>6, EvictedReading
<1>8. Frames(S \ {v}, e, A)
  BY <1>1, <1>2, EvictedFrames
<1>9. TopTwo(S, e, A)
  BY <1>1, EvictedTopTwo
<1>10. /\ i \in DOMAIN e.pcb[p].page_table /\ i \in Nat
       /\ Pos(e, p) = Pos(m, p)
       /\ \A q \in A : Run(e, q) = Run(m, q)
  BY <1>3, SameNumbers, ProcessNumbers DEF IsEvicted
<1>11. /\ Range(f) \subseteq TablePages(e, A) /\ pg \notin Range(f)
       /\ S \subseteq TablePages(e, A)
  BY <1>3, <1>5
<1>12. Reading(n, A)
  BY <1>7, <1>10, LoadedReading
<1>13. Frames(Range(f) \cup {pg}, n, A)
  BY <1>5, <1>8, <1>10, <1>11, LoadedFrames
<1>14. TopTwo(Range(f) \cup {pg}, n, A)
  <2>1. \A x \in S : x \in Range(f) \/ Spent(n, x)
    BY <1>5
  <2> QED
    BY <1>9, <1>10, <2>1, LoadedTopTwo
<1>15. Come(e, Range(f))
  <2>1. Frames(Range(f), e, A)
    BY <1>5, <1>8
  <2> QED
    BY <1>7, <1>11, <2>1, OrderedCome
<1>16. \A y \in Range(f) \cup {pg} : ~UsedBefore(n, pg, y)
  <2>1. Run(e, p) <= PageSize * i
    BY <1>7, <1>10 DEF Reading
  <2>2. \A q \in A : Run(e, q) <= Run(e, p) + 2
    BY <1>10
  <2> QED
    BY <1>3, <1>10, <1>11, <1>15, <2>1, <2>2, LoadedIsNewest
<1>17. \A x, y \in Range(f) : UsedBefore(n, x, y) => UsedBefore(e, x, y)
  BY <1>3, <1>11, SameOrder
<1>18. pg \in Pages
  BY <1>10 DEF Page, Pages
<1> HIDE DEF pg, f
<1>19. Range(<<pg>> \o f) = Range(f) \cup {pg}
  BY <1>2, <1>18, AddedFirst
<1>20. NoRepeats(<<pg>> \o f)
  BY <1>2, <1>5, <1>11, <1>18, ConsNoRepeats
<1>21. Recency(<<pg>> \o f, n)
  BY <1>2, <1>5, <1>16, <1>17, <1>18, ConsRecency
<1> DEFINE s == <<pg>> \o f
<1> HIDE DEF s
<1>22. Ordered(s, n, A)
  BY <1>12, <1>13, <1>14, <1>19, <1>20, <1>21 DEF Ordered, s
<1> QED
  BY <1>22 DEF s, pg, f

\* The victim has no line left to run: the page before the last of the process
\* that faults was used before every page that still has one.
LEMMA VictimIsSpent ==
  ASSUME NEW m, NEW n, NEW A \in SUBSET Pids, NEW p \in A, NEW i \in Nat,
         NEW l \in Seq(Pages), l # <<>>,
         Range(l) \subseteq TablePages(m, A), MemoryOK(m, A), Ordered(l, m, A),
         i >= 2, Live(m, p), Run(m, p) = PageSize * i, Pos(m, p) = PageSize * i,
         \A q \in A : Run(m, q) <= Run(m, p) + 2,
         \A q \in A : Live(m, q) /\ q # p
                        => /\ Run(m, q) + 1 >= PageSize * i
                           /\ q < p => Pos(m, q) > PageSize * i,
         SameTables(m, n, A), \A q \in A : q # p => Pos(n, q) = Pos(m, q),
         Pos(n, p) \in Nat, Pos(n, p) > PageSize * i
  PROVE  Spent(n, Last(l))
<1> DEFINE v == Last(l)
           q == v.pid
           j == v.i
           x == Page(p, i - 2)
<1>1. /\ Reading(m, A) /\ Frames(Range(l), m, A)
      /\ TopTwo(Range(l), m, A) /\ Recency(l, m)
  BY DEF Ordered
<1>2. v \in Range(l)
  BY LastAndFront
<1>3. q \in A /\ j \in Nat /\ PageSize * j < Pos(m, q)
  BY <1>1, <1>2 DEF TablePages, Frames, Resident
<1>4. /\ Run(m, p) \in Nat /\ Run(m, q) \in Nat /\ p \in Nat /\ q \in Nat
      /\ Pos(m, p) \in Nat /\ Pos(m, q) \in Nat
  BY <1>3, ProcessNumbers
<1>5. x \in Range(l)
  BY <1>1, <1>4 DEF TopTwo, PageSize
<1>6. ~UsedBefore(m, x, v)
  BY <1>1, <1>5, LastIsOldest
<1>7. x.pid = p /\ x.i = i - 2
  BY DEF Page
<1>8. /\ ~(j >= i)
      /\ ~(j = i - 1 /\ Run(m, q) >= 3 * i - 1)
      /\ ~(j = i - 2 /\ p < q /\ Run(m, p) >= 3 * (i - 1) /\ Run(m, q) >= 3 * (i - 1))
  <2> HIDE DEF v, x
  <2>1. /\ ~(j >= (i - 2) + 2)
        /\ ~(j = (i - 2) + 1 /\ Run(m, q) >= 3 * (i - 2) + 5)
        /\ ~(j = i - 2 /\ p < q /\ Run(m, p) >= 3 * ((i - 2) + 1)
                             /\ Run(m, q) >= 3 * ((i - 2) + 1))
    BY <1>6, <1>7 DEF UsedBefore, PageSize
  <2> HIDE DEF q, j
  <2> QED
    BY <1>3, <1>4, <2>1
<1>9. SUFFICES ASSUME Live(n, q), ~(PageSize * (j + 2) < Pos(n, q))
               PROVE  FALSE
  BY DEF Spent
<1>10. Live(m, q)
  BY <1>3, <1>9, SameNumbers
<1> HIDE DEF q, j, v, x
<1>11. CASE q = p
  <2>1. Pos(n, q) > 3 * i /\ ~(3 * (j + 2) < Pos(n, q)) /\ 3 * j < 3 * i
    BY <1>3, <1>9, <1>11 DEF PageSize
  <2> QED
    BY <1>3, <1>4, <1>8, <1>11, <2>1 DEF PageSize
<1>12. CASE q # p
  <2>1. Pos(n, q) = Pos(m, q)
    BY <1>3, <1>12
  <2>2. /\ Run(m, q) + 1 >= 3 * i
        /\ q < p => Pos(m, q) > 3 * i
        /\ Run(m, q) <= Pos(m, q)
        /\ Pos(m, q) <= 3 * (j + 2)
    BY <1>1, <1>3, <1>4, <1>9, <1>10, <1>12, <2>1 DEF Reading, PageSize
  <2>3. j = i - 2 \/ j = i - 1 \/ j >= i
    BY <1>3, <2>2, <1>4
  <2>4. CASE j = i - 2
    BY <1>4, <1>8, <1>12, <2>2, <2>4 DEF PageSize
  <2> QED
    BY <1>3, <1>4, <1>8, <2>2, <2>3, <2>4
<1> QED
  BY <1>11, <1>12

-----------------------------------------------------------------------------
(* The process that runs.                                                  *)

\* Where it is, and how far the others are.
LEMMA RunningFacts ==
  ASSUME IInv, Well, Running
  PROVE  /\ Range(all) \in SUBSET Pids /\ curr \in Range(all)
         /\ MemoryOK(Memory, Range(all))
         /\ lru \in Seq(Pages) /\ Range(lru) \subseteq TablePages(Memory, Range(all))
         /\ Ordered(lru, Memory, Range(all)) /\ Begun(Memory, Range(all))
         /\ Lockstep
         /\ Live(Memory, curr)
         /\ ThisPage \in Nat /\ ThisPage \in DOMAIN Memory.pcb[curr].page_table
         /\ PageSize * ThisPage <= Run(Memory, curr)
         /\ Run(Memory, curr) < PageSize * (ThisPage + 1)
         /\ ThisEntry.program_counter = Run(Memory, curr) - PageSize * ThisPage
         /\ ThisEntry.program_counter \in Offsets
         /\ \A q \in Range(all) : Run(Memory, q) <= Start(curr) + 2
         /\ \A q \in Range(all) : Run(Memory, q) <= Run(Memory, curr) + 2
         /\ \A q \in Range(all) : curr < q => Run(Memory, q) <= Run(Memory, curr)
<1> DEFINE A == Range(all)
<1>1. /\ A \in SUBSET Pids /\ curr \in A /\ MemoryOK(Memory, A)
      /\ lru \in Seq(Pages) /\ Range(lru) \subseteq TablePages(Memory, A)
  BY ThisPageType, AllArePids DEF IInv, Holds, ListsPages
<1>2. Ordered(lru, Memory, A) /\ Begun(Memory, A) /\ Lockstep
  BY DEF Well, Running
<1>3. /\ Process(pcb[curr]) /\ pcb[curr].size > 0
      /\ ThisPage \in DOMAIN pcb[curr].page_table /\ ThisPage \in Nat
      /\ ThisEntry.program_counter \in Offsets
      /\ ThisEntry.program_counter =
           CountLines(pcb[curr].script) - pcb[curr].size - PageSize * ThisPage
  BY ThisPageType
<1>4. /\ PageSize * ThisPage <= CountLines(pcb[curr].script) - pcb[curr].size
      /\ CountLines(pcb[curr].script) - pcb[curr].size < PageSize * (ThisPage + 1)
  BY <1>3, CurrentPageType DEF ThisPage
<1>5. Run(Memory, curr) = CountLines(pcb[curr].script) - pcb[curr].size
  BY DEF Run, Total, Memory
<1>6. Live(Memory, curr) /\ ThisPage \in DOMAIN Memory.pcb[curr].page_table
  BY <1>3 DEF Live, Memory
<1>7. \A q \in A : /\ Run(Memory, q) <= Start(curr) + 2
                   /\ curr < q => Run(Memory, q) <= Run(Memory, curr)
  BY <1>1, <1>2, <1>6 DEF Lockstep, Together
<1>8. ASSUME NEW q \in A
      PROVE  Run(Memory, q) <= Run(Memory, curr) + 2
  <2>1. Run(Memory, q) \in Nat /\ Run(Memory, curr) \in Nat
    BY <1>1, ProcessNumbers
  <2>2. Run(Memory, q) <= Start(curr) + 2
    BY <1>7
  <2>3. Start(curr) = Run(Memory, curr) - 1 \/ Start(curr) = Run(Memory, curr)
    BY DEF Start
  <2> QED
    BY <2>1, <2>2, <2>3
<1> QED
  BY <1>1, <1>2, <1>3, <1>4, <1>5, <1>6, <1>7, <1>8

\* Each other process that has lines left waits for its turn.
LEMMA OthersWait ==
  ASSUME IInv, Well, Running, NEW q \in Range(all), q # curr, Live(Memory, q)
  PROVE  /\ q \in Range(queue)
         /\ Start(q) = Run(Memory, q)
         /\ Hit(q) <=> Run(Memory, q) < Pos(Memory, q)
         /\ curr < q \/ q < curr
         /\ curr < q => Even(curr, q)
         /\ q < curr => Turned(curr, q)
<1>1. /\ Lockstep /\ curr \in Range(all) /\ Live(Memory, curr)
      /\ Range(all) \in SUBSET Pids
  BY RunningFacts
<1>2. q \in Range(queue)
  BY <1>1 DEF Lockstep, AllWait
<1>3. InTurn(curr, q)
  BY <1>2 DEF InTurn, Running
<1>4. \/ curr < q /\ Even(curr, q)
      \/ q < curr /\ Turned(curr, q)
  BY <1>1, <1>3 DEF Lockstep, TakeTurns
<1>5. q \in Int /\ curr \in Int
  BY <1>1 DEF Pids
<1>6. ~MidTurn(q)
  BY DEF MidTurn
<1> HIDE DEF MidTurn
<1> QED
  BY <1>2, <1>4, <1>5, <1>6 DEF Start, Hit

\* A line is in memory exactly when it was read, and what is fetched is the
\* line that the process has come to; no line is missing but the first of a
\* page after the second.
LEMMA InMemoryMeans ==
  ASSUME IInv, Well, Running
  PROVE  /\ InMemory <=> Run(Memory, curr) < Pos(Memory, curr)
         /\ InMemory => /\ Page(curr, ThisPage) \in Range(lru)
                        /\ Fetched = <<pcb[curr].script, Run(Memory, curr)>>
         /\ ~InMemory => /\ Page(curr, ThisPage) \notin Range(lru)
                         /\ Run(Memory, curr) = PageSize * ThisPage
                         /\ Pos(Memory, curr) = PageSize * ThisPage
                         /\ ThisPage >= 2
<1> DEFINE A == Range(all)
           m == Memory
           i == ThisPage
           r == Run(m, curr)
           pg == Page(curr, i)
           pc == ThisEntry.program_counter
<1>1. /\ A \in SUBSET Pids /\ curr \in A /\ MemoryOK(m, A)
      /\ Ordered(lru, m, A) /\ Begun(m, A)
      /\ Live(m, curr) /\ i \in Nat /\ i \in DOMAIN m.pcb[curr].page_table
      /\ 3 * i <= r /\ r < 3 * (i + 1)
      /\ pc = r - 3 * i /\ pc \in Offsets
  BY RunningFacts DEF PageSize
<1>2. /\ Reading(m, A) /\ Frames(Range(lru), m, A) /\ TopTwo(Range(lru), m, A)
  BY <1>1 DEF Ordered
<1>3. /\ r \in Nat /\ Pos(m, curr) \in Nat /\ Total(m, curr) \in Nat
      /\ r < Total(m, curr)
  BY <1>1, ProcessNumbers
<1>4. /\ r <= Pos(m, curr)
      /\ Pos(m, curr) = Total(m, curr) \/ Pos(m, curr) % 3 = 0
      /\ Pos(m, curr) = Total(m, curr) \/ Pos(m, curr) >= 6
      /\ \A k \in Nat : k >= 2 /\ 3 * k < Pos(m, curr) => 3 * k <= r
  BY <1>1, <1>2 DEF Reading, Begun, PageSize
<1>5. EntryIn(m, pg) = ThisEntry /\ pg.pid = curr /\ pg.i = i
  BY DEF EntryIn, Page, ThisEntry, Memory
<1>6. InMemory <=> ThisEntry.valid_bit[pc]
  BY DEF InMemory
<1> HIDE DEF i, r, pc, pg, m
<1>7. CASE r < Pos(m, curr)
  <2>1. Pos(m, curr) <= 3 * (i + 2)
    <3>1. ~(3 * (i + 2) < Pos(m, curr))
      <4>1. i + 2 \in Nat /\ i + 2 >= 2 /\ ~(3 * (i + 2) <= r)
        BY <1>1, <1>3
      <4> QED
        BY <1>4, <4>1
    <3> QED
      BY <1>1, <1>3, <3>1
  <2>2. 3 * i < Pos(m, curr)
    BY <1>1, <1>3, <1>7
  <2>3. pg \in Range(lru)
    BY <1>1, <1>2, <2>1, <2>2 DEF TopTwo, PageSize, pg
  <2>4. Resident(m, pg)
    BY <1>2, <2>3 DEF Frames
  <2>5. 3 * i + pc = r
    BY <1>1, <1>3
  <2>6. ThisEntry.valid_bit[pc]
    BY <1>1, <1>3, <1>5, <2>4, <2>5 DEF Resident, PageSize
  <2>7. /\ ThisEntry.index[pc] = At(m, pg) + pc
        /\ m.slots[At(m, pg) + pc].line = <<m.pcb[curr].script, r>>
    BY <1>1, <1>3, <1>5, <2>4, <2>5 DEF Resident, PageSize
  <2>8. Fetched = <<pcb[curr].script, r>>
    BY <2>7 DEF Fetched, pc, m, Memory
  <2> QED
    BY <1>6, <1>7, <2>3, <2>6, <2>8 DEF i, r, m, pg
<1>8. CASE ~(r < Pos(m, curr))
  <2>1. r = Pos(m, curr)
    BY <1>3, <1>4, <1>8
  <2>2. r % 3 = 0 /\ r >= 6
    BY <1>3, <1>4, <2>1
  <2>3. r = 3 * i /\ i >= 2
    BY <1>1, <1>3, <2>2
  <2>4. pg \notin Range(lru)
    <3>1. SUFFICES ASSUME pg \in Range(lru) PROVE FALSE
      OBVIOUS
    <3>2. 3 * i < Pos(m, curr)
      BY <1>2, <1>5, <3>1 DEF Frames, Resident, PageSize
    <3> QED
      BY <1>3, <2>1, <2>3, <3>2
  <2>5. ~ThisEntry.valid_bit[pc]
    <3>1. \A j \in Offsets : ~m.pcb[curr].page_table[i].valid_bit[j]
      BY <1>1, <1>2, <2>4 DEF Frames, pg
    <3> QED
      BY <1>1, <3>1 DEF ThisEntry, m, Memory, i
  <2> QED
    BY <1>6, <1>8, <2>1, <2>3, <2>4, <2>5 DEF i, r, m, pg, PageSize
<1> QED
  BY <1>7, <1>8

\* Its lines are those of a proper script.
LEMMA ProperCommand ==
  ASSUME IInv, Well, Running, InMemory
  PROVE  Command.op \notin {"exec", "one"}
<1> DEFINE s == pcb[curr].script
           r == Run(Memory, curr)
<1>1. Fetched = <<s, r>>
  BY InMemoryMeans
<1>2. /\ Range(all) \in SUBSET Pids /\ curr \in Range(all)
      /\ MemoryOK(Memory, Range(all)) /\ Ordered(lru, Memory, Range(all))
      /\ Live(Memory, curr)
  BY RunningFacts
<1>3. s \in Scripts /\ ProperScript(s)
  BY <1>2, ProcessNumbers DEF Ordered, Reading, Memory
<1>4. r \in Nat /\ r < CountLines(s)
  BY <1>2, ProcessNumbers DEF Total, Memory
<1>5. CountLines(s) = Len(Lines[s])
  BY <1>3, ProperTotal
<1>6. Lines[s] \in Seq(Commands)
  BY <1>3, ScriptAssumption
<1>7. Command = Lines[s][r + 1]
  <2>1. Fetched # NoLine /\ Fetched[1] = s /\ Fetched[2] = r
    BY <1>1 DEF NoLine
  <2> QED
    BY <2>1 DEF Command
<1> HIDE DEF s, r
<1>8. r + 1 \in DOMAIN Lines[s]
  BY <1>4, <1>5, <1>6
<1> QED
  BY <1>3, <1>7, <1>8 DEF ProperScript

\* remove_elem finds the page that was run, not another with its index.
LEMMA SameIsCurrent ==
  ASSUME IInv, Well, Running, InMemory, NEW k \in Same
  PROVE  k \in DOMAIN lru /\ lru[k] = Page(curr, ThisPage)
<1> DEFINE pg == Page(curr, ThisPage)
<1>1. k \in DOMAIN lru /\ Entry(lru[k]).index[0] = ThisEntry.index[0]
  BY DEF Same
<1>2. pg \in Range(lru) /\ lru[k] \in Range(lru)
  BY <1>1, InMemoryMeans DEF Range
<1>3. Frames(Range(lru), Memory, Range(all))
  BY RunningFacts DEF Ordered
<1>4. At(Memory, lru[k]) = At(Memory, pg)
  BY <1>1 DEF At, EntryIn, Memory, Entry, ThisEntry, Page
<1> HIDE DEF pg
<1>5. At(Memory, lru[k]) + 0 = At(Memory, pg) + 0
  BY <1>4
<1>6. lru[k] = pg
  BY <1>2, <1>3, <1>5, OffsetsAre DEF Frames
<1> QED
  BY <1>1, <1>6 DEF pg

\* run_proc of a line: the memory after it.
LEMMA RunLineOrdered ==
  ASSUME IInv, Well, RunLine
  PROVE  /\ IsAdvanced(Memory, Memory', Range(all), curr)
         /\ Ordered(lru', Memory', Range(all))
         /\ Begun(Memory', Range(all))
         /\ Run(Memory, curr) < Pos(Memory, curr)
<1> DEFINE A == Range(all)
           k == Min(Same)
<1>1. Running /\ InMemory /\ Same # {} /\ MemoryBecomes(Advanced(Memory)) /\ Touched
  BY DEF RunLine
<1>2. IsAdvanced(Memory, Advanced(Memory), A, curr)
  BY <1>1, AdvancedIs
<1>3. IsAdvanced(Memory, Memory', A, curr)
  <2>1. /\ Memory'.slots = Advanced(Memory).slots
        /\ Memory'.pcb = Advanced(Memory).pcb
    BY <1>1 DEF MemoryBecomes, Memory
  <2> QED
    BY <1>2, <2>1 DEF IsAdvanced, Pos
<1>4. /\ A \in SUBSET Pids /\ curr \in A /\ MemoryOK(Memory, A)
      /\ lru \in Seq(Pages) /\ Range(lru) \subseteq TablePages(Memory, A)
      /\ Ordered(lru, Memory, A) /\ Begun(Memory, A)
      /\ Live(Memory, curr) /\ ThisPage \in Nat
      /\ PageSize * ThisPage <= Run(Memory, curr)
      /\ Run(Memory, curr) < PageSize * (ThisPage + 1)
      /\ \A q \in A : Run(Memory, q) <= Run(Memory, curr) + 2
      /\ \A q \in A : curr < q => Run(Memory, q) <= Run(Memory, curr)
  BY <1>1, RunningFacts
<1>5. Run(Memory, curr) < Pos(Memory, curr)
  BY <1>1, InMemoryMeans
<1>6. k \in Same
  <2>1. Same \subseteq DOMAIN lru /\ DOMAIN lru \subseteq Nat
    BY <1>4 DEF Same
  <2> QED
    BY <1>1, <2>1, MinIsMember
<1>7. k \in DOMAIN lru /\ lru[k] = Page(curr, ThisPage)
  BY <1>1, <1>6, SameIsCurrent
<1>8. lru' = <<lru[k]>> \o RemoveAt(lru, k)
  BY <1>1 DEF Touched
<1> HIDE DEF k
<1>9. Ordered(<<lru[k]>> \o RemoveAt(lru, k), Memory', A)
  BY <1>3, <1>4, <1>5, <1>7, OrderedAdvanced
<1>10. Begun(Memory', A)
  <2>1. \A q \in A : /\ Total(Memory', q) = Total(Memory, q)
                     /\ Pos(Memory', q) = Pos(Memory, q)
    BY <1>3, <1>4, AdvancedNumbers
  <2> QED
    BY <1>4, <2>1 DEF Begun
<1> QED
  BY <1>3, <1>5, <1>8, <1>9, <1>10

-----------------------------------------------------------------------------
(* Lockstep: running a line.                                               *)

\* The numbers of the processes after a line.
LEMMA RunLineNumbers ==
  ASSUME IInv, Well, RunLine, NEW q \in Range(all)
  PROVE  /\ q \in Int /\ curr \in Int /\ curr \in Range(all)
         /\ Run(Memory, q) \in Nat /\ Run(Memory, curr) \in Nat
         /\ Run(Memory', q) = IF q = curr THEN Run(Memory, q) + 1
                                          ELSE Run(Memory, q)
         /\ Pos(Memory', q) = Pos(Memory, q)
         /\ Live(Memory', q) => Live(Memory, q)
         /\ q # curr => (Live(Memory', q) <=> Live(Memory, q))
         /\ all' = all
<1>1. Running /\ all' = all
  BY DEF RunLine
<1>2. /\ Range(all) \in SUBSET Pids /\ curr \in Range(all)
      /\ MemoryOK(Memory, Range(all)) /\ Live(Memory, curr)
  BY <1>1, RunningFacts
<1>3. IsAdvanced(Memory, Memory', Range(all), curr)
  BY RunLineOrdered
<1>4. /\ Run(Memory', q) = IF q = curr THEN Run(Memory, q) + 1 ELSE Run(Memory, q)
      /\ Pos(Memory', q) = Pos(Memory, q)
      /\ q # curr => (Live(Memory', q) <=> Live(Memory, q))
  BY <1>2, <1>3, AdvancedNumbers
<1>5. /\ q \in Int /\ curr \in Int
      /\ Run(Memory, q) \in Nat /\ Run(Memory, curr) \in Nat
  BY <1>2, ProcessNumbers
<1> QED
  BY <1>1, <1>2, <1>4, <1>5

\* The next line is in memory unless it is the first of a page after the second.
LEMMA AfterALine ==
  ASSUME IInv, Well, RunLine
  PROVE  /\ FirstOfPage(Run(Memory, curr) + 1)
              => Run(Memory, curr) + 1 = Pos(Memory, curr)
         /\ Live(Memory', curr) /\ ~FirstOfPage(Run(Memory, curr) + 1)
              => Run(Memory, curr) + 1 < Pos(Memory, curr)
<1> DEFINE r == Run(Memory, curr)
           t == Total(Memory, curr)
           pos == Pos(Memory, curr)
<1>1. Running
  BY DEF RunLine
<1>2. /\ Range(all) \in SUBSET Pids /\ curr \in Range(all)
      /\ MemoryOK(Memory, Range(all)) /\ Ordered(lru, Memory, Range(all))
      /\ Begun(Memory, Range(all))
  BY <1>1, RunningFacts
<1>3. r \in Nat /\ t \in Nat /\ pos \in Nat /\ r < pos
  BY <1>2, ProcessNumbers, RunLineOrdered
<1>4. /\ pos = t \/ pos % 3 = 0
      /\ pos = t \/ pos >= 6
      /\ \A i \in Nat : i >= 2 /\ 3 * i < pos => 3 * i <= r
  <2>1. Reading(Memory, Range(all))
    BY <1>2 DEF Ordered
  <2>2. PageSize = 3 /\ 2 * PageSize = 6
    BY DEF PageSize
  <2>3. pos = t \/ pos >= 6
    BY <1>2, <2>2 DEF Begun
  <2>4. /\ pos = t \/ pos % PageSize = 0
        /\ \A i \in Nat : i >= 2 /\ PageSize * i < pos => PageSize * i <= r
    BY <1>2, <2>1 DEF Reading
  <2> QED
    BY <2>2, <2>3, <2>4
<1>5. Live(Memory', curr) => r + 1 < t
  <2>1. IsAdvanced(Memory, Memory', Range(all), curr)
    BY RunLineOrdered
  <2>2. Memory'.pcb[curr].size = Memory.pcb[curr].size - 1
    BY <1>2, <2>1 DEF IsAdvanced
  <2>3. Memory.pcb[curr].size = t - r
    BY <1>2, ProcessNumbers
  <2> HIDE DEF t, r
  <2> QED
    BY <1>3, <2>2, <2>3 DEF Live
<1> HIDE DEF t, r, pos
<1>6. ASSUME FirstOfPage(r + 1)
      PROVE  r + 1 = pos
  <2>1. r + 1 >= 6 /\ (r + 1) % 3 = 0
    BY <1>6 DEF FirstOfPage, PageSize
  <2>2. PICK i \in Nat : r + 1 = 3 * i /\ i >= 2
    BY <1>3, <2>1
  <2>3. ~(3 * i < pos)
    BY <1>3, <1>4, <2>2
  <2> QED
    BY <1>3, <2>2, <2>3
<1>7. ASSUME Live(Memory', curr), ~FirstOfPage(r + 1)
      PROVE  r + 1 < pos
  <2>1. r + 1 # pos
    BY <1>3, <1>4, <1>5, <1>7 DEF FirstOfPage, PageSize
  <2> QED
    BY <1>3, <2>1
<1> QED
  BY <1>6, <1>7 DEF r, pos

\* The first line of a turn.
LEMMA FirstLineLockstep ==
  ASSUME IInv, Well, RunLine, turn = "first", turn' = "second",
         UNCHANGED <<mode, curr, queue>>
  PROVE  Lockstep'
<1> DEFINE A == Range(all)
           r == Run(Memory, curr)
<1>1. /\ Running /\ mode = "running" /\ mode' = "running" /\ all' = all
      /\ curr' = curr /\ queue' = queue
  BY DEF RunLine, Running
<1>2. curr \in A /\ Live(Memory, curr) /\ Lockstep
  BY <1>1, RunningFacts
<1>3. \A q \in A : ~MidTurn(q)
  BY DEF MidTurn
<1>4. \A q \in A : MidTurn(q)' <=> q = curr
  BY <1>1 DEF MidTurn
<1>5. /\ r \in Nat /\ Run(Memory', curr) = r + 1
      /\ r < Pos(Memory, curr)
  BY <1>2, RunLineNumbers, RunLineOrdered
<1>6. ASSUME NEW q \in A
      PROVE  /\ Start(q) = Run(Memory, q)
             /\ Start(q)' = Start(q)
             /\ Hit(q)' <=> Hit(q)
  <2>1. Start(q) = Run(Memory, q) /\ (Hit(q) <=> Run(Memory, q) < Pos(Memory, q))
    BY <1>3 DEF Start, Hit
  <2>2. CASE q = curr
    <3>1. Start(q)' = Run(Memory', q) - 1 /\ Hit(q)'
      BY <1>4, <2>2 DEF Start, Hit
    <3>2. Start(q)' = r
      BY <1>5, <2>2, <3>1
    <3> QED
      BY <1>5, <2>1, <2>2, <3>1, <3>2
  <2>3. CASE q # curr
    <3>1. Start(q)' = Run(Memory', q) /\ (Hit(q)' <=> Run(Memory', q) < Pos(Memory', q))
      BY <1>4, <2>3 DEF Start, Hit
    <3>2. Run(Memory', q) = Run(Memory, q) /\ Pos(Memory', q) = Pos(Memory, q)
      BY <2>3, RunLineNumbers
    <3> QED
      BY <2>1, <3>1, <3>2
  <2> QED
    BY <2>2, <2>3
<1>7. ASSUME NEW p \in A, NEW q \in A
      PROVE  /\ InTurn(p, q)' <=> InTurn(p, q)
             /\ Even(p, q)' <=> Even(p, q)
             /\ Turned(p, q)' <=> Turned(p, q)
  <2>1. InTurn(p, q)' <=> InTurn(p, q)
    BY <1>1 DEF InTurn
  <2>2. Even(p, q)' <=> Even(p, q)
    BY <1>6 DEF Even
  <2>3. Turned(p, q)' <=> Turned(p, q)
    BY <1>6 DEF Turned, FirstOfPage
  <2> QED
    BY <2>1, <2>2, <2>3
<1>8. \A q \in A : Live(Memory', q) => Live(Memory, q)
  BY RunLineNumbers
<1>9. TakeTurns'
  BY <1>1, <1>2, <1>7, <1>8 DEF Lockstep, TakeTurns
<1>10. AllWait'
  BY <1>1, <1>2, <1>8 DEF Lockstep, AllWait
<1>11. ASSUME NEW p \in A, Live(Memory, p)
       PROVE  /\ Start(p) >= r
              /\ p < curr => Run(Memory, p) >= r + 1
              /\ Start(p) \in Int
  <2>1. /\ Start(p) = Run(Memory, p) /\ Start(curr) = r
        /\ Run(Memory, p) \in Nat /\ p \in Int
    BY <1>2, <1>6, RunLineNumbers
  <2>2. CASE p = curr
    BY <1>5, <2>1, <2>2
  <2>3. CASE p # curr
    <3>1. /\ curr < p \/ p < curr
          /\ curr < p => Even(curr, p)
          /\ p < curr => Turned(curr, p)
      BY <1>1, <1>11, <2>3, OthersWait
    <3>2. Even(curr, p) => Start(p) = r
      BY <2>1 DEF Even
    <3>3. Turned(curr, p) => Start(p) = r + 1 \/ Start(p) = r + 2
      <4>1. Hit(curr)
        BY <1>5 DEF Hit
      <4> QED
        BY <2>1, <4>1 DEF Turned
    <3>4. p \in Int /\ curr \in Int
      BY RunLineNumbers
    <3>5. CASE curr < p
      BY <1>5, <2>1, <3>1, <3>2, <3>4, <3>5
    <3>6. CASE p < curr
      BY <1>5, <2>1, <3>1, <3>3, <3>6
    <3> QED
      BY <3>1, <3>5, <3>6
  <2> QED
    BY <2>2, <2>3
<1>12. Together'
  <2> SUFFICES ASSUME NEW p \in A, NEW q \in A, Live(Memory', p)
               PROVE  /\ p < q => Run(Memory', q) <= Run(Memory', p)
                      /\ Run(Memory', q) <= Start(p)' + 2
    BY <1>1 DEF Together
  <2>1. Live(Memory, p)
    BY <1>8
  <2>2. /\ p < q => Run(Memory, q) <= Run(Memory, p)
        /\ Run(Memory, q) <= Start(p) + 2
    BY <1>2, <2>1 DEF Lockstep, Together
  <2>3. /\ Run(Memory, p) \in Nat /\ Run(Memory, q) \in Nat
        /\ Run(Memory', p) = IF p = curr THEN Run(Memory, p) + 1 ELSE Run(Memory, p)
        /\ Run(Memory', q) = IF q = curr THEN Run(Memory, q) + 1 ELSE Run(Memory, q)
        /\ p \in Int
    BY RunLineNumbers
  <2>4. Start(p)' = Start(p) /\ Start(p) \in Int
    BY <1>6, <1>11, <2>1
  <2>5. CASE q # curr
    BY <2>2, <2>3, <2>4, <2>5
  <2>6. CASE q = curr
    <3>1. Start(p) >= r /\ (p < curr => Run(Memory, p) >= r + 1)
      BY <1>11, <2>1
    <3> QED
      BY <1>5, <2>3, <2>4, <2>6, <3>1
  <2> QED
    BY <2>5, <2>6
<1>13. TurnOfTwo'
  <2>1. FirstOfPage(r + 1) => r + 1 = Pos(Memory, curr)
    BY AfterALine
  <2>2. Pos(Memory', curr) = Pos(Memory, curr)
    BY <1>2, RunLineNumbers
  <2> QED
    BY <1>1, <1>5, <2>1, <2>2 DEF TurnOfTwo, FirstOfPage
<1> QED
  BY <1>9, <1>10, <1>12, <1>13 DEF Lockstep

\* What is known of the others when the process that runs has its line in
\* memory: they are at the same turn, or one turn ahead.
LEMMA OthersAtLine ==
  ASSUME IInv, Well, RunLine, NEW p \in Range(all), p # curr, Live(Memory, p)
  PROVE  /\ p \in Range(queue)
         /\ curr < p \/ p < curr
         /\ Start(p) = Run(Memory, p)
         /\ Hit(p) <=> Run(Memory, p) < Pos(Memory, p)
         /\ curr < p => Start(p) = Start(curr) /\ Hit(p)
         /\ p < curr => /\ FirstOfPage(Start(curr) + 1)
                             => Start(p) = Start(curr) + 1 /\ Hit(p)
                        /\ ~FirstOfPage(Start(curr) + 1)
                             => /\ Start(p) = Start(curr) + 2
                                /\ Hit(p) <=> ~FirstOfPage(Start(p))
<1>1. Running
  BY DEF RunLine
<1>2. /\ p \in Range(queue)
      /\ Start(p) = Run(Memory, p)
      /\ Hit(p) <=> Run(Memory, p) < Pos(Memory, p)
      /\ curr < p \/ p < curr
      /\ curr < p => Even(curr, p)
      /\ p < curr => Turned(curr, p)
  BY <1>1, OthersWait
<1>3. Hit(curr)
  BY RunLineOrdered DEF Hit
<1>4. Even(curr, p) => Start(p) = Start(curr) /\ Hit(p)
  BY <1>3 DEF Even
<1>5. Turned(curr, p) =>
        /\ FirstOfPage(Start(curr) + 1) => Start(p) = Start(curr) + 1 /\ Hit(p)
        /\ ~FirstOfPage(Start(curr) + 1)
             => Start(p) = Start(curr) + 2 /\ (Hit(p) <=> ~FirstOfPage(Start(p)))
  BY <1>3 DEF Turned
<1> QED
  BY <1>2, <1>4, <1>5

\* What a step that ends the turn of the process that runs leaves of the order
\* of those that wait.
LEMMA OthersUnmoved ==
  ASSUME IInv, Well, Running, mode' = "scheduling",
         NEW p \in Range(all), p # curr,
         Run(Memory', p) = Run(Memory, p), Pos(Memory', p) = Pos(Memory, p)
  PROVE  Start(p)' = Start(p) /\ (Hit(p)' <=> Hit(p))
<1>1. ~MidTurn(p) /\ ~MidTurn(p)'
  BY DEF MidTurn
<1> QED
  BY <1>1 DEF Start, Hit

\* The turn of a process that has only one line left, or is thrown out.
LEMMA LastLineLockstep ==
  ASSUME IInv, Well, RunLine, turn = "only", mode' = "scheduling",
         curr' = None, queue' = queue
  PROVE  Lockstep'
<1> DEFINE A == Range(all)
           r == Run(Memory, curr)
<1>1. Running /\ mode = "running" /\ all' = all
  BY DEF RunLine, Running
<1>2. /\ curr \in A /\ Live(Memory, curr) /\ Lockstep
      /\ A \in SUBSET Pids /\ MemoryOK(Memory, A)
  BY <1>1, RunningFacts
<1>3. ~Live(Memory', curr)
  <2>1. pcb[curr].size = 1
    BY <1>1, <1>2 DEF Lockstep, TurnOfTwo
  <2>2. Memory'.pcb[curr].size = Memory.pcb[curr].size - 1
    BY <1>2, RunLineOrdered DEF IsAdvanced
  <2> QED
    BY <2>1, <2>2 DEF Live, Memory
<1>4. Start(curr) = r /\ r \in Nat /\ curr \in Int
  <2>1. Start(curr) = r
    BY DEF Start, MidTurn
  <2> QED
    BY <1>2, <2>1, RunLineNumbers
<1>5. ASSUME NEW q \in A, q # curr
      PROVE  /\ Start(q)' = Start(q) /\ (Hit(q)' <=> Hit(q))
             /\ Run(Memory', q) = Run(Memory, q)
             /\ Live(Memory', q) <=> Live(Memory, q)
  <2>1. /\ Run(Memory', q) = Run(Memory, q) /\ Pos(Memory', q) = Pos(Memory, q)
        /\ Live(Memory', q) <=> Live(Memory, q)
    BY <1>5, RunLineNumbers
  <2> QED
    BY <1>1, <1>5, <2>1, OthersUnmoved
<1>6. ASSUME NEW p \in A, NEW q \in A, InTurn(p, q)'
      PROVE  InTurn(p, q)
  BY <1>6 DEF InTurn
<1>7. TakeTurns'
  <2> SUFFICES ASSUME NEW p \in A, NEW q \in A, InTurn(p, q)',
                      Live(Memory', p), Live(Memory', q)
               PROVE  (p < q /\ Even(p, q)') \/ (q < p /\ Turned(p, q)')
    BY <1>1 DEF TakeTurns
  <2>1. p # curr /\ q # curr
    BY <1>3
  <2>2. (p < q /\ Even(p, q)) \/ (q < p /\ Turned(p, q))
    BY <1>2, <1>5, <1>6, <2>1 DEF Lockstep, TakeTurns
  <2>3. Even(p, q)' <=> Even(p, q)
    BY <1>5, <2>1 DEF Even
  <2>4. Turned(p, q)' <=> Turned(p, q)
    BY <1>5, <2>1 DEF Turned, FirstOfPage
  <2> QED
    BY <2>2, <2>3, <2>4
<1>8. AllWait'
  BY <1>1, <1>2, <1>3, <1>5 DEF Lockstep, AllWait
<1>9. Together'
  <2> SUFFICES ASSUME NEW p \in A, NEW q \in A, Live(Memory', p)
               PROVE  /\ p < q => Run(Memory', q) <= Run(Memory', p)
                      /\ Run(Memory', q) <= Start(p)' + 2
    BY <1>1 DEF Together
  <2>1. p # curr /\ Live(Memory, p)
    BY <1>3, <1>5
  <2>2. /\ p < q => Run(Memory, q) <= Run(Memory, p)
        /\ Run(Memory, q) <= Start(p) + 2
    BY <1>2, <2>1 DEF Lockstep, Together
  <2>3. Run(Memory', p) = Run(Memory, p) /\ Start(p)' = Start(p)
    BY <1>5, <2>1
  <2>4. CASE q # curr
    BY <1>5, <2>2, <2>3, <2>4
  <2>5. CASE q = curr
    <3>1. Run(Memory', q) = r + 1
      BY <2>5, RunLineNumbers
    <3>2. /\ Start(p) = Run(Memory, p)
          /\ curr < p => Start(p) = r
          /\ p < curr => Start(p) = r + 1 \/ Start(p) = r + 2
          /\ curr < p \/ p < curr
          /\ p \in Int
      BY <1>4, <2>1, OthersAtLine, RunLineNumbers
    <3> HIDE DEF r
    <3>3. CASE curr < p
      BY <1>4, <2>3, <2>5, <3>1, <3>2, <3>3
    <3>4. CASE p < curr
      BY <1>4, <2>3, <2>5, <3>1, <3>2, <3>4
    <3> QED
      BY <3>2, <3>3, <3>4
  <2> QED
    BY <2>4, <2>5
<1>10. TurnOfTwo'
  BY DEF TurnOfTwo
<1> QED
  BY <1>7, <1>8, <1>9, <1>10 DEF Lockstep

\* The process that runs goes to the tail of QUEUE.
LEMMA YieldLockstep ==
  ASSUME NEW c, c = curr, IInv, Well, Running,
         mode' = "scheduling", curr' = None,
         queue' = Append(queue, curr), all' = all,
         \A q \in Range(all) : q # curr =>
           /\ Run(Memory', q) = Run(Memory, q)
           /\ Pos(Memory', q) = Pos(Memory, q)
           /\ Live(Memory', q) <=> Live(Memory, q),
         Run(Memory', curr) \in Nat, Run(Memory', curr) >= Run(Memory, curr),
         \A p \in Range(all) : p # curr /\ Live(Memory, p) =>
           /\ c < p /\ Live(Memory', c) => Turned(p, c)'
           /\ p < c /\ Live(Memory', c) => Even(p, c)'
           /\ Run(Memory', curr) <= Start(p) + 2
           /\ p < curr => Run(Memory', curr) <= Run(Memory, p)
  PROVE  Lockstep'
<1> DEFINE A == Range(all)
<1>1. mode = "running"
  BY DEF Running
<1>2. /\ curr \in A /\ Live(Memory, curr) /\ Lockstep
      /\ A \in SUBSET Pids /\ MemoryOK(Memory, A)
      /\ \A q \in A : Run(Memory, q) <= Run(Memory, curr) + 2
      /\ \A q \in A : curr < q => Run(Memory, q) <= Run(Memory, curr)
  BY RunningFacts
<1>3. \A q \in A : q \in Int /\ Run(Memory, q) \in Nat
  BY <1>2, ProcessNumbers
<1>4. queue \in Seq(Pids) /\ curr \in Pids
  BY <1>2 DEF IInv, Lists
<1>5. /\ DOMAIN queue' = 1 .. Len(queue) + 1 /\ Len(queue) \in Nat
      /\ DOMAIN queue = 1 .. Len(queue)
      /\ \A a \in DOMAIN queue : queue'[a] = queue[a]
      /\ queue'[Len(queue) + 1] = curr
  BY <1>4
<1>6. ASSUME NEW q \in A, q # curr
      PROVE  Start(q)' = Start(q) /\ (Hit(q)' <=> Hit(q))
  BY <1>6, OthersUnmoved
<1>7. ASSUME NEW p \in A, NEW q \in A, InTurn(p, q)'
      PROVE  InTurn(p, q) \/ (q = curr /\ p \in Range(queue))
  <2>1. PICK a \in DOMAIN queue', b \in DOMAIN queue' :
          a < b /\ queue'[a] = p /\ queue'[b] = q
    BY <1>7 DEF InTurn
  <2>2. a \in DOMAIN queue /\ queue[a] = p /\ p \in Range(queue)
    <3>1. a \in DOMAIN queue
      BY <1>5, <2>1
    <3> QED
      BY <1>5, <2>1, <3>1 DEF Range
  <2>3. CASE b \in DOMAIN queue
    BY <1>5, <2>1, <2>2, <2>3 DEF InTurn
  <2>4. CASE b \notin DOMAIN queue
    <3>1. b = Len(queue) + 1
      BY <1>5, <2>4
    <3> QED
      BY <1>5, <2>1, <2>2, <3>1
  <2> QED
    BY <2>3, <2>4
<1>8. TakeTurns'
  <2> SUFFICES ASSUME NEW p \in A, NEW q \in A, InTurn(p, q)',
                      Live(Memory', p), Live(Memory', q)
               PROVE  (p < q /\ Even(p, q)') \/ (q < p /\ Turned(p, q)')
    BY DEF TakeTurns
  <2>1. Live(Memory, p) /\ Live(Memory, q)
    BY <1>2
  <2>2. CASE p # curr /\ q # curr
    <3>1. InTurn(p, q)
      BY <1>7, <2>2
    <3>2. (p < q /\ Even(p, q)) \/ (q < p /\ Turned(p, q))
      BY <1>2, <2>1, <3>1 DEF Lockstep, TakeTurns
    <3>3. Even(p, q)' <=> Even(p, q)
      BY <1>6, <2>2 DEF Even
    <3>4. Turned(p, q)' <=> Turned(p, q)
      BY <1>6, <2>2 DEF Turned, FirstOfPage
    <3> QED
      BY <3>2, <3>3, <3>4
  <2>3. CASE q = curr /\ p # curr
    <3>1. p < curr \/ curr < p
      BY <1>2, <1>3, <2>3
    <3>2. /\ c < p => Turned(p, c)'
          /\ p < c => Even(p, c)'
      BY <2>1, <2>3
    <3>3. q = c
      BY <2>3
    <3> QED
      BY <3>1, <3>2, <3>3
  <2>4. CASE p = curr
    <3>1. InTurn(curr, q)
      BY <1>1, <1>7, <2>4 DEF InTurn
    <3>2. curr \in Range(queue) => InTurn(curr, curr)
      BY <1>1 DEF InTurn
    <3>3. curr \notin Range(queue)
      <4>1. ~InTurn(curr, curr)
        BY <1>2, <1>3 DEF Lockstep, TakeTurns
      <4> QED
        BY <3>2, <4>1
    <3>4. PICK a \in DOMAIN queue', b \in DOMAIN queue' :
            a < b /\ queue'[a] = curr
      BY <2>4 DEF InTurn
    <3>5. a \in DOMAIN queue
      BY <1>5, <3>4
    <3>6. curr \in Range(queue)
      BY <1>5, <3>4, <3>5 DEF Range
    <3> QED
      BY <3>3, <3>6
  <2> QED
    BY <2>2, <2>3, <2>4
<1>9. AllWait'
  <2> SUFFICES ASSUME NEW p \in A, Live(Memory', p)
               PROVE  p \in Range(queue')
    BY DEF AllWait
  <2>1. Range(queue') = Range(queue) \cup {curr}
    BY <1>4, AddedLast
  <2>2. p # curr => p \in Range(queue)
    BY <1>2 DEF Lockstep, AllWait
  <2> QED
    BY <2>1, <2>2
<1>10. Together'
  <2> SUFFICES ASSUME NEW p \in A, NEW q \in A, Live(Memory', p)
               PROVE  /\ p < q => Run(Memory', q) <= Run(Memory', p)
                      /\ Run(Memory', q) <= Start(p)' + 2
    BY DEF Together
  <2>1. Live(Memory, p)
    BY <1>2
  <2>2. /\ p < q => Run(Memory, q) <= Run(Memory, p)
        /\ Run(Memory, q) <= Start(p) + 2
    BY <1>2, <2>1 DEF Lockstep, Together
  <2>3. CASE p # curr /\ q # curr
    BY <1>6, <2>2, <2>3
  <2>4. CASE p # curr /\ q = curr
    <3>1. /\ Run(Memory', curr) <= Start(p) + 2
          /\ p < curr => Run(Memory', curr) <= Run(Memory, p)
      BY <2>1, <2>4
    <3> QED
      BY <1>6, <2>4, <3>1
  <2>5. CASE p = curr
    <3>1. Start(p)' = Run(Memory', curr)
      BY <2>5 DEF Start, MidTurn
    <3>2. CASE q = curr
      BY <1>3, <2>5, <3>1, <3>2
    <3>3. CASE q # curr
      <4>1. /\ Run(Memory', q) = Run(Memory, q)
            /\ Run(Memory, q) <= Run(Memory, curr) + 2
            /\ curr < q => Run(Memory, q) <= Run(Memory, curr)
        BY <1>2, <3>3
      <4> QED
        BY <1>2, <1>3, <2>5, <3>1, <4>1
    <3> QED
      BY <3>2, <3>3
  <2> QED
    BY <2>3, <2>4, <2>5
<1>11. TurnOfTwo'
  BY DEF TurnOfTwo
<1> QED
  BY <1>8, <1>9, <1>10, <1>11 DEF Lockstep

\* The second line of a turn.
LEMMA SecondLineLockstep ==
  ASSUME IInv, Well, RunLine, turn = "second", mode' = "scheduling",
         curr' = None, queue' = Append(queue, curr)
  PROVE  Lockstep'
<1> DEFINE A == Range(all)
           r == Run(Memory, curr)
<1>1. Running /\ mode = "running" /\ all' = all
  BY DEF RunLine, Running
<1>2. /\ curr \in A /\ Live(Memory, curr) /\ Lockstep
      /\ A \in SUBSET Pids /\ MemoryOK(Memory, A)
  BY <1>1, RunningFacts
<1>3. PICK c \in A : c = curr
  BY <1>2
<1>4. /\ r \in Nat /\ c \in Int /\ Run(Memory', c) = r + 1
      /\ Pos(Memory', c) = Pos(Memory, c)
      /\ r < Pos(Memory, c)
  BY <1>3, RunLineNumbers, RunLineOrdered
<1>5. Start(c) = r - 1 /\ Start(curr) = r - 1
  BY <1>1, <1>3 DEF Start, MidTurn
<1>6. Start(c)' = r + 1 /\ (Hit(c)' <=> r + 1 < Pos(Memory, c))
  BY <1>4 DEF Start, Hit, MidTurn
<1>7. ~FirstOfPage(r)
  BY <1>1, <1>2, <1>3, <1>4 DEF Lockstep, TurnOfTwo
<1>8. Live(Memory', c) => (Hit(c)' <=> ~FirstOfPage(r + 1))
  <2>1. /\ FirstOfPage(r + 1) => r + 1 = Pos(Memory, c)
        /\ Live(Memory', c) /\ ~FirstOfPage(r + 1) => r + 1 < Pos(Memory, c)
    BY <1>3, AfterALine
  <2> HIDE DEF r
  <2>2. ~FirstOfPage(r + 1) /\ Live(Memory', c) => r + 1 < Pos(Memory, c)
    BY <2>1
  <2>3. FirstOfPage(r + 1) => ~(r + 1 < Pos(Memory, c))
    BY <1>4, <2>1
  <2> QED
    BY <1>6, <2>2, <2>3
<1>9. \A q \in A : q # curr =>
        /\ Run(Memory', q) = Run(Memory, q)
        /\ Pos(Memory', q) = Pos(Memory, q)
        /\ Live(Memory', q) <=> Live(Memory, q)
  BY RunLineNumbers
<1>10. ASSUME NEW p \in A, p # curr, Live(Memory, p)
       PROVE  /\ c < p /\ Live(Memory', c) => Turned(p, c)'
              /\ p < c /\ Live(Memory', c) => Even(p, c)'
              /\ Run(Memory', curr) <= Start(p) + 2
              /\ p < curr => Run(Memory', curr) <= Run(Memory, p)
  <2>1. /\ c < p \/ p < c
        /\ Start(p) = Run(Memory, p)
        /\ c < p => Start(p) = Start(curr) /\ Hit(p)
        /\ p < c => /\ Start(p) = Start(curr) + 2
                    /\ Hit(p) <=> ~FirstOfPage(Start(p))
    <3>1. Start(curr) + 1 = r
      BY <1>4, <1>5
    <3> HIDE DEF r
    <3> QED
      BY <1>3, <1>7, <1>10, <3>1, OthersAtLine
  <2>2. Start(p)' = Start(p) /\ (Hit(p)' <=> Hit(p)) /\ p \in Int
    BY <1>1, <1>9, <1>10, OthersUnmoved, RunLineNumbers
  <2> HIDE DEF r
  <2>3. CASE c < p
    <3>1. Start(p) = r - 1 /\ Hit(p)' /\ Start(p)' = r - 1
      BY <1>5, <2>1, <2>2, <2>3
    <3>2. Start(p)' + 1 = r /\ Start(c)' = Start(p)' + 2
      BY <1>4, <1>6, <3>1
    <3>3. Live(Memory', c) => (Hit(c)' <=> ~FirstOfPage(Start(c)'))
      BY <1>6, <1>8
    <3>4. Live(Memory', c) => Turned(p, c)'
      BY <1>7, <3>1, <3>2, <3>3 DEF Turned, FirstOfPage
    <3>5. r + 1 <= Start(p) + 2 /\ ~(p < c)
      BY <1>4, <2>2, <2>3, <3>1
    <3> QED
      BY <1>3, <1>4, <3>4, <3>5
  <2>4. CASE p < c
    <3>1. Start(p) = r + 1 /\ Start(p)' = r + 1
      BY <1>4, <1>5, <2>1, <2>2, <2>4
    <3>2. Hit(p)' <=> ~FirstOfPage(r + 1)
      BY <2>1, <2>2, <2>4, <3>1
    <3>3. Live(Memory', c) => Even(p, c)'
      BY <1>6, <1>8, <3>1, <3>2 DEF Even
    <3>4. r + 1 <= Start(p) + 2 /\ r + 1 <= Run(Memory, p) /\ ~(c < p)
      BY <1>4, <2>1, <2>2, <2>4, <3>1
    <3> QED
      BY <1>3, <1>4, <3>3, <3>4
  <2> QED
    BY <2>1, <2>3, <2>4
<1>11. Run(Memory', curr) \in Nat /\ Run(Memory', curr) >= Run(Memory, curr)
  BY <1>3, <1>4
<1> QED
  BY <1>1, <1>3, <1>9, <1>10, <1>11, YieldLockstep

\* A line keeps the invariant.
LEMMA RunLineWell == IInv /\ Well /\ RunLine => Well'
<1> SUFFICES ASSUME IInv, Well, RunLine PROVE Well'
  OBVIOUS
<1>1. Ordered(lru', Memory', Range(all)) /\ Begun(Memory', Range(all))
  BY RunLineOrdered
<1>2. /\ TurnGoesOn /\ mode = "running" /\ UNCHANGED <<todo, nested, all>>
  BY DEF RunLine, Running
<1>3. mode' \in {"running", "scheduling"}
  BY <1>2 DEF TurnGoesOn
<1>4. Phase'
  BY <1>2, <1>3 DEF Phase, Well
<1>5. Lockstep'
  <2>1. CASE turn = "first" /\ turn' = "second" /\ UNCHANGED <<mode, curr, queue>>
    BY <2>1, FirstLineLockstep
  <2>2. CASE turn = "second" /\ mode' = "scheduling" /\ curr' = None
             /\ queue' = Append(queue, curr)
    BY <2>2, SecondLineLockstep
  <2>3. CASE turn = "only" /\ mode' = "scheduling" /\ curr' = None
             /\ queue' = queue
    BY <2>3, LastLineLockstep
  <2> QED
    BY <1>2, <2>1, <2>2, <2>3 DEF TurnGoesOn
<1> QED
  BY <1>1, <1>2, <1>4, <1>5 DEF Well

-----------------------------------------------------------------------------
(* Lockstep: page faults.                                                  *)

\* What is known of the others when the process that runs has come to the end
\* of what was read.
LEMMA OthersAtFault ==
  ASSUME IInv, Well, Running, ~InMemory,
         NEW p \in Range(all), p # curr, Live(Memory, p)
  PROVE  /\ curr < p \/ p < curr
         /\ Start(p) = Run(Memory, p)
         /\ Hit(p) <=> Run(Memory, p) < Pos(Memory, p)
         /\ Start(curr) = IF MidTurn(curr) THEN Run(Memory, curr) - 1
                                           ELSE Run(Memory, curr)
         /\ curr < p => Start(p) = Start(curr) /\ (Hit(p) <=> MidTurn(curr))
         /\ p < curr => Start(p) = Run(Memory, curr) /\ Hit(p)
<1>1. /\ Start(p) = Run(Memory, p)
      /\ Hit(p) <=> Run(Memory, p) < Pos(Memory, p)
      /\ curr < p \/ p < curr
      /\ curr < p => Even(curr, p)
      /\ p < curr => Turned(curr, p)
  BY OthersWait
<1>2. /\ Run(Memory, curr) = PageSize * ThisPage /\ ThisPage >= 2
      /\ Pos(Memory, curr) = Run(Memory, curr)
      /\ ThisPage \in Nat
  BY InMemoryMeans, RunningFacts
<1>3. Hit(curr) <=> MidTurn(curr)
  BY <1>2 DEF Hit, PageSize
<1>4. Start(curr) = IF MidTurn(curr) THEN Run(Memory, curr) - 1
                                     ELSE Run(Memory, curr)
  BY DEF Start
<1>5. FirstOfPage(Run(Memory, curr))
  BY <1>2 DEF FirstOfPage, PageSize
<1>6. Even(curr, p) => Start(p) = Start(curr) /\ (Hit(p) <=> MidTurn(curr))
  BY <1>3 DEF Even
<1>7. Turned(curr, p) => Start(p) = Run(Memory, curr) /\ Hit(p)
  <2>1. CASE MidTurn(curr)
    <3>1. Start(curr) + 1 = Run(Memory, curr)
      BY <1>2, <1>4, <2>1 DEF PageSize
    <3> QED
      BY <1>3, <1>5, <2>1, <3>1 DEF Turned
  <2>2. CASE ~MidTurn(curr)
    BY <1>3, <1>4, <2>2 DEF Turned
  <2> QED
    BY <2>1, <2>2
<1> QED
  BY <1>1, <1>4, <1>6, <1>7

\* Loading and evicting seen from the state after the step.
LEMMA LoadedAfter ==
  ASSUME NEW m, NEW A, NEW p, NEW i, NEW at, NEW n, MemoryBecomes(n),
         IsLoaded(m, n, A, p, i, at)
  PROVE  IsLoaded(m, Memory', A, p, i, at)
<1>1. Memory'.slots = n.slots /\ Memory'.pcb = n.pcb
  BY DEF MemoryBecomes, Memory
<1> QED
  BY <1>1 DEF IsLoaded, SameTables, Pos

\* The frame of a page that was evicted is free.
LEMMA EvictedHasRoom ==
  ASSUME NEW m, NEW e, NEW A, NEW v, Resident(m, v), IsEvicted(m, e, A, v)
  PROVE  Room(e) # {}
<1> DEFINE at == At(m, v)
<1>1. \A j \in Offsets : /\ EntryIn(m, v).index[j] = at + j
                         /\ at + j \in FrameSlots
  BY DEF Resident
<1>2. at \in FrameSlots /\ at \in Nat
  <2>1. at = EntryIn(m, v).index[0]
    BY DEF At
  <2>2. at = at + 0 /\ at + 0 \in FrameSlots
    BY <1>1, <2>1, OffsetsAre
  <2> HIDE DEF at
  <2> QED
    BY <2>2 DEF FrameSlots
<1>3. ASSUME NEW k \in at .. at + PageSize - 1
      PROVE  k \in FrameSlots /\ e.slots[k].var = None
  <2>1. k - at \in Offsets /\ k = at + (k - at)
    BY <1>2 DEF Offsets, PageSize
  <2>2. k \in FrameSlots /\ k = EntryIn(m, v).index[k - at]
    BY <1>1, <2>1
  <2> QED
    BY <2>1, <2>2 DEF IsEvicted
<1> HIDE DEF at
<1>4. at \in Room(e)
  BY <1>2, <1>3 DEF Room
<1> QED
  BY <1>4

\* run_proc of a line that is not in memory: the memory after it.
LEMMA FaultOrdered ==
  ASSUME IInv, Well, Fault
  PROVE  /\ Ordered(lru', Memory', Range(all))
         /\ Begun(Memory', Range(all))
         /\ SameTables(Memory, Memory', Range(all))
         /\ \A q \in Range(all) : q # curr => Pos(Memory', q) = Pos(Memory, q)
         /\ Pos(Memory', curr) \in Nat /\ Pos(Memory', curr) > Pos(Memory, curr)
         /\ mode' = "scheduling"
<1> DEFINE A == Range(all)
           m == Memory
           n == Memory'
           i == ThisPage
           pg == Page(curr, i)
<1>1. Running /\ ~InMemory /\ PageFault(m)
  BY DEF Fault
<1>2. /\ A \in SUBSET Pids /\ curr \in A /\ MemoryOK(m, A)
      /\ lru \in Seq(Pages) /\ Range(lru) \subseteq TablePages(m, A)
      /\ Ordered(lru, m, A) /\ Begun(m, A)
      /\ Live(m, curr) /\ i \in Nat /\ i \in DOMAIN m.pcb[curr].page_table
      /\ \A q \in A : Run(m, q) <= Run(m, curr) + 2
  BY <1>1, RunningFacts
<1>3. /\ pg \notin Range(lru)
      /\ Run(m, curr) = PageSize * i /\ Pos(m, curr) = PageSize * i /\ i >= 2
  BY <1>1, InMemoryMeans
<1>4. ProperScript(m.pcb[curr].script)
  BY <1>2 DEF Ordered, Reading
<1>5. Total(m, curr) \in Nat /\ PageSize * i < Total(m, curr)
  BY <1>2, ProcessNumbers
<1>6. ASSUME NEW e, SameTables(m, e, A), \A q \in A : Pos(e, q) = Pos(m, q),
             NEW at, IsLoaded(e, n, A, curr, i, at)
      PROVE  /\ Begun(n, A) /\ SameTables(m, n, A)
             /\ \A q \in A : q # curr => Pos(n, q) = Pos(m, q)
             /\ Pos(n, curr) \in Nat /\ Pos(n, curr) > PageSize * i
  <2>1. SameTables(m, n, A)
    BY <1>6 DEF IsLoaded, SameTables
  <2>2. \A q \in A : q # curr => Pos(n, q) = Pos(m, q)
    BY <1>6 DEF IsLoaded
  <2>3. Pos(n, curr) = IF 3 * (i + 1) <= Total(m, curr) THEN 3 * (i + 1)
                                                        ELSE Total(m, curr)
    <3>1. Total(e, curr) = Total(m, curr)
      BY <1>2, <1>6, SameNumbers
    <3> QED
      BY <1>6, <3>1 DEF IsLoaded, PageSize
  <2>4. /\ Pos(n, curr) \in Nat /\ Pos(n, curr) > 3 * i
        /\ Pos(n, curr) = Total(m, curr) \/ Pos(n, curr) >= 6
    <3> HIDE DEF i
    <3> QED
      BY <1>2, <1>3, <1>5, <2>3 DEF PageSize
  <2>5. Begun(n, A)
    <3>1. \A q \in A : Total(n, q) = Total(m, q)
      BY <2>1, SameNumbers
    <3> QED
      BY <1>2, <2>2, <2>4, <3>1 DEF Begun, PageSize
  <2> QED
    BY <2>1, <2>2, <2>4, <2>5 DEF PageSize
<1>7. [pid |-> curr, i |-> i] = pg
  BY DEF Page
<1>8. CASE /\ \E loaded \in Loads(m, curr, i) : MemoryBecomes(loaded)
           /\ lru' = <<pg>> \o lru
           /\ mode' = "scheduling"
  <2>1. PICK at \in FrameFor(m) : MemoryBecomes(LoadedAt(m, curr, i, at))
    BY <1>8 DEF Loads
  <2>2. FreeFrame(m, at)
    BY FrameIsFree
  <2>3. IsLoaded(m, LoadedAt(m, curr, i, at), A, curr, i, at)
    BY <1>2, <1>3, <1>4, <2>2, LoadedIs
  <2>4. IsLoaded(m, n, A, curr, i, at)
    BY <2>1, <2>3, LoadedAfter
  <2>5. Ordered(<<pg>> \o lru, n, A)
    BY <1>2, <1>3, <2>2, <2>4, OrderedLoaded
  <2>6. SameTables(m, m, A)
    BY DEF SameTables
  <2> HIDE DEF pg, n, m
  <2>7. /\ Begun(n, A) /\ SameTables(m, n, A)
        /\ \A q \in A : q # curr => Pos(n, q) = Pos(m, q)
        /\ Pos(n, curr) \in Nat /\ Pos(n, curr) > PageSize * i
    BY <1>6, <2>4, <2>6
  <2>8. Ordered(lru', n, A)
    BY <1>8, <2>5
  <2> QED
    BY <1>3, <1>8, <2>7, <2>8 DEF n, m
<1>9. CASE /\ lru # <<>>
           /\ lru' = <<pg>> \o Popped.rest
           /\ IF Room(Evicted(m, Popped.page)) = {}
              THEN MemoryBecomes(Evicted(m, Popped.page))
              ELSE \E loaded \in Loads(Evicted(m, Popped.page), curr, i) :
                     MemoryBecomes(loaded)
           /\ mode' = IF Entry(Popped.page).index[0] = Unloaded
                      THEN "undefined" ELSE "scheduling"
  <2> DEFINE v == Last(lru)
             e == Evicted(m, v)
  <2>1. Popped.page = v /\ Popped.rest = Front(lru)
    BY DEF Popped
  <2>2. v \in Range(lru)
    BY <1>2, <1>9, LastAndFront
  <2>3. /\ v \in TablePages(m, A) /\ Resident(m, v)
        /\ v \in [pid : A, i : Nat] /\ v.i \in DOMAIN m.pcb[v.pid].page_table
    BY <1>2, <2>2 DEF TablePages, Ordered, Frames
  <2>4. IsEvicted(m, e, A, v)
    BY <1>2, <2>3, EvictedIs
  <2>5. MemoryOK(e, A)
    <3>1. FrameSize > 0
      <4>1. all # <<>>
        BY <1>2, EmptyRange
      <4> QED
        BY <4>1 DEF IInv, Holds
    <3> QED
      BY <1>2, <2>3, <3>1, EvictedKeeps
  <2> HIDE DEF v, e
  <2>6. Room(e) # {}
    BY <2>3, <2>4, EvictedHasRoom
  <2>7. \E loaded \in Loads(e, curr, i) : MemoryBecomes(loaded)
    BY <1>9, <2>1, <2>6 DEF e
  <2>8. PICK at \in FrameFor(e) : MemoryBecomes(LoadedAt(e, curr, i, at))
    BY <2>7 DEF Loads
  <2>9. FreeFrame(e, at)
    BY FrameIsFree
  <2>10. /\ SameTables(m, e, A) /\ \A q \in A : Pos(e, q) = Pos(m, q)
    BY <2>4 DEF IsEvicted
  <2>11. IsLoaded(e, LoadedAt(e, curr, i, at), A, curr, i, at)
    <3>1. /\ ProperScript(e.pcb[curr].script)
          /\ i \in DOMAIN e.pcb[curr].page_table
          /\ Pos(e, curr) = PageSize * i
      BY <1>2, <1>3, <1>4, <2>10 DEF SameTables
    <3> QED
      BY <1>2, <2>5, <2>9, <3>1, LoadedIs
  <2>12. IsLoaded(e, n, A, curr, i, at)
    BY <2>8, <2>11, LoadedAfter
  <2>13. /\ Begun(n, A) /\ SameTables(m, n, A)
         /\ \A q \in A : q # curr => Pos(n, q) = Pos(m, q)
         /\ Pos(n, curr) \in Nat /\ Pos(n, curr) > PageSize * i
    BY <1>6, <2>10, <2>12
  <2>14. ASSUME NEW q \in A, Live(m, q), q # curr
         PROVE  /\ Run(m, q) + 1 >= PageSize * i
                /\ q < curr => Pos(m, q) > PageSize * i
    <3>1. /\ curr < q \/ q < curr
          /\ Start(q) = Run(m, q)
          /\ Hit(q) <=> Run(m, q) < Pos(m, q)
          /\ Start(curr) = IF MidTurn(curr) THEN Run(m, curr) - 1
                                            ELSE Run(m, curr)
          /\ curr < q => Start(q) = Start(curr)
          /\ q < curr => Start(q) = Run(m, curr) /\ Hit(q)
      BY <1>1, <2>14, OthersAtFault
    <3>2. Run(m, q) \in Nat /\ Run(m, curr) \in Nat /\ q \in Int /\ curr \in Int
      BY <1>2, ProcessNumbers
    <3> HIDE DEF MidTurn, Start, Hit, m, i
    <3>3. CASE curr < q
      <4>1. Run(m, q) = Run(m, curr) - 1 \/ Run(m, q) = Run(m, curr)
        BY <3>1, <3>3
      <4>2. Run(m, q) + 1 >= Run(m, curr) /\ ~(q < curr)
        BY <3>2, <3>3, <4>1
      <4> QED
        BY <1>3, <4>2
    <3>4. CASE q < curr
      <4>1. Run(m, q) = Run(m, curr) /\ Run(m, q) < Pos(m, q)
        BY <3>1, <3>4
      <4>2. Pos(m, q) \in Nat
        BY <1>2, ProcessNumbers
      <4> QED
        BY <1>3, <3>2, <4>1, <4>2
    <3> QED
      BY <3>1, <3>3, <3>4
  <2>15. Spent(n, v)
    BY <1>2, <1>3, <1>9, <2>13, <2>14, VictimIsSpent DEF v
  <2>16. Ordered(<<pg>> \o Front(lru), n, A)
    BY <1>2, <1>3, <1>9, <2>4, <2>5, <2>9, <2>12, <2>15, OrderedReplaced DEF v
  <2> HIDE DEF pg, n, m
  <2>17. Ordered(lru', n, A)
    BY <1>9, <2>1, <2>16
  <2>18. mode' = "scheduling"
    <3>1. 0 \in Offsets /\ At(m, v) + 0 \in FrameSlots
      BY <2>3 DEF Resident, Offsets, PageSize
    <3>2. At(m, v) # Unloaded
      BY <3>1, StoreAssumption DEF FrameSlots, Unloaded
    <3>3. At(m, v) = Entry(Popped.page).index[0]
      BY <2>1 DEF At, EntryIn, Entry, Memory, m
    <3> QED
      BY <1>9, <3>2, <3>3
  <2> QED
    BY <1>3, <2>13, <2>17, <2>18 DEF n, m
<1> HIDE DEF pg
<1> QED
  BY <1>1, <1>7, <1>8, <1>9 DEF PageFault

\* The others lose the same turn, or have lost it.
LEMMA FaultLockstep ==
  ASSUME IInv, Well, Fault
  PROVE  Lockstep'
<1> DEFINE A == Range(all)
           r == Run(Memory, curr)
<1>1. /\ Running /\ ~InMemory /\ mode = "running" /\ all' = all
      /\ mode' = "scheduling" /\ curr' = None /\ queue' = Append(queue, curr)
  BY FaultOrdered DEF Fault, Running, PageFault
<1>2. /\ curr \in A /\ A \in SUBSET Pids /\ MemoryOK(Memory, A)
      /\ ThisPage \in Nat
  BY <1>1, RunningFacts
<1>3. PICK c \in A : c = curr
  BY <1>2
<1>4. /\ SameTables(Memory, Memory', A)
      /\ \A q \in A : q # curr => Pos(Memory', q) = Pos(Memory, q)
      /\ Pos(Memory', c) \in Nat /\ Pos(Memory', c) > Pos(Memory, c)
  BY <1>3, FaultOrdered
<1>5. \A q \in A : /\ Run(Memory', q) = Run(Memory, q)
                   /\ Live(Memory', q) <=> Live(Memory, q)
                   /\ Run(Memory, q) \in Nat /\ q \in Int
  BY <1>2, <1>4, SameNumbers, ProcessNumbers
<1>6. /\ r = PageSize * ThisPage /\ ThisPage >= 2 /\ Pos(Memory, c) = r
  BY <1>1, <1>3, InMemoryMeans
<1>7. r \in Nat /\ c \in Int /\ FirstOfPage(r) /\ Run(Memory', c) = r
  BY <1>2, <1>3, <1>5, <1>6 DEF FirstOfPage, PageSize
<1>8. Start(c)' = r /\ Hit(c)'
  BY <1>1, <1>4, <1>6, <1>7 DEF Start, Hit, MidTurn
<1>9. ASSUME NEW p \in A, p # curr, Live(Memory, p)
      PROVE  /\ c < p => Turned(p, c)'
             /\ p < c => Even(p, c)'
             /\ Run(Memory', curr) <= Start(p) + 2
             /\ p < curr => Run(Memory', curr) <= Run(Memory, p)
  <2>1. /\ c < p \/ p < c
        /\ Start(p) = Run(Memory, p)
        /\ Start(curr) = IF MidTurn(curr) THEN r - 1 ELSE r
        /\ c < p => Start(p) = Start(curr) /\ (Hit(p) <=> MidTurn(curr))
        /\ p < c => Start(p) = r /\ Hit(p)
    BY <1>1, <1>3, <1>9, OthersAtFault
  <2>2. Start(p)' = Start(p) /\ (Hit(p)' <=> Hit(p)) /\ p \in Int
    BY <1>1, <1>4, <1>5, <1>9, OthersUnmoved
  <2> HIDE DEF r
  <2>3. CASE c < p /\ MidTurn(curr)
    <3>1. Start(p)' = r - 1 /\ Hit(p)' /\ Start(p) = r - 1
      BY <2>1, <2>2, <2>3
    <3>2. Start(p)' + 1 = r
      BY <1>7, <3>1
    <3>3. Turned(p, c)'
      BY <1>7, <1>8, <3>1, <3>2 DEF Turned, FirstOfPage
    <3>4. r <= Start(p) + 2 /\ ~(p < c)
      BY <1>7, <2>2, <2>3, <3>1
    <3> QED
      BY <1>3, <1>7, <3>3, <3>4
  <2>4. CASE c < p /\ ~MidTurn(curr)
    <3>1. Start(p)' = r /\ ~Hit(p)' /\ Start(p) = r
      BY <2>1, <2>2, <2>4
    <3>2. Turned(p, c)'
      BY <1>8, <3>1 DEF Turned
    <3>3. r <= Start(p) + 2 /\ ~(p < c)
      BY <1>7, <2>2, <2>4, <3>1
    <3> QED
      BY <1>3, <1>7, <3>2, <3>3
  <2>5. CASE p < c
    <3>1. Start(p)' = r /\ Hit(p)' /\ Start(p) = r
      BY <2>1, <2>2, <2>5
    <3>2. Even(p, c)'
      BY <1>8, <3>1 DEF Even
    <3>3. r <= Start(p) + 2 /\ r <= Run(Memory, p) /\ ~(c < p)
      BY <1>7, <2>1, <2>2, <2>5, <3>1
    <3> QED
      BY <1>3, <1>7, <3>2, <3>3
  <2> QED
    BY <2>1, <2>3, <2>4, <2>5
<1>10. Run(Memory', curr) \in Nat /\ Run(Memory', curr) >= Run(Memory, curr)
  BY <1>3, <1>7
<1> QED
  BY <1>1, <1>3, <1>4, <1>5, <1>9, <1>10, YieldLockstep

\* A page fault keeps the invariant.
LEMMA FaultWell == IInv /\ Well /\ Fault => Well'
<1> SUFFICES ASSUME IInv, Well, Fault PROVE Well'
  OBVIOUS
<1>1. Ordered(lru', Memory', Range(all)) /\ Begun(Memory', Range(all))
  BY FaultOrdered
<1>2. mode' = "scheduling" /\ UNCHANGED <<todo, nested, all>>
  BY FaultOrdered DEF Fault, PageFault
<1>3. Phase'
  BY <1>2 DEF Phase, Well
<1> QED
  BY <1>1, <1>2, <1>3, FaultLockstep DEF Well

\* A proper script runs no line that returns 1, and no exec.
LEMMA NeverNested ==
  ASSUME IInv, Well, RunLineThenFault \/ RunExec
  PROVE  FALSE
BY ProperCommand DEF RunLineThenFault, RunExec

-----------------------------------------------------------------------------
(* Lockstep: from the first turn on, and between turns.                    *)

\* Steps that move no process.
LEMMA WellUnchanged ==
  ASSUME Well, Phase', UNCHANGED <<pcb, all, lru, slots>>,
         mode' \in {"scheduling", "running"} => Lockstep'
  PROVE  Well'
<1>1. Memory' = Memory
  BY DEF Memory
<1> QED
  BY <1>1 DEF Well

\* At the first turn everybody is even.
LEMMA StartWell == IInv /\ Well /\ StartScheduler => Well'
<1> SUFFICES ASSUME IInv, Well, StartScheduler PROVE Well'
  OBVIOUS
<1> DEFINE A == Range(all)
<1>1. /\ mode = "loading" /\ mode' = "scheduling"
      /\ UNCHANGED <<todo, nested, curr, turn, pcb, all, queue, lru, slots>>
  BY DEF StartScheduler, processes
<1>2. /\ queue = all /\ \A p \in A : Run(Memory, p) = 0
      /\ \A a, b \in DOMAIN all : a < b => all[a] < all[b]
      /\ Ordered(lru, Memory, A) /\ Begun(Memory, A)
  BY <1>1 DEF Well, Phase
<1>3. Memory' = Memory
  BY <1>1 DEF Memory
<1>4. A \in SUBSET Pids /\ MemoryOK(Memory, A)
  BY AllArePids DEF IInv, Holds
<1>5. ASSUME NEW p \in A
      PROVE  Start(p)' = 0 /\ Hit(p)'
  <2>1. Run(Memory', p) = 0
    BY <1>2, <1>3
  <2>2. /\ Total(Memory, p) \in Nat /\ Total(Memory, p) >= 1
    BY <1>4, ProcessNumbers
  <2>3. 0 < Pos(Memory', p)
    <3>1. Pos(Memory, p) = Total(Memory, p) \/ Pos(Memory, p) >= 2 * 3
      BY <1>2 DEF Begun, PageSize
    <3>2. Pos(Memory, p) \in Nat
      BY <1>4, ProcessNumbers
    <3>3. 0 < Pos(Memory, p)
      BY <2>2, <3>1, <3>2
    <3> QED
      BY <1>3, <3>3
  <2>4. ~MidTurn(p)'
    BY <1>1 DEF MidTurn
  <2> QED
    BY <2>1, <2>3, <2>4 DEF Start, Hit
<1>6. TakeTurns'
  <2> SUFFICES ASSUME NEW p \in A, NEW q \in A, InTurn(p, q)'
               PROVE  p < q /\ Even(p, q)'
    BY <1>1 DEF TakeTurns
  <2>1. PICK a \in DOMAIN all, b \in DOMAIN all : a < b /\ all[a] = p /\ all[b] = q
    BY <1>1, <1>2 DEF InTurn
  <2>2. Even(p, q)'
    BY <1>5 DEF Even
  <2> QED
    BY <1>2, <2>1, <2>2
<1>7. AllWait'
  BY <1>1, <1>2 DEF AllWait
<1>8. Together'
  BY <1>1, <1>2, <1>3, <1>5 DEF Together
<1>9. TurnOfTwo'
  BY <1>1 DEF TurnOfTwo
<1>10. Lockstep'
  BY <1>6, <1>7, <1>8, <1>9 DEF Lockstep
<1>11. Phase'
  BY <1>1 DEF Well, Phase
<1> QED
  BY <1>1, <1>10, <1>11, WellUnchanged

\* A process popped has its turn before those that wait, as it had.
LEMMA PopWell == IInv /\ Well /\ Pop => Well'
<1> SUFFICES ASSUME IInv, Well, Pop PROVE Well'
  OBVIOUS
<1> DEFINE A == Range(all)
           h == Head(queue)
<1>1. /\ mode = "scheduling" /\ queue' = Tail(queue)
      /\ UNCHANGED <<todo, nested, pcb, all, lru, slots>>
      /\ queue # <<>>
  BY DEF Pop, queue_done
<1>2. Lockstep /\ A \in SUBSET Pids /\ MemoryOK(Memory, A)
  BY <1>1, AllArePids DEF Well, IInv, Holds
<1>3. /\ queue \in Seq(Pids) /\ Range(queue) \subseteq A
  BY DEF IInv, Lists
<1>4. /\ DOMAIN queue = 1 .. Len(queue) /\ Len(queue) \in Nat
      /\ DOMAIN queue' = 1 .. Len(queue) - 1
      /\ \A a \in DOMAIN queue' : a + 1 \in DOMAIN queue /\ queue'[a] = queue[a + 1]
      /\ h = queue[1] /\ 1 \in DOMAIN queue
  BY <1>1, <1>3
<1> HIDE DEF h
<1>5. Memory' = Memory
  BY <1>1 DEF Memory
<1>6. \/ ~Live(Memory, h) /\ mode' = "scheduling"
      \/ /\ mode' = "running" /\ curr' = h /\ Live(Memory, h)
         /\ turn' = IF pcb[h].size > 1 THEN "first" ELSE "only"
  <2>1. h \in A
    BY <1>3, <1>4 DEF Range
  <2>2. pcb[h].size \in Int
    <3>1. Memory.pcb[h].size = Total(Memory, h) - Run(Memory, h)
          /\ Total(Memory, h) \in Nat /\ Run(Memory, h) \in Nat
      BY <1>2, <2>1, ProcessNumbers
    <3> HIDE DEF Memory
    <3>2. Memory.pcb[h].size \in Int
      BY <3>1
    <3> QED
      BY <3>2 DEF Memory
  <2>3. CASE pcb[h].size <= 0
    BY <1>1, <2>2, <2>3 DEF Pop, Live, Memory, h
  <2>4. CASE pcb[h].size > 0
    <3>1. ~(pcb[h].size <= 0)
      BY <2>2, <2>4
    <3> QED
      BY <2>4, <3>1 DEF Pop, Live, Memory, h
  <2> QED
    BY <2>2, <2>3, <2>4
<1>7. ASSUME NEW q \in A
      PROVE  Start(q)' = Start(q) /\ (Hit(q)' <=> Hit(q))
  <2>1. ~MidTurn(q) /\ ~MidTurn(q)'
    BY <1>1, <1>6 DEF MidTurn
  <2> QED
    BY <1>5, <2>1 DEF Start, Hit
<1>8. ASSUME NEW p \in A, NEW q \in A, InTurn(p, q)'
      PROVE  InTurn(p, q)
  <2>1. CASE \E a, b \in DOMAIN queue' : a < b /\ queue'[a] = p /\ queue'[b] = q
    <3>1. PICK a \in DOMAIN queue', b \in DOMAIN queue' :
            a < b /\ queue'[a] = p /\ queue'[b] = q
      BY <2>1
    <3>2. a + 1 < b + 1
      BY <1>4, <3>1
    <3> QED
      BY <1>4, <3>1, <3>2 DEF InTurn
  <2>2. CASE mode' = "running" /\ p = curr' /\ q \in Range(queue')
    <3>1. PICK b \in DOMAIN queue' : queue'[b] = q
      BY <2>2 DEF Range
    <3>2. p = queue[1] /\ queue[b + 1] = q /\ b + 1 \in DOMAIN queue /\ 1 < b + 1
      BY <1>4, <1>6, <2>2, <3>1
    <3> QED
      BY <1>4, <3>2 DEF InTurn
  <2> QED
    BY <1>8, <2>1, <2>2 DEF InTurn
<1>9. TakeTurns'
  <2> SUFFICES ASSUME NEW p \in A, NEW q \in A, InTurn(p, q)',
                      Live(Memory, p), Live(Memory, q)
               PROVE  (p < q /\ Even(p, q)') \/ (q < p /\ Turned(p, q)')
    BY <1>1, <1>5 DEF TakeTurns
  <2>1. (p < q /\ Even(p, q)) \/ (q < p /\ Turned(p, q))
    BY <1>2, <1>8 DEF Lockstep, TakeTurns
  <2>2. Even(p, q)' <=> Even(p, q)
    BY <1>7 DEF Even
  <2>3. Turned(p, q)' <=> Turned(p, q)
    BY <1>7 DEF Turned, FirstOfPage
  <2> QED
    BY <2>1, <2>2, <2>3
<1>10. AllWait'
  <2> SUFFICES ASSUME NEW p \in A, Live(Memory, p)
               PROVE  p \in Range(queue') \/ (mode' = "running" /\ p = curr')
    BY <1>1, <1>5 DEF AllWait
  <2>1. p \in Range(queue)
    BY <1>1, <1>2 DEF Lockstep, AllWait
  <2>2. PICK a \in DOMAIN queue : queue[a] = p
    BY <2>1 DEF Range
  <2>3. CASE a = 1
    BY <1>4, <1>6, <2>2, <2>3
  <2>4. CASE a # 1
    <3>1. a - 1 \in DOMAIN queue' /\ (a - 1) + 1 = a
      BY <1>4, <2>4
    <3> QED
      BY <1>4, <2>2, <3>1 DEF Range
  <2> QED
    BY <2>3, <2>4
<1>11. Together'
  BY <1>1, <1>2, <1>5, <1>7 DEF Lockstep, Together
<1>12. TurnOfTwo'
  <2> SUFFICES ASSUME mode' = "running"
               PROVE  turn' # "second" /\ (turn' = "only" => pcb'[curr'].size = 1)
    BY DEF TurnOfTwo
  <2>1. curr' = h /\ Live(Memory, h) /\ pcb' = pcb
        /\ turn' = IF pcb[h].size > 1 THEN "first" ELSE "only"
    BY <1>1, <1>6
  <2>2. pcb[h].size > 0 /\ pcb[h].size \in Int
    <3>1. h \in A
      BY <1>3, <1>4 DEF Range
    <3>2. Process(pcb[h])
      BY <1>2, <3>1 DEF MemoryOK, Memory
    <3>3. CountLines(pcb[h].script) \in Nat
      BY <3>2, CountLinesType DEF Process
    <3> QED
      BY <2>1, <3>2, <3>3 DEF Process, PCBs, Live, Memory
  <2> QED
    BY <2>1, <2>2
<1>13. Lockstep'
  BY <1>9, <1>10, <1>11, <1>12 DEF Lockstep
<1>14. Phase'
  BY <1>1, <1>6 DEF Well, Phase
<1> QED
  BY <1>1, <1>13, <1>14, WellUnchanged

-----------------------------------------------------------------------------
(* Lockstep is prepared: exec loads the first two pages of each process.   *)

\* PCB_init before it loads: no line run, none read, no page in memory.
LEMMA NewProcessOrdered ==
  ASSUME NEW m, NEW n, NEW A \in SUBSET Pids, NEW p \in Pids,
         NEW s \in Scripts, NEW l, p \notin A, ProperScript(s),
         Range(l) \subseteq TablePages(m, A), Ordered(l, m, A),
         n.slots = m.slots, \A q \in A : n.pcb[q] = m.pcb[q],
         n.pcb[p] = NewPCB(s)
  PROVE  /\ Ordered(l, n, A \cup {p})
         /\ Run(n, p) = 0 /\ Pos(n, p) = 0 /\ Total(n, p) = CountLines(s)
         /\ n.pcb[p].script = s
         /\ \A q \in A : /\ Total(n, q) = Total(m, q) /\ Run(n, q) = Run(m, q)
                         /\ Pos(n, q) = Pos(m, q)
<1> DEFINE B == A \cup {p}
           t == n.pcb[p].page_table
<1>1. /\ n.pcb[p].script = s /\ n.pcb[p].size = CountLines(s)
      /\ n.pcb[p].pos = 0
      /\ t = [i \in 0 .. PageTableSize(CountLines(s)) - 1 |-> PAGE_init]
  BY DEF NewPCB
<1>2. /\ DOMAIN t = 0 .. PageTableSize(CountLines(s)) - 1
      /\ \A i \in DOMAIN t : /\ t[i].index[0] = Unloaded
                             /\ \A j \in Offsets : ~t[i].valid_bit[j]
  BY <1>1, OffsetsAre DEF PAGE_init
<1>3. CountLines(s) \in Nat
  BY CountLinesType
<1>4. Run(n, p) = 0 /\ Pos(n, p) = 0 /\ Total(n, p) = CountLines(s)
  BY <1>1, <1>3 DEF Run, Pos, Total
<1>5. ASSUME NEW q \in A
      PROVE  /\ Total(n, q) = Total(m, q) /\ Run(n, q) = Run(m, q)
             /\ Pos(n, q) = Pos(m, q)
             /\ Live(n, q) <=> Live(m, q)
  BY DEF Run, Pos, Total, Live
<1>6. ASSUME NEW x \in Range(l)
      PROVE  x.pid \in A /\ EntryIn(n, x) = EntryIn(m, x) /\ At(n, x) = At(m, x)
  BY DEF TablePages, EntryIn, At
<1> HIDE DEF t
<1>7. Reading(n, B)
  <2> SUFFICES ASSUME NEW q \in B
      PROVE /\ ProperScript(n.pcb[q].script)
            /\ Pos(n, q) = Total(n, q) \/ Pos(n, q) % PageSize = 0
            /\ Run(n, q) <= Pos(n, q)
            /\ \A i \in Nat : i >= 2 /\ PageSize * i < Pos(n, q)
                                => PageSize * i <= Run(n, q)
            /\ \A i \in DOMAIN n.pcb[q].page_table :
                 n.pcb[q].page_table[i].index[0] = Unloaded
                   <=> PageSize * i >= Pos(n, q)
    BY DEF Reading
  <2>1. CASE q = p
    <3>1. \A i \in DOMAIN t : 3 * i >= 0
      BY <1>2, <1>3
    <3>2. \A i \in Nat : ~(3 * i < 0)
      OBVIOUS
    <3>3. 0 % PageSize = 0
      BY DEF PageSize
    <3>4. \A i \in Nat : i >= 2 /\ PageSize * i < Pos(n, p)
                           => PageSize * i <= Run(n, p)
      BY <1>4, <3>2 DEF PageSize
    <3>5. \A i \in DOMAIN t : t[i].index[0] = Unloaded <=> PageSize * i >= Pos(n, p)
      BY <1>2, <1>4, <3>1 DEF PageSize
    <3>6. Run(n, p) <= Pos(n, p) /\ Pos(n, p) % PageSize = 0
      BY <1>4, <3>3
    <3>7. ProperScript(n.pcb[p].script)
      BY <1>1
    <3> QED
      BY <2>1, <3>4, <3>5, <3>6, <3>7, Zenon DEF t
  <2>2. CASE q # p
    <3>1. Reading(m, A) /\ q \in A
      BY <2>2 DEF Ordered
    <3>2. n.pcb[q] = m.pcb[q]
      BY <3>1
    <3> QED
      BY <1>5, <3>1, <3>2 DEF Reading
  <2> QED
    BY <2>1, <2>2
<1>8. Frames(Range(l), n, B)
  <2>1. Frames(Range(l), m, A)
    BY DEF Ordered
  <2>2. ASSUME NEW x \in Range(l)
        PROVE  Resident(n, x)
    <3>1. Resident(m, x)
      BY <2>1 DEF Frames
    <3>2. n.pcb[x.pid].script = m.pcb[x.pid].script
      BY <1>6
    <3>3. PageSize * x.i < Pos(n, x.pid) /\ Total(n, x.pid) = Total(m, x.pid)
      BY <1>5, <1>6, <3>1 DEF Resident
    <3> QED
      BY <1>6, <3>1, <3>2, <3>3, StaysResident
  <2>3. ASSUME NEW q \in B, NEW i \in DOMAIN n.pcb[q].page_table
        PROVE  \/ Page(q, i) \in Range(l)
               \/ \A j \in Offsets : ~n.pcb[q].page_table[i].valid_bit[j]
    BY <1>2, <2>1 DEF Frames, t
  <2> QED
    BY <1>6, <2>1, <2>2, <2>3 DEF Frames
<1>9. TopTwo(Range(l), n, B)
  <2>1. TopTwo(Range(l), m, A)
    BY DEF Ordered
  <2>2. \A i \in Nat : ~(PageSize * i < Pos(n, p))
    BY <1>4 DEF PageSize
  <2>3. ASSUME NEW q \in A
        PROVE  /\ Pos(n, q) = Pos(m, q)
               /\ Live(n, q) <=> Live(m, q)
    BY <1>5
  <2>4. ASSUME NEW q \in B, NEW i \in Nat, Live(n, q),
               PageSize * i < Pos(n, q), Pos(n, q) <= PageSize * (i + 2)
        PROVE  Page(q, i) \in Range(l)
    <3>1. q \in A
      BY <2>2, <2>4
    <3> QED
      BY <2>1, <2>3, <2>4, <3>1 DEF TopTwo
  <2> QED
    BY <2>4 DEF TopTwo
<1>10. Recency(l, n)
  <2>1. Recency(l, m)
    BY DEF Ordered
  <2>2. ASSUME NEW a \in DOMAIN l, NEW b \in DOMAIN l, UsedBefore(n, l[a], l[b])
        PROVE  UsedBefore(m, l[a], l[b])
    <3>1. l[a] \in Range(l) /\ l[b] \in Range(l)
      BY DEF Range
    <3> QED
      BY <1>5, <1>6, <2>2, <3>1 DEF UsedBefore
  <2> QED
    BY <2>1, <2>2 DEF Recency
<1>11. Ordered(l, n, B)
  BY <1>7, <1>8, <1>9, <1>10 DEF Ordered
<1> QED
  BY <1>1, <1>4, <1>5, <1>11

\* new_proc: the memory with the first two pages loaded.
LEMMA NewProcMemory ==
  ASSUME IInv, Well, NewProc, NEW p, p = pid_counter
  PROVE  /\ p \in Pids /\ \A q \in Range(all) : q < p
         /\ Range(all') = Range(all) \cup {p}
         /\ Ordered(lru', Memory', Range(all'))
         /\ Begun(Memory', Range(all'))
         /\ \A q \in Range(all') : Run(Memory', q) = 0
         /\ \A q \in Range(all) : Memory'.pcb[q].size = Memory.pcb[q].size
<1> DEFINE A == Range(all)
           s == Head(todo)
           B == A \cup {p}
           m0 == [Memory EXCEPT !.pcb[p] = NewPCB(s)]
           first == Page(p, 0)
           second == Page(p, 1)
           z == Memory'
<1>1. /\ A \in SUBSET Pids /\ p \in Pids /\ p \notin A /\ \A q \in A : q < p
      /\ s \in Scripts /\ ProperScript(s) /\ mode = "loading"
      /\ all \in Seq(Pids)
  <2>1. Control /\ Lists /\ Phase
    BY DEF IInv, Well
  <2>2. p \in Pids /\ mode = "loading" /\ todo # <<>> /\ A \in SUBSET Pids
    BY <2>1, AllArePids DEF NewProc
  <2>3. p \notin A /\ \A q \in A : q < p
    BY <2>1, <2>2 DEF Lists, Pids
  <2>4. s \in Scripts /\ s \in Range(todo)
    BY <2>1, <2>2, HeadAndTail DEF Control
  <2>5. ProperScript(s)
    BY <2>1, <2>4 DEF Phase
  <2> QED
    BY <2>1, <2>2, <2>3, <2>4, <2>5 DEF Lists
<1>2. /\ MemoryOK(Memory, A) /\ lru \in Seq(Pages)
      /\ Range(lru) \subseteq TablePages(Memory, A)
      /\ ListsPages(lru, Memory, A)
  BY DEF IInv, Holds, ListsPages
<1>3. Ordered(lru, Memory, A) /\ Begun(Memory, A) /\ \A q \in A : Run(Memory, q) = 0
  BY <1>1 DEF Well, Phase
<1>4. PICK n \in Initialized(s) : MemoryBecomes(n)
  BY DEF NewProc
<1>5. lru' = IF CountLines(s) <= PageSize THEN <<first>> \o lru
                                          ELSE <<second, first>> \o lru
  <2>1. [first EXCEPT !.i = 1] = second /\ first = [pid |-> p, i |-> 0]
    BY DEF Page
  <2>2. lru' = IF CountLines(s) <= PageSize
               THEN <<first>> \o lru
               ELSE <<[first EXCEPT !.i = 1], first>> \o lru
    BY <2>1, Zenon DEF NewProc
  <2> QED
    BY <2>1, <2>2, Zenon
<1>6. Range(all') = B
  <2>1. all' = Append(all, p)
    BY DEF NewProc
  <2> QED
    BY <1>1, <2>1, AddedLast
<1>7. /\ m0.slots = Memory.slots /\ m0.pcb[p] = NewPCB(s)
      /\ \A q \in A : m0.pcb[q] = Memory.pcb[q]
      /\ m0.pcb = [q \in Pids |-> m0.pcb[q]]
      /\ \A q \in Pids : q # p => m0.pcb[q] = Memory.pcb[q]
  <2>1. Memory.pcb = [q \in Pids |-> Memory.pcb[q]]
    BY <1>2 DEF MemoryOK
  <2>2. m0.slots = Memory.slots /\ m0.pcb = [Memory.pcb EXCEPT ![p] = NewPCB(s)]
    BY DEF Memory
  <2> HIDE DEF m0
  <2> QED
    BY <1>1, <2>1, <2>2
<1>8. /\ Initialized(s) =
           IF CountLines(s) <= PageSize
           THEN Loads(m0, p, 0)
           ELSE UNION {Loads(m1, p, 1) : m1 \in Loads(m0, p, 0)}
  BY DEF Initialized
<1> HIDE DEF m0
<1>9. MemoryOK(m0, B)
  <2>1. Process(NewPCB(s))
    BY <1>1, NewPCBType
  <2> QED
    BY <1>1, <1>2, <1>7, <2>1 DEF MemoryOK
<1>10. /\ Ordered(lru, m0, B)
       /\ Run(m0, p) = 0 /\ Pos(m0, p) = 0 /\ Total(m0, p) = CountLines(s)
       /\ m0.pcb[p].script = s
       /\ \A q \in A : /\ Total(m0, q) = Total(Memory, q)
                       /\ Run(m0, q) = Run(Memory, q)
                       /\ Pos(m0, q) = Pos(Memory, q)
  <2>1. /\ Range(lru) \subseteq TablePages(Memory, A) /\ Ordered(lru, Memory, A)
        /\ A \in SUBSET Pids /\ p \in Pids /\ s \in Scripts /\ p \notin A
        /\ ProperScript(s) /\ m0.slots = Memory.slots
        /\ \A q \in A : m0.pcb[q] = Memory.pcb[q]
        /\ m0.pcb[p] = NewPCB(s)
    BY <1>1, <1>2, <1>3, <1>7
  <2> HIDE DEF A, s
  <2> QED
    BY <2>1, NewProcessOrdered
<1>11. \A q \in B : Run(m0, q) = 0
  BY <1>3, <1>10
<1>12. /\ Range(lru) \subseteq TablePages(m0, B)
       /\ first \notin Range(lru) /\ second \notin Range(lru)
       /\ first \in Pages /\ second \in Pages /\ first # second
  <2>1. ASSUME NEW x \in Range(lru)
        PROVE  x \in TablePages(m0, B) /\ x.pid # p
    <3>1. x \in TablePages(Memory, A)
      BY <1>2
    <3>2. x \in [pid : A, i : Nat] /\ x.i \in DOMAIN Memory.pcb[x.pid].page_table
      BY <3>1 DEF TablePages
    <3>3. x \in [pid : B, i : Nat] /\ m0.pcb[x.pid] = Memory.pcb[x.pid]
      BY <1>7, <3>2
    <3> QED
      BY <1>1, <3>2, <3>3 DEF TablePages
  <2>2. first.pid = p /\ second.pid = p /\ first.i = 0 /\ second.i = 1
    BY DEF Page
  <2>3. first \in Pages /\ second \in Pages
    BY <1>1 DEF Page, Pages
  <2> HIDE DEF first, second
  <2> QED
    BY <2>1, <2>2, <2>3
<1>13. ListsPages(lru, m0, B)
  <2>1. \A i \in DOMAIN m0.pcb[p].page_table : ~m0.pcb[p].page_table[i].valid_bit[0]
    BY <1>1, <1>7, NewPCBType
  <2>2. ASSUME NEW pg \in Valid(m0, B)
        PROVE  pg \in Valid(Memory, A)
    <3>1. pg \in [pid : B, i : Nat]
      BY DEF Valid
    <3>2. pg.pid # p
      BY <2>1 DEF Valid
    <3> QED
      BY <1>7, <3>1, <3>2 DEF Valid
  <2> QED
    BY <1>2, <1>12, <2>2 DEF ListsPages
<1>14. /\ B \in SUBSET Pids /\ p \in B
       /\ CountLines(s) \in Nat /\ CountLines(s) >= 1
       /\ 0 \in DOMAIN m0.pcb[p].page_table
       /\ CountLines(s) > 3 => 1 \in DOMAIN m0.pcb[p].page_table
  <2>1. B \in SUBSET Pids /\ p \in B
    BY <1>1
  <2>2. \A i : i \in DOMAIN m0.pcb[p].page_table
                 <=> i \in Nat /\ 3 * i < CountLines(s)
    BY <1>9, <1>10, <2>1, ProcessNumbers DEF PageSize
  <2> QED
    BY <1>1, <2>1, <2>2, CountLinesType
<1>15. Begun(Memory, A) => \A q \in A : Pos(m0, q) = Total(m0, q)
                                          \/ Pos(m0, q) >= 2 * PageSize
  BY <1>10 DEF Begun
<1>16. /\ \A q \in B : Run(m0, q) <= Run(m0, p) + 2
       /\ 0 >= 2 => Run(m0, p) = PageSize * 0
  BY <1>10, <1>11
<1> HIDE DEF first, second, z
<1>17. CASE CountLines(s) <= PageSize
  <2>1. n \in Loads(m0, p, 0)
    BY <1>4, <1>8, <1>17
  <2>2. PICK at \in FrameFor(m0) : n = LoadedAt(m0, p, 0, at)
    BY <2>1 DEF Loads
  <2>3. FreeFrame(m0, at)
    BY FrameIsFree
  <2>4. PageSize * 0 = 0
    BY DEF PageSize
  <2>5. IsLoaded(m0, n, B, p, 0, at)
    BY <1>1, <1>9, <1>10, <1>14, <2>2, <2>3, <2>4, LoadedIs
  <2>6. IsLoaded(m0, z, B, p, 0, at)
    BY <1>4, <2>5, LoadedAfter DEF z
  <2>7. Ordered(<<first>> \o lru, z, B)
    <3>1. Pos(m0, p) = PageSize * 0 /\ Page(p, 0) \notin Range(lru)
      BY <1>10, <1>12, <2>4 DEF first
    <3>2. Ordered(<<Page(p, 0)>> \o lru, z, B)
      BY <1>2, <1>9, <1>10, <1>12, <1>14, <1>16, <2>3, <2>6, <3>1, OrderedLoaded
    <3> QED
      BY <3>2 DEF first
  <2>8. SameTables(m0, z, B)
    BY <2>6 DEF IsLoaded
  <2>9. \A q \in B : Total(z, q) = Total(m0, q) /\ Run(z, q) = 0
    BY <1>11, <2>8, SameNumbers
  <2>10. Pos(z, p) = Total(z, p)
    <3>1. Pos(z, p) = IF 3 * (0 + 1) <= CountLines(s) THEN 3 * (0 + 1)
                                                      ELSE CountLines(s)
      BY <1>10, <2>6 DEF IsLoaded, PageSize
    <3>2. Pos(z, p) = CountLines(s)
      BY <1>14, <1>17, <3>1 DEF PageSize
    <3> QED
      BY <1>10, <1>14, <2>9, <3>2
  <2>11. Begun(z, B)
    <3>1. \A q \in A : q # p /\ Pos(z, q) = Pos(m0, q)
      BY <1>1, <2>6 DEF IsLoaded
    <3> QED
      BY <1>3, <1>15, <2>9, <2>10, <3>1 DEF Begun
  <2>12. \A q \in A : z.pcb[q].size = Memory.pcb[q].size
    BY <1>7, <2>8 DEF SameTables
  <2> QED
    BY <1>1, <1>5, <1>6, <1>17, <2>7, <2>9, <2>11, <2>12 DEF z
<1>18. CASE ~(CountLines(s) <= PageSize)
  <2>1. PICK m1 \in Loads(m0, p, 0) : n \in Loads(m1, p, 1)
    <3>1. n \in UNION {Loads(m1, p, 1) : m1 \in Loads(m0, p, 0)}
      BY <1>4, <1>8, <1>18, Zenon
    <3> QED
      BY <3>1, Zenon
  <2>2. CountLines(s) > 3
    BY <1>14, <1>18 DEF PageSize
  <2>3. PICK at \in FrameFor(m0) : m1 = LoadedAt(m0, p, 0, at)
    BY <2>1 DEF Loads
  <2>4. PICK au \in FrameFor(m1) : n = LoadedAt(m1, p, 1, au)
    BY <2>1 DEF Loads
  <2>5. FreeFrame(m0, at) /\ FreeFrame(m1, au)
    BY FrameIsFree
  <2>6. PageSize * 0 = 0 /\ PageSize * 1 = 3
    BY DEF PageSize
  <2>7. IsLoaded(m0, m1, B, p, 0, at)
    BY <1>1, <1>9, <1>10, <1>14, <2>3, <2>5, <2>6, LoadedIs
  <2>8. Ordered(<<first>> \o lru, m1, B)
    <3>1. Pos(m0, p) = PageSize * 0 /\ Page(p, 0) \notin Range(lru)
      BY <1>10, <1>12, <2>6 DEF first
    <3>2. Ordered(<<Page(p, 0)>> \o lru, m1, B)
      BY <1>2, <1>9, <1>10, <1>12, <1>14, <1>16, <2>5, <2>7, <3>1, OrderedLoaded
    <3> QED
      BY <3>2 DEF first
  <2>9. /\ MemoryOK(m1, B) /\ ListsPages(<<first>> \o lru, m1, B)
        /\ SameTables(m0, m1, B)
    BY <1>9, <1>13, <1>14, <2>1, LoadedIsListed DEF first, Page
  <2>10. /\ <<first>> \o lru \in Seq(Pages)
         /\ Range(<<first>> \o lru) \subseteq TablePages(m1, B)
    BY <2>9 DEF ListsPages
  <2>11. second \notin Range(<<first>> \o lru)
    BY <1>2, <1>12, AddedFirst
  <2>12. /\ \A q \in B : Total(m1, q) = Total(m0, q) /\ Run(m1, q) = 0
         /\ m1.pcb[p].script = s
         /\ 1 \in DOMAIN m1.pcb[p].page_table
    BY <1>10, <1>11, <1>14, <2>2, <2>9, SameNumbers
  <2>13. Pos(m1, p) = 3
    <3>1. Pos(m1, p) = IF 3 * (0 + 1) <= CountLines(s) THEN 3 * (0 + 1)
                                                       ELSE CountLines(s)
      BY <1>10, <2>7 DEF IsLoaded, PageSize
    <3> QED
      BY <1>14, <2>2, <3>1
  <2>14. IsLoaded(m1, n, B, p, 1, au)
    BY <1>1, <1>14, <2>4, <2>5, <2>6, <2>9, <2>12, <2>13, LoadedIs
  <2>15. IsLoaded(m1, z, B, p, 1, au)
    BY <1>4, <2>14, LoadedAfter DEF z
  <2>16. Ordered(<<second>> \o (<<first>> \o lru), z, B)
    <3> DEFINE l == <<first>> \o lru
    <3>1. Pos(m1, p) = PageSize * 1 /\ Page(p, 1) \notin Range(l)
      BY <2>6, <2>11, <2>13 DEF second
    <3>2. /\ \A q \in B : Run(m1, q) <= Run(m1, p) + 2
          /\ 1 >= 2 => Run(m1, p) = PageSize * 1
      BY <1>14, <2>12
    <3>3. l \in Seq(Pages) /\ Range(l) \subseteq TablePages(m1, B)
      BY <2>10
    <3>4. Ordered(l, m1, B)
      BY <2>8
    <3> HIDE DEF l
    <3>6. /\ B \in SUBSET Pids /\ p \in B /\ 1 \in DOMAIN m1.pcb[p].page_table
          /\ MemoryOK(m1, B) /\ FreeFrame(m1, au) /\ IsLoaded(m1, z, B, p, 1, au)
      BY <1>14, <2>5, <2>9, <2>12, <2>15
    <3> HIDE DEF B
    <3>5. Ordered(<<Page(p, 1)>> \o l, z, B)
      BY <3>1, <3>2, <3>3, <3>4, <3>6, OrderedLoaded
    <3> QED
      BY <3>5 DEF second, l
  <2>17. lru' = <<second>> \o (<<first>> \o lru)
    <3>1. <<second, first>> \o lru = <<second>> \o (<<first>> \o lru)
      BY <1>2, <1>12
    <3>2. lru' = <<second, first>> \o lru
      BY <1>5, <1>18
    <3> QED
      BY <3>1, <3>2
  <2>18. SameTables(m1, z, B)
    BY <2>15 DEF IsLoaded
  <2>19. \A q \in B : Total(z, q) = Total(m0, q) /\ Run(z, q) = 0
    BY <2>12, <2>18, SameNumbers
  <2>20. Pos(z, p) = Total(z, p) \/ Pos(z, p) >= 6
    <3>1. Pos(z, p) = IF 3 * (1 + 1) <= Total(m1, p) THEN 3 * (1 + 1)
                                                     ELSE Total(m1, p)
      BY <2>15 DEF IsLoaded, PageSize
    <3>2. Total(m1, p) = Total(z, p)
      BY <1>14, <2>12, <2>19
    <3> QED
      BY <3>1, <3>2
  <2>21. Begun(z, B)
    <3>1. \A q \in A : q # p /\ Pos(z, q) = Pos(m1, q) /\ Pos(m1, q) = Pos(m0, q)
      BY <1>1, <2>7, <2>15 DEF IsLoaded
    <3>2. 2 * PageSize = 6
      BY DEF PageSize
    <3> QED
      BY <1>3, <1>15, <2>19, <2>20, <3>1, <3>2 DEF Begun
  <2>22. \A q \in A : z.pcb[q].size = Memory.pcb[q].size
    BY <1>7, <2>9, <2>18 DEF SameTables
  <2> QED
    BY <1>1, <1>6, <2>16, <2>17, <2>19, <2>21, <2>22 DEF z
<1> QED
  BY <1>17, <1>18

\* new_proc keeps the invariant.
LEMMA NewProcWell == IInv /\ Well /\ NewProc => Well'
<1> SUFFICES ASSUME IInv, Well, NewProc PROVE Well'
  OBVIOUS
<1> DEFINE p == pid_counter
<1>1. /\ mode = "loading" /\ mode' = "loading" /\ todo' = Tail(todo)
      /\ all' = Append(all, p) /\ queue' = Append(queue, p)
      /\ nested' = nested /\ todo # <<>>
  BY DEF NewProc
<1>2. /\ p \in Pids /\ \A q \in Range(all) : q < p
      /\ Ordered(lru', Memory', Range(all')) /\ Begun(Memory', Range(all'))
      /\ \A q \in Range(all') : Run(Memory', q) = 0
  BY NewProcMemory
<1>3. /\ ~nested /\ \A s \in Range(todo) : ProperScript(s)
      /\ queue = all /\ \A a, b \in DOMAIN all : a < b => all[a] < all[b]
  BY <1>1 DEF Well, Phase
<1>4. all \in Seq(Pids) /\ todo \in Seq(Scripts)
  BY DEF IInv, Lists, Control
<1> HIDE DEF p
<1>5. \A s \in Range(todo') : ProperScript(s)
  BY <1>1, <1>3, <1>4, HeadAndTail
<1>6. ASSUME NEW a \in DOMAIN all', NEW b \in DOMAIN all', a < b
      PROVE  all'[a] < all'[b]
  <2>1. /\ DOMAIN all = 1 .. Len(all) /\ Len(all) \in Nat
        /\ DOMAIN all' = 1 .. Len(all) + 1
        /\ \A c \in DOMAIN all : all'[c] = all[c]
        /\ all'[Len(all) + 1] = p
    BY <1>1, <1>2, <1>4
  <2>2. a \in DOMAIN all
    BY <1>6, <2>1
  <2>3. CASE b \in DOMAIN all
    BY <1>3, <1>6, <2>1, <2>2, <2>3
  <2>4. CASE b = Len(all) + 1
    <3>1. all[a] \in Range(all)
      BY <2>2 DEF Range
    <3> QED
      BY <1>2, <2>1, <2>2, <2>4, <3>1
  <2> QED
    BY <2>1, <2>3, <2>4
<1>7. Phase'
  BY <1>1, <1>2, <1>3, <1>5, <1>6 DEF Phase
<1> QED
  BY <1>1, <1>2, <1>7 DEF Well

-----------------------------------------------------------------------------
(* The end of a scheduler, the prompt, and all steps together.             *)

\* No processes and no slot in use.
LEMMA EmptyOrdered ==
  ASSUME NEW m, \A k \in FrameSlots : m.slots[k].var = None
  PROVE  Ordered(<<>>, m, Range(<<>>)) /\ Begun(m, Range(<<>>))
BY EmptyRange DEF Ordered, Reading, NoRepeats, Frames, TopTwo, Recency, Begun

\* When queue_done holds, every process of ALL_PCB has run to its end.
LEMMA NoneLive ==
  ASSUME IInv, Well, mode = "scheduling", queue_done, NEW p \in Range(all)
  PROVE  ~Live(Memory, p) /\ ~HasUnloaded(pcb[p])
<1> DEFINE b == pcb[p]
<1>1. /\ Lockstep /\ Reading(Memory, Range(all))
      /\ Range(all) \in SUBSET Pids /\ MemoryOK(Memory, Range(all))
  BY AllArePids DEF Well, Ordered, IInv, Holds
<1>2. Process(b)
  BY <1>1 DEF MemoryOK, Memory
<1>3. ~Live(Memory, p)
  <2> SUFFICES ASSUME Live(Memory, p) PROVE FALSE
    OBVIOUS
  <2>1. p \in Range(queue)
    BY <1>1 DEF Lockstep, AllWait
  <2>2. PCB_done(b)
    BY <2>1 DEF queue_done, Range
  <2>3. b.size > 0
    BY DEF Live, Memory
  <2> DEFINE i == CurrentPage(b)
             n == CountLines(b.script) - b.size
  <2>4. /\ i \in DOMAIN b.page_table /\ i \in Nat
        /\ PageSize * i <= n /\ n < PageSize * (i + 1)
    BY <1>2, <2>3, CurrentPageType
  <2>5. n \in Int
    <3>1. CountLines(b.script) \in Nat /\ b.size \in Int
      BY <1>2, CountLinesType DEF Process, PCBs
    <3> QED
      BY <3>1
  <2>6. b.page_table[i].program_counter = Counter(n, i)
    BY <1>2, <2>4 DEF Process
  <2> HIDE DEF i, n, b
  <2>7. Counter(n, i) # PageSize
    BY <2>4, <2>5 DEF Counter, PageSize
  <2> QED
    BY <2>2, <2>4, <2>6, <2>7 DEF PCB_done
<1>4. /\ Run(Memory, p) <= Total(Memory, p)
      /\ Live(Memory, p) <=> Run(Memory, p) < Total(Memory, p)
      /\ Run(Memory, p) \in Nat /\ Total(Memory, p) \in Nat
      /\ Memory.pcb[p].script \in Scripts /\ Pos(Memory, p) \in Nat
      /\ Pos(Memory, p) <= Len(Lines[Memory.pcb[p].script])
      /\ \A i : i \in DOMAIN Memory.pcb[p].page_table
                  <=> i \in Nat /\ PageSize * i < Total(Memory, p)
  BY <1>1, ProcessNumbers
<1>5. /\ ProperScript(Memory.pcb[p].script) /\ Run(Memory, p) <= Pos(Memory, p)
      /\ \A i \in DOMAIN Memory.pcb[p].page_table :
           Memory.pcb[p].page_table[i].index[0] = Unloaded
             <=> PageSize * i >= Pos(Memory, p)
  BY <1>1 DEF Reading
<1>6. Total(Memory, p) = Len(Lines[Memory.pcb[p].script])
  BY <1>4, <1>5, ProperTotal DEF Total
<1>7. Pos(Memory, p) = Total(Memory, p)
  BY <1>3, <1>4, <1>5, <1>6
<1>8. \A i \in DOMAIN Memory.pcb[p].page_table :
        Memory.pcb[p].page_table[i].index[0] # Unloaded
  <2> TAKE i \in DOMAIN Memory.pcb[p].page_table
  <2>1. 3 * i < Total(Memory, p) /\ i \in Nat
    BY <1>4 DEF PageSize
  <2>2. ~(PageSize * i >= Pos(Memory, p))
    BY <1>4, <1>7, <2>1 DEF PageSize
  <2> QED
    BY <1>5, <2>2
<1>9. ~HasUnloaded(b)
  BY <1>8 DEF HasUnloaded, Memory
<1> QED
  BY <1>3, <1>9

\* free_PCB of every process frees every frame.
LEMMA AllFreed ==
  ASSUME IInv, Well, Done, NEW k \in FrameSlots
  PROVE  slots'[k].var = None
<1>1. slots'[k] = IF k \in Cleared THEN FreeSlot ELSE slots[k]
  <2>1. slots' = [h \in FrameSlots |-> IF h \in Cleared THEN FreeSlot
                                                        ELSE slots[h]]
    BY DEF Done, FreesAll
  <2> HIDE DEF Cleared
  <2> QED
    BY <2>1
<1>2. ASSUME slots[k].var # None
      PROVE  k \in Cleared
  <2>1. Frames(Range(lru), Memory, Range(all))
    BY DEF Well, Ordered
  <2>2. PICK x \in Range(lru) : \E j \in Offsets : k = At(Memory, x) + j
    BY <1>2, <2>1 DEF Frames, Memory
  <2>3. PICK j \in Offsets : k = At(Memory, x) + j
    BY <2>2
  <2>4. EntryIn(Memory, x).index[j] = k
    BY <2>1, <2>3 DEF Frames, Resident
  <2>5. x.pid \in Range(all) /\ x.i \in DOMAIN pcb[x.pid].page_table
    BY DEF IInv, Holds, ListsPages, TablePages, Memory
  <2>6. k - k \in 0 .. PageSize - 1
    BY DEF FrameSlots, PageSize
  <2>7. k - pcb[x.pid].page_table[x.i].index[j] \in 0 .. PageSize - 1
    BY <2>4, <2>6 DEF EntryIn, Memory
  <2> QED
    BY <2>5, <2>7 DEF Cleared
<1> QED
  BY <1>1, <1>2 DEF FreeSlot

\* The end of a scheduler keeps the invariant.
LEMMA DoneWell == IInv /\ Well /\ Done => Well'
<1> SUFFICES ASSUME IInv, Well, Done PROVE Well'
  OBVIOUS
<1>1. /\ mode = "scheduling" /\ queue_done
      /\ mode' = IF nested \/ \E p \in Range(all) : HasUnloaded(pcb[p])
                 THEN "undefined" ELSE "parsing"
      /\ all' = <<>> /\ lru' = <<>> /\ UNCHANGED <<todo, nested>>
  BY DEF Done, FreesAll
<1>2. mode' = "parsing"
  BY <1>1, NoneLive DEF Well, Phase
<1>3. Phase'
  BY <1>1, <1>2 DEF Well, Phase
<1>4. \A k \in FrameSlots : Memory'.slots[k].var = None
  BY AllFreed DEF Memory
<1>5. Ordered(<<>>, Memory', Range(<<>>)) /\ Begun(Memory', Range(<<>>))
  BY <1>4, EmptyOrdered
<1> QED
  BY <1>1, <1>2, <1>3, <1>5 DEF Well

\* The prompt keeps the invariant.
LEMMA ExecWell == IInv /\ Well /\ PromptExec /\ proper' => Well'
<1> SUFFICES ASSUME IInv, Well, PromptExec, proper' PROVE Well'
  OBVIOUS
<1>1. /\ mode = "parsing" /\ mode' = "loading"
      /\ \A s \in Range(todo') : ProperScript(s)
      /\ UNCHANGED <<nested, pcb, all, queue, lru, slots>>
  BY DEF PromptExec, processes
<1>2. all = <<>> /\ ~nested
  BY <1>1 DEF Well, Phase
<1>3. queue = <<>>
  BY <1>2, EmptyRange DEF IInv, Lists, Range
<1>4. Phase'
  BY <1>1, <1>2, <1>3, EmptyRange DEF Phase
<1> QED
  BY <1>1, <1>4, WellUnchanged

LEMMA PromptWell ==
  ASSUME Well, \/ \E line \in Typed : Type(line)
               \/ PromptCommand \/ PromptQuit \/ EndOfInput \/ NewProcDies
  PROVE  Well'
<1>1. /\ mode' \notin {"undefined", "loading", "scheduling", "running"}
      /\ mode \in {"prompt", "parsing"} \/ mode' = "dead"
      /\ UNCHANGED <<todo, nested, pcb, all, lru, slots>>
  BY DEF Type, PromptCommand, PromptQuit, EndOfInput, NewProcDies, processes
<1>2. Phase'
  BY <1>1 DEF Well, Phase
<1> QED
  BY <1>1, <1>2, WellUnchanged

LEMMA StutterWell ==
  ASSUME Well, UNCHANGED vars
  PROVE  Well'
<1>1. UNCHANGED <<mode, todo, nested, curr, turn, pcb, all, queue, lru, slots>>
  BY DEF vars
<1>2. Memory' = Memory
  BY <1>1 DEF Memory
<1>3. Phase'
  BY <1>1, <1>2 DEF Well, Phase
<1>4. Lockstep => Lockstep'
  BY <1>1, <1>2 DEF Lockstep, TakeTurns, AllWait, Together, TurnOfTwo, InTurn,
     Even, Turned, Start, Hit, MidTurn
<1> QED
  BY <1>1, <1>3, <1>4, WellUnchanged DEF Well

\* It holds initially, and every step keeps it.
LEMMA InitPInv == Init => PInv
<1> SUFFICES ASSUME Init PROVE Well
  BY DEF PInv
<1>1. /\ mode = "prompt" /\ todo = <<>> /\ ~nested /\ all = <<>> /\ lru = <<>>
      /\ slots = [k \in FrameSlots |-> FreeSlot]
  BY DEF Init
<1>2. \A k \in FrameSlots : Memory.slots[k].var = None
  BY <1>1 DEF Memory, FreeSlot
<1>3. Ordered(lru, Memory, Range(all)) /\ Begun(Memory, Range(all))
  BY <1>1, <1>2, EmptyOrdered
<1>4. Phase
  BY <1>1, EmptyRange DEF Phase
<1> QED
  BY <1>1, <1>3, <1>4 DEF Well

LEMMA NextPInv == IInv /\ PInv /\ [Next]_vars => PInv'
<1> SUFFICES ASSUME IInv, PInv, [Next]_vars, proper' PROVE Well'
  BY DEF PInv
<1>1. proper
  <2>1. Next \/ UNCHANGED vars
    OBVIOUS
  <2> QED
    BY <2>1 DEF Next, Step, Type, PromptCommand, PromptQuit, PromptExec,
       EndOfInput, NewProc, NewProcDies, StartScheduler, Pop, RunLine, Fault,
       RunLineThenFault, RunExec, Done, FreesAll, vars
<1>2. Well
  BY <1>1 DEF PInv
<1>3. CASE UNCHANGED vars
  BY <1>2, <1>3, StutterWell
<1>4. CASE \/ \E line \in Typed : Type(line)
           \/ PromptCommand \/ PromptQuit \/ EndOfInput \/ NewProcDies
  BY <1>2, <1>4, PromptWell
<1>5. CASE PromptExec
  BY <1>2, <1>5, ExecWell
<1>6. CASE NewProc
  BY <1>2, <1>6, NewProcWell
<1>7. CASE StartScheduler
  BY <1>2, <1>7, StartWell
<1>8. CASE Pop
  BY <1>2, <1>8, PopWell
<1>9. CASE RunLine
  BY <1>2, <1>9, RunLineWell
<1>10. CASE Fault
  BY <1>2, <1>10, FaultWell
<1>11. CASE RunLineThenFault \/ RunExec
  BY <1>2, <1>11, NeverNested
<1>12. CASE Done
  BY <1>2, <1>12, DoneWell
<1> QED
  BY <1>3, <1>4, <1>5, <1>6, <1>7, <1>8, <1>9, <1>10, <1>11, <1>12
     DEF Next, Step

\* With proper scripts, the processes of an exec run in lockstep and LRU_CACHE
\* is ordered by use (kernel.c:42-69).
THEOREM LockstepInvariance == Spec => []PInv
<1>1. Init => IInv /\ PInv
  BY InitIInv, InitPInv
<1>2. (IInv /\ PInv) /\ [Next]_vars => (IInv /\ PInv)'
  BY NextIInv, NextPInv
<1>3. QED
  BY <1>1, <1>2, PTL DEF Spec

-----------------------------------------------------------------------------
(* What the invariant says of the frames and of the lines run.             *)

\* The pages in memory are those of LRU_CACHE.
LEMMA PagesAreListed ==
  ASSUME IInv, Well
  PROVE  PagesInMemory = Range(lru)
<1>1. /\ Frames(Range(lru), Memory, Range(all))
      /\ Range(lru) \subseteq TablePages(Memory, Range(all))
      /\ Range(all) \in SUBSET Pids /\ MemoryOK(Memory, Range(all))
  BY AllArePids DEF Well, Ordered, IInv, Holds, ListsPages
<1>2. ASSUME NEW pg \in PagesInMemory
      PROVE  pg \in Range(lru)
  <2>1. \E p \in Range(all) : \E i \in DOMAIN pcb[p].page_table :
          pg = Page(p, i) /\ pcb[p].page_table[i].valid_bit[0]
    BY DEF PagesInMemory, Entry, Page
  <2> QED
    BY <1>1, <2>1, OffsetsAre DEF Frames, Memory
<1>3. ASSUME NEW x \in Range(lru)
      PROVE  x \in PagesInMemory
  <2>1. /\ x \in [pid : Range(all), i : Nat]
        /\ x.i \in DOMAIN Memory.pcb[x.pid].page_table
    BY <1>1 DEF TablePages
  <2>2. PageSize * x.i < Total(Memory, x.pid) /\ x.i \in Nat
    BY <1>1, <2>1, ProcessNumbers
  <2>3. PageSize * x.i + 0 < Total(Memory, x.pid)
    BY <2>2 DEF PageSize
  <2>4. EntryIn(Memory, x).valid_bit[0]
    BY <1>1, <2>3, OffsetsAre DEF Frames, Resident
  <2>5. x = [pid |-> x.pid, i |-> x.i] /\ x.pid \in Range(all)
    BY <2>1
  <2> QED
    BY <2>1, <2>4, <2>5 DEF PagesInMemory, Entry, EntryIn, Memory
<1> QED
  BY <1>2, <1>3

\* A sequence has finitely many elements.
LEMMA RangeIsFinite ==
  ASSUME NEW S, NEW q \in Seq(S)
  PROVE  IsFiniteSet(Range(q))
<1>1. q \in [1 .. Len(q) -> Range(q)] /\ Len(q) \in Nat
  BY DEF Range
<1>2. q \in Surjection(1 .. Len(q), Range(q))
  BY <1>1 DEF Surjection, Range
<1> QED
  BY <1>1, <1>2, FS_Interval, FS_Surjection

\* The slots in use are three for each page: page and offset give the slot.
LEMMA WellAccounted ==
  ASSUME IInv, Well
  PROVE  FramesAccounted
<1> DEFINE S == Range(lru)
           used == {k \in FrameSlots : slots[k].var # None}
           f == [y \in S \X Offsets |-> At(Memory, y[1]) + y[2]]
<1>1. /\ Frames(S, Memory, Range(all)) /\ PagesInMemory = S
      /\ lru \in Seq(Pages)
  BY PagesAreListed DEF Well, Ordered, IInv, Holds, ListsPages
<1>2. ASSUME NEW x \in S, NEW j \in Offsets
      PROVE  /\ Entry(x).index[j] = At(Memory, x) + j
             /\ At(Memory, x) + j \in FrameSlots
             /\ slots[At(Memory, x) + j].var = x.pid
  BY <1>1 DEF Frames, Resident, EntryIn, Entry, Memory
<1>3. ASSUME NEW k \in FrameSlots, slots[k].var # None
      PROVE  \E x \in S : \E j \in Offsets : k = At(Memory, x) + j
  BY <1>1, <1>3 DEF Frames, Memory
<1>4. \A x, y \in S : \A j, k \in Offsets :
        At(Memory, x) + j = At(Memory, y) + k => x = y
  BY <1>1 DEF Frames
<1>5. \A x \in S : x.pid # None /\ At(Memory, x) \in Nat
  <2> TAKE x \in S
  <2>1. x.pid \in Pids
    <3>1. PICK k \in DOMAIN lru : x = lru[k]
      BY DEF Range
    <3>2. x \in Pages
      BY <1>1, <3>1
    <3> QED
      BY <3>2 DEF Pages
  <2>2. At(Memory, x) \in FrameSlots
    <3>1. Resident(Memory, x)
      BY <1>1 DEF Frames
    <3>2. 0 \in Offsets
      BY OffsetsAre
    <3> QED
      BY <3>1, <3>2 DEF Resident, At
  <2> QED
    BY <2>1, <2>2 DEF FrameSlots, Pids, None
<1>6. \A y \in S \X Offsets : y[1] \in S /\ y[2] \in Offsets /\ y = <<y[1], y[2]>>
  OBVIOUS
<1>7. \A y \in S \X Offsets : f[y] = At(Memory, y[1]) + y[2]
  OBVIOUS
<1>8. \A y \in S \X Offsets : f[y] \in used
  BY <1>2, <1>5, <1>6, <1>7
<1>9. f \in [S \X Offsets -> used]
  BY <1>8
<1> HIDE DEF f, S
<1>10. ASSUME NEW y \in S \X Offsets, NEW z \in S \X Offsets, f[y] = f[z]
       PROVE  y = z
  <2>1. At(Memory, y[1]) + y[2] = At(Memory, z[1]) + z[2]
    BY <1>7, <1>10
  <2>2. y[1] = z[1]
    BY <1>4, <1>6, <2>1
  <2>3. y[2] = z[2]
    <3>1. At(Memory, y[1]) \in Nat /\ y[2] \in Int /\ z[2] \in Int
      BY <1>5, <1>6 DEF Offsets
    <3> QED
      BY <2>1, <2>2, <3>1
  <2> QED
    BY <1>6, <2>2, <2>3
<1>11. ASSUME NEW k \in used
       PROVE  \E y \in S \X Offsets : f[y] = k
  <2>1. PICK x \in S, j \in Offsets : k = At(Memory, x) + j
    BY <1>3
  <2>2. <<x, j>> \in S \X Offsets /\ f[<<x, j>>] = k
    BY <1>7, <2>1
  <2> QED
    BY <2>2
<1>12. ExistsBijection(S \X Offsets, used)
  <2>1. f \in Injection(S \X Offsets, used)
    BY <1>9, <1>10 DEF Injection, IsInjective
  <2>2. f \in Surjection(S \X Offsets, used)
    BY <1>9, <1>11 DEF Surjection
  <2> QED
    BY <2>1, <2>2 DEF ExistsBijection, Bijection
<1>13. /\ IsFiniteSet(S) /\ IsFiniteSet(Offsets) /\ Cardinality(Offsets) = 3
  <2>1. IsFiniteSet(S)
    BY <1>1, RangeIsFinite DEF S
  <2>2. Offsets = 0 .. 2
    BY DEF Offsets, PageSize
  <2>3. IsFiniteSet(0 .. 2) /\ Cardinality(0 .. 2) = 3
    <3>1. 0 \in Int /\ 2 \in Int /\ ~(0 > 2) /\ 2 - 0 + 1 = 3
      OBVIOUS
    <3>2. /\ IsFiniteSet(0 .. 2)
          /\ Cardinality(0 .. 2) = IF 0 > 2 THEN 0 ELSE 2 - 0 + 1
      BY <3>1, FS_Interval, Zenon
    <3> QED
      BY <3>1, <3>2
  <2> QED
    BY <2>1, <2>2, <2>3
<1>14. Cardinality(used) = Cardinality(S) * 3 /\ Cardinality(S) \in Nat
  BY <1>12, <1>13, FS_Product, FS_Bijection, FS_CardinalityType
<1>15. Cardinality(used) = PageSize * Cardinality(PagesInMemory)
  BY <1>1, <1>14 DEF PageSize
<1> QED
  BY <1>1, <1>2, <1>3, <1>15 DEF FramesAccounted

\* Two pages in memory never share a slot of a frame, every slot in use
\* belongs to one of them, and none is lost or freed early, whichever pages
\* load_PAGE and PAGE_evict move (pcb.c:77, kernel.c:54), as long as proper scripts run.
THEOREM FramesAreAccounted == Spec => []FramesAccounted
<1>1. IInv /\ PInv => FramesAccounted
  BY WellAccounted DEF PInv, FramesAccounted
<1>2. QED
  BY <1>1, Invariance, LockstepInvariance, PTL

\* Only a line run lowers the size of a process.
LEMMA SizesKept ==
  ASSUME IInv, Well, Next, NEW p \in Pids, pcb[p].size > 0, pcb'[p] # NoPCB
  PROVE  \/ pcb'[p].size = pcb[p].size
         \/ RunLine /\ p = curr
<1>1. MemoryOK(Memory, Range(all)) /\ Range(all) \in SUBSET Pids
  BY AllArePids DEF IInv, Holds
<1>2. p \in Range(all)
  BY <1>1 DEF MemoryOK, Memory, NoPCB
<1>3. CASE pcb' = pcb
  BY <1>3
<1>4. CASE RunLine
  <2>1. IsAdvanced(Memory, Memory', Range(all), curr)
    BY <1>4, RunLineOrdered
  <2> QED
    BY <1>2, <1>4, <2>1 DEF IsAdvanced, Memory
<1>5. CASE Fault
  <2>1. SameTables(Memory, Memory', Range(all))
    BY <1>5, FaultOrdered
  <2> QED
    BY <1>2, <2>1 DEF SameTables, Memory
<1>6. CASE NewProc
  BY <1>2, <1>6, NewProcMemory DEF Memory
<1>7. CASE Done
  BY <1>7 DEF Done, FreesAll
<1>8. CASE RunLineThenFault \/ RunExec
  BY <1>8, NeverNested
<1>9. CASE \/ \E line \in Typed : Type(line)
           \/ PromptCommand \/ PromptQuit \/ PromptExec \/ EndOfInput
           \/ NewProcDies \/ StartScheduler \/ Pop
  BY <1>3, <1>9 DEF Type, PromptCommand, PromptQuit, PromptExec, EndOfInput,
     NewProcDies, StartScheduler, Pop, processes
<1> QED
  BY <1>4, <1>5, <1>6, <1>7, <1>8, <1>9 DEF Next, Step

\* The k-th line that a process of a proper script runs is the k-th line of
\* its file: no page is reloaded after an eviction, for the file is only read
\* on (pcb.c:88), and none has to be.
THEOREM ScriptsRunInOrder == Spec => RunsScriptInOrder
<1> DEFINE P == proper => \A p \in Pids :
                  /\ pcb[p].size > 0 /\ pcb'[p] # NoPCB
                  /\ pcb'[p].size < pcb[p].size
                  => Fetched = <<pcb[p].script,
                                 CountLines(pcb[p].script) - pcb[p].size>>
<1>1. IInv /\ PInv /\ [Next]_vars => [P]_vars
  <2> SUFFICES ASSUME IInv, Well, Next, NEW p \in Pids, pcb[p].size > 0,
                      pcb'[p] # NoPCB, pcb'[p].size < pcb[p].size
               PROVE  Fetched = <<pcb[p].script,
                                  CountLines(pcb[p].script) - pcb[p].size>>
    BY DEF PInv
  <2>1. pcb[p].size \in Int
    <3>1. MemoryOK(Memory, Range(all))
      BY DEF IInv, Holds
    <3>2. p \in Range(all)
      BY <3>1 DEF MemoryOK, Memory, NoPCB
    <3>3. Process(pcb[p])
      BY <3>1, <3>2 DEF MemoryOK, Memory
    <3>4. CountLines(pcb[p].script) \in Nat
      BY <3>3, CountLinesType DEF Process
    <3> QED
      BY <3>3, <3>4 DEF Process, PCBs
  <2>2. pcb'[p].size # pcb[p].size
    BY <2>1
  <2>3. RunLine /\ p = curr
    BY <2>2, SizesKept
  <2>4. Fetched = <<pcb[curr].script, Run(Memory, curr)>>
    BY <2>3, InMemoryMeans DEF RunLine
  <2> QED
    BY <2>3, <2>4 DEF Run, Total, Memory
<1>2. QED
  BY <1>1, Invariance, LockstepInvariance, PTL DEF Spec, RunsScriptInOrder

-----------------------------------------------------------------------------
(* Room to start: when no command starts more processes than the memory    *)
(* holds two pages of, exec never dies for want of a frame.                *)

\* No command that is typed starts more.
RoomToStart ==
  \A line \in Typed : \A i \in DOMAIN line :
    line[i].op = "exec" => 2 * PageSize * Len(line[i].scripts) <= FrameSize

\* From slot n on, every frame slot is free.
FreeFrom(m, n) == \A k \in FrameSlots : k >= n => m.slots[k].var = None

\* A command starts no more processes than there is room for.
Affordable(c) == c.op = "exec" => 2 * PageSize * Len(c.scripts) <= FrameSize

\* While exec loads, the slots from six times the processes on are free, and
\* there are six for each process to come.
Fits ==
  /\ \A i \in DOMAIN input : Affordable(input[i])
  /\ mode = "loading" => /\ 2 * PageSize * (Len(all) + Len(todo)) <= FrameSize
                         /\ FreeFrom(Memory, 2 * PageSize * Len(all))
  /\ mode = "dead" => todo # <<>> /\ Head(todo) \in Missing
\* And as long as only proper scripts were run.
FInv == proper => Fits

\* frame_alloc takes the first frame: a page loaded where n slots are in use
\* at most leaves all but n + 3 free.
LEMMA LoadsInPlace ==
  ASSUME NEW m, NEW n \in Nat, NEW p, NEW i, Process(m.pcb[p]),
         FreeFrom(m, n), n + 3 <= FrameSize
  PROVE  /\ Loads(m, p, i) # {}
         /\ \A z \in Loads(m, p, i) : FreeFrom(z, n + 3)
<1>1. FrameSize \in Nat
  BY StoreAssumption
<1>2. n \in Room(m)
  <2>1. n \in FrameSlots
    BY <1>1 DEF FrameSlots
  <2>2. \A k \in n .. n + PageSize - 1 : k \in FrameSlots /\ k >= n
    BY <1>1 DEF FrameSlots, PageSize
  <2> QED
    BY <2>1, <2>2 DEF Room, FreeFrom
<1>3. Room(m) \subseteq Nat
  BY DEF Room, FrameSlots
<1> DEFINE at == Min(Room(m))
<1>4. at \in Nat /\ at <= n
  BY <1>2, <1>3, MinIsMember
<1>5. FrameFor(m) = {at}
  BY <1>2 DEF FrameFor
<1>6. Loads(m, p, i) = {LoadedAt(m, p, i, at)}
  BY <1>5 DEF Loads
<1> HIDE DEF at
<1>7. ASSUME NEW k \in FrameSlots, k >= n + 3
      PROVE  LoadedAt(m, p, i, at).slots[k].var = None
  <2>1. k - at \notin Offsets /\ k >= n
    BY <1>4, <1>7 DEF Offsets, PageSize, FrameSlots
  <2>2. LoadedAt(m, p, i, at).slots[k] = m.slots[k]
    <3> DEFINE b == m.pcb[p]
    <3>1. LoadedAt(m, p, i, at).slots =
            [h \in FrameSlots |->
               CASE h - at \notin Offsets -> m.slots[h]
                 [] h - at \in 0 .. Got(b) - 1 ->
                      [var |-> p, line |-> LineRead(b, h - at)]
                 [] OTHER -> [m.slots[h] EXCEPT !.var = p]]
      BY DEF LoadedAt
    <3>2. Got(b) \in 0 .. PageSize
      BY GotType
    <3> HIDE DEF b
    <3>4. k - at \notin 0 .. Got(b) - 1
      BY <1>4, <2>1, <3>2 DEF Offsets, FrameSlots, PageSize
    <3>3. LoadedAt(m, p, i, at).slots[k] =
               CASE k - at \notin Offsets -> m.slots[k]
                 [] k - at \in 0 .. Got(b) - 1 ->
                      [var |-> p, line |-> LineRead(b, k - at)]
                 [] OTHER -> [m.slots[k] EXCEPT !.var = p]
      BY <3>1
    <3> QED
      BY <2>1, <3>3, <3>4
  <2> QED
    BY <2>1, <2>2 DEF FreeFrom
<1> QED
  BY <1>6, <1>7 DEF FreeFrom

\* The two loads of PCB_init.
LEMMA InitializedInPlace ==
  ASSUME NEW n \in Nat, NEW s \in Scripts, IInv, pid_counter \in Pids,
         FreeFrom(Memory, n), n + 6 <= FrameSize
  PROVE  /\ Initialized(s) # {}
         /\ \A z \in Initialized(s) : FreeFrom(z, n + 6)
<1> DEFINE p == pid_counter
           B == Range(all) \cup {p}
           m0 == [Memory EXCEPT !.pcb[p] = NewPCB(s)]
<1>1. /\ MemoryOK(Memory, Range(all)) /\ Range(all) \in SUBSET Pids
      /\ B \in SUBSET Pids /\ p \in B /\ p \in Pids
  BY AllArePids DEF IInv, Holds
<1>2. /\ m0.slots = Memory.slots /\ m0.pcb[p] = NewPCB(s)
       /\ m0.pcb = [q \in Pids |-> m0.pcb[q]]
       /\ \A q \in Pids : q # p => m0.pcb[q] = Memory.pcb[q]
  <2>1. Memory.pcb = [q \in Pids |-> Memory.pcb[q]]
    BY <1>1 DEF MemoryOK
  <2>2. m0.slots = Memory.slots /\ m0.pcb = [Memory.pcb EXCEPT ![p] = NewPCB(s)]
    BY DEF Memory
  <2> HIDE DEF m0
  <2> QED
    BY <1>1, <2>1, <2>2
<1>3. FreeFrom(m0, n) /\ FrameSize \in Nat /\ n + 3 \in Nat
  BY StoreAssumption DEF FreeFrom, Memory
<1>4. Initialized(s) = IF CountLines(s) <= PageSize
                       THEN Loads(m0, p, 0)
                       ELSE UNION {Loads(m1, p, 1) : m1 \in Loads(m0, p, 0)}
  BY DEF Initialized
<1> HIDE DEF m0, p
<1>5. MemoryOK(m0, B) /\ Process(m0.pcb[p])
  <2>1. Process(NewPCB(s))
    BY NewPCBType
  <2> QED
    BY <1>1, <1>2, <2>1 DEF MemoryOK
<1>6. 0 \in DOMAIN m0.pcb[p].page_table
  BY <1>2, NewPCBType, CountLinesType
<1>7. ASSUME NEW m1 \in Loads(m0, p, 0)
       PROVE  Process(m1.pcb[p])
  <2>1. MemoryOK(m1, B)
    BY <1>1, <1>5, <1>6, LoadsKeeps
  <2> QED
    BY <1>1, <2>1 DEF MemoryOK
<1>8. n + 3 <= FrameSize /\ (n + 3) + 3 <= FrameSize /\ (n + 3) + 3 = n + 6
  BY <1>3
<1>9. /\ Loads(m0, p, 0) # {}
      /\ \A z \in Loads(m0, p, 0) : FreeFrom(z, n + 3)
  BY <1>3, <1>8, <1>5, LoadsInPlace
<1>10. ASSUME NEW m1 \in Loads(m0, p, 0)
      PROVE  /\ Loads(m1, p, 1) # {}
             /\ \A z \in Loads(m1, p, 1) : FreeFrom(z, n + 6)
  <2>1. FreeFrom(m1, n + 3)
    BY <1>9
  <2>2. /\ Loads(m1, p, 1) # {}
        /\ \A z \in Loads(m1, p, 1) : FreeFrom(z, (n + 3) + 3)
    BY <1>3, <1>8, <1>7, <2>1, LoadsInPlace
  <2> QED
    BY <1>8, <2>2
<1>11. \A z : FreeFrom(z, n + 3) => FreeFrom(z, n + 6)
  BY DEF FreeFrom, FrameSlots
<1>12. CASE CountLines(s) <= PageSize
  BY <1>4, <1>9, <1>11, <1>12
<1>13. CASE ~(CountLines(s) <= PageSize)
  <2>1. Initialized(s) = UNION {Loads(m1, p, 1) : m1 \in Loads(m0, p, 0)}
    BY <1>4, <1>13
  <2> QED
    BY <1>9, <1>10, <2>1
<1> QED
  BY <1>12, <1>13

\* PCB_init finds room.
LEMMA LoadingFits ==
  ASSUME IInv, Fits, mode = "loading", todo # <<>>, pid_counter \in Pids
  PROVE  /\ Initialized(Head(todo)) # {}
         /\ \A z \in Initialized(Head(todo)) :
              FreeFrom(z, 2 * PageSize * (Len(all) + 1))
         /\ Len(all) \in Nat /\ Len(todo) \in Nat /\ Len(todo) >= 1
<1>1. /\ Len(all) \in Nat /\ Len(todo) \in Nat /\ Len(todo) >= 1
      /\ Head(todo) \in Scripts
  BY HeadAndTail DEF IInv, Lists, Control
<1>2. /\ 2 * 3 * (Len(all) + Len(todo)) <= FrameSize
      /\ FreeFrom(Memory, 2 * 3 * Len(all))
  BY DEF Fits, PageSize
<1> DEFINE n == 2 * 3 * Len(all)
<1>3. /\ n \in Nat /\ n + 6 <= FrameSize
      /\ n + 6 = 2 * 3 * (Len(all) + 1)
  BY <1>1, <1>2, StoreAssumption
<1>4. FreeFrom(Memory, n)
  BY <1>2
<1> HIDE DEF n
<1>5. /\ Initialized(Head(todo)) # {}
      /\ \A z \in Initialized(Head(todo)) : FreeFrom(z, n + 6)
  BY <1>1, <1>3, <1>4, InitializedInPlace
<1> QED
  BY <1>1, <1>3, <1>5 DEF PageSize

\* There is room for the processes still to come.
LEMMA NewProcFits ==
  ASSUME IInv, Well, Fits, NewProc
  PROVE  Fits'
<1>1. /\ mode = "loading" /\ mode' = "loading" /\ todo # <<>> /\ input' = input
      /\ todo' = Tail(todo) /\ all' = Append(all, pid_counter)
      /\ \E z \in Initialized(Head(todo)) : MemoryBecomes(z)
      /\ pid_counter \in Pids
  BY DEF NewProc
<1>2. /\ \A z \in Initialized(Head(todo)) :
           FreeFrom(z, 2 * PageSize * (Len(all) + 1))
      /\ Len(all) \in Nat /\ Len(todo) \in Nat /\ Len(todo) >= 1
  BY <1>1, LoadingFits
<1>3. Len(all') = Len(all) + 1 /\ Len(todo') = Len(todo) - 1
  BY <1>1 DEF IInv, Lists, Control
<1>4. FreeFrom(Memory', 2 * PageSize * Len(all'))
  BY <1>1, <1>2, <1>3 DEF FreeFrom, MemoryBecomes, Memory
<1>5. Len(all') + Len(todo') = Len(all) + Len(todo)
  BY <1>2, <1>3
<1> QED
  BY <1>1, <1>4, <1>5 DEF Fits

LEMMA ExecFits ==
  ASSUME IInv, Well, Fits, PromptExec
  PROVE  Fits'
<1>1. /\ mode = "parsing" /\ mode' = "loading" /\ input # <<>>
      /\ Head(input).op = "exec" /\ input' = Tail(input)
      /\ todo' = Head(input).scripts /\ UNCHANGED <<pcb, all, lru, slots>>
  BY DEF PromptExec, processes
<1>2. all = <<>> /\ lru = <<>> /\ Frames(Range(lru), Memory, Range(all))
  BY <1>1 DEF Well, Phase, Ordered
<1>3. \A k \in FrameSlots : Memory.slots[k].var = None
  BY <1>2, EmptyRange DEF Frames
<1>4. FreeFrom(Memory', 2 * PageSize * Len(all'))
  BY <1>1, <1>3 DEF FreeFrom, Memory
<1>5. /\ input \in Seq(Commands) /\ 1 \in DOMAIN input /\ Head(input) = input[1]
      /\ \A i \in DOMAIN Tail(input) : /\ i + 1 \in DOMAIN input
                                       /\ Tail(input)[i] = input[i + 1]
  BY <1>1 DEF IInv, Control
<1>6. Affordable(Head(input)) /\ \A i \in DOMAIN input' : Affordable(input'[i])
  BY <1>1, <1>5 DEF Fits
<1>7. 2 * PageSize * Len(todo') <= FrameSize
  BY <1>1, <1>6 DEF Affordable
<1>8. Len(all') = 0 /\ Len(todo') \in Nat
  <2>1. Head(input).scripts \in Seq(Scripts)
    BY <1>1, <1>5, ExecScripts
  <2> QED
    BY <1>1, <1>2, <2>1
<1>9. Len(all') + Len(todo') = Len(todo')
  BY <1>8
<1> QED
  BY <1>1, <1>4, <1>6, <1>7, <1>9 DEF Fits

\* Every step keeps that.
LEMMA NextFInv ==
  ASSUME RoomToStart, IInv, PInv, FInv, [Next]_vars
  PROVE  FInv'
<1> SUFFICES ASSUME proper' PROVE Fits'
  BY DEF FInv
<1>1. proper
  <2>1. Next \/ UNCHANGED vars
    OBVIOUS
  <2> QED
    BY <2>1 DEF Next, Step, Type, PromptCommand, PromptQuit, PromptExec,
       EndOfInput, NewProc, NewProcDies, StartScheduler, Pop, RunLine, Fault,
       RunLineThenFault, RunExec, Done, FreesAll, vars
<1>2. Well /\ Fits
  BY <1>1 DEF PInv, FInv
<1>3. CASE UNCHANGED vars
  BY <1>2, <1>3 DEF vars, Fits, FreeFrom, Memory
<1>4. CASE \E line \in Typed : Type(line)
  <2>1. PICK line \in Typed : Type(line)
    BY <1>4
  <2>2. mode' = "parsing" /\ input' = line
    BY <2>1 DEF Type
  <2>3. \A i \in DOMAIN line : Affordable(line[i])
    BY DEF RoomToStart, Affordable
  <2> QED
    BY <2>2, <2>3 DEF Fits
<1>5. CASE PromptCommand
  <2>1. /\ mode' = "parsing" /\ input' = Tail(input) /\ input # <<>>
        /\ input \in Seq(Commands)
    BY <1>5 DEF PromptCommand, IInv, Control
  <2>2. \A i \in DOMAIN input' : i + 1 \in DOMAIN input /\ input'[i] = input[i + 1]
    BY <2>1
  <2> QED
    BY <1>2, <2>1, <2>2 DEF Fits
<1>6. CASE PromptExec
  BY <1>2, <1>6, ExecFits
<1>7. CASE NewProc
  BY <1>2, <1>7, NewProcFits
<1>8. CASE NewProcDies
  <2>1. /\ mode = "loading" /\ todo # <<>> /\ UNCHANGED <<input, todo>>
        /\ mode' = "dead" /\ pid_counter \in Pids
        /\ Head(todo) \in Missing \/ Initialized(Head(todo)) = {}
    BY <1>8 DEF NewProcDies
  <2>2. Head(todo) \in Missing
    BY <1>2, <2>1, LoadingFits
  <2> QED
    BY <1>2, <2>1, <2>2 DEF Fits
<1>9. CASE PromptQuit \/ EndOfInput \/ StartScheduler \/ Pop \/ Fault
  <2>1. mode' \notin {"loading", "dead"} /\ input' = input
    BY <1>9 DEF PromptQuit, EndOfInput, StartScheduler, Pop, Fault, PageFault
  <2> QED
    BY <1>2, <2>1 DEF Fits
<1>10. CASE RunLine
  <2>1. mode' \notin {"loading", "dead"} /\ input' = <<>>
    BY <1>10 DEF RunLine, TurnGoesOn, Running
  <2> QED
    BY <2>1 DEF Fits
<1>11. CASE Done
  <2>1. mode' \notin {"loading", "dead"} /\ input' = input
    BY <1>11 DEF Done, FreesAll
  <2> QED
    BY <1>2, <2>1 DEF Fits
<1>12. CASE RunLineThenFault \/ RunExec
  BY <1>2, <1>12, NeverNested
<1> QED
  BY <1>3, <1>4, <1>5, <1>6, <1>7, <1>8, <1>9, <1>10, <1>11, <1>12
     DEF Next, Step

\* Proper scripts lead to no undefined behaviour, whatever the sizes; and as
\* long as no command starts more processes than there is room for two pages
\* each, nothing but a missing script ends the shell (pcb.c:50, kernel.c:50).
THEOREM ProperScriptsAreSafe ==
  ASSUME RoomToStart
  PROVE  Spec => []ProperIsSafe
<1>1. Init => IInv /\ PInv /\ FInv
  <2>1. Init => FInv
    BY DEF Init, FInv, Fits
  <2> QED
    BY <2>1, InitIInv, InitPInv
<1>2. (IInv /\ PInv /\ FInv) /\ [Next]_vars => (IInv /\ PInv /\ FInv)'
  BY NextIInv, NextPInv, NextFInv
<1>3. IInv /\ PInv /\ FInv => ProperIsSafe
  BY DEF PInv, FInv, Well, Phase, Fits, ProperIsSafe
<1>4. QED
  BY <1>1, <1>2, <1>3, PTL DEF Spec

=============================================================================
