------------------------- MODULE BufferCacheProofs --------------------------
(***************************************************************************)
(* The properties of BufferCache for every number of slots, every number   *)
(* of sectors and every set of sector contents.                            *)
(***************************************************************************)
EXTENDS BufferCache, TLAPS

USE NumSlotsAssumption, NumSectorsAssumption, ZeroAssumption

-----------------------------------------------------------------------------
(* The geometry of the array.                                              *)

\* Going at most once round the array from a slot ends at a slot
\* (cache.c:86-87).
LEMMA SlotAfterType ==
  ASSUME NEW i \in Slots, NEW k \in 0 .. NumSlots
  PROVE  SlotAfter(i, k) \in Slots
BY DEF SlotAfter, Slots

\* A full turn of the clock meets every slot.
LEMMA FullTurn ==
  ASSUME NEW c \in Slots, NEW i \in Slots
  PROVE  \E j \in 0 .. NumSlots - 1 : SlotAfter(c, j) = i
<1>1. CASE c <= i
  <2>1. i - c \in 0 .. NumSlots - 1 /\ SlotAfter(c, i - c) = i
    BY <1>1 DEF SlotAfter, Slots
  <2> QED  BY <2>1
<1>2. CASE i < c
  <2>1. /\ i - c + NumSlots \in 0 .. NumSlots - 1
        /\ SlotAfter(c, i - c + NumSlots) = i
    BY <1>2 DEF SlotAfter, Slots
  <2> QED  BY <2>1
<1> QED  BY <1>1, <1>2 DEF Slots

\* What the clock leaves in a slot has the type of an entry.
LEMMA AfterScanType ==
  ASSUME TypeOK, NEW k \in 0 .. NumSlots, NEW i \in Slots
  PROVE  /\ AfterScan(k, i) \in Entries
         /\ AfterScan(k, i).disk_sector = cache[i].disk_sector
         /\ AfterScan(k, i).buffer = cache[i].buffer
         /\ AfterScan(k, i).occupied
              <=> cache[i].occupied /\ i # SlotAfter(clock, k)
         /\ AfterScan(k, i).dirty
              <=> cache[i].dirty /\ i # SlotAfter(clock, k)
<1>1. cache[i] \in Entries
  BY DEF TypeOK
<1>2. PICK a \in BOOLEAN :
        a = (cache[i].access
               /\ \A j \in 0 .. k - 1 : SlotAfter(clock, j) # i)
  OBVIOUS
<1>3. AfterScan(k, i) =
        [cache[i] EXCEPT !.access = a,
                         !.occupied = @ /\ i # SlotAfter(clock, k),
                         !.dirty = @ /\ i # SlotAfter(clock, k)]
  BY <1>2, Zenon DEF AfterScan
<1> QED  BY <1>1, <1>3 DEF Entries

\* Flushing a slot leaves a disk with contents for every sector.
LEMMA FlushedType ==
  ASSUME TypeOK, NEW i \in Slots
  PROVE  Flushed(i) \in [Sectors -> Data]
BY DEF TypeOK, Flushed, Entries

-----------------------------------------------------------------------------
(* The inductive invariant.                                                *)

LEMMA InitIInv == Init => IInv
<1> SUFFICES ASSUME Init PROVE IInv
  OBVIOUS
<1>1. 0 \in Slots /\ 0 \in Sectors /\ ZeroedEntry \in Entries
  BY DEF Slots, Sectors, ZeroedEntry, Entries
<1>2. TypeOK
  BY <1>1 DEF Init, TypeOK, Requests
<1>3. \A i \in Slots : ~cache[i].occupied
  BY DEF Init, ZeroedEntry
<1> QED
  BY <1>2, <1>3 DEF Init, IInv, OneSlotPerSector, CleanMatchesDisk, Clean

\* A hit keeps the invariant: it changes neither which slots are occupied
\* nor their sectors, and marks what it overwrites dirty (cache.c:135-137).
LEMMA HitIInv ==
  ASSUME IInv, NEW r \in Requests, NEW i \in Slots, Hit(r, i)
  PROVE  IInv'
<1> USE DEF Requests, Entries
<1>1. /\ cache[i] \in Entries
      /\ cache[i].occupied
      /\ cache[i].disk_sector = r.sector
  BY DEF IInv, TypeOK, Hit, Lookup
<1>2. /\ cache' \in [Slots -> Entries]
      /\ cache'[i].buffer \in Data
  BY <1>1 DEF IInv, TypeOK, Hit
<1>3. TypeOK'
  BY <1>2 DEF IInv, TypeOK, Hit
<1>4. \A j \in Slots : /\ cache'[j].occupied = cache[j].occupied
                       /\ cache'[j].disk_sector = cache[j].disk_sector
  BY <1>1 DEF IInv, TypeOK, Hit
<1>5. OneSlotPerSector'
  BY <1>4 DEF IInv, OneSlotPerSector
<1>6. CleanMatchesDisk'
  BY <1>1, <1>4 DEF IInv, TypeOK, CleanMatchesDisk, Hit
<1> QED
  BY <1>3, <1>5, <1>6 DEF IInv, Hit

\* An eviction keeps it: the slot emptied was written back if dirty, and
\* only its own sector changed on disk.
LEMMA EvictIInv ==
  ASSUME IInv, NEW r \in Requests, Evict(r)
  PROVE  IInv'
<1> USE DEF Requests
<1>1. PICK k \in 0 .. NumSlots :
        /\ clock' = SlotAfter(clock, k)
        /\ disk' = Flushed(SlotAfter(clock, k))
        /\ cache' = [i \in Slots |-> AfterScan(k, i)]
  BY DEF Evict
<1> DEFINE stop == SlotAfter(clock, k)
<1>2. TypeOK /\ clock \in Slots /\ stop \in Slots
  BY SlotAfterType DEF IInv, TypeOK
<1>3. \A i \in Slots :
        /\ cache'[i] \in Entries
        /\ cache'[i].disk_sector = cache[i].disk_sector
        /\ cache'[i].buffer = cache[i].buffer
        /\ cache'[i].occupied <=> cache[i].occupied /\ i # stop
        /\ cache'[i].dirty <=> cache[i].dirty /\ i # stop
  BY <1>1, <1>2, AfterScanType
<1> HIDE DEF stop
<1>4. TypeOK'
  <2>1. disk' \in [Sectors -> Data]
    BY <1>1, <1>2, FlushedType DEF stop
  <2>2. cache' \in [Slots -> Entries]
    BY <1>1, <1>3
  <2> QED  BY <2>1, <2>2, <1>1, <1>2 DEF stop, TypeOK, Evict
<1>5. OneSlotPerSector'
  BY <1>3 DEF IInv, OneSlotPerSector
<1>6. CleanMatchesDisk'
  <2> SUFFICES ASSUME NEW i \in Slots,
                      cache'[i].occupied, ~cache'[i].dirty
               PROVE  cache'[i].buffer = disk'[cache'[i].disk_sector]
    BY DEF CleanMatchesDisk
  <2>1. cache[i].occupied /\ ~cache[i].dirty /\ i # stop
    BY <1>3
  <2>2. cache[i].buffer = disk[cache[i].disk_sector]
    BY <2>1 DEF IInv, CleanMatchesDisk
  <2>3. cache[stop].occupied
          => cache[stop].disk_sector # cache[i].disk_sector
    BY <2>1, <1>2 DEF IInv, OneSlotPerSector
  <2>4. disk'[cache[i].disk_sector] = disk[cache[i].disk_sector]
    BY <2>3, <1>1, <1>2 DEF stop, Flushed, TypeOK, Entries
  <2> QED  BY <2>2, <2>4, <1>3
<1>7. (~cache[clock].occupied)'
  BY <1>1, <1>2, <1>3 DEF stop
<1>8. Lookup(req.sector)' = {}
  BY <1>3 DEF Evict, Lookup
<1> QED
  BY <1>4, <1>5, <1>6, <1>7, <1>8 DEF IInv, Evict

\* Filling keeps it: no other slot holds the sector, and what is not dirty
\* was just read.
LEMMA FillIInv ==
  ASSUME IInv, Fill
  PROVE  IInv'
<1> USE DEF Requests, Entries
<1>1. /\ clock \in Slots
      /\ req \in Requests
      /\ disk[req.sector] \in Data
      /\ cache \in [Slots -> Entries]
      /\ Lookup(req.sector) = {}
  BY DEF IInv, TypeOK, Fill
<1>2. /\ cache'[clock].occupied
      /\ cache'[clock].disk_sector = req.sector
      /\ cache'[clock].dirty <=> req.op = "write"
      /\ req.op # "write" => cache'[clock].buffer = disk[req.sector]
      /\ cache'[clock].buffer \in Data
      /\ cache' \in [Slots -> Entries]
      /\ \A i \in Slots \ {clock} : cache'[i] = cache[i]
  BY <1>1 DEF Fill
<1>3. TypeOK'
  BY <1>1, <1>2 DEF IInv, TypeOK, Fill
<1>4. OneSlotPerSector'
  BY <1>1, <1>2 DEF IInv, OneSlotPerSector, Lookup
<1>5. CleanMatchesDisk'
  BY <1>1, <1>2 DEF IInv, CleanMatchesDisk, Fill
<1> QED
  BY <1>1, <1>3, <1>4, <1>5 DEF IInv, Fill

\* One step of a close keeps it, and extends the clean prefix.
LEMMA FlushNextIInv ==
  ASSUME IInv, FlushNext
  PROVE  IInv'
<1> USE DEF Entries
<1>1. /\ TypeOK
      /\ hand \in Slots
      /\ hand \in Nat
  BY DEF IInv, TypeOK, FlushNext, Slots
<1>2. \A i \in Slots :
        /\ cache'[i] \in Entries
        /\ cache'[i].occupied = cache[i].occupied
        /\ cache'[i].disk_sector = cache[i].disk_sector
        /\ cache'[i].buffer = cache[i].buffer
        /\ i # hand => cache'[i].dirty = cache[i].dirty
        /\ cache[hand].occupied => ~cache'[hand].dirty
  BY <1>1 DEF TypeOK, FlushNext
<1>3. TypeOK'
  <2>1. disk' \in [Sectors -> Data]
    BY <1>1, FlushedType DEF FlushNext
  <2>2. cache' \in [Slots -> Entries]
    BY <1>1, <1>2 DEF TypeOK, FlushNext
  <2>3. hand' \in 0 .. NumSlots
    BY <1>1 DEF FlushNext, Slots
  <2> QED  BY <2>1, <2>2, <2>3, <1>1 DEF TypeOK, FlushNext
<1>4. OneSlotPerSector'
  BY <1>2 DEF IInv, OneSlotPerSector
<1>5. CleanMatchesDisk'
  <2> SUFFICES ASSUME NEW i \in Slots,
                      cache'[i].occupied, ~cache'[i].dirty
               PROVE  cache'[i].buffer = disk'[cache'[i].disk_sector]
    BY DEF CleanMatchesDisk
  <2>1. CASE i = hand
    BY <2>1, <1>1, <1>2 DEF FlushNext, Flushed, IInv, CleanMatchesDisk, TypeOK
  <2>2. CASE i # hand
    <3>1. cache[i].buffer = disk[cache[i].disk_sector]
      BY <2>2, <1>2 DEF IInv, CleanMatchesDisk
    <3>2. cache[hand].occupied
            => cache[hand].disk_sector # cache[i].disk_sector
      BY <2>2, <1>1, <1>2 DEF IInv, OneSlotPerSector
    <3>3. disk'[cache[i].disk_sector] = disk[cache[i].disk_sector]
      BY <3>2, <1>1 DEF FlushNext, Flushed, TypeOK
    <3> QED  BY <3>1, <3>3, <1>2
  <2> QED  BY <2>1, <2>2
<1>6. \A i \in Slots : i < hand' => Clean(i)'
  <2> SUFFICES ASSUME NEW i \in Slots, i < hand' PROVE Clean(i)'
    OBVIOUS
  <2>1. i < hand \/ i = hand
    BY <1>1 DEF FlushNext, Slots
  <2>2. i < hand => Clean(i)
    BY DEF IInv, FlushNext
  <2> QED  BY <2>1, <2>2, <1>2 DEF Clean, Slots
<1> QED
  BY <1>3, <1>4, <1>5, <1>6 DEF IInv, FlushNext

\* The remaining steps of a call to buffer_cache_close.
LEMMA CloseIInv ==
  ASSUME IInv, Close \/ Closed
  PROVE  IInv'
<1>1. CASE Close
  <2>1. TypeOK'
    BY <1>1 DEF IInv, TypeOK, Close
  <2>2. \A i \in Slots : ~(i < hand')
    BY <1>1 DEF Close, Slots
  <2> QED
    BY <1>1, <2>1, <2>2
    DEF IInv, Close, OneSlotPerSector, CleanMatchesDisk
<1>2. CASE Closed
  <2>1. TypeOK'
    BY <1>2 DEF IInv, TypeOK, Closed
  <2>2. \A i \in Slots : Clean(i)
    BY <1>2 DEF IInv, Closed, Slots
  <2> QED
    BY <1>2, <2>1, <2>2
    DEF IInv, Closed, OneSlotPerSector, CleanMatchesDisk, Clean
<1> QED  BY <1>1, <1>2

\* A fresh process has an empty cache.
LEMMA CrashIInv ==
  ASSUME IInv, Crash
  PROVE  IInv'
<1>1. 0 \in Slots /\ ZeroedEntry \in Entries /\ ~ZeroedEntry.occupied
  BY DEF Slots, Sectors, ZeroedEntry, Entries
<1>2. TypeOK'
  BY <1>1 DEF IInv, TypeOK, Crash
<1>3. \A i \in Slots : ~cache'[i].occupied
  BY <1>1 DEF Crash
<1> QED
  BY <1>2, <1>3 DEF IInv, Crash, OneSlotPerSector, CleanMatchesDisk

LEMMA NextIInv == IInv /\ [Next]_vars => IInv'
<1> SUFFICES ASSUME IInv, [Next]_vars PROVE IInv'
  OBVIOUS
<1>1. CASE UNCHANGED vars
  BY <1>1 DEF vars, IInv, TypeOK, OneSlotPerSector, CleanMatchesDisk,
              Lookup, Clean
<1>2. CASE Next
  BY <1>2, HitIInv, EvictIInv, FillIInv, FlushNextIInv, CloseIInv, CrashIInv
  DEF Next
<1> QED  BY <1>1, <1>2

\* The invariant that the other theorems rest on holds in every state.
THEOREM Invariance == Spec => []IInv
BY InitIInv, NextIInv, PTL DEF Spec

\* Every variable keeps its type; the clock and the hand of a close stay
\* inside the array (cache.c:42, 86-87).
THEOREM TypeCorrect == Spec => []TypeOK
<1>1. IInv => TypeOK
  BY DEF IInv
<1> QED  BY <1>1, Invariance, PTL

-----------------------------------------------------------------------------
(* What the callers of the cache see.                                      *)

\* The view, characterised without CHOOSE: a cached sector reads as its
\* slot, any other as the disk.
ViewFacts ==
  /\ View \in [Sectors -> Data]
  /\ \A i \in Slots : cache[i].occupied
                        => View[cache[i].disk_sector] = cache[i].buffer
  /\ \A s \in Sectors : Lookup(s) = {} => View[s] = disk[s]

LEMMA ViewIs == IInv => ViewFacts
<1> SUFFICES ASSUME IInv PROVE ViewFacts
  OBVIOUS
<1> USE DEF Entries
<1>1. ASSUME NEW s \in Sectors, NEW i \in Lookup(s)
      PROVE  View[s] = cache[i].buffer
  <2>1. \A j \in Lookup(s) : j = i
    BY <1>1 DEF Lookup, IInv, OneSlotPerSector
  <2>2. (CHOOSE j \in Lookup(s) : TRUE) = i
    BY <1>1, <2>1
  <2> QED  BY <1>1, <2>2 DEF View
<1>2. ASSUME NEW s \in Sectors, Lookup(s) = {} PROVE View[s] = disk[s]
  BY <1>2 DEF View
<1>3. \A i \in Slots : cache[i].occupied
                         => View[cache[i].disk_sector] = cache[i].buffer
  BY <1>1 DEF IInv, TypeOK, Lookup
<1>4. \A s \in Sectors : View[s] \in Data
  <2> SUFFICES ASSUME NEW s \in Sectors PROVE View[s] \in Data
    OBVIOUS
  <2>1. CASE Lookup(s) = {}
    BY <2>1, <1>2 DEF IInv, TypeOK
  <2>2. CASE Lookup(s) # {}
    <3>1. PICK i \in Lookup(s) : TRUE
      BY <2>2
    <3>2. cache[i].buffer \in Data
      BY <3>1 DEF Lookup, IInv, TypeOK
    <3> QED  BY <3>1, <3>2, <1>1
  <2> QED  BY <2>1, <2>2
<1>5. View \in [Sectors -> Data]
  BY <1>4 DEF View
<1> QED  BY <1>2, <1>3, <1>5 DEF ViewFacts

\* When no slot is dirty the disk holds what a read returns.
LEMMA CleanView ==
  ASSUME IInv, \A i \in Slots : Clean(i)
  PROVE  disk = View
<1>1. ASSUME NEW s \in Sectors PROVE View[s] = disk[s]
  <2>1. CASE Lookup(s) = {}
    BY <2>1, ViewIs DEF ViewFacts
  <2>2. CASE Lookup(s) # {}
    <3>1. PICK i \in Slots : cache[i].occupied /\ cache[i].disk_sector = s
      BY <2>2 DEF Lookup
    <3>2. View[s] = cache[i].buffer
      BY <3>1, ViewIs DEF ViewFacts
    <3>3. cache[i].buffer = disk[s]
      BY <3>1 DEF IInv, CleanMatchesDisk, Clean
    <3> QED  BY <3>2, <3>3
  <2> QED  BY <2>1, <2>2
<1>2. disk \in [Sectors -> Data] /\ View \in [Sectors -> Data]
  BY ViewIs DEF ViewFacts, IInv, TypeOK
<1> QED  BY <1>1, <1>2

\* buffer_cache_lookup returns the first slot with the sector it looks for
\* (cache.c:53-61); it never has a second one to miss.
THEOREM OneSlot == Spec => []OneSlotPerSector
<1>1. IInv => OneSlotPerSector
  BY DEF IInv
<1> QED  BY <1>1, Invariance, PTL

\* A slot that is not dirty is dropped without a write (cache.c:91-94); the
\* disk has what it held.
THEOREM CleanCanBeDropped == Spec => []CleanMatchesDisk
<1>1. IInv => CleanMatchesDisk
  BY DEF IInv
<1> QED  BY <1>1, Invariance, PTL

\* Once buffer_cache_close has returned, the process may exit: everything
\* written is on the disk.
THEOREM Durability == Spec => []ClosedIsDurable
<1>1. IInv => ClosedIsDurable
  BY CleanView DEF IInv, ClosedIsDurable
<1> QED  BY <1>1, Invariance, PTL

\* A referenced slot is evicted only after a full turn of the clock found
\* every slot referenced.
THEOREM SecondChanceHolds == Spec => SecondChance
<1> DEFINE Step == \A i \in Slots :
                      Spared(i) /\ pc' = "fill" /\ ~cache'[i].occupied
                      => \A j \in Slots : Spared(j)
<1>1. ASSUME IInv, Next PROVE Step
  <2> SUFFICES ASSUME NEW i \in Slots, NEW j \in Slots, Spared(i),
                      pc' = "fill", ~cache'[i].occupied
               PROVE  Spared(j)
    OBVIOUS
  <2>1. pc # "fill"
    <3>1. CASE pc = "fill" /\ FlushNext
      BY <3>1 DEF FlushNext
    <3>2. CASE pc = "fill" /\ ~FlushNext
      BY <3>2, <1>1 DEF Next, Hit, Evict, Fill, Close, Closed, Crash
    <3> QED  BY <3>1, <3>2, Zenon
  <2>2. PICK r \in Requests : Evict(r)
    BY <2>1, <1>1 DEF Next, Hit, Fill, Close, FlushNext, Closed, Crash
  <2>3. PICK k \in 0 .. NumSlots :
          StopsAfter(k) /\ cache' = [n \in Slots |-> AfterScan(k, n)]
    BY <2>2 DEF Evict
  <2>4. cache[i].occupied /\ i = SlotAfter(clock, k)
    BY <2>3, <1>1, AfterScanType DEF IInv, Spared
  <2>5. k = NumSlots
    BY <2>3, <2>4 DEF StopsAfter
  <2>6. PICK n \in 0 .. NumSlots - 1 : SlotAfter(clock, n) = j
    BY <1>1, FullTurn DEF IInv, TypeOK
  <2> QED  BY <2>3, <2>5, <2>6 DEF StopsAfter
<1>2. IInv /\ [Next]_vars => [Step]_vars
  BY <1>1
<1> QED  BY <1>2, Invariance, PTL DEF Spec, SecondChance

-----------------------------------------------------------------------------
(* The cache implements a write-back store.                                *)

\* Whether a step leaves what every sector reads as alone is decided
\* pointwise.
SameView == \A s \in Sectors : View'[s] = View[s]

LEMMA SameViewSuffices ==
  ASSUME IInv, IInv', SameView
  PROVE  View' = View
<1>1. ViewFacts /\ ViewFacts'
  BY ViewIs, PTL
<1> QED  BY <1>1 DEF ViewFacts, SameView

LEMMA HitStep ==
  ASSUME IInv, IInv', NEW r \in Requests, NEW i \in Slots, Hit(r, i)
  PROVE  Store!Next
<1> USE DEF Requests, Entries
<1>1. ViewFacts /\ ViewFacts'
  BY ViewIs, PTL
<1>2. /\ cache[i] \in Entries
      /\ cache[i].occupied
      /\ cache[i].disk_sector = r.sector
      /\ r.sector \in Sectors /\ r.data \in Data
  BY DEF IInv, TypeOK, Hit, Lookup
<1>3. /\ \A j \in Slots : /\ cache'[j].occupied = cache[j].occupied
                          /\ cache'[j].disk_sector = cache[j].disk_sector
                          /\ j # i => cache'[j].buffer = cache[j].buffer
      /\ cache'[i].buffer = IF r.op = "write" THEN r.data ELSE cache[i].buffer
      /\ disk' = disk
      /\ reply' = [op |-> r.op, sector |-> r.sector, data |-> cache'[i].buffer]
  BY <1>2 DEF IInv, TypeOK, Hit
<1>4. View[r.sector] = cache[i].buffer /\ View'[r.sector] = cache'[i].buffer
  BY <1>1, <1>2, <1>3 DEF ViewFacts
<1>5. ASSUME NEW s \in Sectors, s # r.sector PROVE View'[s] = View[s]
  <2>1. CASE Lookup(s) = {}
    <3>1. Lookup(s)' = {}
      BY <2>1, <1>3 DEF Lookup
    <3> QED  BY <2>1, <3>1, <1>1, <1>3 DEF ViewFacts
  <2>2. CASE Lookup(s) # {}
    <3>1. PICK j \in Slots : cache[j].occupied /\ cache[j].disk_sector = s
      BY <2>2 DEF Lookup
    <3>2. j # i
      BY <3>1, <1>2, <1>5
    <3> QED  BY <3>1, <3>2, <1>1, <1>3 DEF ViewFacts
  <2> QED  BY <2>1, <2>2
<1>6. CASE r.op = "read"
  <2>1. View' = View
    BY <1>3, <1>4, <1>5, <1>6, SameViewSuffices DEF SameView
  <2>2. Store!Read(r.sector)
    BY <2>1, <1>3, <1>4, <1>6 DEF Store!Read
  <2> QED  BY <2>2, <1>2 DEF Store!Next
<1>7. CASE r.op = "write"
  <2>1. View' = [View EXCEPT ![r.sector] = r.data]
    BY <1>1, <1>2, <1>3, <1>4, <1>5, <1>7 DEF ViewFacts
  <2>2. Store!Write(r.sector, r.data)
    BY <2>1, <1>3, <1>7 DEF Store!Write
  <2> QED  BY <2>2, <1>2 DEF Store!Next
<1> QED  BY <1>6, <1>7

\* Evicting a dirty slot makes its sector durable; evicting a clean one
\* changes nothing a caller or a restart can see.
LEMMA EvictStep ==
  ASSUME IInv, IInv', NEW r \in Requests, Evict(r)
  PROVE  Store!Next \/ UNCHANGED Store!vars
<1> USE DEF Requests, Entries
<1>1. ViewFacts /\ ViewFacts'
  BY ViewIs, PTL
<1>2. PICK k \in 0 .. NumSlots :
        /\ disk' = Flushed(SlotAfter(clock, k))
        /\ cache' = [i \in Slots |-> AfterScan(k, i)]
  BY DEF Evict
<1> DEFINE stop == SlotAfter(clock, k)
<1>3. TypeOK /\ stop \in Slots
  BY SlotAfterType DEF IInv, TypeOK
<1>4. \A i \in Slots :
        /\ cache'[i].disk_sector = cache[i].disk_sector
        /\ cache'[i].buffer = cache[i].buffer
        /\ cache'[i].occupied <=> cache[i].occupied /\ i # stop
  BY <1>2, <1>3, AfterScanType
<1> HIDE DEF stop
<1>5. disk' = Flushed(stop)
  BY <1>2 DEF stop
<1>6. ASSUME NEW s \in Sectors, s # cache[stop].disk_sector
      PROVE  disk'[s] = disk[s]
  BY <1>3, <1>5, <1>6 DEF Flushed, TypeOK
<1>7. ASSUME cache[stop].occupied
      PROVE  disk'[cache[stop].disk_sector] = cache[stop].buffer
  BY <1>3, <1>5, <1>7 DEF Flushed, TypeOK, IInv, CleanMatchesDisk
<1>8. ASSUME NEW s \in Sectors PROVE View'[s] = View[s]
  <2>1. CASE Lookup(s) = {}
    <3>1. Lookup(s)' = {}
      BY <2>1, <1>4 DEF Lookup
    <3>2. disk'[s] = disk[s]
      BY <2>1, <1>3, <1>5 DEF Lookup, Flushed, TypeOK
    <3> QED  BY <2>1, <3>1, <3>2, <1>1 DEF ViewFacts
  <2>2. CASE Lookup(s) # {}
    <3>1. PICK j \in Slots : cache[j].occupied /\ cache[j].disk_sector = s
      BY <2>2 DEF Lookup
    <3>2. View[s] = cache[j].buffer
      BY <3>1, <1>1 DEF ViewFacts
    <3>3. CASE j # stop
      BY <3>1, <3>2, <3>3, <1>1, <1>4 DEF ViewFacts
    <3>4. CASE j = stop
      <4>1. Lookup(s)' = {}
        BY <3>1, <3>4, <1>4 DEF Lookup, IInv, OneSlotPerSector
      <4>2. View'[s] = disk'[s]
        BY <4>1, <1>1 DEF ViewFacts
      <4> QED  BY <3>1, <3>2, <3>4, <4>2, <1>7
    <3> QED  BY <3>3, <3>4
  <2> QED  BY <2>1, <2>2
<1>9. View' = View
  BY <1>8, SameViewSuffices DEF SameView
<1>10. CASE cache[stop].occupied
  <2>1. View[cache[stop].disk_sector] = cache[stop].buffer
    BY <1>1, <1>3, <1>10 DEF ViewFacts
  <2>2. disk \in [Sectors -> Data] /\ disk' \in [Sectors -> Data]
    BY DEF IInv, TypeOK
  <2>3. disk' = [disk EXCEPT ![cache[stop].disk_sector]
                               = View[cache[stop].disk_sector]]
    BY <2>1, <2>2, <1>6, <1>7, <1>10
  <2>4. Store!Sync(cache[stop].disk_sector)
    BY <2>3, <1>9 DEF Store!Sync, Evict
  <2> QED  BY <2>4, <1>3 DEF Store!Next, TypeOK
<1>11. CASE ~cache[stop].occupied
  BY <1>5, <1>9, <1>11 DEF Flushed, Store!vars, Evict
<1> QED  BY <1>10, <1>11

LEMMA FillStep ==
  ASSUME IInv, IInv', Fill
  PROVE  Store!Next
<1> USE DEF Requests, Entries
<1>1. ViewFacts /\ ViewFacts'
  BY ViewIs, PTL
<1> DEFINE s0 == req.sector
<1>2. /\ clock \in Slots
      /\ req \in Requests
      /\ s0 \in Sectors /\ req.data \in Data
      /\ Lookup(s0) = {}
      /\ ~cache[clock].occupied
      /\ cache \in [Slots -> Entries]
  BY DEF IInv, TypeOK, Fill
<1> DEFINE result == IF req.op = "write" THEN req.data ELSE disk[s0]
<1>3. /\ cache'[clock].occupied
      /\ cache'[clock].disk_sector = s0
      /\ cache'[clock].buffer = result
      /\ \A j \in Slots \ {clock} : cache'[j] = cache[j]
      /\ disk' = disk
      /\ reply' = [op |-> req.op, sector |-> s0, data |-> result]
  BY <1>2 DEF Fill
<1>4. View[s0] = disk[s0] /\ View'[s0] = result
  BY <1>1, <1>2, <1>3 DEF ViewFacts
<1>5. ASSUME NEW s \in Sectors, s # s0 PROVE View'[s] = View[s]
  <2>1. CASE Lookup(s) = {}
    <3>1. Lookup(s)' = {}
      BY <2>1, <1>2, <1>3, <1>5 DEF Lookup
    <3> QED  BY <2>1, <3>1, <1>1, <1>3 DEF ViewFacts
  <2>2. CASE Lookup(s) # {}
    <3>1. PICK j \in Slots : cache[j].occupied /\ cache[j].disk_sector = s
      BY <2>2 DEF Lookup
    <3>2. j # clock
      BY <3>1, <1>2
    <3> QED  BY <3>1, <3>2, <1>1, <1>3 DEF ViewFacts
  <2> QED  BY <2>1, <2>2
<1>6. CASE req.op = "read"
  <2>1. View' = View
    BY <1>4, <1>5, <1>6, SameViewSuffices DEF SameView
  <2>2. Store!Read(s0)
    BY <2>1, <1>3, <1>4, <1>6 DEF Store!Read
  <2> QED  BY <2>2, <1>2 DEF Store!Next
<1>7. CASE req.op = "write"
  <2>1. View' = [View EXCEPT ![s0] = req.data]
    BY <1>1, <1>2, <1>4, <1>5, <1>7 DEF ViewFacts
  <2>2. Store!Write(s0, req.data)
    BY <2>1, <1>3, <1>7 DEF Store!Write
  <2> QED  BY <2>2, <1>2 DEF Store!Next
<1> QED  BY <1>2, <1>6, <1>7

\* One step of a close makes one sector durable, or none.
LEMMA FlushStep ==
  ASSUME IInv, IInv', FlushNext
  PROVE  Store!Next \/ UNCHANGED Store!vars
<1> USE DEF Entries
<1>1. ViewFacts /\ ViewFacts'
  BY ViewIs, PTL
<1>2. TypeOK /\ hand \in Slots
  BY DEF IInv, TypeOK, FlushNext, Slots
<1>3. \A i \in Slots :
        /\ cache'[i].disk_sector = cache[i].disk_sector
        /\ cache'[i].buffer = cache[i].buffer
        /\ cache'[i].occupied = cache[i].occupied
  BY <1>2 DEF TypeOK, FlushNext
<1>4. ASSUME NEW s \in Sectors PROVE View'[s] = View[s]
  <2>1. CASE Lookup(s) = {}
    <3>1. Lookup(s)' = {}
      BY <2>1, <1>3 DEF Lookup
    <3>2. disk'[s] = disk[s]
      BY <2>1, <1>2 DEF Lookup, Flushed, TypeOK, FlushNext
    <3> QED  BY <2>1, <3>1, <3>2, <1>1 DEF ViewFacts
  <2>2. CASE Lookup(s) # {}
    <3>1. PICK j \in Slots : cache[j].occupied /\ cache[j].disk_sector = s
      BY <2>2 DEF Lookup
    <3> QED  BY <3>1, <1>1, <1>3 DEF ViewFacts
  <2> QED  BY <2>1, <2>2
<1>5. View' = View
  BY <1>4, SameViewSuffices DEF SameView
<1>6. CASE cache[hand].occupied /\ cache[hand].dirty
  <2>1. View[cache[hand].disk_sector] = cache[hand].buffer
    BY <1>1, <1>2, <1>6 DEF ViewFacts
  <2>2. Store!Sync(cache[hand].disk_sector)
    BY <2>1, <1>5, <1>6 DEF Store!Sync, FlushNext, Flushed
  <2> QED  BY <2>2, <1>2 DEF Store!Next, TypeOK
<1>7. CASE ~(cache[hand].occupied /\ cache[hand].dirty)
  BY <1>5, <1>7 DEF Flushed, Store!vars, FlushNext
<1> QED  BY <1>6, <1>7

\* A close is answered when every slot is clean.
LEMMA ClosedStep ==
  ASSUME IInv, IInv', Closed
  PROVE  Store!Next
<1>1. \A i \in Slots : Clean(i)
  BY DEF IInv, Closed, Slots
<1>2. disk = View
  BY <1>1, CleanView
<1>3. View' = View
  BY DEF Closed, View, Lookup
<1> QED  BY <1>2, <1>3 DEF Store!Next, Store!Close, Closed

\* A restart reads what the disk holds.
LEMMA CrashStep ==
  ASSUME IInv, IInv', Crash
  PROVE  Store!Next
<1>1. ViewFacts'
  BY ViewIs, PTL
<1>2. \A s \in Sectors : Lookup(s)' = {}
  BY DEF Crash, Lookup, ZeroedEntry
<1>3. View' \in [Sectors -> Data] /\ disk \in [Sectors -> Data]
  BY <1>1 DEF ViewFacts, IInv, TypeOK
<1>4. \A s \in Sectors : View'[s] = disk[s]
  BY <1>1, <1>2 DEF ViewFacts, Crash
<1>5. View' = disk
  BY <1>3, <1>4
<1> QED  BY <1>5 DEF Store!Next, Store!Crash, Crash

\* The cache, whatever it evicts and wherever the process dies, behaves to
\* its callers as the store of WriteBackStore: every read returns the last
\* write of its sector, a crash loses only what was not written back, and a
\* close loses nothing.
THEOREM Refinement == Spec => ImplementsStore
<1>1. Init => Store!Init
  <2> SUFFICES ASSUME Init PROVE Store!Init
    OBVIOUS
  <2>1. IInv
    BY InitIInv
  <2>2. disk = View
    BY <2>1, CleanView DEF Init, Clean, ZeroedEntry
  <2>3. disk \in [Sectors -> Data] /\ 0 \in Sectors
    BY DEF Init, Sectors
  <2>4. reply \in {q \in Store!Replies : q.op = "start"}
    BY <2>3 DEF Init, Store!Replies
  <2> QED  BY <2>2, <2>3, <2>4 DEF Store!Init
<1>2. ASSUME IInv, IInv', [Next]_vars
      PROVE  Store!Next \/ UNCHANGED Store!vars
  <2>1. CASE UNCHANGED vars
    BY <2>1 DEF vars, Store!vars, View, Lookup
  <2>2. CASE Close
    BY <2>2 DEF Close, Store!vars, View, Lookup
  <2> QED
    BY <1>2, <2>1, <2>2, HitStep, EvictStep, FillStep, FlushStep, ClosedStep,
       CrashStep DEF Next
<1>3. IInv /\ IInv' /\ [Next]_vars => [Store!Next]_(Store!vars)
  BY <1>2
<1> QED
  BY <1>1, <1>3, Invariance, PTL DEF Spec, Store!Spec, ImplementsStore
=============================================================================
