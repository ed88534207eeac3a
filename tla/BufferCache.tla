---------------------------- MODULE BufferCache -----------------------------
(***************************************************************************)
(* The sector cache of src/a3/fs/cache.c over the block device of block.c: *)
(* a fixed array of slots, filled on a miss, evicted by the clock          *)
(* algorithm, written back only when a dirty slot is evicted or the cache  *)
(* is closed.  The process may die between any two device accesses, which  *)
(* is what the control variable pc splits a call for: a call that misses   *)
(* evicts in one step and fills in another, and a close flushes one slot   *)
(* per step.                                                               *)
(***************************************************************************)
EXTENDS Integers

CONSTANTS NumSlots,    \* BUFFER_CACHE_SIZE
          NumSectors,  \* sectors of the device
          Data,        \* contents of a sector
          Zero         \* a buffer of zero bytes

ASSUME NumSlotsAssumption == NumSlots \in Nat \ {0}
ASSUME NumSectorsAssumption == NumSectors \in Nat \ {0}
ASSUME ZeroAssumption == Zero \in Data

VARIABLES cache,  \* the array of buffer_cache_entry_t
          clock,  \* the static of buffer_cache_evict
          disk,   \* contents of the device
          pc,     \* "idle", "fill" (a miss has its slot) or "closing"
          req,    \* the call being answered
          hand,   \* loop index of buffer_cache_close
          reply   \* the last call answered

vars == <<cache, clock, disk, pc, req, hand, reply>>

Slots == 0 .. NumSlots - 1
Sectors == 0 .. NumSectors - 1

Entries == [occupied : BOOLEAN, disk_sector : Sectors, buffer : Data,
            dirty : BOOLEAN, access : BOOLEAN]
Requests == [op : {"read", "write"}, sector : Sectors, data : Data]

\* Memory of a fresh process: static storage is zeroed.
ZeroedEntry == [occupied |-> FALSE, disk_sector |-> 0, buffer |-> Zero,
                dirty |-> FALSE, access |-> FALSE]

Init == /\ cache = [i \in Slots |-> ZeroedEntry]
        /\ clock = 0
        /\ disk \in [Sectors -> Data]
        /\ pc = "idle"
        /\ req = [op |-> "read", sector |-> 0, data |-> Zero]
        /\ hand = 0
        /\ reply = [op |-> "start", sector |-> 0, data |-> Zero]

-----------------------------------------------------------------------------
\* Mutant of Lookup: the loop stops one slot early.
LookupShort(s) == {i \in 0 .. NumSlots - 2 :
                     cache[i].occupied /\ cache[i].disk_sector = s}

\* buffer_cache_lookup: the slots that answer for a sector.
Lookup(s) == {i \in Slots : cache[i].occupied /\ cache[i].disk_sector = s}

\* The slot k places after slot i, wrapping once round the array.
SlotAfter(i, k) == IF i + k < NumSlots THEN i + k ELSE i + k - NumSlots

\* A slot the clock passes over.
Spared(i) == cache[i].occupied /\ cache[i].access

\* Mutant of StopsAfter: the reference bit is not looked at.
StopsAtOnce(k) == k = 0

\* The clock stops after k places: at the first slot it does not spare, or
\* back where it began when it spared them all.
StopsAfter(k) ==
  /\ \A j \in 0 .. k - 1 : Spared(SlotAfter(clock, j))
  /\ k = NumSlots \/ ~Spared(SlotAfter(clock, k))

\* Content of slot i once the clock has gone k places and emptied its stop.
AfterScan(k, i) ==
  [cache[i] EXCEPT
     !.access = @ /\ \A j \in 0 .. k - 1 : SlotAfter(clock, j) # i,
     !.occupied = @ /\ i # SlotAfter(clock, k),
     !.dirty = @ /\ i # SlotAfter(clock, k)]

\* Mutant of Flushed: nothing is written back.
FlushedNever(i) == disk

\* buffer_cache_flush on slot i, seen from the disk.
Flushed(i) == IF cache[i].occupied /\ cache[i].dirty
              THEN [disk EXCEPT ![cache[i].disk_sector] = cache[i].buffer]
              ELSE disk

\* A call that finds its sector in slot i.
Hit(r, i) ==
  /\ pc = "idle"
  /\ i \in Lookup(r.sector)
  /\ cache' = [cache EXCEPT
                 ![i].access = TRUE,
                 ![i].dirty = @ \/ r.op = "write",
                 ![i].buffer = IF r.op = "write" THEN r.data ELSE @]
  /\ reply' = [op |-> r.op, sector |-> r.sector, data |-> cache'[i].buffer]
  /\ UNCHANGED <<clock, disk, pc, req, hand>>

\* Mutant of Evict: the clock does not wrap at the end of the array.
EvictUnwrapped(r) ==
  /\ pc = "idle"
  /\ Lookup(r.sector) = {}
  /\ \E k \in 0 .. NumSlots :
       /\ StopsAfter(k)
       /\ clock' = clock + k
       /\ disk' = Flushed(SlotAfter(clock, k))
       /\ cache' = [i \in Slots |-> AfterScan(k, i)]
  /\ pc' = "fill"
  /\ req' = r
  /\ UNCHANGED <<hand, reply>>

\* A call that misses: buffer_cache_evict empties a slot for it, after
\* writing a dirty one back.
Evict(r) ==
  /\ pc = "idle"
  /\ Lookup(r.sector) = {}
  /\ \E k \in 0 .. NumSlots :
       /\ StopsAfter(k)
       /\ clock' = SlotAfter(clock, k)
       /\ disk' = Flushed(SlotAfter(clock, k))
       /\ cache' = [i \in Slots |-> AfterScan(k, i)]
  /\ pc' = "fill"
  /\ req' = r
  /\ UNCHANGED <<hand, reply>>

\* Mutant of Fill: a write that missed does not set the dirty bit.
FillUnmarked ==
  /\ pc = "fill"
  /\ cache' = [cache EXCEPT ![clock] =
                 [occupied |-> TRUE, disk_sector |-> req.sector,
                  buffer |-> IF req.op = "write" THEN req.data
                                                 ELSE disk[req.sector],
                  dirty |-> FALSE, access |-> TRUE]]
  /\ pc' = "idle"
  /\ reply' = [op |-> req.op, sector |-> req.sector,
               data |-> cache'[clock].buffer]
  /\ UNCHANGED <<clock, disk, req, hand>>

\* The rest of the call: the sector is read into the slot at the clock,
\* then copied out, or overwritten.
Fill ==
  /\ pc = "fill"
  /\ cache' = [cache EXCEPT ![clock] =
                 [occupied |-> TRUE,
                  disk_sector |-> req.sector,
                  buffer |-> IF req.op = "write" THEN req.data
                                                 ELSE disk[req.sector],
                  dirty |-> req.op = "write",
                  access |-> TRUE]]
  /\ pc' = "idle"
  /\ reply' = [op |-> req.op, sector |-> req.sector,
               data |-> cache'[clock].buffer]
  /\ UNCHANGED <<clock, disk, req, hand>>

\* Mutant of Close: the loop begins at the second slot.
CloseFromOne == /\ pc = "idle"
                /\ pc' = "closing"
                /\ hand' = 1
                /\ UNCHANGED <<cache, clock, disk, req, reply>>

\* buffer_cache_close, called by filesys_done.
Close == /\ pc = "idle"
         /\ pc' = "closing"
         /\ hand' = 0
         /\ UNCHANGED <<cache, clock, disk, req, reply>>

\* Mutant of FlushNext: the slot that was written stays dirty.
FlushStaysDirty == /\ pc = "closing"
                   /\ hand < NumSlots
                   /\ disk' = Flushed(hand)
                   /\ hand' = hand + 1
                   /\ UNCHANGED <<cache, clock, pc, req, reply>>

FlushNext == /\ pc = "closing"
             /\ hand < NumSlots
             /\ disk' = Flushed(hand)
             /\ cache' = [cache EXCEPT ![hand].dirty =
                            @ /\ ~cache[hand].occupied]
             /\ hand' = hand + 1
             /\ UNCHANGED <<clock, pc, req, reply>>

Closed == /\ pc = "closing"
          /\ hand = NumSlots
          /\ pc' = "idle"
          /\ reply' = [reply EXCEPT !.op = "close"]
          /\ UNCHANGED <<cache, clock, disk, req, hand>>

\* The process dies at any point and filesys_init runs in a new one.
Crash == /\ cache' = [i \in Slots |-> ZeroedEntry]
         /\ clock' = 0
         /\ pc' = "idle"
         /\ reply' = [reply EXCEPT !.op = "start"]
         /\ UNCHANGED <<disk, req, hand>>

Next == \/ \E r \in Requests : Evict(r) \/ \E i \in Slots : Hit(r, i)
        \/ Fill
        \/ Close
        \/ FlushNext
        \/ Closed
        \/ Crash

Spec == Init /\ [][Next]_vars

-----------------------------------------------------------------------------
\* Every variable keeps its type: in particular the clock, which wraps
\* (cache.c:87), stays a valid index of the array.
TypeOK == /\ cache \in [Slots -> Entries]
          /\ clock \in Slots
          /\ disk \in [Sectors -> Data]
          /\ pc \in {"idle", "fill", "closing"}
          /\ req \in Requests
          /\ hand \in 0 .. NumSlots
          /\ reply \in [op : {"start", "read", "write", "close"},
                        sector : Sectors, data : Data]

\* buffer_cache_lookup returns the first match, so two slots for one sector
\* would leave a stale copy behind: a sector is never cached twice.
OneSlotPerSector ==
  \A i, j \in Slots :
    /\ cache[i].occupied
    /\ cache[j].occupied
    /\ cache[i].disk_sector = cache[j].disk_sector
    => i = j

\* A slot whose dirty bit is clear is dropped without a write (cache.c:92),
\* so it must hold what the disk holds.
CleanMatchesDisk ==
  \A i \in Slots : cache[i].occupied /\ ~cache[i].dirty
                   => cache[i].buffer = disk[cache[i].disk_sector]

\* The inductive invariant.  Between eviction and filling, the slot at the
\* clock is free and nobody else answers for the sector (the code relies on
\* it in the ASSERTs of cache.c:106 and 125); a close leaves a clean prefix
\* behind its hand, and after it everything is clean.
Clean(i) == cache[i].occupied => ~cache[i].dirty

IInv ==
  /\ TypeOK
  /\ OneSlotPerSector
  /\ CleanMatchesDisk
  /\ pc = "fill" => /\ ~cache[clock].occupied
                    /\ Lookup(req.sector) = {}
  /\ pc = "closing" => \A i \in Slots : i < hand => Clean(i)
  /\ reply.op = "close" /\ pc = "idle" => \A i \in Slots : Clean(i)

\* What a read of each sector returns now.
View == [s \in Sectors |->
           IF Lookup(s) # {} THEN cache[CHOOSE i \in Lookup(s) : TRUE].buffer
                             ELSE disk[s]]

\* Once buffer_cache_close has returned and nothing was called since, the
\* process may exit: every sector on disk is what its last reader saw.
ClosedIsDurable == reply.op = "close" /\ pc = "idle" => disk = View

\* The clock evicts a referenced slot only when every slot was occupied and
\* referenced, so each was given its second chance first (cache.c:80-82).
SecondChance ==
  [][\A i \in Slots : Spared(i) /\ pc' = "fill" /\ ~cache'[i].occupied
                      => \A j \in Slots : Spared(j)]_vars

\* Reads and writes through the cache, whatever is evicted and wherever the
\* process dies, are those of a write-back store over the same sectors.
Store == INSTANCE WriteBackStore WITH view <- View, stable <- disk
ImplementsStore == Store!Spec
=============================================================================
