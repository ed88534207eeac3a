----------------------------- MODULE FileBytes ------------------------------
(***************************************************************************)
(* The bytes of one file of src/a3: the position of file.c, and the loops  *)
(* of inode_read_at and inode_write_at, which go sector by sector.  The    *)
(* commands read, write, seek, close, size, cat, copy_out, copy_in, create *)
(* and defragment call them.  It implements TextFile.                      *)
(*                                                                         *)
(* The file stays within its direct blocks; what else is on the disk, and  *)
(* failures to create a file, are FileSystem's.                            *)
(***************************************************************************)
EXTENDS Integers, Sequences

CONSTANTS SectorSize,  \* BLOCK_SECTOR_SIZE
          MaxLength,   \* bound: length of the file
          Chars,       \* characters that may be typed
          Texts,       \* texts that may be written
          Sizes,       \* sizes given to create and read
          Places,      \* offsets given to seek, which takes any number
          MinPos       \* bound: the lowest position

NUL == 0
Stale == -1  \* a byte of a sector that somebody used before
Bytes == Chars \cup {NUL}

ASSUME SizesAssumption == /\ SectorSize \in Nat \ {0}
                          /\ MaxLength \in Nat
                          /\ Sizes \subseteq 0 .. MaxLength
                          /\ MinPos \in Int /\ MinPos <= -2
                          /\ Places \subseteq MinPos .. MaxLength
ASSUME TextsAssumption == /\ Chars \cap {NUL, Stale} = {}
                          /\ Texts \subseteq Seq(Chars) \ {<<>>}

VARIABLES length,   \* inode->data.length
          sectors,  \* contents of the sectors reserved for the inode
          pos,      \* file->pos
          io,       \* the read or write in progress
          reply,    \* the answer to the last call
          text,     \* history: the text that was copied in or written to
                    \* the file in a row, or Unknown
          row       \* history: another text written continues the row

vars == <<length, sectors, pos, io, reply, text, row>>

Offsets == 0 .. SectorSize - 1
ZeroSector == [o \in Offsets |-> NUL]
Unknown == <<NUL>>  \* no text holds a NUL

\* buffer is what is written, or what was read so far.
Idle == [op |-> "idle"]
Undefined == [op |-> "undefined"]
NoReply == [op |-> "none"]
Wrote(n) == [op |-> "wrote", n |-> n]
ReadBytes(b) == [op |-> "read", bytes |-> b]
Panicked == [op |-> "panic"]

bytes_to_sectors(n) == (n + SectorSize - 1) \div SectorSize

\* Byte i of the file, counted from 0.
ByteAt(i) == sectors[i \div SectorSize + 1][i % SectorSize]
Content == [i \in 1 .. length |-> ByteAt(i - 1)]

Min(S) == CHOOSE m \in S : \A n \in S : m <= n

Init == /\ length \in Sizes
        /\ sectors = [k \in 1 .. bytes_to_sectors(length) |-> ZeroSector]
        /\ pos = 0
        /\ io = Idle
        /\ reply = NoReply
        /\ text = <<>>
        /\ row = TRUE

-----------------------------------------------------------------------------
(* inode_write_at.                                                         *)

\* Mutant of Extends: only the first byte to write is looked up.
ExtendsAtFirst(at, size) == at \notin 0 .. length - 1

\* The file ends before the last of the bytes to write (byte_to_sector is -1).
Extends(at, size) == at + size - 1 \notin 0 .. length - 1

\* Mutant of Reserved: the new sectors are not zeroed.
ReservedStale(old, more) ==
  old \o [k \in 1 .. more |-> [o \in Offsets |-> Stale]]

\* inode_reserve: more sectors, with zeros.
Reserved(old, more) == old \o [k \in 1 .. more |-> ZeroSector]

\* Mutant of Lacking: sectors are rounded down.
LackingFloor(size) == IF size \div SectorSize > Len(sectors)
                      THEN (size \div SectorSize) - Len(sectors) ELSE 0

Lacking(size) == IF bytes_to_sectors(size) > Len(sectors)
                 THEN bytes_to_sectors(size) - Len(sectors) ELSE 0

\* file_write makes the last byte of its buffer a terminator.
Ended(b) == [i \in 1 .. Len(b) |-> IF i = Len(b) THEN NUL ELSE b[i]]

Writing(b) == [op |-> "write", buffer |-> Ended(b), offset |-> pos, done |-> 0]

\* Mutant of CommandBuffer: no second terminator.
CommandBufferOnce(t) == Append(t, NUL)

\* The buffer of `write`: the text, the end strcpy gave it, and one byte more.
CommandBuffer(t) == t \o <<NUL, NUL>>

Write(t) ==
  LET b == CommandBuffer(t)
  IN /\ io = Idle
     /\ pos >= 0
     /\ pos + Len(b) <= MaxLength
     /\ IF Extends(pos, Len(b))
        THEN /\ length' = pos + Len(b)
             /\ sectors' = Reserved(sectors, Lacking(pos + Len(b)))
        ELSE UNCHANGED <<length, sectors>>
     /\ io' = Writing(b)
     /\ text' = IF row THEN text \o t ELSE Unknown
     /\ UNCHANGED <<pos, reply, row>>

\* The disk gets full before all sectors are reserved: those that were stay
\* with the open inode, and file_write moves the position back.  So it does
\* when the write would end before the file begins, which inode_reserve
\* refuses; it may thus go back again and again below zero (inode.c:264-269).
WriteFails(t) ==
  LET end == pos + Len(CommandBuffer(t))
  IN /\ io = Idle
     /\ pos - 2 >= MinPos
     /\ end <= MaxLength
     /\ Extends(pos, Len(CommandBuffer(t)))
     /\ \/ end < 0 /\ UNCHANGED sectors
        \/ \E got \in 0 .. Lacking(end) - 1 : sectors' = Reserved(sectors, got)
     /\ pos' = pos - 2
     /\ reply' = Wrote(0)
     /\ row' = FALSE
     /\ UNCHANGED <<length, io, text>>

\* How many bytes the next turn of the loop of a read or write handles.
Chunk(offset, size) ==
  Min({size, length - offset, SectorSize - (offset % SectorSize)})

\* A sector with bytes b from o on.
Patched(sector, o, b) ==
  [k \in Offsets |-> IF k - o + 1 \in DOMAIN b THEN b[k - o + 1] ELSE sector[k]]

\* One sector, read before when it is written in part.
WriteChunk ==
  /\ io.op = "write"
  /\ LET size == Len(io.buffer) - io.done
         chunk == Chunk(io.offset, size)
         s == io.offset \div SectorSize + 1
         o == io.offset % SectorSize
         old == IF o > 0 \/ chunk < SectorSize - o THEN sectors[s]
                                                   ELSE ZeroSector
     IN /\ size > 0 /\ chunk > 0
        /\ sectors' = [sectors EXCEPT ![s] =
             Patched(old, o, SubSeq(io.buffer, io.done + 1, io.done + chunk))]
        /\ io' = [io EXCEPT !.offset = @ + chunk, !.done = @ + chunk]
  /\ UNCHANGED <<length, pos, reply, text, row>>

WriteDone ==
  /\ io.op = "write"
  /\ LET size == Len(io.buffer) - io.done
     IN size <= 0 \/ Chunk(io.offset, size) <= 0
  /\ pos' = pos + io.done - 2
  /\ reply' = Wrote(io.done)
  /\ io' = Idle
  /\ UNCHANGED <<length, sectors, text, row>>

-----------------------------------------------------------------------------
(* inode_read_at.                                                          *)

Reading(op, n, at) == [op |-> op, buffer |-> <<>>, size |-> n, offset |-> at]

Read(n) == /\ io = Idle
           /\ pos >= 0 \/ n = 0
           /\ io' = Reading("read", n, pos)
           /\ UNCHANGED <<length, sectors, pos, reply, text, row>>

\* cat and copy_out: read from the start as many bytes as the file has.
Dump == /\ io = Idle
        /\ io' = Reading("dump", length, 0)
        /\ UNCHANGED <<length, sectors, pos, reply, text, row>>

ReadChunk ==
  /\ io.op \in {"read", "dump"}
  /\ LET chunk == Chunk(io.offset, io.size)
     IN /\ io.size > 0 /\ chunk > 0
        /\ io' = [io EXCEPT !.buffer =
                    @ \o [i \in 1 .. chunk |->
                           sectors[io.offset \div SectorSize + 1]
                                  [(io.offset % SectorSize) + i - 1]],
                            !.size = @ - chunk,
                            !.offset = @ + chunk]
  /\ UNCHANGED <<length, sectors, pos, reply, text, row>>

\* file_seek back to the old position asserts that it is not negative, and
\* goes on.
ReadDone ==
  /\ io.op \in {"read", "dump"}
  /\ io.size <= 0 \/ Chunk(io.offset, io.size) <= 0
  /\ pos' = IF io.op = "read" THEN pos + Len(io.buffer) ELSE pos
  /\ reply' = IF io.op = "dump" /\ pos < 0 THEN Panicked ELSE ReadBytes(io.buffer)
  /\ row' = (row /\ io.op = "dump")
  /\ io' = Idle
  /\ UNCHANGED <<length, sectors, text>>

-----------------------------------------------------------------------------
(* The other commands.                                                     *)

\* A read at a negative position goes to sector -1, from before the bounce
\* buffer, and so does a write that inode_write_at does not give up first.
BeforeStart == /\ io = Idle
               /\ pos < 0
               /\ \/ \E t \in Texts : pos + Len(CommandBuffer(t)) >= 0
                  \/ \E n \in Sizes : n > 0
               /\ io' = Undefined
               /\ UNCHANGED <<length, sectors, pos, reply, text, row>>

\* file_seek asserts that the offset is not negative, and takes it.
Seek(n) == /\ io = Idle
           /\ pos' = n
           /\ row' = FALSE
           /\ reply' = IF n < 0 THEN Panicked ELSE NoReply
           /\ UNCHANGED <<length, sectors, io, text>>

\* close: the sectors of an extension that failed are forgotten.  find_file
\* ends like this, too.
Close == /\ io = Idle
         /\ sectors' = SubSeq(sectors, 1, bytes_to_sectors(length))
         /\ pos' = 0
         /\ row' = FALSE
         /\ reply' = NoReply
         /\ UNCHANGED <<length, io, text>>

\* rm and create.
Create(n) == /\ io = Idle
             /\ length' = n
             /\ sectors' = Reserved(<<>>, bytes_to_sectors(n))
             /\ pos' = 0
             /\ reply' = NoReply
             /\ text' = <<>>
             /\ row' = TRUE
             /\ UNCHANGED io

\* Creates a file of the length of buffer b and writes b.
Rewritten(b) == /\ length' = Len(b)
                /\ sectors' = Reserved(<<>>, bytes_to_sectors(Len(b)))
                /\ pos' = 0
                /\ io' = [op |-> "write", buffer |-> Ended(b), offset |-> 0,
                          done |-> 0]
                /\ row' = FALSE
                /\ UNCHANGED reply

\* rm and copy_in.
CopyIn(t) == /\ io = Idle
             /\ Len(t) < MaxLength
             /\ Rewritten(Append(t, NUL))
             /\ text' = t

\* Mutant of Defragment: the last byte is not read.
DefragmentShort == /\ io = Idle
                   /\ Rewritten(SubSeq(Content, 1, length - 1))
                   /\ UNCHANGED text

\* defragment reads the whole file, removes it, and makes it again.
Defragment == /\ io = Idle
              /\ Rewritten(Content)
              /\ UNCHANGED text

Next == \/ \E t \in Texts : Write(t) \/ WriteFails(t) \/ CopyIn(t)
        \/ \E n \in Sizes : Create(n) \/ Read(n)
        \/ \E n \in Places : Seek(n)
        \/ WriteChunk \/ WriteDone \/ ReadChunk \/ ReadDone
        \/ Dump \/ Close \/ Defragment \/ BeforeStart

Spec == Init /\ [][Next]_vars

-----------------------------------------------------------------------------
\* Every variable keeps its type, and the file has the sectors its length
\* needs, though extensions fail half-way and forget some when it is closed.
TypeOK ==
  /\ length \in 0 .. MaxLength
  /\ sectors \in Seq([Offsets -> Bytes])
  /\ length <= Len(sectors) * SectorSize
  /\ pos \in MinPos .. MaxLength
  /\ io.op \in {"idle", "read", "write", "dump", "undefined"}
  /\ reply.op \in {"none", "wrote", "read", "panic"}
  /\ text = Unknown \/ text \in Seq(Chars)
  /\ row \in BOOLEAN

\* Behind the end of the file its sectors hold zeros, those of an extension
\* that failed included: a later write behind the end leaves a gap of zeros
\* and nothing of an older file (inode.c:421).
PastEndIsZero ==
  \A i \in length .. Len(sectors) * SectorSize - 1 : ByteAt(i) = NUL

\* Between two calls the last byte of a file is a terminator, so the one that
\* file_write sets when defragment writes the file back (file.c:134) takes
\* nothing away.
LastByteIsZero == io = Idle /\ length > 0 => ByteAt(length - 1) = NUL

\* Texts written in a row to an empty file, or the text copied in, stand in
\* the file one behind the other, then zeros only: copy_out, which stops at
\* the first zero (fsutil2.c:83), gives them back, whatever was sought, read,
\* closed or defragmented in between.
TextKept ==
  io = Idle /\ text # Unknown =>
    /\ length >= Len(text)
    /\ \A i \in 1 .. length : Content[i] = IF i <= Len(text) THEN text[i]
                                                             ELSE NUL

\* The assertion of file_seek (file.c:183) holds when a command restores the
\* position that it found, unless the user sought a negative one.
NoPanic == reply # Panicked

\* Every call does at once and to the whole file what its loop does sector by
\* sector (file.h): a write counts from its start on, a read at its end.
Pending == IF io.op = "write"
           THEN SubSeq(io.buffer, io.done + 1, Len(io.buffer)) ELSE <<>>
Abstract == INSTANCE TextFile WITH
  content <- [i \in 1 .. length |->
                IF io.op = "write" /\ i - io.offset \in DOMAIN Pending
                THEN Pending[i - io.offset] ELSE ByteAt(i - 1)],
  pos <- IF io.op = "write" THEN pos + Len(io.buffer) - 2 ELSE pos,
  reply <- IF io.op = "write" THEN Wrote(Len(io.buffer)) ELSE reply
ImplementsTextFile == Abstract!Spec
=============================================================================
