-------------------------- MODULE FileBytesProofs ---------------------------
(***************************************************************************)
(* Proofs about FileBytes, for every size of the sectors: the invariants   *)
(* of its runs, and that it implements TextFile.                           *)
(*                                                                         *)
(* The proof speaks of what is seen of a file (View): its bytes with the   *)
(* part of a write over them that is still to come.  A turn of a loop      *)
(* leaves it, and between two calls it is the file.  Operators take the    *)
(* length, the sectors and the call in progress as parameters, so that     *)
(* lemmas about them hold before and after a step.  Byte numbers are split *)
(* into sector and offset in one place (Split), which keeps the other      *)
(* proofs linear.                                                          *)
(***************************************************************************)
EXTENDS FileBytes, SequenceTheorems, TLAPS

LEMMA SizesAre == /\ SectorSize \in Nat \ {0} /\ MaxLength \in Nat
                  /\ Sizes \subseteq 0 .. MaxLength
BY SizesAssumption

LEMMA LowestIs == MinPos \in Int /\ MinPos <= -2
BY SizesAssumption

USE SizesAre

LEMMA DivMod ==
  ASSUME NEW i \in Nat
  PROVE  /\ i \div SectorSize \in Nat
         /\ i % SectorSize \in 0 .. SectorSize - 1
         /\ i = (i \div SectorSize) * SectorSize + (i % SectorSize)
OBVIOUS

LEMMA Multiples ==
  ASSUME NEW k \in Nat, NEW m \in Nat
  PROVE  /\ k * SectorSize \in Nat
         /\ k < m => k * SectorSize + SectorSize <= m * SectorSize
         /\ k <= m => k * SectorSize <= m * SectorSize
         /\ (k + m) * SectorSize = k * SectorSize + m * SectorSize
OBVIOUS

LEMMA DivModUnique ==
  ASSUME NEW k \in Nat, NEW o \in 0 .. SectorSize - 1
  PROVE  /\ (k * SectorSize + o) \div SectorSize = k
         /\ (k * SectorSize + o) % SectorSize = o
OBVIOUS

\* A byte's number is its sector and its offset there.
LEMMA Split ==
  ASSUME NEW i \in Nat
  PROVE  \E k \in Nat, o \in Offsets :
           /\ i = k * SectorSize + o /\ k * SectorSize \in Nat
           /\ i \div SectorSize = k /\ i % SectorSize = o
BY DivMod, Multiples DEF Offsets

-----------------------------------------------------------------------------
(* The bytes of a sequence of sectors.                                     *)

Contents == [Offsets -> Bytes]
Byte(ss, i) == ss[i \div SectorSize + 1][i % SectorSize]

LEMMA ByteType ==
  ASSUME NEW ss \in Seq(Contents), NEW i \in 0 .. Len(ss) * SectorSize - 1
  PROVE  /\ i \in Nat
         /\ i \div SectorSize + 1 \in 1 .. Len(ss)
         /\ i % SectorSize \in Offsets
         /\ Byte(ss, i) \in Bytes
<1>0. i \in Nat /\ Len(ss) \in Nat /\ Len(ss) * SectorSize \in Nat
  BY Multiples
<1>1. PICK k \in Nat, o \in Offsets :
        /\ i = k * SectorSize + o /\ k * SectorSize \in Nat
        /\ i \div SectorSize = k /\ i % SectorSize = o
  BY <1>0, Split
<1>2. k < Len(ss)
  <2>1. Len(ss) <= k => Len(ss) * SectorSize <= k * SectorSize
    BY <1>0, Multiples
  <2> QED
    BY <1>0, <1>1, <2>1 DEF Offsets
<1>3. k + 1 \in 1 .. Len(ss)
  BY <1>0, <1>2
<1>4. ss[k + 1] \in Contents
  BY <1>3
<1> QED
  BY <1>0, <1>1, <1>3, <1>4 DEF Byte, Contents

LEMMA ZeroSectorType == ZeroSector \in Contents /\ NUL \in Bytes
BY DEF ZeroSector, Contents, Bytes

LEMMA ReservedBytes ==
  ASSUME NEW ss \in Seq(Contents), NEW more \in Nat
  PROVE  LET new == Reserved(ss, more)
         IN /\ new \in Seq(Contents)
            /\ Len(new) = Len(ss) + more
            /\ \A i \in 0 .. Len(ss) * SectorSize - 1 : Byte(new, i) = Byte(ss, i)
            /\ \A i \in Len(ss) * SectorSize .. Len(new) * SectorSize - 1 :
                 Byte(new, i) = NUL
<1> DEFINE z == [k \in 1 .. more |-> ZeroSector]
           new == ss \o z
<1>1. z \in Seq(Contents) /\ Len(z) = more
  BY ZeroSectorType
<1>2. /\ new \in Seq(Contents) /\ Len(new) = Len(ss) + more
      /\ \A k \in 1 .. Len(ss) + more :
           new[k] = IF k <= Len(ss) THEN ss[k] ELSE z[k - Len(ss)]
  BY <1>1, ConcatProperties
<1>3. \A k \in 1 .. Len(ss) : new[k] = ss[k]
  BY <1>2
<1>4. \A k \in Len(ss) + 1 .. Len(new) : new[k] = ZeroSector
  BY <1>2
<1>5. new = Reserved(ss, more)
  BY DEF Reserved
<1> HIDE DEF new, z
<1>6. ASSUME NEW i \in 0 .. Len(ss) * SectorSize - 1
      PROVE  Byte(new, i) = Byte(ss, i)
  BY <1>3, ByteType DEF Byte
<1>7. ASSUME NEW i \in Len(ss) * SectorSize .. Len(new) * SectorSize - 1
      PROVE  Byte(new, i) = NUL
  <2>1. Len(ss) \in Nat /\ Len(ss) * SectorSize \in Nat
    BY Multiples
  <2>2. i \in 0 .. Len(new) * SectorSize - 1
    BY <2>1
  <2>3. i \in Nat /\ i \div SectorSize + 1 \in 1 .. Len(new)
    BY <1>2, <2>2, ByteType
  <2>4. PICK k \in Nat, o \in Offsets :
          /\ i = k * SectorSize + o /\ k * SectorSize \in Nat
          /\ i \div SectorSize = k /\ i % SectorSize = o
    BY <2>3, Split
  <2>5. k >= Len(ss)
    <3>1. k < Len(ss) => k * SectorSize + SectorSize <= Len(ss) * SectorSize
      BY <2>1, Multiples
    <3> QED
      BY <2>1, <2>4, <3>1 DEF Offsets
  <2>6. k + 1 \in Len(ss) + 1 .. Len(new)
    BY <1>2, <2>1, <2>3, <2>4, <2>5
  <2>7. new[k + 1] = ZeroSector
    BY <1>4, <2>6
  <2> QED
    BY <2>4, <2>7 DEF Byte, ZeroSector
<1> QED
  BY <1>2, <1>5, <1>6, <1>7

LEMMA CutBytes ==
  ASSUME NEW ss \in Seq(Contents), NEW n \in 0 .. Len(ss)
  PROVE  LET new == SubSeq(ss, 1, n)
         IN /\ new \in Seq(Contents)
            /\ Len(new) = n
            /\ \A i \in 0 .. n * SectorSize - 1 : Byte(new, i) = Byte(ss, i)
<1> DEFINE new == SubSeq(ss, 1, n)
<1>1. /\ new \in Seq(Contents) /\ Len(new) = n
      /\ \A k \in 1 .. n : new[k] = ss[k]
  BY SubSeqProperties
<1> HIDE DEF new
<1>2. ASSUME NEW i \in 0 .. n * SectorSize - 1
      PROVE  Byte(new, i) = Byte(ss, i)
  <2>1. i \div SectorSize + 1 \in 1 .. n
    BY <1>1, ByteType
  <2> QED
    BY <1>1, <2>1 DEF Byte
<1> QED
  BY <1>1, <1>2 DEF new

\* Bytes b fit into one sector at offset `at`, and old is what is there if
\* they do not fill the sector.
Fits(ss, at, b, old) ==
  /\ b \in Seq(Bytes) /\ Len(b) > 0
  /\ at + Len(b) <= Len(ss) * SectorSize
  /\ (at % SectorSize) + Len(b) <= SectorSize
  /\ old \in Contents
  /\ \/ old = ss[at \div SectorSize + 1]
     \/ at % SectorSize = 0 /\ Len(b) = SectorSize

\* The bytes of rr are those of ss with b over them.
Over(ss, at, b, rr) ==
  \A j \in 0 .. Len(ss) * SectorSize - 1 :
    Byte(rr, j) = IF j - at \in 0 .. Len(b) - 1
                  THEN b[j - at + 1] ELSE Byte(ss, j)

Patches(ss, at, b, old, rr) ==
  rr = [ss EXCEPT ![at \div SectorSize + 1] = Patched(old, at % SectorSize, b)]

LEMMA PatchedBytes ==
  ASSUME NEW ss \in Seq(Contents), NEW at \in Nat, NEW b, NEW old,
         Fits(ss, at, b, old),
         NEW rr, Patches(ss, at, b, old, rr)
  PROVE  rr \in Seq(Contents) /\ Len(rr) = Len(ss) /\ Over(ss, at, b, rr)
<1>0. /\ b \in Seq(Bytes) /\ Len(b) > 0
      /\ at + Len(b) <= Len(ss) * SectorSize
      /\ (at % SectorSize) + Len(b) <= SectorSize
      /\ old \in Contents
      /\ \/ old = ss[at \div SectorSize + 1]
         \/ at % SectorSize = 0 /\ Len(b) = SectorSize
  BY DEF Fits
<1>1. Len(b) \in Nat /\ Len(ss) \in Nat /\ Len(ss) * SectorSize \in Nat
  BY <1>0, Multiples
<1>2. PICK k \in Nat, o \in Offsets :
        /\ at = k * SectorSize + o /\ k * SectorSize \in Nat
        /\ at \div SectorSize = k /\ at % SectorSize = o
  BY Split
<1> DEFINE p == Patched(old, o, b)
           new == [ss EXCEPT ![k + 1] = p]
<1>3. k + 1 \in 1 .. Len(ss)
  <2>1. at \in 0 .. Len(ss) * SectorSize - 1
    BY <1>0, <1>1
  <2> QED
    BY <1>2, <2>1, ByteType
<1>4. p \in Contents
  BY <1>0 DEF Patched, Contents
<1>5. \A i \in Offsets : p[i] = IF i - o + 1 \in 1 .. Len(b)
                                 THEN b[i - o + 1] ELSE old[i]
  BY <1>0 DEF Patched
<1> HIDE DEF p
<1>6. /\ new \in Seq(Contents) /\ Len(new) = Len(ss)
      /\ \A i \in 1 .. Len(ss) : new[i] = IF i = k + 1 THEN p ELSE ss[i]
  BY <1>3, <1>4, ExceptSeq
<1> HIDE DEF new
<1>7. o + Len(b) <= SectorSize /\ Len(b) > 0
        /\ (old = ss[k + 1] \/ (o = 0 /\ Len(b) = SectorSize))
  BY <1>0, <1>2
<1>8. ASSUME NEW j \in 0 .. Len(ss) * SectorSize - 1
      PROVE  Byte(new, j) = IF j - at \in 0 .. Len(b) - 1
                            THEN b[j - at + 1] ELSE Byte(ss, j)
  <2>1. j \in Nat /\ j \div SectorSize + 1 \in 1 .. Len(ss)
    BY ByteType
  <2>2. PICK m \in Nat, r \in Offsets :
          /\ j = m * SectorSize + r /\ m * SectorSize \in Nat
          /\ j \div SectorSize = m /\ j % SectorSize = r
    BY <2>1, Split
  <2>3. Byte(new, j) = new[m + 1][r] /\ Byte(ss, j) = ss[m + 1][r]
          /\ m + 1 \in 1 .. Len(ss)
    BY <2>1, <2>2 DEF Byte
  <2>4. m = k => r - o = j - at
    BY <1>2, <2>2 DEF Offsets
  <2>5. j - at \in 0 .. Len(b) - 1 => m = k
    <3>1. m < k => m * SectorSize + SectorSize <= k * SectorSize
      BY Multiples
    <3>2. k < m => k * SectorSize + SectorSize <= m * SectorSize
      BY Multiples
    <3>3. PICK K \in Nat : K = k * SectorSize
      BY <1>2
    <3>4. PICK M \in Nat : M = m * SectorSize
      BY <2>2
    <3>5. at = K + o /\ j = M + r /\ o < SectorSize /\ r < SectorSize
            /\ o \in Nat /\ r \in Nat
      BY <1>2, <2>2, <3>3, <3>4 DEF Offsets
    <3>6. m < k => M + SectorSize <= K
      BY <3>1, <3>3, <3>4
    <3>7. k < m => K + SectorSize <= M
      BY <3>2, <3>3, <3>4
    <3>8. j - at \in 0 .. Len(b) - 1 => ~(M + SectorSize <= K)
      BY <1>1, <3>5
    <3>9. j - at \in 0 .. Len(b) - 1 => ~(K + SectorSize <= M)
      BY <1>1, <1>7, <3>5
    <3> QED
      BY <3>6, <3>7, <3>8, <3>9
  <2>6. CASE m # k
    BY <1>6, <2>3, <2>5, <2>6
  <2>7. CASE m = k
    <3>1. Byte(new, j) = IF r - o + 1 \in 1 .. Len(b)
                         THEN b[r - o + 1] ELSE old[r]
      BY <1>3, <1>5, <1>6, <2>3, <2>7
    <3>2. r - o = j - at
      BY <2>4, <2>7
    <3>3. CASE j - at \in 0 .. Len(b) - 1
      BY <1>1, <3>1, <3>2, <3>3
    <3>4. CASE j - at \notin 0 .. Len(b) - 1
      <4>1. r - o + 1 \notin 1 .. Len(b)
        BY <1>1, <3>2, <3>4 DEF Offsets
      <4>2. Byte(new, j) = old[r]
        BY <3>1, <4>1
      <4>3. ~(o = 0 /\ Len(b) = SectorSize)
        BY <4>1 DEF Offsets
      <4>4. old = ss[k + 1]
        BY <1>7, <4>3
      <4> QED
        BY <2>3, <2>7, <3>4, <4>2, <4>4
    <3> QED
      BY <3>3, <3>4
  <2> QED
    BY <2>6, <2>7
<1> QED
  BY <1>2, <1>6, <1>8 DEF new, p, Over, Patches

-----------------------------------------------------------------------------
(* The inductive invariant.  Operators have the state as parameters: the   *)
(* length len, the sectors ss, the read or write x in progress, and the    *)
(* position at.                                                            *)

\* What a caller sees of the file: a write counts from its start on.
Seen(len, ss, x, at) ==
  [i \in 1 .. len |->
     IF x.op = "write" /\ i - at \in x.done + 1 .. Len(x.buffer)
     THEN x.buffer[i - at] ELSE Byte(ss, i - 1)]

AtEnd(x, at) == IF x.op = "write" THEN at + Len(x.buffer) - 2 ELSE at

\* The file's sectors hold its length, and zeros behind it.
Stored(len, ss) ==
  /\ len \in 0 .. MaxLength
  /\ ss \in Seq(Contents)
  /\ len <= Len(ss) * SectorSize
  /\ \A i \in len .. Len(ss) * SectorSize - 1 : Byte(ss, i) = NUL

WriteGoes(len, x, at) ==
  /\ x \in [op : {"write"}, buffer : Seq(Bytes), offset : Nat, done : Nat]
  /\ at \in Nat
  /\ x.done <= Len(x.buffer)
  /\ x.offset = at + x.done
  /\ at + Len(x.buffer) <= len

\* The first byte to read.
From(x, at) == IF x.op = "dump" THEN 0 ELSE at

\* What was asked for is what was read and what is left.
ReadGoes(len, ss, x, at) ==
  /\ x \in [op : {"read", "dump"}, buffer : Seq(Bytes), size : Nat,
            offset : Int]
  /\ x.offset = From(x, at) + Len(x.buffer)
  /\ x.buffer = <<>> => From(x, at) \in Nat \/ x.size = 0
  /\ x.buffer # <<>> => From(x, at) \in Nat /\ x.offset <= len
  /\ \A i \in 1 .. Len(x.buffer) : x.buffer[i] = Byte(ss, From(x, at) + i - 1)
  /\ IF x.op = "read" THEN Len(x.buffer) + x.size \in Sizes
                      ELSE Len(x.buffer) + x.size = len

\* Contents c is text t and zeros.
Holds(c, len, t) ==
  /\ Len(t) <= len
  /\ \A i \in 1 .. len : c[i] = IF i <= Len(t) THEN t[i] ELSE NUL

Ends(c, len) == len > 0 => c[len] = NUL

View == Seen(length, sectors, io, pos)

\* The call in progress.
Calls == \/ io \in {Idle, Undefined}
         \/ WriteGoes(length, io, pos)
         \/ ReadGoes(length, sectors, io, pos)

TextGoes ==
  /\ row \in BOOLEAN
  /\ text = Unknown \/ text \in Seq(Chars)
  /\ text # Unknown => Holds(View, length, text)
  /\ row => text # Unknown /\ AtEnd(io, pos) = Len(text)

IInv == /\ Stored(length, sectors)
        /\ pos \in MinPos .. MaxLength
        /\ reply.op \in {"none", "wrote", "read", "panic"}
        /\ Calls
        /\ Ends(View, length)
        /\ TextGoes

-----------------------------------------------------------------------------
(* What calls do to the bytes.                                             *)

LEMMA SectorsFor ==
  ASSUME NEW n \in Nat
  PROVE  /\ bytes_to_sectors(n) \in Nat
         /\ n <= bytes_to_sectors(n) * SectorSize
         /\ \A m \in Nat : n <= m * SectorSize => bytes_to_sectors(n) <= m
<1>1. n + SectorSize - 1 \in Nat
  OBVIOUS
<1>2. PICK k \in Nat, o \in Offsets :
        /\ n + SectorSize - 1 = k * SectorSize + o /\ k * SectorSize \in Nat
        /\ (n + SectorSize - 1) \div SectorSize = k
  BY <1>1, Split
<1>3. bytes_to_sectors(n) = k
  BY <1>2 DEF bytes_to_sectors
<1>4. PICK K \in Nat : K = k * SectorSize
  BY <1>2
<1>5. n + SectorSize - 1 = K + o /\ o \in Nat /\ o <= SectorSize - 1
  BY <1>2, <1>4 DEF Offsets
<1>6. n <= K
  BY <1>5
<1>7. ASSUME NEW m \in Nat, n <= m * SectorSize
      PROVE  k <= m
  <2>1. PICK M \in Nat : M = m * SectorSize
    BY Multiples
  <2>2. m < k => M + SectorSize <= K
    BY <1>4, <2>1, Multiples
  <2>3. ~(M + SectorSize <= K)
    BY <1>5, <1>7, <2>1
  <2> QED
    BY <2>2, <2>3
<1> QED
  BY <1>3, <1>4, <1>6, <1>7

\* What Stored gives, without the sectors.
LEMMA StoredFacts ==
  ASSUME NEW len, NEW ss, Stored(len, ss)
  PROVE  /\ len \in Nat /\ len <= MaxLength /\ Len(ss) \in Nat
         /\ \A i \in 0 .. len - 1 : Byte(ss, i) \in Bytes
         /\ ss \in Seq(Contents)
<1>1. len \in Nat /\ ss \in Seq(Contents) /\ Len(ss) \in Nat
        /\ len <= Len(ss) * SectorSize /\ len <= MaxLength
  BY DEF Stored
<1>2. Len(ss) * SectorSize \in Nat
  BY <1>1, Multiples
<1>3. ASSUME NEW i \in 0 .. len - 1
      PROVE  Byte(ss, i) \in Bytes
  <2>1. i \in 0 .. Len(ss) * SectorSize - 1
    BY <1>1, <1>2
  <2> QED
    BY <1>1, <2>1, ByteType
<1> QED
  BY <1>1, <1>3

\* A longer file has zeros behind what it had.
Grown(len, ss, new, rr) ==
  /\ new \in Nat /\ len <= new
  /\ \A i \in 0 .. new - 1 :
       Byte(rr, i) = IF i < len THEN Byte(ss, i) ELSE NUL

LEMMA StoredGrows ==
  ASSUME NEW len, NEW ss, Stored(len, ss), NEW more \in Nat,
         NEW new \in Nat, len <= new, new <= MaxLength,
         new <= (Len(ss) + more) * SectorSize
  PROVE  /\ Stored(new, Reserved(ss, more))
         /\ Grown(len, ss, new, Reserved(ss, more))
<1>1. len \in Nat /\ ss \in Seq(Contents) /\ Len(ss) \in Nat
  BY StoredFacts
<1>2. PICK rr : rr = Reserved(ss, more)
  OBVIOUS
<1>3. /\ rr \in Seq(Contents)
      /\ Len(rr) = Len(ss) + more
      /\ \A i \in 0 .. Len(ss) * SectorSize - 1 : Byte(rr, i) = Byte(ss, i)
      /\ \A i \in Len(ss) * SectorSize .. Len(rr) * SectorSize - 1 :
           Byte(rr, i) = NUL
  BY <1>1, <1>2, ReservedBytes
<1>4. PICK c \in Nat : c = Len(ss) * SectorSize
  BY <1>1, Multiples
<1>5. PICK d \in Nat : d = Len(rr) * SectorSize
  BY <1>1, <1>3, Multiples
<1>6. len <= c /\ new <= d /\ \A i \in len .. c - 1 : Byte(ss, i) = NUL
  BY <1>3, <1>4, <1>5 DEF Stored
<1>7. \A i \in 0 .. d - 1 :
        Byte(rr, i) = IF i < len THEN Byte(ss, i) ELSE NUL
  BY <1>1, <1>3, <1>4, <1>5, <1>6
<1>8. Stored(new, rr)
  BY <1>1, <1>3, <1>5, <1>6, <1>7 DEF Stored
<1>9. Grown(len, ss, new, rr)
  BY <1>6, <1>7 DEF Grown
<1> QED
  BY <1>2, <1>8, <1>9

\* A new file.
LEMMA StoredNew ==
  ASSUME NEW n \in 0 .. MaxLength
  PROVE  LET rr == Reserved(<<>>, bytes_to_sectors(n))
         IN /\ Stored(n, rr)
            /\ \A i \in 0 .. n - 1 : Byte(rr, i) = NUL
            /\ rr = [k \in 1 .. bytes_to_sectors(n) |-> ZeroSector]
<1>1. Stored(0, <<>>)
  <2>1. 0 * SectorSize = 0 /\ Len(<<>>) = 0 /\ <<>> \in Seq(Contents)
    BY Multiples
  <2> QED
    BY <2>1 DEF Stored
<1>2. bytes_to_sectors(n) \in Nat /\ n <= bytes_to_sectors(n) * SectorSize
  BY SectorsFor
<1>3. PICK k \in Nat : k = bytes_to_sectors(n)
  BY <1>2
<1>4. n <= (Len(<<>>) + k) * SectorSize
  BY <1>2, <1>3
<1>5. PICK rr : rr = Reserved(<<>>, k)
  OBVIOUS
<1>6. Stored(n, rr) /\ Grown(0, <<>>, n, rr)
  BY <1>1, <1>4, <1>5, StoredGrows
<1>7. rr = [j \in 1 .. k |-> ZeroSector]
  <2>1. [j \in 1 .. k |-> ZeroSector] \in Seq(Contents)
    BY ZeroSectorType
  <2> QED
    BY <1>5, <2>1, ConcatEmptySeq DEF Reserved
<1> QED
  BY <1>3, <1>5, <1>6, <1>7 DEF Grown

\* The sectors of an extension that failed are forgotten.
LEMMA StoredCut ==
  ASSUME NEW len, NEW ss, Stored(len, ss)
  PROVE  LET rr == SubSeq(ss, 1, bytes_to_sectors(len))
         IN Stored(len, rr) /\ Grown(len, ss, len, rr)
<1>1. len \in Nat /\ ss \in Seq(Contents) /\ Len(ss) \in Nat
  BY StoredFacts
<1>2. bytes_to_sectors(len) \in 0 .. Len(ss)
        /\ len <= bytes_to_sectors(len) * SectorSize
  BY <1>1, SectorsFor DEF Stored
<1>3. PICK n \in 0 .. Len(ss) : n = bytes_to_sectors(len)
  BY <1>2
<1>4. PICK rr : rr = SubSeq(ss, 1, n)
  OBVIOUS
<1>5. /\ rr \in Seq(Contents) /\ Len(rr) = n
      /\ \A i \in 0 .. n * SectorSize - 1 : Byte(rr, i) = Byte(ss, i)
  BY <1>1, <1>4, CutBytes
<1>6. PICK c \in Nat : c = Len(ss) * SectorSize
  BY <1>1, Multiples
<1>7. PICK d \in Nat : d = n * SectorSize
  BY <1>1, Multiples
<1>8. d <= c /\ len <= d
  BY <1>1, <1>2, <1>3, <1>6, <1>7, Multiples
<1>9. /\ \A i \in len .. c - 1 : Byte(ss, i) = NUL
      /\ \A i \in 0 .. d - 1 : Byte(rr, i) = Byte(ss, i)
  BY <1>5, <1>6, <1>7 DEF Stored
<1>10. \A i \in len .. d - 1 : Byte(rr, i) = NUL
  BY <1>1, <1>8, <1>9
<1>11. Stored(len, rr)
  BY <1>5, <1>7, <1>8, <1>10, StoredFacts DEF Stored
<1>12. Grown(len, ss, len, rr)
  BY <1>1, <1>8, <1>9 DEF Grown
<1> QED
  BY <1>3, <1>4, <1>11, <1>12

AtRest(c, len, ss) == c = [i \in 1 .. len |-> Byte(ss, i - 1)]

LongEnough(new, len, end) == new = IF end > len THEN end ELSE len

Pens(x, b, at) ==
  x = [op |-> "write", buffer |-> b, offset |-> at, done |-> 0]

\* A write is seen at once: it lies over what the file was, and over zeros.
LEMMA WriteIsSeen ==
  ASSUME NEW len \in Nat, NEW ss, NEW at \in Nat, NEW b \in Seq(Bytes),
         NEW new \in Nat, NEW rr, Grown(len, ss, new, rr),
         LongEnough(new, len, at + Len(b)), NEW x, Pens(x, b, at),
         NEW c, AtRest(c, len, ss)
  PROVE  Seen(new, rr, x, at) = Abstract!Overlaid(c, at, b)
<1> USE DEF AtRest, LongEnough, Pens
<1>1. Len(c) = len /\ Len(b) \in Nat
  OBVIOUS
<1>2. Abstract!Overlaid(c, at, b) =
        [i \in 1 .. new |->
           CASE i - at \in 1 .. Len(b) -> b[i - at]
             [] i - at \notin 1 .. Len(b) /\ i <= len -> c[i]
             [] OTHER -> NUL]
  BY <1>1 DEF Abstract!Overlaid, NUL, Abstract!NUL
<1>3. ASSUME NEW i \in 1 .. new
      PROVE  (IF x.op = "write" /\ i - at \in x.done + 1 .. Len(x.buffer)
              THEN x.buffer[i - at] ELSE Byte(rr, i - 1))
             = (CASE i - at \in 1 .. Len(b) -> b[i - at]
                  [] i - at \notin 1 .. Len(b) /\ i <= len -> c[i]
                  [] OTHER -> NUL)
  <2>1. CASE i - at \in 1 .. Len(b)
    BY <2>1
  <2>2. CASE i - at \notin 1 .. Len(b)
    <3>1. i - 1 \in 0 .. new - 1 /\ (i - 1 < len <=> i <= len)
      OBVIOUS
    <3>2. Byte(rr, i - 1) = IF i <= len THEN Byte(ss, i - 1) ELSE NUL
      BY <3>1 DEF Grown
    <3>3. i <= len => c[i] = Byte(ss, i - 1)
      OBVIOUS
    <3> QED
      BY <2>2, <3>2, <3>3
  <2> QED
    BY <2>1, <2>2
<1> QED
  BY <1>2, <1>3 DEF Seen

LEMMA MinOfThree ==
  ASSUME NEW i \in Int, NEW j \in Int, NEW k \in Int
  PROVE  /\ Min({i, j, k}) \in {i, j, k}
         /\ Min({i, j, k}) <= i /\ Min({i, j, k}) <= j /\ Min({i, j, k}) <= k
<1>1. \E m \in {i, j, k} : \A n \in {i, j, k} : m <= n
  OBVIOUS
<1> QED
  BY <1>1 DEF Min

\* A turn of a loop goes neither past what is asked for, nor past the end of
\* the file, nor past that of the sector.
LEMMA ChunkFacts ==
  ASSUME length \in Nat, NEW at \in Nat, NEW size \in Int
  PROVE  /\ Chunk(at, size) \in Int
         /\ Chunk(at, size) <= size
         /\ Chunk(at, size) <= length - at
         /\ at % SectorSize \in Offsets
         /\ Chunk(at, size) + (at % SectorSize) <= SectorSize
         /\ size > 0 /\ at < length => Chunk(at, size) > 0
<1>1. PICK o \in Offsets : o = at % SectorSize
  BY Split
<1>2. PICK j \in Int : j = length - at
  OBVIOUS
<1>3. PICK k \in Int : k = SectorSize - o /\ k > 0
  BY DEF Offsets
<1>4. Chunk(at, size) = Min({size, j, k})
  BY <1>1, <1>2, <1>3 DEF Chunk
<1>5. /\ Min({size, j, k}) \in {size, j, k}
      /\ Min({size, j, k}) <= size /\ Min({size, j, k}) <= j
      /\ Min({size, j, k}) <= k
  BY MinOfThree
<1>6. PICK m \in Int : m = Chunk(at, size)
  BY <1>4, <1>5
<1>7. m <= size /\ m <= j /\ m <= k /\ (m = size \/ m = j \/ m = k)
  BY <1>4, <1>5, <1>6
<1>8. m + o <= SectorSize /\ (size > 0 /\ at < length => m > 0)
  BY <1>2, <1>3, <1>7 DEF Offsets
<1> QED
  BY <1>1, <1>2, <1>6, <1>7, <1>8

-----------------------------------------------------------------------------
(* The loops.                                                              *)

LEMMA CallOfOp ==
  ASSUME Calls
  PROVE  /\ io.op = "write" => WriteGoes(length, io, pos)
         /\ io.op \in {"read", "dump"} => ReadGoes(length, sectors, io, pos)
         /\ io = Idle => io.op = "idle"
BY DEF Calls, Idle, Undefined, WriteGoes, ReadGoes

\* A step that nobody sees.
LEMMA SameText ==
  ASSUME TextGoes, Ends(View, length), View' = View, length' = length,
         text' = text, row' = row, AtEnd(io, pos)' = AtEnd(io, pos)
  PROVE  TextGoes' /\ Ends(View, length)'
BY DEF TextGoes, Ends, Holds

\* Part of what is written.
LEMMA PieceFacts ==
  ASSUME NEW b \in Seq(Bytes), NEW d \in Nat, NEW m \in Nat, m > 0,
         d + m <= Len(b)
  PROVE  LET p == SubSeq(b, d + 1, d + m)
         IN /\ p \in Seq(Bytes) /\ Len(p) = m
            /\ \A i \in 1 .. m : p[i] = b[d + i]
<1>1. Len(b) \in Nat /\ \A i \in d + 1 .. d + m : b[i] \in Bytes
  OBVIOUS
<1>2. PICK p : p = SubSeq(b, d + 1, d + m)
  OBVIOUS
<1>3. d + 1 \in Int /\ d + m \in Int /\ d + 1 <= d + m
  OBVIOUS
<1>4. /\ p \in Seq(Bytes)
      /\ Len(p) = d + m - (d + 1) + 1
      /\ \A i \in 1 .. d + m - (d + 1) + 1 : p[i] = b[d + 1 + i - 1]
  BY <1>1, <1>2, <1>3, SubSeqProperties
<1>5. d + m - (d + 1) + 1 = m /\ \A i \in 1 .. m : d + 1 + i - 1 = d + i
  OBVIOUS
<1> QED
  BY <1>2, <1>4, <1>5

\* A turn of inode_write_at, for the sectors ss of a file of length len.
Aside(ss, off, p, old) ==
  old = IF off % SectorSize > 0 \/ Len(p) < SectorSize - (off % SectorSize)
        THEN ss[off \div SectorSize + 1] ELSE ZeroSector

Turned(len, ss, off, p, rr) ==
  \A j \in 0 .. len - 1 :
    Byte(rr, j) = IF j - off \in 0 .. Len(p) - 1
                  THEN p[j - off + 1] ELSE Byte(ss, j)

LEMMA TurnOfWrite ==
  ASSUME NEW len, NEW ss, Stored(len, ss), NEW off \in Nat,
         NEW p \in Seq(Bytes), Len(p) > 0, off + Len(p) <= len,
         (off % SectorSize) + Len(p) <= SectorSize,
         NEW old, Aside(ss, off, p, old), NEW rr, Patches(ss, off, p, old, rr)
  PROVE  Stored(len, rr) /\ Turned(len, ss, off, p, rr)
<1>1. /\ len \in Nat /\ len <= MaxLength /\ ss \in Seq(Contents)
      /\ Len(ss) \in Nat /\ Len(p) \in Nat
  BY StoredFacts
<1>2. PICK c \in Nat : c = Len(ss) * SectorSize
  BY <1>1, Multiples
<1>3. len <= c /\ \A i \in len .. c - 1 : Byte(ss, i) = NUL
  BY <1>2 DEF Stored
<1>4. off + Len(p) <= c /\ off \in 0 .. c - 1
  BY <1>1, <1>3
<1>5. off \div SectorSize + 1 \in 1 .. Len(ss) /\ off % SectorSize \in Offsets
  BY <1>1, <1>2, <1>4, ByteType
<1>6. PICK o \in Offsets : o = off % SectorSize
  BY <1>5
<1>7. PICK k \in 1 .. Len(ss) : k = off \div SectorSize + 1
  BY <1>5
<1>8. o + Len(p) <= SectorSize
        /\ old = IF o > 0 \/ Len(p) < SectorSize - o THEN ss[k] ELSE ZeroSector
  BY <1>6, <1>7 DEF Aside
<1>9. old \in Contents /\ (old = ss[k] \/ (o = 0 /\ Len(p) = SectorSize))
  <2>1. ss[k] \in Contents
    BY <1>1, <1>7
  <2>2. ~(o > 0 \/ Len(p) < SectorSize - o) => o = 0 /\ Len(p) = SectorSize
    BY <1>1, <1>8 DEF Offsets
  <2> QED
    BY <1>8, <2>1, <2>2, ZeroSectorType
<1>10. /\ rr \in Seq(Contents) /\ Len(rr) = Len(ss)
       /\ \A j \in 0 .. c - 1 :
            Byte(rr, j) = IF j - off \in 0 .. Len(p) - 1
                          THEN p[j - off + 1] ELSE Byte(ss, j)
  <2>1. Fits(ss, off, p, old)
    BY <1>2, <1>4, <1>6, <1>7, <1>9 DEF Fits
  <2>2. rr \in Seq(Contents) /\ Len(rr) = Len(ss) /\ Over(ss, off, p, rr)
    BY <1>1, <2>1, PatchedBytes
  <2> QED
    BY <1>2, <2>2 DEF Over
<1>11. \A i \in len .. c - 1 : Byte(rr, i) = NUL
  <2> TAKE i \in len .. c - 1
  <2>1. i \in 0 .. c - 1 /\ i - off \notin 0 .. Len(p) - 1
    BY <1>1
  <2> QED
    BY <1>3, <1>10, <2>1
<1>12. \A j \in 0 .. len - 1 : j \in 0 .. c - 1
  BY <1>1, <1>3
<1>13. Stored(len, rr)
  BY <1>1, <1>2, <1>3, <1>10, <1>11 DEF Stored
<1> QED
  BY <1>10, <1>12, <1>13 DEF Turned

\* It puts into the sector what was seen already.
Piece(p, b, d, m) == Len(p) = m /\ \A i \in 1 .. m : p[i] = b[d + i]

WrittenUpTo(x, b, d) == x.op = "write" /\ x.buffer = b /\ x.done = d

TurnOf(len, ss, rr, at, b, d, m, p, x, y) ==
  /\ len \in Nat /\ at \in Nat /\ b \in Seq(Bytes) /\ d \in Nat /\ m \in Nat
  /\ d + m <= Len(b)
  /\ Piece(p, b, d, m) /\ Turned(len, ss, at + d, p, rr)
  /\ WrittenUpTo(x, b, d) /\ WrittenUpTo(y, b, d + m)

LEMMA TurnNotSeen ==
  ASSUME NEW len, NEW ss, NEW rr, NEW at, NEW b, NEW d, NEW m, NEW p, NEW x,
         NEW y, TurnOf(len, ss, rr, at, b, d, m, p, x, y)
  PROVE  Seen(len, rr, y, at) = Seen(len, ss, x, at)
<1>0. /\ len \in Nat /\ at \in Nat /\ b \in Seq(Bytes) /\ d \in Nat /\ m \in Nat
      /\ d + m <= Len(b)
      /\ Piece(p, b, d, m) /\ Turned(len, ss, at + d, p, rr)
      /\ WrittenUpTo(x, b, d) /\ WrittenUpTo(y, b, d + m)
  BY DEF TurnOf
<1>1. ASSUME NEW i \in 1 .. len
      PROVE  (IF i - at \in d + m + 1 .. Len(b)
              THEN b[i - at] ELSE Byte(rr, i - 1))
             = (IF i - at \in d + 1 .. Len(b)
                THEN b[i - at] ELSE Byte(ss, i - 1))
  <2>1. PICK r \in Int : r = i - at
    BY <1>0
  <2>2. i - 1 \in 0 .. len - 1 /\ i - 1 - (at + d) = r - d - 1
          /\ Len(b) \in Nat
    BY <1>0, <2>1
  <2>3. Byte(rr, i - 1) = IF r - d - 1 \in 0 .. m - 1
                          THEN p[r - d - 1 + 1] ELSE Byte(ss, i - 1)
    BY <1>0, <2>2 DEF Turned, Piece
  <2>4. CASE r \in d + 1 .. d + m
    <3>1. PICK j \in 1 .. m : r = d + j
      <4>1. r - d \in 1 .. m /\ r = d + (r - d)
        BY <1>0, <2>4
      <4> QED
        BY <1>0, <4>1
    <3>2. r - d - 1 \in 0 .. m - 1 /\ r - d - 1 + 1 = j
      BY <1>0, <3>1
    <3>3. Byte(rr, i - 1) = b[r]
      BY <1>0, <2>3, <3>1, <3>2 DEF Piece
    <3>4. r \in d + 1 .. Len(b) /\ r \notin d + m + 1 .. Len(b)
      BY <1>0, <2>2, <2>4
    <3> QED
      BY <2>1, <3>3, <3>4
  <2>5. CASE r \notin d + 1 .. d + m
    <3>1. r - d - 1 \notin 0 .. m - 1
      BY <1>0, <2>5
    <3>2. r \in d + m + 1 .. Len(b) <=> r \in d + 1 .. Len(b)
      BY <1>0, <2>2, <2>5
    <3> QED
      BY <2>1, <2>3, <3>1, <3>2
  <2> QED
    BY <2>4, <2>5
<1>2. Seen(len, rr, y, at) =
        [i \in 1 .. len |-> IF i - at \in d + m + 1 .. Len(b)
                            THEN b[i - at] ELSE Byte(rr, i - 1)]
  BY <1>0 DEF Seen, WrittenUpTo
<1>3. Seen(len, ss, x, at) =
        [i \in 1 .. len |-> IF i - at \in d + 1 .. Len(b)
                            THEN b[i - at] ELSE Byte(ss, i - 1)]
  BY <1>0 DEF Seen, WrittenUpTo
<1> QED
  BY <1>1, <1>2, <1>3

Turns(x, m, y) == y = [x EXCEPT !.offset = @ + m, !.done = @ + m]

LEMMA WriteTurnRecord ==
  ASSUME NEW len \in Nat, NEW x, NEW at, NEW m \in Nat,
         WriteGoes(len, x, at), x.done + m <= Len(x.buffer),
         NEW y, Turns(x, m, y)
  PROVE  /\ WriteGoes(len, y, at) /\ y.op = "write" /\ y.buffer = x.buffer
         /\ y.done = x.done + m
<1>1. /\ x \in [op : {"write"}, buffer : Seq(Bytes), offset : Nat, done : Nat]
      /\ at \in Nat /\ x.offset = at + x.done /\ at + Len(x.buffer) <= len
  BY DEF WriteGoes
<1>2. PICK off \in Nat : off = x.offset
  BY <1>1
<1>3. PICK d \in Nat : d = x.done
  BY <1>1
<1>4. PICK b \in Seq(Bytes) : b = x.buffer
  BY <1>1
<1>5. x = [op |-> "write", buffer |-> b, offset |-> off, done |-> d]
  BY <1>1, <1>2, <1>3, <1>4
<1>6. y = [op |-> "write", buffer |-> b, offset |-> off + m, done |-> d + m]
  BY <1>5 DEF Turns
<1> QED
  BY <1>1, <1>2, <1>3, <1>4, <1>6 DEF WriteGoes

LEMMA WriteChunkKeeps ==
  ASSUME IInv, WriteChunk
  PROVE  /\ IInv' /\ View' = View
         /\ io.op = "write" /\ io'.op = "write" /\ io'.buffer = io.buffer
         /\ pos' = pos /\ reply' = reply /\ length' = length
<1>1. WriteGoes(length, io, pos) /\ io.op = "write"
  BY CallOfOp DEF IInv, WriteChunk
<1>2. /\ Stored(length, sectors) /\ length \in Nat /\ length <= MaxLength
  BY StoredFacts DEF IInv
<1>3. /\ io.buffer \in Seq(Bytes) /\ io.offset \in Nat /\ io.done \in Nat
      /\ pos \in Nat /\ io.done <= Len(io.buffer)
      /\ io.offset = pos + io.done /\ pos + Len(io.buffer) <= length
  BY <1>1 DEF WriteGoes
<1>4. PICK b \in Seq(Bytes) : b = io.buffer
  BY <1>3
<1>5. PICK at \in Nat : at = io.offset
  BY <1>3
<1>6. PICK d \in Nat : d = io.done
  BY <1>3
<1>7. PICK m : m = Chunk(at, Len(b) - d)
  OBVIOUS
<1>8. PICK old : old = IF at % SectorSize > 0 \/ m < SectorSize - (at % SectorSize)
                       THEN sectors[at \div SectorSize + 1] ELSE ZeroSector
  OBVIOUS
<1>9. PICK p : p = SubSeq(b, d + 1, d + m)
  OBVIOUS
<1>10. /\ Len(b) - d > 0 /\ m > 0
       /\ Patches(sectors, at, p, old, sectors')
       /\ io' = [io EXCEPT !.offset = @ + m, !.done = @ + m]
       /\ UNCHANGED <<length, pos, reply, text, row>>
  BY <1>4, <1>5, <1>6, <1>7, <1>8, <1>9, Zenon DEF WriteChunk, Patches
<1>11. /\ Len(b) \in Nat /\ d <= Len(b) /\ at = pos + d
       /\ pos + Len(b) <= length
  BY <1>3, <1>4, <1>5, <1>6
<1>12. Len(b) - d \in Int
  BY <1>11
<1>13. /\ m \in Int /\ m <= Len(b) - d /\ m <= length - at
       /\ m + (at % SectorSize) <= SectorSize
  BY <1>2, <1>7, <1>12, ChunkFacts
<1>14. m \in Nat /\ m > 0 /\ d + m <= Len(b) /\ at + m <= length
  BY <1>2, <1>10, <1>11, <1>13
<1>15. p \in Seq(Bytes) /\ Len(p) = m /\ \A i \in 1 .. m : p[i] = b[d + i]
  BY <1>9, <1>14, PieceFacts
<1>16. PICK rr : rr = sectors'
  OBVIOUS
<1>17. PICK y : y = io'
  OBVIOUS
<1>18. Stored(length, rr) /\ Turned(length, sectors, at, p, rr)
  <2>1. at % SectorSize \in Nat
    BY DivMod
  <2>2. Len(p) > 0 /\ at + Len(p) <= length
          /\ (at % SectorSize) + Len(p) <= SectorSize
    BY <1>13, <1>14, <1>15, <2>1
  <2>3. Aside(sectors, at, p, old)
    BY <1>8, <1>15 DEF Aside
  <2>4. Patches(sectors, at, p, old, rr)
    BY <1>10, <1>16
  <2> QED
    BY <1>2, <1>15, <2>2, <2>3, <2>4, TurnOfWrite
<1>19. WriteGoes(length, y, pos) /\ y.op = "write"
         /\ y.buffer = b /\ y.done = d + m
  <2>1. io.done + m <= Len(io.buffer)
    BY <1>4, <1>6, <1>14
  <2>2. Turns(io, m, y)
    BY <1>10, <1>17 DEF Turns
  <2> QED
    BY <1>1, <1>2, <1>4, <1>6, <1>14, <2>1, <2>2, WriteTurnRecord
<1>20. View' = View
  <2>1. Turned(length, sectors, pos + d, p, rr)
    BY <1>11, <1>18
  <2>2. Seen(length, rr, y, pos) = Seen(length, sectors, io, pos)
    <3>1. Piece(p, b, d, m)
      BY <1>15 DEF Piece
    <3>2. WrittenUpTo(io, b, d)
      BY <1>1, <1>4, <1>6 DEF WrittenUpTo
    <3>3. WrittenUpTo(y, b, d + m)
      BY <1>19 DEF WrittenUpTo
    <3>4. length \in Nat /\ pos \in Nat /\ m \in Nat /\ d + m <= Len(b)
      BY <1>2, <1>3, <1>14
    <3>5. TurnOf(length, sectors, rr, pos, b, d, m, p, io, y)
      BY <2>1, <3>1, <3>2, <3>3, <3>4 DEF TurnOf
    <3> QED
      BY <3>5, TurnNotSeen
  <2> QED
    BY <1>10, <1>16, <1>17, <2>2, Zenon DEF View
<1>21. UNCHANGED <<length, pos, reply, text, row>>
  BY <1>10
<1>22. TextGoes' /\ Ends(View, length)'
  <2>1. AtEnd(io, pos)' = AtEnd(io, pos)
    <3>1. AtEnd(y, pos) = AtEnd(io, pos)
      BY <1>1, <1>4, <1>19 DEF AtEnd
    <3> QED
      BY <1>17, <1>21, <3>1
  <2> QED
    BY <1>20, <1>21, <2>1, SameText DEF IInv
<1>23. Calls'
  BY <1>17, <1>19, <1>21 DEF Calls
<1>24. Stored(length, sectors)'
  BY <1>16, <1>18, <1>21
<1>25. (pos \in MinPos .. MaxLength)' /\ (reply.op \in {"none", "wrote", "read", "panic"})'
  BY <1>21 DEF IInv
<1> QED
  BY <1>1, <1>4, <1>17, <1>19, <1>20, <1>21, <1>22, <1>23, <1>24, <1>25 DEF IInv

\* The bytes of one sector stand in a row.
LEMMA RowOfBytes ==
  ASSUME NEW ss, NEW off \in Nat, NEW i \in Nat,
         (off % SectorSize) + i < SectorSize
  PROVE  Byte(ss, off + i) = ss[off \div SectorSize + 1][(off % SectorSize) + i]
<1>1. PICK k \in Nat, o \in Offsets :
        /\ off = k * SectorSize + o /\ k * SectorSize \in Nat
        /\ off \div SectorSize = k /\ off % SectorSize = o
  BY Split
<1>2. PICK r \in 0 .. SectorSize - 1 : r = o + i
  BY <1>1 DEF Offsets
<1>3. off + i = k * SectorSize + r
  BY <1>1, <1>2 DEF Offsets
<1>4. (k * SectorSize + r) \div SectorSize = k
        /\ (k * SectorSize + r) % SectorSize = r
  BY DivModUnique
<1> QED
  BY <1>1, <1>2, <1>3, <1>4 DEF Byte

\* What a turn of inode_read_at takes from the sectors.
Taken(ss, off, m, p) ==
  p = [i \in 1 .. m |->
         ss[off \div SectorSize + 1][(off % SectorSize) + i - 1]]

LEMMA TakenBytes ==
  ASSUME NEW len, NEW ss, Stored(len, ss), NEW off \in Nat, NEW m \in Nat,
         off + m <= len, (off % SectorSize) + m <= SectorSize,
         NEW p, Taken(ss, off, m, p)
  PROVE  /\ p \in Seq(Bytes) /\ Len(p) = m
         /\ \A i \in 1 .. m : p[i] = Byte(ss, off + i - 1)
<1>1. len \in Nat /\ \A i \in 0 .. len - 1 : Byte(ss, i) \in Bytes
  BY StoredFacts
<1>2. PICK o \in Offsets : o = off % SectorSize
  BY Split
<1>3. p = [i \in 1 .. m |-> ss[off \div SectorSize + 1][o + i - 1]]
  BY <1>2 DEF Taken
<1>4. ASSUME NEW i \in 1 .. m
      PROVE  p[i] = Byte(ss, off + i - 1) /\ p[i] \in Bytes
  <2>1. PICK j \in Nat : j = i - 1
    OBVIOUS
  <2>2. o + j < SectorSize /\ off + j \in 0 .. len - 1
          /\ o + i - 1 = o + j /\ off + i - 1 = off + j
    BY <1>1, <1>2, <2>1 DEF Offsets
  <2>3. Byte(ss, off + j) = ss[off \div SectorSize + 1][o + j]
    BY <1>2, <2>2, RowOfBytes
  <2> QED
    BY <1>1, <1>3, <2>2, <2>3
<1>5. p \in [1 .. m -> Bytes]
  BY <1>3, <1>4
<1>6. p \in Seq(Bytes) /\ Len(p) = m
  BY <1>5
<1> QED
  BY <1>4, <1>6

ReadTurns(x, p, m, y) ==
  y = [x EXCEPT !.buffer = @ \o p, !.size = @ - m, !.offset = @ + m]

LEMMA TurnOfRead ==
  ASSUME NEW len, NEW ss, Stored(len, ss), NEW x, NEW at \in Int,
         ReadGoes(len, ss, x, at), x.size > 0, NEW m \in Int, m > 0,
         m <= x.size, m <= len - x.offset,
         x.offset \in Nat => (x.offset % SectorSize) + m <= SectorSize,
         NEW p, Taken(ss, x.offset, m, p), NEW y, ReadTurns(x, p, m, y)
  PROVE  ReadGoes(len, ss, y, at) /\ y.op = x.op
<1>1. PICK f \in Int : f = From(x, at)
  BY DEF From
<1>2. PICK b \in Seq(Bytes), s \in Nat, off \in Int, op \in {"read", "dump"} :
        x = [op |-> op, buffer |-> b, size |-> s, offset |-> off]
  <2>1. x \in [op : {"read", "dump"}, buffer : Seq(Bytes), size : Nat,
               offset : Int]
    BY DEF ReadGoes
  <2>2. x = [op |-> x.op, buffer |-> x.buffer, size |-> x.size,
             offset |-> x.offset]
    BY <2>1
  <2> QED
    BY <2>1, <2>2
<1>3. x.op = op /\ x.buffer = b /\ x.size = s /\ x.offset = off
  BY <1>2
<1>4. /\ off = f + Len(b)
      /\ b = <<>> => f \in Nat \/ s = 0
      /\ b # <<>> => f \in Nat /\ off <= len
      /\ \A i \in 1 .. Len(b) : b[i] = Byte(ss, f + i - 1)
      /\ IF op = "read" THEN Len(b) + s \in Sizes ELSE Len(b) + s = len
  BY <1>1, <1>3 DEF ReadGoes
<1>5. Len(b) \in Nat /\ len \in Nat
  BY StoredFacts
<1>6. f \in Nat /\ off \in Nat
  BY <1>3, <1>4, <1>5
<1>7. m \in Nat /\ off + m <= len /\ m <= s
        /\ (off % SectorSize) + m <= SectorSize
  BY <1>3, <1>5, <1>6
<1>8. Taken(ss, off, m, p)
  BY <1>3
<1>9. /\ p \in Seq(Bytes) /\ Len(p) = m
      /\ \A i \in 1 .. m : p[i] = Byte(ss, off + i - 1)
  BY <1>6, <1>7, <1>8, TakenBytes
<1>10. y = [op |-> op, buffer |-> b \o p, size |-> s - m, offset |-> off + m]
  BY <1>2 DEF ReadTurns
<1>11. PICK c : c = b \o p
  OBVIOUS
<1>12. /\ c \in Seq(Bytes) /\ Len(c) = Len(b) + m
       /\ \A i \in 1 .. Len(b) + m :
            c[i] = IF i <= Len(b) THEN b[i] ELSE p[i - Len(b)]
  BY <1>9, <1>11, ConcatProperties
<1>13. ASSUME NEW i \in 1 .. Len(b) + m
       PROVE  c[i] = Byte(ss, f + i - 1)
  <2>1. CASE i <= Len(b)
    BY <1>4, <1>12, <2>1
  <2>2. CASE ~(i <= Len(b))
    <3>1. PICK j \in 1 .. m : i = Len(b) + j
      <4>1. i - Len(b) \in 1 .. m /\ i = Len(b) + (i - Len(b))
        BY <1>5, <2>2
      <4> QED
        BY <4>1
    <3>2. i - Len(b) = j /\ off + j - 1 = f + i - 1
      BY <1>4, <1>5, <1>6, <3>1
    <3> QED
      BY <1>9, <1>12, <2>2, <3>2
  <2> QED
    BY <2>1, <2>2
<1>14. y.op = op /\ y.buffer = c /\ y.size = s - m /\ y.offset = off + m
  BY <1>10, <1>11
<1>15. From(y, at) = f
  BY <1>1, <1>3, <1>14 DEF From
<1>16. y \in [op : {"read", "dump"}, buffer : Seq(Bytes), size : Nat,
              offset : Int]
  <2>1. s - m \in Nat /\ off + m \in Int
    BY <1>6, <1>7
  <2> QED
    BY <1>10, <1>11, <1>12, <2>1
<1>17. Len(c) + (s - m) = Len(b) + s /\ off + m = f + Len(c)
  BY <1>4, <1>5, <1>6, <1>7, <1>12
<1> QED
  BY <1>3, <1>4, <1>6, <1>7, <1>12, <1>13, <1>14, <1>15, <1>16, <1>17
     DEF ReadGoes

\* A read that has something left to do started in the file.
LEMMA ReadStarts ==
  ASSUME NEW len, NEW ss, NEW x, NEW at \in Int, ReadGoes(len, ss, x, at)
  PROVE  /\ x.op \in {"read", "dump"} /\ x.buffer \in Seq(Bytes)
         /\ x.size \in Nat /\ x.offset \in Int
         /\ x.size > 0 => From(x, at) \in Nat /\ x.offset \in Nat
BY DEF ReadGoes, From

LEMMA ReadChunkKeeps ==
  ASSUME IInv, ReadChunk
  PROVE  /\ IInv' /\ View' = View
         /\ io.op # "write" /\ io'.op # "write"
         /\ UNCHANGED <<length, pos, reply>>
<1>1. ReadGoes(length, sectors, io, pos) /\ io.op \in {"read", "dump"}
  BY CallOfOp DEF IInv, ReadChunk
<1>2. Stored(length, sectors) /\ length \in Nat /\ pos \in Int
  BY StoredFacts DEF IInv
<1>3. UNCHANGED <<length, sectors, pos, reply, text, row>>
  BY DEF ReadChunk
<1>4. PICK off : off = io.offset
  OBVIOUS
<1>5. PICK m : m = Chunk(off, io.size)
  OBVIOUS
<1>6. PICK p : p = [i \in 1 .. m |->
                     sectors[off \div SectorSize + 1]
                            [(off % SectorSize) + i - 1]]
  OBVIOUS
<1>7. PICK y : y = io'
  OBVIOUS
<1>8. io.size > 0 /\ m > 0
        /\ io' = [io EXCEPT !.buffer = @ \o p, !.size = @ - m, !.offset = @ + m]
  BY <1>4, <1>5, <1>6, Zenon DEF ReadChunk
<1>9. Taken(sectors, off, m, p) /\ ReadTurns(io, p, m, y)
  BY <1>6, <1>7, <1>8 DEF Taken, ReadTurns
<1>10. off \in Nat /\ io.size \in Int
  BY <1>1, <1>2, <1>4, <1>8, ReadStarts
<1>11. /\ m \in Int /\ m <= io.size /\ m <= length - off
       /\ m + (off % SectorSize) <= SectorSize /\ off % SectorSize \in Offsets
  BY <1>2, <1>5, <1>10, ChunkFacts
<1>12. (off % SectorSize) + m <= SectorSize
  BY <1>11 DEF Offsets
<1>13. ReadGoes(length, sectors, y, pos) /\ y.op = io.op
  BY <1>1, <1>2, <1>4, <1>8, <1>9, <1>11, <1>12, TurnOfRead
<1>14. io.op # "write" /\ y.op # "write"
  BY <1>1, <1>13
<1>15. View' = View
  <2>1. Seen(length, sectors, y, pos) = Seen(length, sectors, io, pos)
    BY <1>14 DEF Seen
  <2> QED
    BY <1>3, <1>7, <2>1 DEF View
<1>16. AtEnd(io, pos)' = AtEnd(io, pos)
  BY <1>3, <1>7, <1>14 DEF AtEnd
<1>17. TextGoes' /\ Ends(View, length)'
  BY <1>3, <1>15, <1>16, SameText DEF IInv
<1>18. Calls'
  BY <1>3, <1>7, <1>13 DEF Calls
<1>19. (Stored(length, sectors) /\ pos \in MinPos .. MaxLength
         /\ reply.op \in {"none", "wrote", "read", "panic"})'
  BY <1>3 DEF IInv
<1> QED
  BY <1>3, <1>7, <1>14, <1>15, <1>17, <1>18, <1>19 DEF IInv

-----------------------------------------------------------------------------
(* The refinement mapping.                                                 *)

ContentBar == [i \in 1 .. length |->
                IF io.op = "write" /\ i - io.offset \in DOMAIN Pending
                THEN Pending[i - io.offset] ELSE ByteAt(i - 1)]
PosBar == IF io.op = "write" THEN pos + Len(io.buffer) - 2 ELSE pos
ReplyBar == IF io.op = "write" THEN Wrote(Len(io.buffer)) ELSE reply

LEMMA BarWrite ==
  ASSUME NEW t, PosBar >= 0,
         ContentBar' = Abstract!Overlaid(ContentBar, PosBar, t \o <<NUL, NUL>>),
         PosBar' = PosBar + Len(t), ReplyBar' = Wrote(Len(t) + 2)
  PROVE  Abstract!Write(t)
BY Zenon DEF Abstract!Write, ContentBar, PosBar, ReplyBar, Wrote,
   Abstract!Wrote, NUL, Abstract!NUL

LEMMA BarStutter ==
  ASSUME ContentBar' = ContentBar, PosBar' = PosBar, ReplyBar' = ReplyBar
  PROVE  UNCHANGED Abstract!vars
BY Zenon DEF Abstract!vars, ContentBar, PosBar, ReplyBar

LEMMA BarSeek ==
  ASSUME NEW n, ContentBar' = ContentBar, PosBar' = n,
         ReplyBar' = IF n < 0 THEN Panicked ELSE NoReply
  PROVE  Abstract!Seek(n)
BY Zenon DEF Abstract!Seek, ContentBar, PosBar, ReplyBar, NoReply,
   Abstract!NoReply, Panicked, Abstract!Panicked

LEMMA BarRead ==
  ASSUME NEW n, PosBar >= 0 \/ n = 0, ContentBar' = ContentBar,
         ReplyBar' = ReadBytes(Abstract!Slice(ContentBar, PosBar, n)),
         PosBar' = PosBar + Len(ReplyBar'.bytes)
  PROVE  Abstract!Read(n)
BY Zenon DEF Abstract!Read, ContentBar, PosBar, ReplyBar, ReadBytes,
   Abstract!ReadBytes

LEMMA BarDump ==
  ASSUME ContentBar' = ContentBar, PosBar' = PosBar,
         ReplyBar' = IF PosBar < 0 THEN Panicked ELSE ReadBytes(ContentBar)
  PROVE  Abstract!Dump
BY Zenon DEF Abstract!Dump, ContentBar, PosBar, ReplyBar, ReadBytes,
   Abstract!ReadBytes, Panicked, Abstract!Panicked

LEMMA BarCreate ==
  ASSUME NEW n, ContentBar' = [i \in 1 .. n |-> NUL], PosBar' = 0,
         ReplyBar' = NoReply
  PROVE  Abstract!Create(n)
BY Zenon DEF Abstract!Create, ContentBar, PosBar, ReplyBar, NoReply,
   Abstract!NoReply, Abstract!Zeros, NUL, Abstract!NUL

LEMMA BarWriteFails ==
  ASSUME NEW t, PosBar + Len(t) + 2 \notin 0 .. Len(ContentBar),
         ContentBar' = ContentBar, PosBar' = PosBar - 2, ReplyBar' = Wrote(0)
  PROVE  Abstract!WriteFails(t)
BY Zenon DEF Abstract!WriteFails, ContentBar, PosBar, ReplyBar, Wrote,
   Abstract!Wrote

LEMMA BarCopyIn ==
  ASSUME NEW t, ContentBar' = Append(t, NUL), PosBar' = Len(t) - 1,
         ReplyBar' = Wrote(Len(t) + 1)
  PROVE  Abstract!CopyIn(t)
BY Zenon DEF Abstract!CopyIn, ContentBar, PosBar, ReplyBar, Wrote,
   Abstract!Wrote, NUL, Abstract!NUL

LEMMA BarDefragment ==
  ASSUME ContentBar' = ContentBar, PosBar' = Len(ContentBar) - 2,
         ReplyBar' = Wrote(Len(ContentBar))
  PROVE  Abstract!Defragment
BY Zenon DEF Abstract!Defragment, ContentBar, PosBar, ReplyBar, Wrote,
   Abstract!Wrote

LEMMA BarInit ==
  ASSUME NEW n \in Sizes, ContentBar = [i \in 1 .. n |-> NUL], PosBar = 0,
         ReplyBar = NoReply
  PROVE  Abstract!Init
BY Zenon DEF Abstract!Init, ContentBar, PosBar, ReplyBar, NoReply,
   Abstract!NoReply, Abstract!Zeros, NUL, Abstract!NUL

\* The content that the mapping gives is what is seen.
LEMMA BarIsView ==
  ASSUME IInv
  PROVE  ContentBar = View /\ PosBar = AtEnd(io, pos)
<1>1. PosBar = AtEnd(io, pos)
  BY DEF PosBar, AtEnd
<1>2. CASE io.op # "write"
  <2>1. ContentBar = [i \in 1 .. length |-> ByteAt(i - 1)]
    BY <1>2 DEF ContentBar
  <2>2. View = [i \in 1 .. length |-> Byte(sectors, i - 1)]
    BY <1>2 DEF View, Seen
  <2> QED
    BY <1>1, <2>1, <2>2, Zenon DEF ByteAt, Byte
<1>3. CASE io.op = "write"
  <2>1. WriteGoes(length, io, pos)
    BY <1>3, CallOfOp DEF IInv
  <2>2. PICK b \in Seq(Bytes) : b = io.buffer
    BY <2>1 DEF WriteGoes
  <2>3. PICK d \in Nat : d = io.done
    BY <2>1 DEF WriteGoes
  <2>4. pos \in Nat /\ io.offset = pos + d /\ d <= Len(b) /\ length \in Nat
          /\ Len(b) \in Nat
    BY <2>1, <2>2, <2>3, StoredFacts DEF IInv, WriteGoes
  <2>5. PICK p : p = SubSeq(b, d + 1, Len(b))
    OBVIOUS
  <2>6. DOMAIN p = 1 .. Len(b) - d /\ \A i \in 1 .. Len(b) - d : p[i] = b[d + i]
    <3>1. CASE d < Len(b)
      <4>1. PICK m \in Nat : m = Len(b) - d /\ m > 0
        BY <2>4, <3>1
      <4>2. d + m = Len(b)
        BY <2>4, <4>1
      <4>3. p \in Seq(Bytes) /\ Len(p) = m /\ \A i \in 1 .. m : p[i] = b[d + i]
        BY <2>5, <4>1, <4>2, PieceFacts
      <4> QED
        BY <4>1, <4>3
    <3>2. CASE d = Len(b)
      <4>1. p = <<>>
        BY <2>4, <2>5, <3>2
      <4> QED
        BY <2>4, <3>2, <4>1
    <3> QED
      BY <2>4, <3>1, <3>2
  <2>7. Pending = p
    BY <1>3, <2>2, <2>3, <2>5 DEF Pending
  <2>8. ASSUME NEW i \in 1 .. length
        PROVE  (IF i - (pos + d) \in DOMAIN p
                THEN p[i - (pos + d)] ELSE Byte(sectors, i - 1))
               = (IF i - pos \in d + 1 .. Len(b)
                  THEN b[i - pos] ELSE Byte(sectors, i - 1))
    <3>1. PICK j \in Int : j = i - (pos + d)
      BY <2>4
    <3>2. i - pos = d + j
      BY <2>4, <3>1
    <3>3. j \in 1 .. Len(b) - d <=> d + j \in d + 1 .. Len(b)
      BY <2>4
    <3> QED
      BY <2>6, <3>1, <3>2, <3>3
  <2>9. ContentBar = [i \in 1 .. length |->
                        IF i - (pos + d) \in DOMAIN p
                        THEN p[i - (pos + d)] ELSE Byte(sectors, i - 1)]
    BY <1>3, <2>4, <2>7 DEF ContentBar, ByteAt, Byte
  <2>10. View = [i \in 1 .. length |->
                   IF i - pos \in d + 1 .. Len(b)
                   THEN b[i - pos] ELSE Byte(sectors, i - 1)]
    BY <1>3, <2>2, <2>3 DEF View, Seen
  <2> QED
    BY <1>1, <2>8, <2>9, <2>10
<1> QED
  BY <1>2, <1>3

LEMMA BarIsViewNow == IInv => ContentBar = View /\ PosBar = AtEnd(io, pos)
BY BarIsView

LEMMA BarIsViewNext == IInv' => (ContentBar = View /\ PosBar = AtEnd(io, pos))'
BY BarIsViewNow, PTL

-----------------------------------------------------------------------------
(* Every step keeps the invariant, and is one of TextFile or a stutter.    *)

\* A step that leaves what is seen.
LEMMA Kept ==
  ASSUME IInv, Stored(length, sectors)', Calls',
         (pos \in MinPos .. MaxLength)',
         (reply.op \in {"none", "wrote", "read", "panic"})',
         View' = View, length' = length, text' = text, row' \in BOOLEAN,
         row' => row /\ AtEnd(io, pos)' = AtEnd(io, pos)
  PROVE  IInv' /\ ContentBar' = ContentBar
<1>1. IInv'
  <2>1. TextGoes'
    BY DEF IInv, TextGoes, Holds
  <2> QED
    BY <2>1 DEF IInv, Ends
<1> QED
  BY <1>1, BarIsViewNow, BarIsViewNext

LEMMA WriteChunkStutters ==
  ASSUME IInv, WriteChunk
  PROVE  IInv' /\ UNCHANGED Abstract!vars
<1>1. /\ IInv' /\ View' = View
      /\ io.op = "write" /\ io'.op = "write" /\ io'.buffer = io.buffer
      /\ pos' = pos /\ reply' = reply
  BY WriteChunkKeeps
<1>2. ContentBar' = ContentBar
  BY <1>1, BarIsViewNow, BarIsViewNext
<1>3. PosBar' = PosBar /\ ReplyBar' = ReplyBar
  BY <1>1 DEF PosBar, ReplyBar
<1> QED
  BY <1>1, <1>2, <1>3, BarStutter

LEMMA ReadChunkStutters ==
  ASSUME IInv, ReadChunk
  PROVE  IInv' /\ UNCHANGED Abstract!vars
<1>1. /\ IInv' /\ View' = View /\ io.op # "write" /\ io'.op # "write"
      /\ pos' = pos /\ reply' = reply
  BY ReadChunkKeeps
<1>2. ContentBar' = ContentBar
  BY <1>1, BarIsViewNow, BarIsViewNext
<1>3. PosBar' = PosBar /\ ReplyBar' = ReplyBar
  BY <1>1 DEF PosBar, ReplyBar
<1> QED
  BY <1>1, <1>2, <1>3, BarStutter

\* A loop of inode_write_at ends when all was written.
LEMMA WriteEnds ==
  ASSUME IInv, WriteDone
  PROVE  /\ WriteGoes(length, io, pos) /\ io.done = Len(io.buffer)
<1>1. WriteGoes(length, io, pos) /\ io.op = "write"
  BY CallOfOp DEF IInv, WriteDone
<1>2. /\ Len(io.buffer) \in Nat /\ io.offset \in Nat /\ io.done \in Nat
      /\ pos \in Nat /\ io.done <= Len(io.buffer)
      /\ io.offset = pos + io.done /\ pos + Len(io.buffer) <= length
  BY <1>1 DEF WriteGoes
<1>3. length \in Nat
  BY StoredFacts DEF IInv
<1>4. PICK s \in Int : s = Len(io.buffer) - io.done
  BY <1>2
<1>5. s <= 0 \/ Chunk(io.offset, s) <= 0
  BY <1>4 DEF WriteDone
<1>6. s > 0 => Chunk(io.offset, s) > 0 /\ Chunk(io.offset, s) \in Int
  <2>1. s > 0 => io.offset < length
    BY <1>2, <1>3, <1>4
  <2> QED
    BY <1>2, <1>3, <2>1, ChunkFacts
<1>7. s <= 0
  BY <1>5, <1>6
<1> QED
  BY <1>1, <1>2, <1>4, <1>7

LEMMA WriteDoneStutters ==
  ASSUME IInv, WriteDone
  PROVE  IInv' /\ UNCHANGED Abstract!vars
<1>1. WriteGoes(length, io, pos) /\ io.done = Len(io.buffer) /\ io.op = "write"
  BY WriteEnds DEF WriteDone
<1>2. PICK n \in Nat : n = Len(io.buffer)
  BY <1>1 DEF WriteGoes
<1>3. pos \in Nat /\ pos + n <= length /\ length \in Nat /\ length <= MaxLength
  BY <1>1, <1>2, StoredFacts DEF IInv, WriteGoes
<1>4. /\ io' = Idle /\ reply' = Wrote(n) /\ pos' = pos + n - 2
      /\ UNCHANGED <<length, sectors, text, row>>
  BY <1>1, <1>2 DEF WriteDone
<1>5. io'.op = "idle" /\ reply'.op = "wrote"
  BY <1>4 DEF Idle, Wrote
<1>6. View' = View
  <2>1. View' = [i \in 1 .. length |-> Byte(sectors, i - 1)]
    BY <1>4, <1>5 DEF View, Seen
  <2>2. ASSUME NEW i \in 1 .. length
        PROVE  i - pos \notin io.done + 1 .. Len(io.buffer)
    BY <1>1, <1>2, <1>3
  <2>3. View = [i \in 1 .. length |-> Byte(sectors, i - 1)]
    BY <2>2 DEF View, Seen
  <2> QED
    BY <2>1, <2>3
<1>7. pos' = pos + n - 2 /\ AtEnd(io, pos)' = pos' /\ AtEnd(io, pos) = pos'
  BY <1>1, <1>2, <1>4, <1>5 DEF AtEnd
<1>8. Stored(length, sectors)' /\ Calls' /\ row' \in BOOLEAN
        /\ (pos \in MinPos .. MaxLength)'
  BY LowestIs, <1>3, <1>4 DEF IInv, Calls, TextGoes
<1>9. IInv' /\ ContentBar' = ContentBar
  BY <1>4, <1>5, <1>6, <1>7, <1>8, Kept
<1>10. PosBar' = PosBar /\ ReplyBar' = ReplyBar
  <2>1. PosBar = pos + n - 2 /\ ReplyBar = Wrote(n)
    BY <1>1, <1>2 DEF PosBar, ReplyBar
  <2> QED
    BY <1>4, <1>5, <2>1 DEF PosBar, ReplyBar
<1> QED
  BY <1>9, <1>10, BarStutter

LEMMA IdleFacts ==
  ASSUME IInv, io = Idle
  PROVE  /\ io.op = "idle" /\ View = [i \in 1 .. length |-> Byte(sectors, i - 1)]
         /\ AtEnd(io, pos) = pos /\ ContentBar = View /\ PosBar = pos
         /\ ReplyBar = reply
         /\ length \in Nat /\ length <= MaxLength /\ pos \in Int
<1>1. io.op = "idle"
  BY DEF Idle
<1>2. View = [i \in 1 .. length |-> Byte(sectors, i - 1)]
  BY <1>1 DEF View, Seen
<1>3. AtEnd(io, pos) = pos /\ PosBar = pos /\ ReplyBar = reply
  BY <1>1 DEF AtEnd, PosBar, ReplyBar
<1>4. length \in Nat /\ length <= MaxLength /\ pos \in Int
  BY StoredFacts DEF IInv
<1> QED
  BY <1>1, <1>2, <1>3, <1>4, BarIsView

\* A call starts, and nothing is written.
LEMMA CallStarts ==
  ASSUME IInv, io = Idle, Calls', io'.op # "write",
         UNCHANGED <<length, sectors, pos, reply, text, row>>
  PROVE  IInv' /\ UNCHANGED Abstract!vars
<1>1. View' = View
  BY IdleFacts DEF View, Seen
<1>2. AtEnd(io, pos)' = AtEnd(io, pos)
  BY IdleFacts DEF AtEnd
<1>3. IInv' /\ ContentBar' = ContentBar
  BY <1>1, <1>2, Kept DEF IInv, TextGoes
<1>4. PosBar' = PosBar /\ ReplyBar' = ReplyBar
  BY IdleFacts DEF PosBar, ReplyBar
<1> QED
  BY <1>3, <1>4, BarStutter

LEMMA ReadStutters ==
  ASSUME IInv, NEW n \in Sizes, Read(n)
  PROVE  IInv' /\ UNCHANGED Abstract!vars
<1>1. /\ io = Idle
      /\ pos >= 0 \/ n = 0
      /\ io' = [op |-> "read", buffer |-> <<>>, size |-> n, offset |-> pos]
      /\ UNCHANGED <<length, sectors, pos, reply, text, row>>
  BY DEF Read, Reading
<1>2. n \in Nat /\ pos \in Int
  BY <1>1, IdleFacts
<1>3. /\ io'.op = "read" /\ io'.buffer = <<>> /\ io'.size = n /\ io'.offset = pos
  BY <1>1
<1>4. ReadGoes(length, sectors, io', pos)
  <2>1. io' \in [op : {"read", "dump"}, buffer : Seq(Bytes), size : Nat,
                 offset : Int]
    BY <1>1, <1>2
  <2>2. From(io', pos) = pos /\ Len(<<>>) = 0
    BY <1>3 DEF From
  <2>3. pos \in Nat \/ n = 0
    BY <1>1, <1>2
  <2> QED
    BY <1>2, <1>3, <2>1, <2>2, <2>3 DEF ReadGoes
<1>5. Calls'
  BY <1>1, <1>4 DEF Calls
<1>6. io'.op # "write"
  BY <1>3
<1> QED
  BY <1>1, <1>5, <1>6, CallStarts

LEMMA DumpStutters ==
  ASSUME IInv, Dump
  PROVE  IInv' /\ UNCHANGED Abstract!vars
<1>1. /\ io = Idle
      /\ io' = [op |-> "dump", buffer |-> <<>>, size |-> length, offset |-> 0]
      /\ UNCHANGED <<length, sectors, pos, reply, text, row>>
  BY DEF Dump, Reading
<1>2. length \in Nat
  BY <1>1, IdleFacts
<1>3. /\ io'.op = "dump" /\ io'.buffer = <<>> /\ io'.size = length
      /\ io'.offset = 0
  BY <1>1
<1>4. ReadGoes(length, sectors, io', pos)
  <2>1. io' \in [op : {"read", "dump"}, buffer : Seq(Bytes), size : Nat,
                 offset : Int]
    BY <1>1, <1>2
  <2>2. From(io', pos) = 0 /\ Len(<<>>) = 0
    BY <1>3 DEF From
  <2> QED
    BY <1>2, <1>3, <2>1, <2>2 DEF ReadGoes
<1>5. Calls'
  BY <1>1, <1>4 DEF Calls
<1>6. io'.op # "write"
  BY <1>3
<1> QED
  BY <1>1, <1>5, <1>6, CallStarts

LEMMA BeforeStartStutters ==
  ASSUME IInv, BeforeStart
  PROVE  IInv' /\ UNCHANGED Abstract!vars
<1>1. /\ io = Idle /\ io' = Undefined
      /\ UNCHANGED <<length, sectors, pos, reply, text, row>>
  BY DEF BeforeStart
<1>2. Calls' /\ io'.op # "write"
  BY <1>1 DEF Calls, Undefined
<1> QED
  BY <1>1, <1>2, CallStarts

LEMMA SeekSeeks ==
  ASSUME IInv, NEW n \in Places, Seek(n)
  PROVE  IInv' /\ Abstract!Seek(n)
<1>1. /\ io = Idle /\ pos' = n /\ row' = FALSE
      /\ reply' = IF n < 0 THEN Panicked ELSE NoReply
      /\ UNCHANGED <<length, sectors, io, text>>
  BY DEF Seek
<1>2. View' = View
  BY <1>1, IdleFacts DEF View, Seen
<1>3. Calls' /\ reply'.op \in {"none", "panic"} /\ (pos \in MinPos .. MaxLength)'
  BY <1>1, SizesAssumption DEF Calls, NoReply, Panicked
<1>4. IInv' /\ ContentBar' = ContentBar
  BY <1>1, <1>2, <1>3, Kept DEF IInv
<1>5. PosBar' = n /\ ReplyBar' = IF n < 0 THEN Panicked ELSE NoReply
  BY <1>1, IdleFacts DEF PosBar, ReplyBar
<1> QED
  BY <1>4, <1>5, BarSeek

\* Two files of the same bytes look the same at rest.
LEMMA GrownSeen ==
  ASSUME NEW len \in Nat, NEW ss, NEW rr, Grown(len, ss, len, rr)
  PROVE  [i \in 1 .. len |-> Byte(rr, i - 1)] = [i \in 1 .. len |-> Byte(ss, i - 1)]
<1>1. ASSUME NEW i \in 1 .. len
      PROVE  Byte(rr, i - 1) = Byte(ss, i - 1)
  <2>1. i - 1 \in 0 .. len - 1 /\ i - 1 < len
    OBVIOUS
  <2> QED
    BY <2>1 DEF Grown
<1> QED
  BY <1>1

LEMMA CloseSeeks ==
  ASSUME IInv, Close
  PROVE  IInv' /\ Abstract!Close
<1>1. /\ io = Idle /\ pos' = 0 /\ row' = FALSE /\ reply' = NoReply
      /\ sectors' = SubSeq(sectors, 1, bytes_to_sectors(length))
      /\ UNCHANGED <<length, io, text>>
  BY DEF Close
<1>2. PICK rr : rr = sectors'
  OBVIOUS
<1>3. Stored(length, rr) /\ Grown(length, sectors, length, rr)
  BY <1>1, <1>2, StoredCut DEF IInv
<1>4. View' = View
  <2>1. View' = [i \in 1 .. length |-> Byte(rr, i - 1)]
    BY <1>1, <1>2, IdleFacts DEF View, Seen
  <2> QED
    BY <1>1, <1>3, <2>1, IdleFacts, GrownSeen
<1>5. Calls' /\ reply'.op = "none" /\ (pos \in MinPos .. MaxLength)'
        /\ Stored(length, sectors)'
  BY LowestIs, <1>1, <1>2, <1>3 DEF Calls, NoReply
<1>6. IInv' /\ ContentBar' = ContentBar
  BY <1>1, <1>4, <1>5, Kept
<1>7. PosBar' = 0 /\ ReplyBar' = NoReply
  BY <1>1, IdleFacts DEF PosBar, ReplyBar
<1>8. Abstract!Seek(0)
  BY <1>6, <1>7, BarSeek
<1> QED
  BY <1>6, <1>8 DEF Abstract!Close

LEMMA WriteFailsFails ==
  ASSUME IInv, NEW t \in Texts, WriteFails(t)
  PROVE  IInv' /\ Abstract!WriteFails(t)
<1>1. /\ io = Idle /\ pos - 2 >= MinPos /\ Extends(pos, Len(CommandBuffer(t)))
      /\ pos' = pos - 2 /\ reply' = Wrote(0) /\ row' = FALSE
      /\ UNCHANGED <<length, io, text>>
  BY DEF WriteFails
<1>2. t \in Seq(Chars) /\ Len(CommandBuffer(t)) = Len(t) + 2 /\ Len(t) \in Nat
  BY TextsAssumption DEF CommandBuffer
<1>3. /\ pos + (Len(t) + 2) # 0
      /\ UNCHANGED sectors \/ \E got \in Nat : sectors' = Reserved(sectors, got)
  <2>1. CASE pos + Len(CommandBuffer(t)) < 0 /\ UNCHANGED sectors
    BY <1>1, <1>2, <2>1, IdleFacts
  <2>2. CASE \E got \in 0 .. Lacking(pos + Len(CommandBuffer(t))) - 1 :
               sectors' = Reserved(sectors, got)
    <3>1. Lacking(0) = 0
      BY SectorsFor, Multiples DEF Lacking, IInv, Stored
    <3> QED
      BY <1>1, <1>2, <2>2, <3>1
  <2> QED
    BY <2>1, <2>2 DEF WriteFails
<1>4. PICK rr : rr = sectors'
  OBVIOUS
<1>5. Stored(length, sectors) /\ length \in Nat /\ length <= MaxLength
        /\ pos \in Int /\ pos <= MaxLength
  BY <1>1, IdleFacts DEF IInv
<1>6. Stored(length, rr) /\ Grown(length, sectors, length, rr)
  <2>1. sectors \in Seq(Contents) /\ Len(sectors) \in Nat
          /\ length <= Len(sectors) * SectorSize
    BY <1>5 DEF Stored
  <2>2. CASE UNCHANGED sectors
    BY <1>4, <1>5, <2>2 DEF Grown
  <2>3. ASSUME NEW got \in Nat, sectors' = Reserved(sectors, got)
        PROVE  Stored(length, rr) /\ Grown(length, sectors, length, rr)
    <3>1. Len(sectors) * SectorSize \in Nat
            /\ (Len(sectors) + got) * SectorSize \in Nat
            /\ Len(sectors) * SectorSize <= (Len(sectors) + got) * SectorSize
      BY <2>1, Multiples
    <3>2. length <= (Len(sectors) + got) * SectorSize
      BY <1>5, <2>1, <3>1
    <3> QED
      BY <1>4, <1>5, <2>3, <3>2, StoredGrows
  <2> QED
    BY <1>3, <2>2, <2>3
<1>7. View' = View
  <2>1. View' = [i \in 1 .. length |-> Byte(rr, i - 1)]
    BY <1>1, <1>4, IdleFacts DEF View, Seen
  <2> QED
    BY <1>1, <1>6, <2>1, IdleFacts, GrownSeen
<1>8. Calls' /\ reply'.op = "wrote" /\ (pos \in MinPos .. MaxLength)'
        /\ Stored(length, sectors)'
  BY <1>1, <1>4, <1>5, <1>6 DEF Calls, Wrote
<1>9. IInv' /\ ContentBar' = ContentBar
  BY <1>1, <1>7, <1>8, Kept
<1>10. PosBar' = PosBar - 2 /\ ReplyBar' = Wrote(0)
  BY <1>1, IdleFacts DEF PosBar, ReplyBar
<1>11. PosBar + Len(t) + 2 \notin 0 .. Len(ContentBar)
  <2>1. Len(ContentBar) = length /\ PosBar = pos
    BY <1>1, IdleFacts
  <2>2. pos + (Len(t) + 2) - 1 \notin 0 .. length - 1
    BY <1>1, <1>2 DEF Extends
  <2> QED
    BY <1>2, <1>3, <1>5, <2>1, <2>2
<1> QED
  BY <1>9, <1>10, <1>11, BarWriteFails

\* A buffer that holds the bytes from `at` to e of the file is that slice.
LEMMA BufferIsSlice ==
  ASSUME NEW len \in Nat, NEW ss, NEW c \in Seq(Bytes),
         c = [i \in 1 .. len |-> Byte(ss, i - 1)],
         NEW at \in Int, NEW e \in Int, NEW b \in Seq(Bytes),
         \A i \in 1 .. Len(b) : b[i] = Byte(ss, at + i - 1),
         \/ b = <<>> /\ e <= at
         \/ at \in Nat /\ e = at + Len(b) /\ e <= len
  PROVE  b = SubSeq(c, at + 1, e)
<1>1. Len(c) = len /\ Len(b) \in Nat
  OBVIOUS
<1>2. CASE e <= at
  <2>1. b = <<>>
    BY <1>1, <1>2
  <2>2. SubSeq(c, at + 1, e) = <<>>
    BY <1>2
  <2> QED
    BY <2>1, <2>2
<1>3. CASE e > at
  <2>1. at \in Nat /\ e = at + Len(b) /\ e <= len
    BY <1>3
  <2>2. PICK m \in Nat : m = Len(b) /\ m > 0
    BY <1>1, <1>3, <2>1
  <2>3. at + m = e /\ e <= Len(c)
    BY <1>1, <2>1, <2>2
  <2>4. PICK p : p = SubSeq(c, at + 1, e)
    OBVIOUS
  <2>5. p \in Seq(Bytes) /\ Len(p) = m /\ \A i \in 1 .. m : p[i] = c[at + i]
    BY <2>1, <2>2, <2>3, <2>4, PieceFacts
  <2>6. ASSUME NEW i \in 1 .. m
        PROVE  p[i] = b[i]
    <3>1. c[at + i] = Byte(ss, at + i - 1)
      BY <2>1, <2>2
    <3> QED
      BY <2>2, <2>5, <3>1
  <2>7. b = [i \in 1 .. m |-> b[i]] /\ p = [i \in 1 .. m |-> p[i]]
    BY <2>2, <2>5
  <2> QED
    BY <2>4, <2>6, <2>7
<1> QED
  BY <1>2, <1>3

\* A loop of inode_read_at ends when all was read, or at the end of the file.
LEMMA ReadEnds ==
  ASSUME IInv, ReadDone
  PROVE  /\ ReadGoes(length, sectors, io, pos) /\ io.op \in {"read", "dump"}
         /\ io.size > 0 => io.offset \in Nat /\ io.offset >= length
<1>1. ReadGoes(length, sectors, io, pos) /\ io.op \in {"read", "dump"}
  BY CallOfOp DEF IInv, ReadDone
<1>2. pos \in Int /\ length \in Nat
  BY StoredFacts DEF IInv
<1>3. io.size \in Nat /\ (io.size > 0 => io.offset \in Nat)
  BY <1>1, <1>2, ReadStarts
<1>4. io.size > 0 => Chunk(io.offset, io.size) <= 0
  BY <1>3 DEF ReadDone
<1>5. io.size > 0 /\ io.offset < length =>
        Chunk(io.offset, io.size) > 0 /\ Chunk(io.offset, io.size) \in Int
  <2> SUFFICES ASSUME io.size > 0, io.offset < length
               PROVE  Chunk(io.offset, io.size) > 0
                        /\ Chunk(io.offset, io.size) \in Int
    OBVIOUS
  <2>1. io.offset \in Nat /\ io.size \in Int
    BY <1>3
  <2> QED
    BY <1>2, <2>1, ChunkFacts
<1>6. io.size > 0 => ~(io.offset < length)
  BY <1>4, <1>5
<1> QED
  BY <1>1, <1>2, <1>3, <1>6

\* What is seen of a file is a sequence of bytes.
LEMMA AtRestType ==
  ASSUME NEW len, NEW ss, Stored(len, ss)
  PROVE  [i \in 1 .. len |-> Byte(ss, i - 1)] \in Seq(Bytes)
<1>1. len \in Nat /\ \A i \in 0 .. len - 1 : Byte(ss, i) \in Bytes
  BY StoredFacts
<1>2. \A i \in 1 .. len : i - 1 \in 0 .. len - 1
  BY <1>1
<1> QED
  BY <1>1, <1>2

LEMMA ReadDoneReads ==
  ASSUME IInv, ReadDone
  PROVE  /\ IInv'
         /\ Abstract!Dump \/ \E n \in Sizes : Abstract!Read(n)
<1>1. /\ ReadGoes(length, sectors, io, pos) /\ io.op \in {"read", "dump"}
      /\ io.size > 0 => io.offset \in Nat /\ io.offset >= length
  BY ReadEnds
<1>2. Stored(length, sectors) /\ pos \in Int /\ length \in Nat
        /\ pos \in MinPos .. MaxLength /\ length <= MaxLength
  BY StoredFacts DEF IInv
<1>3. PICK b \in Seq(Bytes) : b = io.buffer
  BY <1>1 DEF ReadGoes
<1>4. PICK s \in Nat : s = io.size
  BY <1>1 DEF ReadGoes
<1>5. PICK f \in Int : f = From(io, pos)
  BY <1>2 DEF From
<1>6. /\ io.offset = f + Len(b) /\ Len(b) \in Nat
      /\ b = <<>> => f \in Nat \/ s = 0
      /\ b # <<>> => f \in Nat /\ io.offset <= length
      /\ \A i \in 1 .. Len(b) : b[i] = Byte(sectors, f + i - 1)
      /\ IF io.op = "read" THEN Len(b) + s \in Sizes ELSE Len(b) + s = length
  BY <1>1, <1>3, <1>4, <1>5 DEF ReadGoes
<1>7. PICK c \in Seq(Bytes) : c = [i \in 1 .. length |-> Byte(sectors, i - 1)]
  BY <1>2, AtRestType
<1>8. Len(c) = length
  BY <1>2, <1>7
<1>9. PICK n \in Nat : n = Len(b) + s
  BY <1>6
<1>10. PICK e \in Int : e = Abstract!Smaller(f + n, length)
  BY <1>2, <1>5, <1>9 DEF Abstract!Smaller
<1>11. b = Abstract!Slice(c, f, n)
  <2>1. \/ b = <<>> /\ e <= f
        \/ f \in Nat /\ e = f + Len(b) /\ e <= length
    <3>1. e = IF f + n < length THEN f + n ELSE length
      BY <1>10 DEF Abstract!Smaller
    <3>2. CASE b = <<>> /\ s = 0
      <4>1. n = 0
        BY <1>6, <1>9, <3>2
      <4>2. e <= f
        BY <1>2, <3>1, <4>1
      <4> QED
        BY <3>2, <4>2
    <3>3. CASE b # <<>> /\ s = 0
      BY <1>2, <1>6, <1>9, <3>1, <3>3
    <3>4. CASE s > 0
      <4>1. f + Len(b) >= length
        BY <1>1, <1>4, <1>6, <3>4
      <4>2. e = length
        BY <1>2, <1>6, <1>9, <3>1, <3>4, <4>1
      <4>3. CASE b = <<>>
        BY <1>6, <4>1, <4>2, <4>3
      <4>4. CASE b # <<>>
        <5>1. f \in Nat /\ f + Len(b) <= length /\ Len(b) \in Nat
          BY <1>6, <4>4
        <5> QED
          BY <1>2, <4>1, <4>2, <5>1
      <4> QED
        BY <4>3, <4>4
    <3> QED
      BY <3>2, <3>3, <3>4
  <2>2. b = SubSeq(c, f + 1, e)
    BY <1>2, <1>6, <1>7, <2>1, BufferIsSlice
  <2> QED
    BY <1>8, <1>10, <2>2 DEF Abstract!Slice
<1>12. io.op # "write" /\ io'.op # "write" /\ io' = Idle
  BY <1>1 DEF ReadDone, Idle
<1>13. View = c /\ View' = c
  <2>1. View = [i \in 1 .. length |-> Byte(sectors, i - 1)]
    BY <1>12 DEF View, Seen
  <2>2. View' = [i \in 1 .. length |-> Byte(sectors, i - 1)]
    BY <1>12 DEF View, Seen, ReadDone
  <2> QED
    BY <1>7, <2>1, <2>2
<1>14. /\ pos' = IF io.op = "read" THEN pos + Len(b) ELSE pos
       /\ reply' = IF io.op = "dump" /\ pos < 0 THEN Panicked ELSE ReadBytes(b)
       /\ row' = (row /\ io.op = "dump")
       /\ UNCHANGED <<length, sectors, text>>
  BY <1>3 DEF ReadDone
<1>15. (pos \in MinPos .. MaxLength)'
  <2>1. io.op = "read" => f = pos
    BY <1>5 DEF From
  <2>2. CASE b = <<>>
    BY <1>2, <1>14, <2>2
  <2>3. CASE b # <<>>
    BY LowestIs, <1>2, <1>6, <1>14, <2>1, <2>3
  <2> QED
    BY <2>2, <2>3
<1>16. row' => row /\ AtEnd(io, pos)' = AtEnd(io, pos)
  <2>1. row' => row /\ io.op = "dump"
    BY <1>14
  <2>2. io.op = "dump" => pos' = pos
    BY <1>14
  <2> QED
    BY <1>12, <2>1, <2>2 DEF AtEnd
<1>17. /\ Stored(length, sectors)' /\ Calls' /\ row' \in BOOLEAN
       /\ (reply.op \in {"none", "wrote", "read", "panic"})'
  <2>1. Panicked.op = "panic" /\ ReadBytes(b).op = "read"
    BY DEF Panicked, ReadBytes
  <2> QED
    BY <1>2, <1>12, <1>14, <2>1 DEF Calls
<1>18. IInv' /\ ContentBar' = ContentBar
  BY <1>13, <1>14, <1>15, <1>16, <1>17, Kept
<1>19. /\ ContentBar = c /\ PosBar = pos /\ PosBar' = pos' /\ ReplyBar' = reply'
  BY <1>12, <1>13, BarIsView DEF PosBar, ReplyBar
<1>20. CASE io.op = "read"
  <2>1. f = pos /\ n \in Sizes
    BY <1>5, <1>6, <1>9, <1>20 DEF From
  <2>2. reply' = ReadBytes(b) /\ pos' = pos + Len(b)
    BY <1>14, <1>20
  <2>3. ReadBytes(b).bytes = b
    BY DEF ReadBytes
  <2>4. PosBar >= 0 \/ n = 0
    BY <1>2, <1>6, <1>9, <1>19, <2>1
  <2>5. Abstract!Read(n)
    BY <1>11, <1>18, <1>19, <2>1, <2>2, <2>3, <2>4, BarRead
  <2> QED
    BY <1>18, <2>1, <2>5
<1>21. CASE io.op = "dump"
  <2>1. f = 0 /\ n = length
    BY <1>5, <1>6, <1>9, <1>21 DEF From
  <2>2. Abstract!Slice(c, 0, length) = c
    <3>1. Abstract!Smaller(0 + length, Len(c)) = length
      BY <1>2, <1>8 DEF Abstract!Smaller
    <3>2. SubSeq(c, 0 + 1, length) = c
      BY <1>8
    <3> QED
      BY <3>1, <3>2 DEF Abstract!Slice
  <2>3. b = c
    BY <1>11, <2>1, <2>2
  <2>4. Abstract!Dump
    BY <1>14, <1>18, <1>19, <1>21, <2>3, BarDump
  <2> QED
    BY <1>18, <2>4
<1> QED
  BY <1>1, <1>20, <1>21

\* What is seen of a file of zeros.
LEMMA ZerosSeen ==
  ASSUME NEW n \in Nat, NEW ss, \A i \in 0 .. n - 1 : Byte(ss, i) = NUL
  PROVE  [i \in 1 .. n |-> Byte(ss, i - 1)] = [i \in 1 .. n |-> NUL]
<1>1. \A i \in 1 .. n : i - 1 \in 0 .. n - 1
  OBVIOUS
<1> QED
  BY <1>1

\* A new file holds nothing, and zeros.
Fresh == /\ length \in Sizes /\ pos = 0 /\ io = Idle /\ reply = NoReply
         /\ sectors = Reserved(<<>>, bytes_to_sectors(length))
         /\ text = <<>> /\ row = TRUE

Zeroed == /\ IInv /\ ContentBar = [i \in 1 .. length |-> NUL]
          /\ PosBar = 0 /\ ReplyBar = NoReply

LEMMA NewFile == Fresh => Zeroed
<1> SUFFICES ASSUME Fresh PROVE Zeroed
  OBVIOUS
<1> USE DEF Fresh
<1> PICK n \in Sizes : n = length
  OBVIOUS
<1>1. n \in 0 .. MaxLength /\ n \in Nat
  OBVIOUS
<1>2. Stored(length, sectors) /\ \A i \in 0 .. n - 1 : Byte(sectors, i) = NUL
  BY <1>1, StoredNew
<1>3. io.op = "idle" /\ reply.op = "none"
  BY DEF Idle, NoReply
<1>4. View = [i \in 1 .. n |-> NUL]
  <2>1. View = [i \in 1 .. n |-> Byte(sectors, i - 1)]
    BY <1>3 DEF View, Seen
  <2> QED
    BY <1>1, <1>2, <2>1, ZerosSeen
<1>5. Ends(View, length)
  BY <1>1, <1>4 DEF Ends
<1>6. TextGoes
  <2>1. text \in Seq(Chars) /\ Len(text) = 0 /\ text # Unknown
    BY DEF Unknown
  <2>2. Holds(View, length, text)
    BY <1>1, <1>4, <2>1 DEF Holds
  <2>3. AtEnd(io, pos) = Len(text)
    BY <1>3, <2>1 DEF AtEnd
  <2> QED
    BY <2>1, <2>2, <2>3 DEF TextGoes
<1>7. IInv
  BY LowestIs, <1>1, <1>2, <1>3, <1>5, <1>6 DEF IInv, Calls
<1> QED
  BY <1>3, <1>4, <1>7, BarIsView DEF PosBar, ReplyBar, Zeroed

LEMMA NewFileNext == Fresh' => Zeroed'
BY NewFile, PTL

LEMMA InitHolds ==
  ASSUME Init
  PROVE  IInv /\ Abstract!Init
<1>1. PICK n \in Sizes : n = length
  BY DEF Init
<1>2. sectors = Reserved(<<>>, bytes_to_sectors(n))
  BY <1>1, StoredNew DEF Init
<1>3. Fresh
  BY <1>1, <1>2 DEF Init, Fresh
<1>4. Zeroed
  BY <1>3, NewFile
<1> QED
  BY <1>1, <1>4, BarInit DEF Zeroed

LEMMA CreateCreates ==
  ASSUME IInv, NEW n \in Sizes, Create(n)
  PROVE  IInv' /\ Abstract!Create(n)
<1>1. Fresh' /\ length' = n
  BY DEF Create, Fresh
<1>2. Zeroed'
  BY <1>1, NewFileNext
<1> QED
  BY <1>1, <1>2, BarCreate DEF Zeroed

\* The terminator that file_write sets takes nothing away where one stood.
LEMMA EndedSame ==
  ASSUME NEW b \in Seq(Bytes), Len(b) > 0 => b[Len(b)] = NUL
  PROVE  Ended(b) = b
<1>1. PICK n \in Nat : n = Len(b)
  OBVIOUS
<1>2. b = [i \in 1 .. n |-> b[i]]
  BY <1>1
<1>3. \A i \in 1 .. n : (IF i = n THEN NUL ELSE b[i]) = b[i]
  BY <1>1
<1>4. Ended(b) = [i \in 1 .. n |-> IF i = n THEN NUL ELSE b[i]]
  BY <1>1 DEF Ended
<1> QED
  BY <1>2, <1>3, <1>4

LEMMA PensGoes ==
  ASSUME NEW len \in Nat, NEW b \in Seq(Bytes), NEW at \in Nat,
         at + Len(b) <= len, NEW x, Pens(x, b, at)
  PROVE  WriteGoes(len, x, at)
<1>1. x.op = "write" /\ x.buffer = b /\ x.offset = at /\ x.done = 0
  BY DEF Pens
<1>2. x \in [op : {"write"}, buffer : Seq(Bytes), offset : Nat, done : Nat]
  BY DEF Pens
<1>3. Len(b) \in Nat
  OBVIOUS
<1> QED
  BY <1>1, <1>2, <1>3 DEF WriteGoes

\* A file that is written anew is seen at once.
LEMMA RewrittenSeen ==
  ASSUME IInv, NEW b \in Seq(Bytes), Len(b) <= MaxLength,
         Len(b) > 0 => b[Len(b)] = NUL, Rewritten(b),
         NEW t, text' = t, t = Unknown \/ t \in Seq(Chars),
         t # Unknown => Holds(b, Len(b), t)
  PROVE  /\ IInv' /\ ContentBar' = b /\ PosBar' = Len(b) - 2
         /\ ReplyBar' = Wrote(Len(b))
<1>1. PICK n \in 0 .. MaxLength : n = Len(b)
  OBVIOUS
<1>2. n \in Nat
  OBVIOUS
<1>3. /\ length' = n /\ sectors' = Reserved(<<>>, bytes_to_sectors(n))
      /\ pos' = 0 /\ Pens(io', b, 0) /\ row' = FALSE /\ reply' = reply
  BY <1>1, EndedSame DEF Rewritten, Pens
<1>4. io'.op = "write" /\ io'.buffer = b /\ io'.done = 0
  BY <1>3 DEF Pens
<1>5. Stored(length, sectors)'
  BY <1>3, StoredNew
<1>6. Calls'
  <2>1. WriteGoes(n, io', 0)
    BY <1>1, <1>2, <1>3, PensGoes
  <2> QED
    BY <1>3, <2>1 DEF Calls
<1>7. View' = b
  <2>1. View' = [i \in 1 .. n |->
                   IF i - 0 \in 0 + 1 .. Len(b)
                   THEN b[i - 0] ELSE Byte(sectors', i - 1)]
    BY <1>3, <1>4 DEF View, Seen
  <2>2. \A i \in 1 .. n : i - 0 \in 0 + 1 .. Len(b) /\ i - 0 = i
    BY <1>1
  <2>3. b = [i \in 1 .. n |-> b[i]]
    BY <1>1
  <2> QED
    BY <2>1, <2>2, <2>3
<1>8. Ends(View, length)'
  BY <1>1, <1>3, <1>7 DEF Ends
<1>9. TextGoes'
  BY <1>1, <1>3, <1>7 DEF TextGoes
<1>10. IInv'
  BY LowestIs, <1>3, <1>5, <1>6, <1>8, <1>9 DEF IInv
<1>11. ContentBar' = b
  BY <1>7, <1>10, BarIsViewNext
<1>12. PosBar' = n - 2 /\ ReplyBar' = Wrote(n)
  BY <1>1, <1>2, <1>3, <1>4 DEF PosBar, ReplyBar
<1> QED
  BY <1>1, <1>10, <1>11, <1>12

LEMMA CopyInCopies ==
  ASSUME IInv, NEW t \in Texts, CopyIn(t)
  PROVE  IInv' /\ Abstract!CopyIn(t)
<1>1. t \in Seq(Chars) /\ Len(t) \in Nat /\ t \in Seq(Bytes) /\ NUL \in Bytes
  BY TextsAssumption DEF Bytes
<1>2. PICK b : b = Append(t, NUL)
  OBVIOUS
<1>3. /\ b \in Seq(Bytes) /\ Len(b) = Len(t) + 1
      /\ b[Len(t) + 1] = NUL /\ \A i \in 1 .. Len(t) : b[i] = t[i]
  BY <1>1, <1>2, AppendProperties
<1>4. Len(t) < MaxLength /\ Rewritten(b) /\ text' = t
  BY <1>2 DEF CopyIn
<1>5. Holds(b, Len(b), t)
  BY <1>1, <1>3 DEF Holds
<1>6. Len(b) <= MaxLength /\ (Len(b) > 0 => b[Len(b)] = NUL)
  BY <1>1, <1>3, <1>4
<1>7. /\ IInv' /\ ContentBar' = b /\ PosBar' = Len(b) - 2
      /\ ReplyBar' = Wrote(Len(b))
  BY <1>1, <1>3, <1>4, <1>5, <1>6, RewrittenSeen
<1>8. PosBar' = Len(t) - 1 /\ ReplyBar' = Wrote(Len(t) + 1)
  BY <1>1, <1>3, <1>7
<1> QED
  BY <1>2, <1>7, <1>8, BarCopyIn

LEMMA DefragmentKeeps ==
  ASSUME IInv, Defragment
  PROVE  IInv' /\ Abstract!Defragment
<1>1. io = Idle /\ Rewritten(Content) /\ text' = text
  BY DEF Defragment
<1>2. length \in Nat /\ length <= MaxLength
  BY <1>1, IdleFacts
<1>3. PICK b : b = Content
  OBVIOUS
<1>4. b = [i \in 1 .. length |-> Byte(sectors, i - 1)]
  BY <1>3, Zenon DEF Content, ByteAt, Byte
<1>5. b = View /\ ContentBar = b
  BY <1>1, <1>4, IdleFacts
<1>6. b \in Seq(Bytes) /\ Len(b) = length
  <2>1. Stored(length, sectors)
    BY DEF IInv
  <2>2. b \in Seq(Bytes)
    BY <1>4, <2>1, AtRestType, ZenonT(60)
  <2>3. Len(b) = length
    BY <1>2, <1>4
  <2> QED
    BY <2>2, <2>3
<1>7. Len(b) > 0 => b[Len(b)] = NUL
  BY <1>5, <1>6 DEF IInv, Ends
<1>8. PICK t : t = text
  OBVIOUS
<1>9. (t = Unknown \/ t \in Seq(Chars)) /\ (t # Unknown => Holds(b, Len(b), t))
        /\ text' = t
  BY <1>1, <1>5, <1>6, <1>8 DEF IInv, TextGoes
<1>10. Rewritten(b) /\ Len(b) <= MaxLength
  BY <1>1, <1>2, <1>3, <1>6
<1>11. /\ IInv' /\ ContentBar' = b /\ PosBar' = Len(b) - 2
       /\ ReplyBar' = Wrote(Len(b))
  BY <1>6, <1>7, <1>9, <1>10, RewrittenSeen
<1> QED
  BY <1>5, <1>11, BarDefragment

LEMMA BufferFacts ==
  ASSUME NEW t \in Texts
  PROVE  /\ t \in Seq(Chars) /\ Len(t) \in Nat
         /\ CommandBuffer(t) \in Seq(Bytes)
         /\ Len(CommandBuffer(t)) = Len(t) + 2
         /\ \A i \in 1 .. Len(t) + 2 :
              CommandBuffer(t)[i] = IF i <= Len(t) THEN t[i] ELSE NUL
         /\ Ended(CommandBuffer(t)) = CommandBuffer(t)
<1>1. t \in Seq(Chars) /\ Len(t) \in Nat /\ t \in Seq(Bytes) /\ NUL \in Bytes
  BY TextsAssumption DEF Bytes
<1>2. PICK z : z = <<NUL, NUL>>
  OBVIOUS
<1>3. z \in Seq(Bytes) /\ Len(z) = 2 /\ z[1] = NUL /\ z[2] = NUL
  BY <1>1, <1>2
<1>4. PICK b : b = t \o z
  OBVIOUS
<1>5. /\ b \in Seq(Bytes) /\ Len(b) = Len(t) + 2
      /\ \A i \in 1 .. Len(t) + 2 :
           b[i] = IF i <= Len(t) THEN t[i] ELSE z[i - Len(t)]
  <2>1. t \in Seq(Bytes) /\ z \in Seq(Bytes)
    BY <1>1, <1>3
  <2>2. /\ b \in Seq(Bytes) /\ Len(b) = Len(t) + Len(z)
        /\ \A i \in 1 .. Len(t) + Len(z) :
             b[i] = IF i <= Len(t) THEN t[i] ELSE z[i - Len(t)]
    BY <1>4, <2>1, ConcatProperties
  <2> QED
    BY <1>3, <2>2
<1>6. \A i \in 1 .. Len(t) + 2 : b[i] = IF i <= Len(t) THEN t[i] ELSE NUL
  <2> TAKE i \in 1 .. Len(t) + 2
  <2>1. CASE i <= Len(t)
    BY <1>5, <2>1
  <2>2. CASE ~(i <= Len(t))
    <3>1. i - Len(t) = 1 \/ i - Len(t) = 2
      BY <1>1, <2>2
    <3> QED
      BY <1>3, <1>5, <2>2, <3>1
  <2> QED
    BY <2>1, <2>2
<1>7. b[Len(b)] = NUL
  BY <1>1, <1>5, <1>6
<1>8. Ended(b) = b
  BY <1>5, <1>7, EndedSame
<1> QED
  BY <1>1, <1>2, <1>4, <1>5, <1>6, <1>8 DEF CommandBuffer

\* inode_write_at reserves what a longer file needs.
LEMMA LackingIsEnough ==
  ASSUME sectors \in Seq(Contents), NEW n \in Nat
  PROVE  Lacking(n) \in Nat /\ n <= (Len(sectors) + Lacking(n)) * SectorSize
<1>1. PICK k \in Nat : k = bytes_to_sectors(n)
  BY SectorsFor
<1>2. n <= k * SectorSize /\ Len(sectors) \in Nat
  BY <1>1, SectorsFor
<1>3. CASE k > Len(sectors)
  <2>1. Lacking(n) = k - Len(sectors)
    BY <1>1, <1>3 DEF Lacking
  <2>2. Lacking(n) \in Nat /\ Len(sectors) + Lacking(n) = k
    BY <1>2, <1>3, <2>1
  <2> QED
    BY <1>2, <2>2
<1>4. CASE ~(k > Len(sectors))
  <2>1. Lacking(n) = 0
    BY <1>1, <1>4 DEF Lacking
  <2>2. Len(sectors) + Lacking(n) = Len(sectors) /\ k <= Len(sectors)
    BY <1>2, <1>4, <2>1
  <2>3. PICK K \in Nat : K = k * SectorSize
    BY Multiples
  <2>4. PICK L \in Nat : L = Len(sectors) * SectorSize
    BY <1>2, Multiples
  <2>5. K <= L
    BY <1>2, <2>2, <2>3, <2>4, Multiples
  <2> QED
    BY <1>2, <2>1, <2>2, <2>3, <2>4, <2>5
<1> QED
  BY <1>3, <1>4

\* The sectors when inode_write_at starts to write.
LEMMA WriteExtends ==
  ASSUME IInv, NEW t \in Texts, Write(t),
         NEW new, new = IF pos + Len(t) + 2 > length THEN pos + Len(t) + 2
                                                     ELSE length
  PROVE  /\ length' = new /\ new \in Nat /\ new <= MaxLength
         /\ Stored(new, sectors') /\ Grown(length, sectors, new, sectors')
<1>1. /\ io = Idle /\ pos >= 0 /\ pos + Len(CommandBuffer(t)) <= MaxLength
      /\ IF Extends(pos, Len(CommandBuffer(t)))
         THEN /\ length' = pos + Len(CommandBuffer(t))
              /\ sectors' = Reserved(sectors,
                              Lacking(pos + Len(CommandBuffer(t))))
         ELSE UNCHANGED <<length, sectors>>
  BY DEF Write
<1>2. /\ Stored(length, sectors) /\ length \in Nat /\ length <= MaxLength
      /\ sectors \in Seq(Contents) /\ pos \in Int
  BY StoredFacts DEF IInv
<1>2a. Len(CommandBuffer(t)) = Len(t) + 2 /\ Len(t) \in Nat
  BY BufferFacts
<1>2b. pos \in Nat
  BY <1>1, <1>2
<1>3. PICK n \in Nat : n = pos + Len(CommandBuffer(t)) /\ n = pos + Len(t) + 2
  BY <1>2a, <1>2b
<1>4. n > 0
  BY <1>2a, <1>2b, <1>3
<1>5. Extends(pos, Len(CommandBuffer(t))) <=> n > length
  <2>1. pos + Len(CommandBuffer(t)) - 1 = n - 1
    BY <1>2a, <1>2b, <1>3
  <2> QED
    BY <1>2, <1>4, <2>1 DEF Extends
<1>6. CASE n > length
  <2>1. new = n /\ length' = n /\ n <= MaxLength
          /\ sectors' = Reserved(sectors, Lacking(n))
    BY <1>1, <1>3, <1>5, <1>6
  <2>2. PICK m \in Nat : m = Lacking(n)
    BY <1>2, LackingIsEnough
  <2>3. n <= (Len(sectors) + m) * SectorSize
    BY <1>2, <2>2, LackingIsEnough
  <2>4. Stored(n, Reserved(sectors, m)) /\ Grown(length, sectors, n, Reserved(sectors, m))
    BY <1>2, <1>6, <2>1, <2>3, StoredGrows
  <2> QED
    BY <2>1, <2>2, <2>4
<1>7. CASE ~(n > length)
  <2>1. new = length /\ length' = length /\ sectors' = sectors
    BY <1>1, <1>3, <1>5, <1>7
  <2>2. Grown(length, sectors, length, sectors)
    BY <1>2 DEF Grown
  <2> QED
    BY <1>2, <2>1, <2>2
<1> QED
  BY <1>6, <1>7

\* A text written at the end of a row of texts continues it.
LEMMA RowGrows ==
  ASSUME NEW len \in Nat, NEW ss, NEW at \in Nat, NEW t \in Texts, NEW b,
         b = CommandBuffer(t), NEW new \in Nat, NEW rr,
         Grown(len, ss, new, rr), LongEnough(new, len, at + Len(b)),
         NEW x, Pens(x, b, at), NEW c, AtRest(c, len, ss),
         NEW old \in Seq(Chars), Holds(c, len, old), at = Len(old)
  PROVE  Holds(Seen(new, rr, x, at), new, old \o t) /\ Len(old \o t) = at + Len(t)
<1>1. /\ t \in Seq(Chars) /\ Len(t) \in Nat /\ Len(b) = Len(t) + 2
      /\ \A i \in 1 .. Len(t) + 2 : b[i] = IF i <= Len(t) THEN t[i] ELSE NUL
  BY BufferFacts
<1>2. PICK u : u = old \o t
  OBVIOUS
<1>3. /\ u \in Seq(Chars) /\ Len(u) = at + Len(t)
      /\ \A i \in 1 .. at + Len(t) :
           u[i] = IF i <= at THEN old[i] ELSE t[i - at]
  BY <1>1, <1>2, ConcatProperties
<1>4. x.op = "write" /\ x.buffer = b /\ x.done = 0
  BY DEF Pens
<1>5. PICK v : v = Seen(new, rr, x, at)
  OBVIOUS
<1>6. v = [i \in 1 .. new |-> IF i - at \in 0 + 1 .. Len(b)
                              THEN b[i - at] ELSE Byte(rr, i - 1)]
  BY <1>4, <1>5 DEF Seen
<1>7. ASSUME NEW i \in 1 .. new
      PROVE  v[i] = IF i <= at + Len(t) THEN u[i] ELSE NUL
  <2>0. i \in Int /\ at \in Int
    OBVIOUS
  <2>1. PICK j \in Int : j = i - at
    <3>1. i - at \in Int
      BY <2>0
    <3> QED
      BY <3>1, Zenon
  <2>2. i = at + j /\ i \in Nat
    BY <2>1
  <2>3. CASE j \in 1 .. Len(t) + 2
    <3>1. v[i] = b[j]
      BY <1>1, <1>6, <2>1, <2>3
    <3>2. v[i] = IF j <= Len(t) THEN t[j] ELSE NUL
      BY <1>1, <2>3, <3>1
    <3>3. CASE j <= Len(t)
      <4>1. i \in 1 .. at + Len(t) /\ ~(i <= at)
        BY <1>1, <2>2, <2>3, <3>3
      <4>2. u[i] = t[j]
        BY <1>3, <2>1, <4>1
      <4> QED
        BY <3>2, <3>3, <4>1, <4>2
    <3>4. CASE ~(j <= Len(t))
      <4>1. ~(i <= at + Len(t))
        BY <1>1, <2>2, <3>4
      <4> QED
        BY <3>2, <3>4, <4>1
    <3> QED
      BY <3>3, <3>4
  <2>4. CASE j \notin 1 .. Len(t) + 2
    <3>1. v[i] = Byte(rr, i - 1)
      BY <1>1, <1>6, <2>1, <2>4
    <3>2. i - 1 \in 0 .. new - 1 /\ (i - 1 < len <=> i <= len)
      OBVIOUS
    <3>3. Byte(rr, i - 1) = IF i <= len THEN Byte(ss, i - 1) ELSE NUL
      BY <3>2 DEF Grown
    <3>4. i <= len => Byte(ss, i - 1) = IF i <= at THEN old[i] ELSE NUL
      BY <2>2 DEF Holds, AtRest
    <3>5. at <= len
      BY DEF Holds
    <3>6. v[i] = IF i <= at THEN old[i] ELSE NUL
      BY <2>2, <3>1, <3>3, <3>4, <3>5
    <3>7. CASE i <= at
      <4>1. i \in 1 .. at + Len(t) /\ i <= at + Len(t)
        BY <1>1, <3>7
      <4> QED
        BY <1>3, <3>6, <3>7, <4>1
    <3>8. CASE ~(i <= at)
      <4>1. ~(i <= at + Len(t))
        BY <1>1, <2>2, <2>4, <3>8
      <4> QED
        BY <3>6, <3>8, <4>1
    <3> QED
      BY <3>7, <3>8
  <2> QED
    BY <2>3, <2>4
<1>8. at + Len(t) <= new
  BY <1>1 DEF LongEnough
<1> QED
  BY <1>2, <1>3, <1>5, <1>7, <1>8 DEF Holds

LEMMA WriteWrites ==
  ASSUME IInv, NEW t \in Texts, Write(t)
  PROVE  IInv' /\ Abstract!Write(t)
<1>1. PICK b : b = CommandBuffer(t)
  OBVIOUS
<1>2. /\ t \in Seq(Chars) /\ Len(t) \in Nat /\ b \in Seq(Bytes)
      /\ Len(b) = Len(t) + 2 /\ Ended(b) = b
      /\ \A i \in 1 .. Len(t) + 2 : b[i] = IF i <= Len(t) THEN t[i] ELSE NUL
  BY <1>1, BufferFacts
<1>3. /\ io = Idle /\ pos >= 0 /\ io' = Writing(b)
      /\ text' = IF row THEN text \o t ELSE Unknown
      /\ UNCHANGED <<pos, reply, row>>
  BY <1>1, Zenon DEF Write
<1>4. /\ Stored(length, sectors) /\ length \in Nat /\ pos \in Nat
      /\ View = [i \in 1 .. length |-> Byte(sectors, i - 1)]
      /\ ContentBar = View /\ PosBar = pos /\ AtEnd(io, pos) = pos
  BY <1>3, IdleFacts DEF IInv
<1>5. PICK new : new = IF pos + Len(t) + 2 > length THEN pos + Len(t) + 2
                                                    ELSE length
  OBVIOUS
<1>6. PICK rr : rr = sectors'
  OBVIOUS
<1>7. /\ length' = new /\ new \in Nat /\ new <= MaxLength
      /\ Stored(new, rr) /\ Grown(length, sectors, new, rr)
  BY <1>5, <1>6, WriteExtends
<1>8. PICK x : x = io'
  OBVIOUS
<1>9. Pens(x, b, pos) /\ x.op = "write" /\ x.buffer = b /\ x.done = 0
  <2>1. x = [op |-> "write", buffer |-> b, offset |-> pos, done |-> 0]
    BY <1>2, <1>3, <1>8 DEF Writing
  <2> QED
    BY <2>1 DEF Pens
<1>10. pos + Len(b) <= new
         /\ LongEnough(new, length, pos + Len(b))
  BY <1>2, <1>4, <1>5 DEF LongEnough
<1>11. WriteGoes(new, x, pos)
  BY <1>2, <1>4, <1>7, <1>9, <1>10, PensGoes
<1>12. PICK v : v = Seen(new, rr, x, pos)
  OBVIOUS
<1>13. View' = v
  BY <1>3, <1>6, <1>7, <1>8, <1>12, Zenon DEF View
<1>14. PICK c : c = View
  OBVIOUS
<1>15. v = Abstract!Overlaid(c, pos, b)
  <2>1. AtRest(c, length, sectors)
    BY <1>4, <1>14 DEF AtRest
  <2>2. /\ length \in Nat /\ pos \in Nat /\ new \in Nat
        /\ Grown(length, sectors, new, rr)
        /\ LongEnough(new, length, pos + Len(b)) /\ Pens(x, b, pos)
    BY <1>4, <1>7, <1>9, <1>10
  <2>3. Seen(new, rr, x, pos) = Abstract!Overlaid(c, pos, b)
    BY <1>2, <2>1, <2>2, WriteIsSeen
  <2> QED
    BY <1>12, <2>3, Zenon
<1>16. Ends(v, new)
  <2>1. v = [i \in 1 .. new |-> IF i - pos \in 0 + 1 .. Len(b)
                                THEN b[i - pos] ELSE Byte(rr, i - 1)]
    BY <1>9, <1>12 DEF Seen
  <2>2. CASE pos + Len(b) > length
    <3>1. new - pos = Len(b) /\ new \in 1 .. new /\ Len(b) \in 1 .. Len(b)
      BY <1>2, <1>4, <1>10, <2>2 DEF LongEnough
    <3>2. v[new] = b[Len(b)]
      BY <1>2, <2>1, <3>1
    <3> QED
      BY <1>2, <3>2 DEF Ends
  <2>3. CASE ~(pos + Len(b) > length)
    <3>1. new = length
      BY <1>10, <2>3 DEF LongEnough
    <3> SUFFICES ASSUME new > 0 PROVE v[new] = NUL
      BY DEF Ends
    <3>2. new \in 1 .. new /\ new - 1 \in 0 .. new - 1 /\ new - 1 < length
      BY <1>7, <3>1
    <3>3. Byte(rr, new - 1) = NUL
      <4>1. Byte(rr, new - 1) = Byte(sectors, new - 1)
        BY <1>7, <3>2 DEF Grown
      <4>2. c[new] = NUL
        BY <1>4, <1>14, <3>1 DEF IInv, Ends
      <4>3. c[new] = Byte(sectors, new - 1)
        BY <1>4, <1>14, <3>1, <3>2
      <4> QED
        BY <4>1, <4>2, <4>3
    <3>4. new - pos \in 1 .. Len(b) => b[new - pos] = NUL
      <4>1. Len(b) \in Nat /\ pos \in Nat /\ new \in Nat /\ pos + Len(b) <= new
        BY <1>2, <1>4, <1>7, <1>10
      <4>2. new - pos \in 1 .. Len(b) => new - pos = Len(b)
        BY <4>1
      <4> QED
        BY <1>2, <4>2
    <3> QED
      BY <2>1, <3>2, <3>3, <3>4
  <2> QED
    BY <2>2, <2>3
<1>17. row \in BOOLEAN /\ (text = Unknown \/ text \in Seq(Chars))
         /\ (text # Unknown => Holds(c, length, text))
         /\ (row => text # Unknown /\ pos = Len(text))
  BY <1>4, <1>14 DEF IInv, TextGoes
<1>18. TextGoes'
  <2>1. CASE row
    <3>1. PICK old \in Seq(Chars) : old = text /\ Holds(c, length, old)
                                      /\ pos = Len(old)
      BY <1>17, <2>1
    <3>2. PICK u : u = old \o t
      OBVIOUS
    <3>3. Holds(v, new, u) /\ Len(u) = pos + Len(t)
      <4>1. AtRest(c, length, sectors)
        BY <1>4, <1>14 DEF AtRest
      <4> QED
        BY <1>1, <1>4, <1>7, <1>9, <1>10, <1>12, <3>1, <3>2, <4>1, RowGrows
    <3>4. text' = u /\ row' = row
      BY <1>3, <2>1, <3>1, <3>2
    <3>5. u \in Seq(Chars)
      BY <1>2, <3>2
    <3>6. u # Unknown
      <4>1. NUL \notin Chars
        BY TextsAssumption
      <4>2. Len(Unknown) = 1 /\ Unknown[1] = NUL
        BY DEF Unknown
      <4> QED
        BY <3>5, <4>1, <4>2
    <3>7. AtEnd(io, pos)' = pos + Len(t)
      <4>1. Len(b) = Len(t) + 2 /\ Len(t) \in Nat /\ pos \in Nat
        BY <1>2, <1>4
      <4>2. AtEnd(x, pos) = pos + Len(b) - 2
        BY <1>9 DEF AtEnd
      <4>3. AtEnd(x, pos) = pos + Len(t)
        BY <4>1, <4>2
      <4> QED
        BY <1>3, <1>8, <4>3
    <3> QED
      BY <1>7, <1>13, <1>17, <3>3, <3>4, <3>5, <3>6, <3>7 DEF TextGoes
  <2>2. CASE ~row
    <3>1. text' = Unknown /\ row' = FALSE
      BY <1>3, <1>17, <2>2
    <3> QED
      BY <3>1 DEF TextGoes
  <2> QED
    BY <2>1, <2>2
<1>19. Calls'
  BY <1>3, <1>7, <1>8, <1>11 DEF Calls
<1>20. Stored(length, sectors)' /\ Ends(View, length)'
  BY <1>6, <1>7, <1>13, <1>16
<1>21. IInv'
  BY <1>3, <1>18, <1>19, <1>20 DEF IInv
<1>22. ContentBar' = v
  BY <1>13, <1>21, BarIsViewNext
<1>23. ContentBar' = Abstract!Overlaid(ContentBar, PosBar, t \o <<NUL, NUL>>)
  BY <1>1, <1>4, <1>14, <1>15, <1>22, Zenon DEF CommandBuffer
<1>24. PosBar' = PosBar + Len(t)
  <2>1. PosBar' = pos + Len(b) - 2
    BY <1>3, <1>8, <1>9 DEF PosBar
  <2> QED
    BY <1>2, <1>4, <2>1
<1>25. ReplyBar' = Wrote(Len(t) + 2)
  BY <1>2, <1>8, <1>9 DEF ReplyBar
<1>26. PosBar >= 0
  BY <1>3, <1>4
<1> QED
  BY <1>21, <1>23, <1>24, <1>25, <1>26, BarWrite

-----------------------------------------------------------------------------
(* The theorems.                                                           *)

LEMMA Step ==
  ASSUME IInv, [Next]_vars
  PROVE  IInv' /\ [Abstract!Next]_Abstract!vars
<1>1. ASSUME NEW t \in Texts, Write(t)
      PROVE  IInv' /\ Abstract!Write(t)
  BY <1>1, WriteWrites
<1>2. ASSUME NEW t \in Texts, WriteFails(t)
      PROVE  IInv' /\ Abstract!WriteFails(t)
  BY <1>2, WriteFailsFails
<1>3. ASSUME NEW t \in Texts, CopyIn(t)
      PROVE  IInv' /\ Abstract!CopyIn(t)
  BY <1>3, CopyInCopies
<1>4. ASSUME NEW n \in Sizes, Create(n)
      PROVE  IInv' /\ Abstract!Create(n)
  BY <1>4, CreateCreates
<1>5. ASSUME NEW n \in Sizes, Read(n)
      PROVE  IInv' /\ UNCHANGED Abstract!vars
  BY <1>5, ReadStutters
<1>6. ASSUME NEW n \in Places, Seek(n)
      PROVE  IInv' /\ Abstract!Seek(n)
  BY <1>6, SeekSeeks
<1>7. CASE WriteChunk \/ WriteDone
  BY <1>7, WriteChunkStutters, WriteDoneStutters
<1>8. CASE ReadChunk \/ Dump \/ BeforeStart
  BY <1>8, ReadChunkStutters, DumpStutters, BeforeStartStutters
<1>9. CASE ReadDone
  <2>1. IInv' /\ Abstract!Next
    BY <1>9, ReadDoneReads DEF Abstract!Next
  <2> QED
    BY <2>1
<1>10. CASE Close
  <2>1. IInv' /\ Abstract!Close
    BY <1>10, CloseSeeks
  <2> QED
    BY <2>1 DEF Abstract!Next
<1>11. CASE Defragment
  <2>1. IInv' /\ Abstract!Defragment
    BY <1>11, DefragmentKeeps
  <2> QED
    BY <2>1 DEF Abstract!Next
<1>12. CASE UNCHANGED vars
  <2>1. UNCHANGED <<length, sectors, pos, io, reply, text, row>>
    BY <1>12 DEF vars
  <2>2. View' = View /\ AtEnd(io, pos)' = AtEnd(io, pos)
    BY <2>1, Zenon DEF View
  <2>3. Calls'
    BY <2>1 DEF IInv, Calls
  <2>4. IInv' /\ ContentBar' = ContentBar
    BY <2>1, <2>2, <2>3, Kept DEF IInv, TextGoes
  <2>5. PosBar' = PosBar /\ ReplyBar' = ReplyBar
    BY <2>1 DEF PosBar, ReplyBar
  <2> QED
    BY <2>4, <2>5, BarStutter
<1>13. CASE \E t \in Texts : Write(t) \/ WriteFails(t) \/ CopyIn(t)
  <2>1. IInv' /\ Abstract!Next
    BY <1>1, <1>2, <1>3, <1>13 DEF Abstract!Next
  <2> QED
    BY <2>1
<1>14. CASE \E n \in Sizes : Create(n)
  <2>1. IInv' /\ Abstract!Next
    BY <1>4, <1>14 DEF Abstract!Next
  <2> QED
    BY <2>1
<1>15. CASE \E n \in Sizes : Read(n)
  BY <1>5, <1>15
<1>16. CASE \E n \in Places : Seek(n)
  <2>1. IInv' /\ Abstract!Next
    BY <1>6, <1>16 DEF Abstract!Next
  <2> QED
    BY <2>1
<1> QED
  BY <1>7, <1>8, <1>9, <1>10, <1>11, <1>12, <1>13, <1>14, <1>15, <1>16, Zenon
     DEF Next

LEMMA Invariance == Spec => []IInv
<1>1. Init => IInv
  BY InitHolds
<1>2. IInv /\ [Next]_vars => IInv'
  BY Step
<1> QED
  BY <1>1, <1>2, PTL DEF Spec

\* Every variable keeps its type, and the file has at least the sectors that
\* its length needs, through extensions that fail half-way, closes and the
\* rewriting of defragment (inode_reserve, file_close).
THEOREM TypeCorrect == Spec => []TypeOK
<1>1. ASSUME IInv PROVE TypeOK
  <2>1. length \in 0 .. MaxLength /\ sectors \in Seq(Contents)
          /\ length <= Len(sectors) * SectorSize
    BY <1>1 DEF IInv, Stored
  <2>2. io.op \in {"idle", "read", "write", "dump", "undefined"}
    BY <1>1 DEF IInv, Calls, Idle, Undefined, WriteGoes, ReadGoes
  <2> QED
    BY <1>1, <2>1, <2>2 DEF TypeOK, Contents, IInv, TextGoes
<1> QED
  BY <1>1, Invariance, PTL

\* The sectors of a file hold zeros behind its end, so that a write behind
\* the end leaves no bytes of an older file in the gap (inode_reserve and
\* inode_write_at).
THEOREM ZerosBehindTheEnd == Spec => []PastEndIsZero
<1>1. ASSUME IInv PROVE PastEndIsZero
  BY <1>1 DEF IInv, Stored, PastEndIsZero, ByteAt, Byte
<1> QED
  BY <1>1, Invariance, PTL

\* Between two calls the last byte of a file is a terminator: the one that
\* file_write sets takes nothing away when a file is written back.
THEOREM LastByteTerminates == Spec => []LastByteIsZero
<1>1. ASSUME IInv PROVE LastByteIsZero
  <2> SUFFICES ASSUME io = Idle, length > 0
               PROVE  ByteAt(length - 1) = NUL
    BY DEF LastByteIsZero
  <2>1. View = [i \in 1 .. length |-> Byte(sectors, i - 1)] /\ length \in Nat
    BY <1>1, IdleFacts
  <2>2. View[length] = NUL
    BY <1>1, <2>1 DEF IInv, Ends
  <2>3. View[length] = Byte(sectors, length - 1)
    BY <2>1
  <2> QED
    BY <2>2, <2>3 DEF ByteAt, Byte
<1> QED
  BY <1>1, Invariance, PTL

\* The texts written in a row stay in the file, whatever is sought, read,
\* closed or defragmented in between (file_write, the shell's commands).
THEOREM TextStays == Spec => []TextKept
<1>1. ASSUME IInv PROVE TextKept
  <2> SUFFICES ASSUME io = Idle, text # Unknown
               PROVE  /\ length >= Len(text)
                      /\ \A i \in 1 .. length :
                           Content[i] = IF i <= Len(text) THEN text[i] ELSE NUL
    BY DEF TextKept
  <2>1. View = [i \in 1 .. length |-> Byte(sectors, i - 1)] /\ length \in Nat
    BY <1>1, IdleFacts
  <2>2. Content = View
    BY <2>1 DEF Content, ByteAt, Byte
  <2>3. Holds(View, length, text) /\ text \in Seq(Chars)
    BY <1>1 DEF IInv, TextGoes
  <2>4. Len(text) \in Nat
    BY <2>3
  <2> QED
    BY <2>1, <2>2, <2>3, <2>4 DEF Holds
<1> QED
  BY <1>1, Invariance, PTL

\* Reads and writes that go sector by sector answer like a file that is one
\* sequence of bytes (file.h), for every size of the sectors.
THEOREM Refinement == Spec => ImplementsTextFile
<1>1. Init => Abstract!Init
  BY InitHolds
<1>2. IInv /\ [Next]_vars => [Abstract!Next]_Abstract!vars
  BY Step
<1> QED
  BY <1>1, <1>2, Invariance, PTL DEF Spec, ImplementsTextFile, Abstract!Spec

=============================================================================
