-------------------------- MODULE FileSystemProofs --------------------------
(***************************************************************************)
(* What holds of the file system for all sizes of the disk, of an inode    *)
(* and of the directory: types, files that share no sector, a free map     *)
(* file that has all their sectors, and open inodes that match the table   *)
(* of open files.                                                          *)
(***************************************************************************)
EXTENDS FileSystem, FiniteSetTheorems, WellFoundedInduction, TLAPS

USE SizeAssumption

-----------------------------------------------------------------------------
(* Granting sectors: the members of a set of numbers by rank.              *)

LEMMA LeastMember ==
  ASSUME NEW S \in SUBSET Nat, S # {}
  PROVE  \E x \in S : \A y \in S : x <= y
<1>1. PICK x \in S : \A y \in S : ~ (<<y, x>> \in OpToRel(<, Nat))
  BY NatLessThanWellFounded, WFMin
<1>2. ASSUME NEW y \in S, y < x
      PROVE  <<y, x>> \in OpToRel(<, Nat)
  <2> y \in Nat /\ x \in Nat
    OBVIOUS
  <2> <<y, x>> \in Nat \X Nat /\ <<y, x>>[1] < <<y, x>>[2]
    BY <1>2
  <2> QED
    BY Zenon DEF OpToRel
<1>3. \A y \in S : ~(y < x)
  BY <1>1, <1>2, Zenon
<1> QED
  BY <1>3

LEMMA BelowFinite ==
  ASSUME NEW S, IsFiniteSet(S), NEW i
  PROVE  LET B == {j \in S : j < i}
         IN IsFiniteSet(B) /\ Rank(i, S) = Cardinality(B)
              /\ Rank(i, S) \in Nat
<1> {j \in S : j < i} \in SUBSET S
  OBVIOUS
<1> QED
  BY FS_Subset, FS_CardinalityType DEF Rank

\* The next member after s has the next rank.
LEMMA RankOfNext ==
  ASSUME NEW S \in SUBSET Nat, IsFiniteSet(S), NEW s \in S, NEW t \in S,
         s < t, \A j \in S : j > s => t <= j
  PROVE  Rank(t, S) = Rank(s, S) + 1
<1> DEFINE B == {j \in S : j < s}
<1>1. {j \in S : j < t} = B \cup {s}
  <2>1. \A j \in S : j \in Nat
    OBVIOUS
  <2>2. \A j \in S : j < t <=> j < s \/ j = s
    BY <2>1
  <2> QED
    BY <2>2
<1>2. IsFiniteSet(B) /\ Rank(s, S) = Cardinality(B)
  BY BelowFinite
<1>3. s \notin B
  OBVIOUS
<1> HIDE DEF B
<1>4. Cardinality(B \cup {s}) = Cardinality(B) + 1
  BY <1>2, <1>3, FS_AddElement
<1> QED
  BY <1>1, <1>2, <1>4 DEF Rank

LEMMA RankIncreases ==
  ASSUME NEW S \in SUBSET Nat, IsFiniteSet(S), NEW s \in S, NEW t \in S,
         s < t
  PROVE  Rank(s, S) < Rank(t, S)
<1> DEFINE B == {j \in S : j < s}
           C == {j \in S : j < t}
<1>1. IsFiniteSet(B) /\ Rank(s, S) = Cardinality(B) /\ Rank(s, S) \in Nat
  BY BelowFinite
<1>2. IsFiniteSet(C) /\ Rank(t, S) = Cardinality(C) /\ Rank(t, S) \in Nat
  BY BelowFinite
<1>3. B \cup {s} \in SUBSET C /\ s \notin B
  <2>1. \A j \in S : j \in Nat
    OBVIOUS
  <2>2. ~ (s < s) /\ \A j \in S : j < s => j < t
    BY <2>1
  <2> QED
    BY <2>2
<1> HIDE DEF B, C
<1>4. Cardinality(B \cup {s}) = Cardinality(B) + 1
  BY <1>1, <1>3, FS_AddElement
<1>5. Cardinality(B \cup {s}) <= Cardinality(C)
  BY <1>2, <1>3, FS_Subset
<1> QED
  BY <1>1, <1>2, <1>4, <1>5

\* No two members have one rank.
LEMMA RankIsUnique ==
  ASSUME NEW S \in SUBSET Nat, IsFiniteSet(S), NEW s \in S, NEW t \in S,
         Rank(s, S) = Rank(t, S)
  PROVE  s = t
<1>1. Rank(s, S) \in Nat
  BY BelowFinite
<1>2. ~(s < t) /\ ~(t < s)
  BY <1>1, RankIncreases
<1> QED
  BY <1>2

\* Every rank below the size of the set is taken: by least counterexample.
LEMMA RankIsTaken ==
  ASSUME NEW S \in SUBSET Nat, IsFiniteSet(S),
         NEW r \in Nat, r < Cardinality(S)
  PROVE  \E s \in S : Rank(s, S) = r
<1> DEFINE Gaps == {i \in Nat : /\ i < Cardinality(S)
                               /\ \A s \in S : Rank(s, S) # i}
<1>0. Cardinality(S) \in Nat
  BY FS_CardinalityType
<1> SUFFICES ASSUME Gaps # {} PROVE FALSE
  OBVIOUS
<1>1. PICK i \in Gaps : \A k \in Gaps : i <= k
  BY LeastMember
<1>2. CASE i = 0
  <2>1. S # {}
    BY <1>0, <1>1, <1>2, FS_EmptySet
  <2>2. PICK s \in S : \A y \in S : s <= y
    BY <2>1, LeastMember
  <2>3. {j \in S : j < s} = {}
    <3> \A j \in S : j \in Nat
      OBVIOUS
    <3> \A j \in S : ~ (j < s)
      BY <2>2
    <3> QED
      OBVIOUS
  <2>4. Rank(s, S) = 0
    BY <2>3, FS_EmptySet DEF Rank
  <2> QED
    BY <1>1, <1>2, <2>4
<1>3. CASE i > 0
  <2>1. i - 1 \in Nat /\ i - 1 < Cardinality(S) /\ i - 1 \notin Gaps
    BY <1>0, <1>1, <1>3
  <2>2. PICK s \in S : Rank(s, S) = i - 1
    BY <2>1
  <2> DEFINE U == {j \in S : j > s}
             B == {j \in S : j < s}
  <2>3. U # {}
    <3> SUFFICES ASSUME U = {} PROVE FALSE
      OBVIOUS
    <3>1. S = B \cup {s} /\ s \notin B
      <4>1. \A j \in S : j \in Nat /\ ~ (j > s)
        OBVIOUS
      <4>2. ~ (s < s) /\ \A j \in S : j < s \/ j = s
        BY <4>1
      <4> QED
        BY <4>2
    <3>2. IsFiniteSet(B) /\ Cardinality(B) = i - 1
      BY <2>2, BelowFinite
    <3> HIDE DEF B
    <3>3. Cardinality(S) = i
      BY <1>1, <3>1, <3>2, FS_AddElement
    <3> QED
      BY <1>0, <1>1, <3>3
  <2>4. PICK t \in U : \A y \in U : t <= y
    BY <2>3, LeastMember
  <2>5. Rank(t, S) = i
    BY <1>1, <2>2, <2>4, RankOfNext
  <2> QED
    BY <1>1, <2>4, <2>5
<1> QED
  BY <1>1, <1>2, <1>3

LEMMA NthIsMember ==
  ASSUME NEW S \in SUBSET Nat, IsFiniteSet(S),
         NEW r \in Nat, r < Cardinality(S)
  PROVE  Nth(r, S) \in S /\ Rank(Nth(r, S), S) = r
BY RankIsTaken, Zenon DEF Nth

\* The first one is a case of its own.
LEMMA FirstIsMember ==
  ASSUME NEW S \in SUBSET Nat, IsFiniteSet(S), S # {}
  PROVE  Nth(0, S) \in S
<1>1. Cardinality(S) \in Nat /\ Cardinality(S) # 0
  BY FS_CardinalityType, FS_EmptySet
<1> QED
  BY <1>1, NthIsMember

LEMMA SectorsType == Sectors \in SUBSET Nat /\ IsFiniteSet(Sectors)
                       /\ None \in Sectors
BY FS_Interval DEF Sectors, None

LEMMA FreeType ==
  ASSUME NEW b
  PROVE  /\ Free(b) \in SUBSET Nat /\ IsFiniteSet(Free(b))
         /\ Free(b) \in SUBSET Sectors
         /\ Cardinality(Free(b)) \in Nat
<1>1. Free(b) \in SUBSET Sectors
  BY DEF Free
<1> QED
  BY <1>1, SectorsType, FS_Subset, FS_CardinalityType

\* What is granted: sectors that were free, each of them once.
LEMMA GrantFacts ==
  ASSUME NEW want \in SUBSET Nat, IsFiniteSet(want), NEW b
  PROVE  LET g == Grant(want, b)
         IN /\ DOMAIN g \subseteq want
            /\ \A i \in DOMAIN g : g[i] \in Sectors /\ g[i] \notin b
            /\ \A i, k \in DOMAIN g : g[i] = g[k] => i = k
            /\ Free(b) = {} => DOMAIN g = {}
            /\ Granted(g) \subseteq Sectors /\ Granted(g) \cap b = {}
<1> DEFINE F == Free(b)
           D == {i \in want : Rank(i, want) < Cardinality(F)}
           g == Grant(want, b)
<1>1. F \in SUBSET Nat /\ IsFiniteSet(F) /\ F \in SUBSET Sectors
        /\ Cardinality(F) \in Nat
  BY FreeType
<1>2. g = [i \in D |-> Nth(Rank(i, want), F)]
  BY DEF Grant
<1> HIDE DEF F, g
<1>3. DOMAIN g = D
  BY <1>2
<1>4. ASSUME NEW i \in D
      PROVE  g[i] \in F /\ Rank(g[i], F) = Rank(i, want)
  <2>1. Rank(i, want) \in Nat /\ Rank(i, want) < Cardinality(F)
    BY BelowFinite
  <2>2. g[i] = Nth(Rank(i, want), F)
    BY <1>2
  <2> QED
    BY <1>1, <2>1, <2>2, NthIsMember
<1>5. ASSUME NEW i \in D, NEW k \in D, g[i] = g[k]
      PROVE  i = k
  BY <1>4, <1>5, RankIsUnique
<1>6. F = {} => D = {}
  BY <1>4
<1>7. \A i \in D : g[i] \in Sectors /\ g[i] \notin b
  BY <1>4 DEF F, Free
<1> QED
  BY <1>3, <1>5, <1>6, <1>7 DEF g, F, Granted

-----------------------------------------------------------------------------
(* A file's sectors by position: its direct blocks, its index block, and   *)
(* the blocks that lists.                                                  *)

Positions == 0 .. NumDirect + NumIndirect

\* The positions that a file of n sectors fills.
Needed(n) == {p \in Positions : p < (IF n > NumDirect THEN n + 1 ELSE n)}

Pointer(x, d) ==
  [p \in Positions |->
     IF p < NumDirect THEN x.direct[p]
     ELSE IF p = NumDirect \/ x.index = None THEN x.index
     ELSE d[x.index].blocks[p - NumDirect - 1]]

Uses(x, d) == {Pointer(x, d)[p] : p \in Positions} \ {None}

Indexed(x, d) == x.index # None => d[x.index] \in IndexBlocks
Apart(f) == \A p, q \in Positions : f[p] = f[q] /\ f[p] # None => p = q
Full(x, d) == \A p \in Needed(x.len) : Pointer(x, d)[p] # None

\* An inode, in memory or on disk, whose blocks can be reached and are apart.
Proper(x, d) ==
  x \in Inodes /\ Indexed(x, d) /\ Apart(Pointer(x, d)) /\ Full(x, d)

\* The inode in memory may have sectors that the one on disk has not yet.
Extends(x, y) ==
  /\ y.len = x.len
  /\ y.index \in {None, x.index}
  /\ \A i \in 0 .. NumDirect - 1 : y.direct[i] \in {None, x.direct[i]}

Current(s, d, o) == IF o[s] = NotOpen THEN d[s] ELSE o[s]
Claims(s, d, o) == {s} \cup Uses(Current(s, d, o), d)

\* The file whose inode is in sector s, with disk d, open inodes o and the
\* sectors b marked.
FileSound(s, d, o, b) ==
  /\ None \notin Claims(s, d, o)
  /\ Claims(s, d, o) \subseteq b
  /\ s \notin Uses(Current(s, d, o), d)
  /\ Proper(Current(s, d, o), d)
  /\ d[s] \in Inodes
  /\ Full(d[s], d)
  /\ Extends(Current(s, d, o), d[s])

Disjoint(R, d, o) ==
  \A e, f \in R : e # f
    => Claims(e.sector, d, o) \cap Claims(f.sector, d, o) = {}

Sound(R, d, o, b) == /\ None \in b
                     /\ \A e \in R : FileSound(e.sector, d, o, b)
                     /\ Disjoint(R, d, o)

\* Disks and lists of open inodes by type.
DiskType(d) ==
  d \in [Sectors -> {MapInode, Bytes} \cup Inodes \cup IndexBlocks]
OpenType(o) == o \in [Sectors -> {NotOpen} \cup Inodes]

LEMMA InodeType ==
  ASSUME NEW x \in Inodes
  PROVE  /\ x # NotOpen
         /\ x.kind = "inode"
         /\ x.len \in Lengths
         /\ x.index \in Sectors
         /\ x.direct \in [0 .. NumDirect - 1 -> Sectors]
         /\ \A l \in Lengths : LET y == [x EXCEPT !.len = l]
                               IN /\ y \in Inodes /\ y.len = l
                                  /\ y.direct = x.direct /\ y.index = x.index
         /\ \A i \in Sectors : LET y == [x EXCEPT !.index = i]
                               IN /\ y \in Inodes /\ y.index = i
                                  /\ y.direct = x.direct /\ y.len = x.len
         /\ \A g \in [0 .. NumDirect - 1 -> Sectors] :
              LET y == [x EXCEPT !.direct = g]
              IN /\ y \in Inodes /\ y.direct = g
                 /\ y.index = x.index /\ y.len = x.len
BY DEF Inodes, NotOpen

LEMMA IndexType ==
  ASSUME NEW c \in IndexBlocks
  PROVE  /\ c.kind = "index" /\ c \notin Inodes
         /\ c.blocks \in [0 .. NumIndirect - 1 -> Sectors]
         /\ PointersIn(c) = c.blocks
<1>1. c.kind = "index" /\ c.blocks \in [0 .. NumIndirect - 1 -> Sectors]
        /\ c \notin Inodes
  BY DEF IndexBlocks, Inodes
<1>2. PointersIn(c) = [i \in 0 .. NumIndirect - 1 |-> c.blocks[i]]
  BY <1>1, Zenon DEF PointersIn
<1> QED
  BY <1>1, <1>2

LEMMA PositionFacts ==
  /\ Positions \subseteq Nat /\ IsFiniteSet(Positions)
  /\ NumDirect \in Positions
  /\ \A i \in 0 .. NumDirect - 1 : i \in Positions /\ i # NumDirect
  /\ \A i \in 0 .. NumIndirect - 1 :
       /\ NumDirect + 1 + i \in Positions
       /\ (NumDirect + 1 + i) - NumDirect - 1 = i
  /\ \A p \in Positions : \/ p \in 0 .. NumDirect - 1
                          \/ p = NumDirect
                          \/ p - NumDirect - 1 \in 0 .. NumIndirect - 1
                               /\ p > NumDirect
BY FS_Interval DEF Positions

\* Pointers case by case.
LEMMA PointerFacts ==
  ASSUME NEW x, NEW d
  PROVE  /\ Pointer(x, d) = [p \in Positions |-> Pointer(x, d)[p]]
         /\ \A p \in 0 .. NumDirect - 1 : Pointer(x, d)[p] = x.direct[p]
         /\ Pointer(x, d)[NumDirect] = x.index
         /\ x.index = None => \A p \in Positions :
              p >= NumDirect => Pointer(x, d)[p] = None
         /\ x.index # None => \A i \in 0 .. NumIndirect - 1 :
              Pointer(x, d)[NumDirect + 1 + i] = d[x.index].blocks[i]
         /\ x.index # None => \A p \in Positions :
              p > NumDirect =>
                Pointer(x, d)[p] = d[x.index].blocks[p - NumDirect - 1]
BY PositionFacts DEF Pointer

\* Only the contents of the index block bear on the pointers.
SamePointers(x, d, y, dd) ==
  /\ y.direct = x.direct /\ y.index = x.index
  /\ x.index # None => dd[x.index] = d[x.index]

LEMMA PointerFrame ==
  ASSUME NEW x, NEW d, NEW dd, NEW y, SamePointers(x, d, y, dd)
  PROVE  /\ Pointer(y, dd) = Pointer(x, d)
         /\ Uses(y, dd) = Uses(x, d)
         /\ Indexed(x, d) => Indexed(y, dd)
BY DEF Pointer, Uses, Indexed, SamePointers

LEMMA IndexIsUsed ==
  ASSUME NEW x, NEW d, x.index # None
  PROVE  x.index \in Uses(x, d)
BY PointerFacts, PositionFacts DEF Uses

LEMMA PointerType ==
  ASSUME NEW x \in Inodes, NEW d, Indexed(x, d), NEW p \in Positions
  PROVE  Pointer(x, d)[p] \in Sectors
<1>1. x.direct \in [0 .. NumDirect - 1 -> Sectors] /\ x.index \in Sectors
  BY InodeType
<1>2. CASE p \in 0 .. NumDirect - 1
  BY <1>1, <1>2, PointerFacts
<1>3. CASE p = NumDirect
  BY <1>1, <1>3, PointerFacts
<1>4. CASE p > NumDirect /\ x.index = None
  <2>1. p >= NumDirect
    BY <1>4, PositionFacts
  <2>2. Pointer(x, d)[p] = None
    BY <1>4, <2>1, PointerFacts
  <2> QED
    BY <2>2, SectorsType
<1>5. CASE p > NumDirect /\ x.index # None
           /\ p - NumDirect - 1 \in 0 .. NumIndirect - 1
  <2>1. d[x.index].blocks \in [0 .. NumIndirect - 1 -> Sectors]
    BY <1>5, IndexType DEF Indexed
  <2>2. PICK i \in 0 .. NumIndirect - 1 : i = p - NumDirect - 1
    BY <1>5
  <2>3. Pointer(x, d)[p] = d[x.index].blocks[i]
    BY <1>5, <2>2, PointerFacts
  <2> QED
    BY <2>1, <2>3
<1> QED
  BY <1>2, <1>3, <1>4, <1>5, PositionFacts

\* The inode on disk has some of the pointers of the one in memory.
LEMMA ExtendsFacts ==
  ASSUME NEW x \in Inodes, NEW y \in Inodes, NEW d, Extends(x, y)
  PROVE  /\ \A p \in Positions : Pointer(y, d)[p] \in {None, Pointer(x, d)[p]}
         /\ Uses(y, d) \subseteq Uses(x, d)
         /\ Proper(x, d) /\ Full(y, d) => Proper(y, d)
<1>1. ASSUME NEW p \in Positions
      PROVE  Pointer(y, d)[p] \in {None, Pointer(x, d)[p]}
  <2>1. CASE p \in 0 .. NumDirect - 1
    BY <2>1, PointerFacts DEF Extends
  <2>2. CASE p = NumDirect
    BY <2>2, PointerFacts DEF Extends
  <2>3. CASE p > NumDirect /\ y.index = None
    BY <2>3, PointerFacts, PositionFacts
  <2>4. CASE p > NumDirect /\ y.index # None
    BY <2>4, PointerFacts DEF Extends
  <2> QED
    BY <2>1, <2>2, <2>3, <2>4, PositionFacts
<1>2. Uses(y, d) \subseteq Uses(x, d)
  BY <1>1 DEF Uses
<1>3. Apart(Pointer(x, d)) => Apart(Pointer(y, d))
  BY <1>1 DEF Apart
<1>4. Indexed(x, d) => Indexed(y, d)
  BY DEF Indexed, Extends
<1> QED
  BY <1>1, <1>2, <1>3, <1>4 DEF Proper

\* What is done to other sectors does not concern a file.
LEMMA FileFrame ==
  ASSUME NEW s, NEW d, NEW o, NEW b, FileSound(s, d, o, b),
         NEW dd, NEW oo, NEW bb,
         oo[s] = o[s],
         \A t \in Claims(s, d, o) : dd[t] = d[t] /\ t \in bb
  PROVE  FileSound(s, dd, oo, bb) /\ Claims(s, dd, oo) = Claims(s, d, o)
<1> DEFINE x == Current(s, d, o)
<1>1. x \in Inodes /\ d[s] \in Inodes /\ s \in Claims(s, d, o)
  BY DEF FileSound, Proper, Claims
<1>2. dd[s] = d[s] /\ Current(s, dd, oo) = x
  BY <1>1 DEF Current
<1>3. \A i : i = x.index /\ i # None => dd[i] = d[i]
  BY IndexIsUsed DEF Claims
<1>4. \A i : i = d[s].index /\ i # None => dd[i] = d[i]
  BY <1>3 DEF FileSound, Extends
<1> HIDE DEF x
<1>5. Pointer(x, dd) = Pointer(x, d) /\ Uses(x, dd) = Uses(x, d)
        /\ (Indexed(x, d) => Indexed(x, dd))
  BY <1>3, PointerFrame DEF SamePointers
<1>6. Pointer(d[s], dd) = Pointer(d[s], d)
  BY <1>4, PointerFrame DEF SamePointers
<1>7. Claims(s, dd, oo) = Claims(s, d, o)
  BY <1>2, <1>5 DEF Claims, x
<1> QED
  BY <1>2, <1>5, <1>6, <1>7 DEF FileSound, Proper, Full, x

\* A file that is closed is what is on disk.
LEMMA FileShrinks ==
  ASSUME NEW s, NEW d, NEW o, NEW b, FileSound(s, d, o, b), NEW oo,
         oo[s] \in {NotOpen, o[s]}
  PROVE  FileSound(s, d, oo, b) /\ Claims(s, d, oo) \subseteq Claims(s, d, o)
<1>1. CASE oo[s] = o[s]
  BY <1>1 DEF FileSound, Claims, Current
<1>2. CASE oo[s] = NotOpen
  <2> DEFINE x == Current(s, d, o)
             y == d[s]
  <2>1. Current(s, d, oo) = y
    BY <1>2 DEF Current
  <2>2. x \in Inodes /\ y \in Inodes /\ Extends(x, y) /\ Proper(x, d)
          /\ Full(y, d)
    BY DEF FileSound, Proper
  <2> HIDE DEF x, y
  <2>3. Uses(y, d) \subseteq Uses(x, d) /\ Proper(y, d)
    BY <2>2, ExtendsFacts
  <2>4. Extends(y, y)
    BY DEF Extends
  <2>5. Claims(s, d, oo) \subseteq Claims(s, d, o)
    BY <2>1, <2>3 DEF Claims, x
  <2> QED
    BY <2>1, <2>2, <2>3, <2>4, <2>5 DEF FileSound, x, y
<1> QED
  BY <1>1, <1>2

-----------------------------------------------------------------------------
(* What Reserve does to an inode.                                          *)

\* The new pointers, position by position: those there were are kept, the
\* others are sectors that were not marked, each in one position.  After a
\* success the positions N have theirs, and nothing else was taken.
Reserved(x, N, b, d, r) ==
  /\ r.ok \in BOOLEAN
  /\ r.ino \in Inodes /\ r.ino.len = x.len
  /\ r.bitmap \subseteq Sectors /\ b \subseteq r.bitmap
  /\ DiskType(r.disk)
  /\ \A t \in b \ {None} : t # x.index => r.disk[t] = d[t]
  /\ Indexed(r.ino, r.disk)
  /\ \A p \in Positions : Pointer(x, d)[p] # None
       => Pointer(r.ino, r.disk)[p] = Pointer(x, d)[p]
  /\ \A p \in Positions : Pointer(x, d)[p] = None
       => Pointer(r.ino, r.disk)[p] \in {None} \cup (r.bitmap \ b)
  /\ \A p, q \in Positions :
       /\ Pointer(x, d)[p] = None /\ Pointer(x, d)[q] = None
       /\ Pointer(r.ino, r.disk)[p] = Pointer(r.ino, r.disk)[q]
       /\ Pointer(r.ino, r.disk)[p] # None
       => p = q
  /\ r.ok => /\ \A p \in N : Pointer(r.ino, r.disk)[p] # None
             /\ \A t \in r.bitmap \ b :
                  \E p \in N : Pointer(r.ino, r.disk)[p] = t

LEMMA WithBytesFacts ==
  ASSUME NEW d, DiskType(d), NEW S
  PROVE  /\ DiskType(WithBytes(d, S))
         /\ \A t \in Sectors \ S : WithBytes(d, S)[t] = d[t]
         /\ \A t \in Sectors \cap S : WithBytes(d, S)[t] = Bytes
BY DEF DiskType, WithBytes

LEMMA LackingFacts ==
  ASSUME NEW k \in Nat, NEW f \in [0 .. k -> Sectors], NEW n
  PROVE  /\ Lacking(f, n) \in SUBSET Nat
         /\ IsFiniteSet(Lacking(f, n))
         /\ Lacking(f, n) = {i \in 0 .. k : i < n /\ f[i] = None}
<1>1. Lacking(f, n) = {i \in 0 .. k : i < n /\ f[i] = None}
  BY DEF Lacking
<1>2. Lacking(f, n) \in SUBSET (0 .. k)
  BY <1>1
<1>3. IsFiniteSet(0 .. k)
  BY FS_Interval
<1> QED
  BY <1>1, <1>2, <1>3, FS_Subset

\* h is the pointers f, of positions 0 .. k, with those granted by g filled in.
FillsIn(k, f, n, b, g, h) ==
  /\ h \in [0 .. k -> Sectors]
  /\ \A i \in 0 .. k : f[i] # None => h[i] = f[i]
  /\ \A i \in 0 .. k : f[i] = None => h[i] \in {None} \cup Granted(g)
  /\ \A i, j \in 0 .. k :
       f[i] = None /\ f[j] = None /\ h[i] = h[j] /\ h[i] # None => i = j
  /\ DOMAIN g = Lacking(f, n) => \A i \in 0 .. k : i < n => h[i] # None
  /\ Granted(g) \subseteq Sectors /\ Granted(g) \cap b = {}
  /\ \A t \in Granted(g) : \E i \in 0 .. k : i < n /\ h[i] = t
  /\ Free(b) = {} => DOMAIN g = {}

LEMMA FilledFacts ==
  ASSUME NEW k \in Nat, NEW f \in [0 .. k -> Sectors], NEW n, NEW b, None \in b
  PROVE  LET g == Grant(Lacking(f, n), b)
         IN FillsIn(k, f, n, b, g, Filled(f, g))
<1> DEFINE want == Lacking(f, n)
           g == Grant(want, b)
           h == Filled(f, g)
<1>1. /\ want \in SUBSET Nat /\ IsFiniteSet(want)
      /\ want = {i \in 0 .. k : i < n /\ f[i] = None}
  BY LackingFacts
<1> HIDE DEF want
<1>2. /\ DOMAIN g \subseteq want
      /\ \A i \in DOMAIN g : g[i] \in Sectors /\ g[i] \notin b
      /\ \A i, j \in DOMAIN g : g[i] = g[j] => i = j
      /\ Free(b) = {} => DOMAIN g = {}
      /\ Granted(g) \subseteq Sectors /\ Granted(g) \cap b = {}
  BY <1>1, GrantFacts
<1> HIDE DEF g
<1>3. h = [i \in 0 .. k |-> IF i \in DOMAIN g THEN g[i] ELSE f[i]]
  BY DEF Filled
<1> HIDE DEF h
<1>4. \A i \in DOMAIN g : i \in 0 .. k /\ i < n /\ f[i] = None
                            /\ g[i] \in Granted(g) /\ g[i] # None
  BY <1>1, <1>2 DEF Granted
<1>5. h \in [0 .. k -> Sectors]
  BY <1>2, <1>3
<1>6. \A i \in 0 .. k : f[i] # None => h[i] = f[i]
  BY <1>3, <1>4
<1>7. \A i \in 0 .. k : f[i] = None
        => h[i] \in {None} \cup Granted(g) /\ (h[i] # None => i \in DOMAIN g)
  BY <1>3, <1>4
<1>8. \A i, j \in DOMAIN g : h[i] = h[j] => i = j
  BY <1>2, <1>3, <1>4
<1>9. DOMAIN g = want => \A i \in 0 .. k : i < n => h[i] # None
  BY <1>1, <1>3, <1>4
<1>10. \A t \in Granted(g) : \E i \in 0 .. k : i < n /\ h[i] = t
  BY <1>3, <1>4 DEF Granted
<1> QED
  <2>1. FillsIn(k, f, n, b, g, h)
    BY <1>2, <1>5, <1>6, <1>7, <1>8, <1>9, <1>10 DEF FillsIn, want
  <2> QED
    BY <2>1 DEF g, h, want

\* Two reservations after each other are one.
LEMMA ReserveTwice ==
  ASSUME NEW x, NEW M \in SUBSET Positions, NEW N \in SUBSET Positions,
         NEW b, NEW d, NEW q, NEW r,
         Reserved(x, M, b, d, q), q.ok,
         Reserved(q.ino, N, q.bitmap, q.disk, r)
  PROVE  Reserved(x, M \cup N, b, d, r)
<1> DEFINE X == Pointer(x, d)
           Y == Pointer(q.ino, q.disk)
           Z == Pointer(r.ino, r.disk)
<1>1. /\ \A p \in Positions : X[p] # None => Y[p] = X[p]
      /\ \A p \in Positions : X[p] = None => Y[p] \in {None} \cup (q.bitmap \ b)
      /\ \A p, k \in Positions : X[p] = None /\ X[k] = None /\ Y[p] = Y[k]
                                   /\ Y[p] # None => p = k
      /\ \A p \in M : Y[p] # None
      /\ \A t \in q.bitmap \ b : \E p \in M : Y[p] = t
      /\ b \subseteq q.bitmap
  BY DEF Reserved
<1>2. /\ \A p \in Positions : Y[p] # None => Z[p] = Y[p]
      /\ \A p \in Positions :
           Y[p] = None => Z[p] \in {None} \cup (r.bitmap \ q.bitmap)
      /\ \A p, k \in Positions : Y[p] = None /\ Y[k] = None /\ Z[p] = Z[k]
                                   /\ Z[p] # None => p = k
      /\ q.bitmap \subseteq r.bitmap
      /\ r.ok => /\ \A p \in N : Z[p] # None
                 /\ \A t \in r.bitmap \ q.bitmap : \E p \in N : Z[p] = t
  BY DEF Reserved
<1>3. ASSUME NEW t \in b \ {None}, t # x.index
      PROVE  r.disk[t] = d[t]
  <2>1. q.disk[t] = d[t] /\ t \in q.bitmap \ {None}
    BY <1>1, <1>3 DEF Reserved
  <2>2. q.ino.index = Y[NumDirect] /\ x.index = X[NumDirect]
    BY PointerFacts
  <2>3. t # q.ino.index
    BY <1>1, <1>3, <2>2, PositionFacts
  <2> QED
    BY <2>1, <2>3 DEF Reserved
<1> HIDE DEF X, Y, Z
<1>4. \A p \in Positions : X[p] # None => Z[p] = X[p]
  BY <1>1, <1>2
<1>5. \A p \in Positions : X[p] = None => Z[p] \in {None} \cup (r.bitmap \ b)
  BY <1>1, <1>2
<1>6. \A p, k \in Positions : X[p] = None /\ X[k] = None /\ Z[p] = Z[k]
                                /\ Z[p] # None => p = k
  <2> SUFFICES ASSUME NEW p \in Positions, NEW k \in Positions,
                      X[p] = None, X[k] = None, Z[p] = Z[k], Z[p] # None
               PROVE  p = k
    OBVIOUS
  <2>1. CASE Y[p] = None /\ Y[k] = None
    BY <1>2, <2>1
  <2>2. CASE Y[p] # None /\ Y[k] # None
    BY <1>1, <1>2, <2>2
  <2>3. ASSUME NEW i \in Positions, NEW j \in Positions, X[j] = None,
               Y[i] = None, Y[j] # None, Z[i] # None
        PROVE  Z[i] # Z[j]
    BY <1>1, <1>2, <2>3
  <2> QED
    BY <2>1, <2>2, <2>3
<1>7. r.ok => \A p \in M \cup N : Z[p] # None
  BY <1>1, <1>2
<1>8. r.ok => \A t \in r.bitmap \ b : \E p \in M \cup N : Z[p] = t
  <2> SUFFICES ASSUME r.ok, NEW t \in r.bitmap \ b
               PROVE  \E p \in M \cup N : Z[p] = t
    OBVIOUS
  <2>1. CASE t \notin q.bitmap
    BY <1>2, <2>1
  <2>2. CASE t \in q.bitmap
    <3>1. PICK p \in M : Y[p] = t /\ Y[p] # None
      BY <1>1, <2>2
    <3> QED
      BY <1>2, <3>1
  <2> QED
    BY <2>1, <2>2
<1> QED
  BY <1>1, <1>2, <1>3, <1>4, <1>5, <1>6, <1>7, <1>8 DEF Reserved, X, Z

\* The direct blocks.
LEMMA ReserveDirect ==
  ASSUME NEW x \in Inodes, NEW n \in Lengths, NEW b \in SUBSET Sectors,
         None \in b, NEW d, DiskType(d), Indexed(x, d), Uses(x, d) \subseteq b
  PROVE  LET want == Lacking(x.direct, n)
             g == Grant(want, b)
         IN Reserved(x, {p \in 0 .. NumDirect - 1 : p < n}, b, d,
                     [ok |-> DOMAIN g = want,
                      ino |-> [x EXCEPT !.direct = Filled(@, g)],
                      bitmap |-> b \cup Granted(g),
                      disk |-> WithBytes(d, Granted(g))])
<1> DEFINE want == Lacking(x.direct, n)
           g == Grant(want, b)
           h == Filled(x.direct, g)
           y == [x EXCEPT !.direct = h]
           dd == WithBytes(d, Granted(g))
           N == {p \in 0 .. NumDirect - 1 : p < n}
           r == [ok |-> DOMAIN g = want, ino |-> y,
                 bitmap |-> b \cup Granted(g), disk |-> dd]
<1>1. x.direct \in [0 .. NumDirect - 1 -> Sectors] /\ NumDirect - 1 \in Nat
  BY InodeType
<1>2. /\ h \in [0 .. NumDirect - 1 -> Sectors]
      /\ \A i \in 0 .. NumDirect - 1 : x.direct[i] # None => h[i] = x.direct[i]
      /\ \A i \in 0 .. NumDirect - 1 :
           x.direct[i] = None => h[i] \in {None} \cup Granted(g)
      /\ \A i, j \in 0 .. NumDirect - 1 :
           x.direct[i] = None /\ x.direct[j] = None /\ h[i] = h[j]
             /\ h[i] # None => i = j
      /\ DOMAIN g = want => \A i \in 0 .. NumDirect - 1 : i < n => h[i] # None
      /\ Granted(g) \subseteq Sectors /\ Granted(g) \cap b = {}
      /\ \A t \in Granted(g) : \E i \in 0 .. NumDirect - 1 : i < n /\ h[i] = t
  <2>1. FillsIn(NumDirect - 1, x.direct, n, b, g, h)
    BY <1>1, FilledFacts
  <2> QED
    BY <2>1 DEF FillsIn
<1>3. y \in Inodes /\ y.direct = h /\ y.index = x.index /\ y.len = x.len
  BY <1>2, InodeType
<1> HIDE DEF h, g, want, y, dd
<1>4. DiskType(dd) /\ \A t \in b : dd[t] = d[t]
  BY <1>2, WithBytesFacts DEF dd
<1>5. x.index # None => dd[x.index] = d[x.index]
  BY <1>4, IndexIsUsed
<1>6. Indexed(y, dd)
  BY <1>3, <1>5 DEF Indexed
<1> DEFINE X == Pointer(x, d)
           Y == Pointer(y, dd)
<1>7. \A p \in 0 .. NumDirect - 1 : X[p] = x.direct[p] /\ Y[p] = h[p]
  BY <1>3, PointerFacts
<1>8. \A p \in Positions : p \notin 0 .. NumDirect - 1 => X[p] = Y[p]
  BY <1>3, <1>5, PositionFacts DEF Pointer
<1> HIDE DEF X, Y
<1>9. \A p \in Positions : X[p] # None => Y[p] = X[p]
  BY <1>2, <1>7, <1>8
<1>10. \A p \in Positions : X[p] = None
         => Y[p] \in {None} \cup ((b \cup Granted(g)) \ b)
  BY <1>2, <1>7, <1>8
<1>11. \A p, q \in Positions : X[p] = None /\ X[q] = None /\ Y[p] = Y[q]
                                 /\ Y[p] # None => p = q
  BY <1>2, <1>7, <1>8
<1>12. DOMAIN g = want => \A p \in N : Y[p] # None
  BY <1>2, <1>7
<1>13. \A t \in (b \cup Granted(g)) \ b : \E p \in N : Y[p] = t
  BY <1>2, <1>7
<1>14. b \cup Granted(g) \subseteq Sectors
  BY <1>2
<1> HIDE DEF N
<1>15. Reserved(x, N, b, d, r)
  BY <1>3, <1>4, <1>6, <1>9, <1>10, <1>11, <1>12, <1>13, <1>14
     DEF Reserved, X, Y
<1> QED
  BY <1>15 DEF r, N, y, dd, h, g, want

LEMMA EmptyIndexFacts ==
  /\ EmptyIndex \in IndexBlocks
  /\ \A i \in 0 .. NumIndirect - 1 : EmptyIndex.blocks[i] = None
BY SectorsType DEF EmptyIndex, IndexBlocks

\* The index block and those in it, when x has a full set of direct blocks.
LEMMA ReserveIndex ==
  ASSUME NEW x \in Inodes, NEW m \in Nat \ {0}, m <= NumIndirect,
         NEW b \in SUBSET Sectors,
         None \in b, NEW d, DiskType(d), Indexed(x, d), Uses(x, d) \subseteq b
  PROVE  Reserved(x, {p \in Positions : NumDirect <= p /\ p <= NumDirect + m},
                  b, d, ReserveIndirect(x, m, b, d))
<1> DEFINE new == x.index = None
           at == IF ~new THEN x.index
                 ELSE IF Free(b) = {} THEN None ELSE Nth(0, Free(b))
           d1 == IF new THEN [d EXCEPT ![at] = EmptyIndex] ELSE d
           blocks == PointersIn(d1[at])
           want == Lacking(blocks, m)
           g == Grant(want, b \cup {at})
           ok == DOMAIN g = want
           d2 == WithBytes(d1, Granted(g))
           h == Filled(blocks, g)
           y == [x EXCEPT !.index = at]
           dd == IF ok THEN [d2 EXCEPT ![at] = [kind |-> "index", blocks |-> h]]
                       ELSE d2
           K == IF ok THEN h ELSE blocks
           B == b \cup {at} \cup Granted(g)
           N == {p \in Positions : NumDirect <= p /\ p <= NumDirect + m}
           I == 0 .. NumIndirect - 1
           r == [ok |-> ok, ino |-> y, bitmap |-> B, disk |-> dd]
<1>1. ReserveIndirect(x, m, b, d) = r
  BY Zenon DEF ReserveIndirect
<1>2. /\ at \in Sectors
      /\ ~new => at = x.index /\ at \in b /\ at # None
      /\ new => at = None \/ at \notin b
      /\ new /\ at = None => Free(b) = {}
  <2>1. CASE ~new
    <3>1. at = x.index /\ at \in Uses(x, d)
      BY <2>1, IndexIsUsed
    <3> QED
      BY <2>1, <3>1
  <2>2. CASE new /\ Free(b) = {}
    BY <2>2, SectorsType
  <2>3. CASE new /\ Free(b) # {}
    <3>1. at = Nth(0, Free(b)) /\ at \in Free(b)
      BY <2>3, FreeType, FirstIsMember
    <3> QED
      BY <2>3, <3>1 DEF Free
  <2> QED
    BY <2>1, <2>2, <2>3
<1> HIDE DEF at
<1>3. /\ DiskType(d1) /\ d1[at] \in IndexBlocks
      /\ \A t \in Sectors : t # at => d1[t] = d[t]
      /\ new => d1[at] = EmptyIndex
      /\ ~new => d1[at] = d[at]
  BY <1>2, EmptyIndexFacts DEF DiskType, Indexed
<1> HIDE DEF d1
<1>4. blocks = d1[at].blocks /\ blocks \in [I -> Sectors]
  BY <1>3, IndexType
<1> HIDE DEF blocks
<1>5. /\ h \in [I -> Sectors]
      /\ \A i \in I : blocks[i] # None => h[i] = blocks[i]
      /\ \A i \in I : blocks[i] = None => h[i] \in {None} \cup Granted(g)
      /\ \A i, j \in I : blocks[i] = None /\ blocks[j] = None /\ h[i] = h[j]
                           /\ h[i] # None => i = j
      /\ ok => \A i \in I : i < m => h[i] # None
      /\ Granted(g) \subseteq Sectors /\ Granted(g) \cap (b \cup {at}) = {}
      /\ \A t \in Granted(g) : \E i \in I : i < m /\ h[i] = t
      /\ Free(b \cup {at}) = {} => DOMAIN g = {}
  <2>1. NumIndirect - 1 \in Nat /\ None \in b \cup {at}
    OBVIOUS
  <2>2. FillsIn(NumIndirect - 1, blocks, m, b \cup {at}, g, h)
    BY <1>4, <2>1, FilledFacts
  <2> HIDE DEF h, g
  <2> QED
    BY <2>2 DEF FillsIn
<1>6. y \in Inodes /\ y.direct = x.direct /\ y.index = at /\ y.len = x.len
  BY <1>2, InodeType
<1>7. new /\ at = None => ~ok
  <2> SUFFICES ASSUME new, at = None, ok PROVE FALSE
    OBVIOUS
  <2>1. Free(b \cup {at}) = {}
    BY <1>2 DEF Free
  <2>2. want = {}
    BY <1>5, <2>1
  <2>3. blocks[0] = None /\ 0 \in I
    BY <1>3, <1>4, EmptyIndexFacts
  <2>4. 0 \in want
    BY <1>4, <2>3 DEF Lacking
  <2> QED
    BY <2>2, <2>4
<1> HIDE DEF g, want, y, h
<1>8. DiskType(d2) /\ d2[at] = d1[at]
        /\ \A t \in Sectors \ Granted(g) : d2[t] = d1[t]
  BY <1>2, <1>3, <1>5, WithBytesFacts
<1> HIDE DEF d2
<1>9. [kind |-> "index", blocks |-> h] \in IndexBlocks
  BY <1>5 DEF IndexBlocks
<1> HIDE DEF ok
<1>10. /\ DiskType(dd)
       /\ dd[at] \in IndexBlocks /\ dd[at].blocks = K
       /\ \A t \in Sectors \ Granted(g) : t # at => dd[t] = d[t]
  <2>1. CASE ok
    BY <1>2, <1>3, <1>8, <1>9, <2>1 DEF DiskType
  <2>2. CASE ~ok
    BY <1>3, <1>4, <1>8, <2>2
  <2> QED
    BY <2>1, <2>2
<1> HIDE DEF dd
<1>11. \A t \in b \ {None} : t # x.index => dd[t] = d[t]
  BY <1>2, <1>5, <1>10
<1>12. Indexed(y, dd)
  BY <1>6, <1>10 DEF Indexed
<1> DEFINE X == Pointer(x, d)
           Y == Pointer(y, dd)
<1>13. \A p \in 0 .. NumDirect - 1 : X[p] = x.direct[p] /\ Y[p] = X[p]
  BY <1>6, PointerFacts
<1>14. X[NumDirect] = x.index /\ Y[NumDirect] = at
  BY <1>6, PointerFacts
<1>15. new => \A i \in I : X[NumDirect + 1 + i] = None /\ blocks[i] = None
  <2> SUFFICES ASSUME new, NEW i \in I
               PROVE  X[NumDirect + 1 + i] = None /\ blocks[i] = None
    OBVIOUS
  <2>1. NumDirect + 1 + i \in Positions /\ NumDirect + 1 + i >= NumDirect
    BY PositionFacts
  <2> QED
    BY <1>3, <1>4, <2>1, PointerFacts, EmptyIndexFacts
<1>16. ~new => \A i \in I : X[NumDirect + 1 + i] = blocks[i]
  BY <1>2, <1>3, <1>4, PointerFacts
<1>17. at # None => \A i \in I : Y[NumDirect + 1 + i] = K[i]
  BY <1>6, <1>10, PointerFacts
<1>18. at = None => \A i \in I : Y[NumDirect + 1 + i] = None
  <2> SUFFICES ASSUME at = None, NEW i \in I
               PROVE  Y[NumDirect + 1 + i] = None
    OBVIOUS
  <2>1. NumDirect + 1 + i \in Positions /\ NumDirect + 1 + i >= NumDirect
    BY PositionFacts
  <2> QED
    BY <1>6, <2>1, PointerFacts
<1>19. \A p \in Positions : \/ p \in 0 .. NumDirect - 1
                            \/ p = NumDirect
                            \/ \E i \in I : p = NumDirect + 1 + i
  <2> SUFFICES ASSUME NEW p \in Positions, p \notin 0 .. NumDirect - 1,
                      p # NumDirect
               PROVE  \E i \in I : p = NumDirect + 1 + i
    OBVIOUS
  <2>1. p - NumDirect - 1 \in I /\ p = NumDirect + 1 + (p - NumDirect - 1)
    BY PositionFacts
  <2> QED
    BY <2>1
<1> HIDE DEF X, Y, K
<1>20. /\ \A i \in I : blocks[i] # None => K[i] = blocks[i]
       /\ \A i \in I : blocks[i] = None => K[i] \in {None} \cup Granted(g)
       /\ \A i, j \in I : blocks[i] = None /\ blocks[j] = None /\ K[i] = K[j]
                            /\ K[i] # None => i = j
       /\ ok => K = h
  BY <1>5 DEF K
<1>21. \A p \in Positions : X[p] # None => Y[p] = X[p]
  BY <1>2, <1>13, <1>14, <1>15, <1>16, <1>17, <1>19, <1>20
<1>22. \A p \in Positions : X[p] = None => Y[p] \in {None} \cup (B \ b)
  <2>1. \A i \in I : X[NumDirect + 1 + i] = None
                       => Y[NumDirect + 1 + i] \in {None} \cup Granted(g)
    BY <1>2, <1>15, <1>16, <1>17, <1>18, <1>20
  <2>2. Granted(g) \subseteq B \ b
    BY <1>5
  <2>3. X[NumDirect] = None => at \in {None} \cup (B \ b)
    BY <1>2, <1>14
  <2> QED
    BY <1>13, <1>14, <1>19, <2>1, <2>2, <2>3
<1>23. \A p, q \in Positions : X[p] = None /\ X[q] = None /\ Y[p] = Y[q]
                                 /\ Y[p] # None => p = q
  <2>1. \A i, j \in I : /\ X[NumDirect + 1 + i] = None
                        /\ X[NumDirect + 1 + j] = None
                        /\ Y[NumDirect + 1 + i] = Y[NumDirect + 1 + j]
                        /\ Y[NumDirect + 1 + i] # None
                        => i = j
    <3>1. CASE at = None
      BY <1>18, <3>1
    <3>2. CASE at # None
      <4>1. \A i \in I : X[NumDirect + 1 + i] = None => blocks[i] = None
        BY <1>15, <1>16
      <4>2. \A i \in I : Y[NumDirect + 1 + i] = K[i]
        BY <1>17, <3>2
      <4> SUFFICES ASSUME NEW i \in I, NEW j \in I,
                          X[NumDirect + 1 + i] = None,
                          X[NumDirect + 1 + j] = None,
                          Y[NumDirect + 1 + i] = Y[NumDirect + 1 + j],
                          Y[NumDirect + 1 + i] # None
                   PROVE  i = j
        OBVIOUS
      <4>3. /\ blocks[i] = None /\ blocks[j] = None
            /\ K[i] = K[j] /\ K[i] # None
        BY <4>1, <4>2
      <4> HIDE DEF I
      <4> QED
        BY <1>20, <4>3
    <3> QED
      BY <3>1, <3>2
  <2>2. \A i \in I : X[NumDirect + 1 + i] = None
                       /\ Y[NumDirect + 1 + i] # None
                       => Y[NumDirect + 1 + i] \in Granted(g)
    BY <1>2, <1>15, <1>16, <1>17, <1>18, <1>20
  <2>3. \A i \in I : X[NumDirect + 1 + i] = None
                       /\ Y[NumDirect + 1 + i] # None
                       => Y[NumDirect + 1 + i] # Y[NumDirect]
    BY <1>5, <1>14, <2>2
  <2>4. \A p \in 0 .. NumDirect - 1 : X[p] = None => Y[p] = None
    BY <1>13
  <2> HIDE DEF I
  <2> SUFFICES ASSUME NEW p \in Positions, NEW q \in Positions,
                      X[p] = None, X[q] = None, Y[p] = Y[q], Y[p] # None
               PROVE  p = q
    OBVIOUS
  <2>5. p = NumDirect \/ \E i \in I : p = NumDirect + 1 + i
    BY <1>19, <2>4
  <2>6. q = NumDirect \/ \E i \in I : q = NumDirect + 1 + i
    BY <1>19, <2>4
  <2> QED
    BY <2>1, <2>3, <2>5, <2>6
<1>24. ok => \A p \in N : Y[p] # None
  <2> SUFFICES ASSUME ok, NEW p \in N PROVE Y[p] # None
    OBVIOUS
  <2>1. at # None /\ K = h
    BY <1>2, <1>7, <1>20
  <2>2. CASE p = NumDirect
    BY <1>14, <2>1, <2>2
  <2>3. CASE p # NumDirect
    <3>1. PICK i \in I : p = NumDirect + 1 + i
      BY <1>19, <2>3
    <3>2. i < m
      BY <3>1
    <3>3. h[i] # None
      BY <1>5, <3>2
    <3>4. Y[NumDirect + 1 + i] = K[i]
      BY <1>17, <2>1
    <3> HIDE DEF I, N
    <3> QED
      BY <2>1, <3>1, <3>3, <3>4
  <2> QED
    BY <2>2, <2>3
<1>25. ok => \A t \in B \ b : \E p \in N : Y[p] = t
  <2> SUFFICES ASSUME ok, NEW t \in B \ b PROVE \E p \in N : Y[p] = t
    OBVIOUS
  <2>1. at # None /\ K = h
    BY <1>2, <1>7, <1>20
  <2>2. CASE t = at
    <3> NumDirect \in N
      BY PositionFacts
    <3> QED
      BY <1>14, <2>2
  <2>3. CASE t # at
    <3>1. PICK i \in I : i < m /\ h[i] = t
      BY <1>5, <2>3
    <3>2. NumDirect + 1 + i \in N
      <4>1. i \in Nat /\ i + 1 <= m
        BY <3>1
      <4>2. NumDirect <= NumDirect + 1 + i /\ NumDirect + 1 + i <= NumDirect + m
        BY <4>1
      <4>3. NumDirect + 1 + i \in Positions
        BY PositionFacts
      <4> QED
        BY <4>2, <4>3
    <3> QED
      BY <1>17, <2>1, <3>1, <3>2
  <2> QED
    BY <2>2, <2>3
<1>26. B \subseteq Sectors /\ b \subseteq B /\ ok \in BOOLEAN
  BY <1>2, <1>5 DEF ok
<1> HIDE DEF N, B
<1>27. Reserved(x, N, b, d, r)
  BY <1>6, <1>10, <1>11, <1>12, <1>21, <1>22, <1>23, <1>24, <1>25, <1>26
     DEF Reserved, X, Y
<1> QED
  BY <1>1, <1>27 DEF N

\* What follows for the inode: it uses what it did and what was taken now.
LEMMA ReservedFacts ==
  ASSUME NEW x \in Inodes, NEW N \in SUBSET Positions, NEW b, NEW d, NEW r,
         Reserved(x, N, b, d, r), Uses(x, d) \subseteq b
  PROVE  /\ Uses(r.ino, r.disk) \subseteq Uses(x, d) \cup (r.bitmap \ b)
         /\ Uses(r.ino, r.disk) \subseteq r.bitmap
         /\ Uses(x, d) \subseteq Uses(r.ino, r.disk)
         /\ Apart(Pointer(x, d)) => Apart(Pointer(r.ino, r.disk))
         /\ Extends(r.ino, x)
<1> DEFINE X == Pointer(x, d)
           Y == Pointer(r.ino, r.disk)
<1>1. /\ \A p \in Positions : X[p] # None => Y[p] = X[p]
      /\ \A p \in Positions : X[p] = None => Y[p] \in {None} \cup (r.bitmap \ b)
      /\ \A p, k \in Positions : X[p] = None /\ X[k] = None /\ Y[p] = Y[k]
                                   /\ Y[p] # None => p = k
      /\ b \subseteq r.bitmap
  BY DEF Reserved
<1>2. x.index = X[NumDirect] /\ r.ino.index = Y[NumDirect]
  BY PointerFacts
<1>3. \A i \in 0 .. NumDirect - 1 : X[i] = x.direct[i] /\ Y[i] = r.ino.direct[i]
  BY PointerFacts
<1>4. /\ Uses(x, d) = {X[p] : p \in Positions} \ {None}
      /\ Uses(r.ino, r.disk) = {Y[p] : p \in Positions} \ {None}
  BY DEF Uses
<1> HIDE DEF X, Y
<1>5. Uses(r.ino, r.disk) \subseteq Uses(x, d) \cup (r.bitmap \ b)
  BY <1>1, <1>4
<1>6. Uses(x, d) \subseteq Uses(r.ino, r.disk)
  BY <1>1, <1>4
<1>7. ASSUME Apart(X) PROVE Apart(Y)
  <2> SUFFICES ASSUME NEW p \in Positions, NEW q \in Positions,
                      Y[p] = Y[q], Y[p] # None
               PROVE  p = q
    BY DEF Apart
  <2>1. \A k \in Positions : X[k] # None => X[k] \in b /\ Y[k] \in b
    BY <1>1, <1>4
  <2>2. \A k \in Positions : X[k] = None /\ Y[k] # None => Y[k] \notin b
    BY <1>1
  <2> QED
    BY <1>1, <1>7, <2>1, <2>2 DEF Apart
<1>8. x.index \in {None, r.ino.index}
  BY <1>1, <1>2, PositionFacts
<1>9. \A i \in 0 .. NumDirect - 1 : x.direct[i] \in {None, r.ino.direct[i]}
  BY <1>1, <1>3, PositionFacts
<1>10. Extends(r.ino, x)
  BY <1>8, <1>9 DEF Extends, Reserved
<1> QED
  BY <1>1, <1>5, <1>6, <1>7, <1>10 DEF X, Y

\* The inode on disk keeps what it has.
LEMMA ReservedExtends ==
  ASSUME NEW x \in Inodes, NEW y \in Inodes, NEW N \in SUBSET Positions,
         NEW b, NEW d, NEW r,
         Reserved(x, N, b, d, r), Uses(x, d) \subseteq b, Extends(x, y)
  PROVE  /\ Extends(r.ino, y)
         /\ Full(y, d) => Full(y, r.disk)
<1>1. Extends(r.ino, x)
  BY ReservedFacts
<1>2. Extends(r.ino, y)
  BY <1>1 DEF Extends
<1>3. ASSUME NEW p \in Positions, Pointer(y, d)[p] # None
      PROVE  Pointer(y, r.disk)[p] # None
  <2>1. CASE p \in 0 .. NumDirect - 1
    BY <1>3, <2>1, PointerFacts
  <2>2. CASE p = NumDirect
    BY <1>3, <2>2, PointerFacts
  <2>3. CASE p > NumDirect
    <3>1. y.index # None
      BY <1>3, <2>3, PointerFacts, PositionFacts
    <3>2. y.index = x.index /\ x.index = r.ino.index
      BY <1>1, <3>1 DEF Extends
    <3>3. Pointer(y, d)[p] = Pointer(x, d)[p]
            /\ Pointer(y, r.disk)[p] = Pointer(r.ino, r.disk)[p]
      BY <2>3, <3>1, <3>2, PointerFacts
    <3> QED
      BY <1>3, <3>3 DEF Reserved
  <2> QED
    BY <2>1, <2>2, <2>3, PositionFacts
<1>4. Needed(y.len) \subseteq Positions
  BY DEF Needed
<1> QED
  BY <1>2, <1>3, <1>4 DEF Full

\* inode_reserve, the whole of it.
LEMMA ReserveFacts ==
  ASSUME NEW x \in Inodes, NEW n \in Lengths, NEW b \in SUBSET Sectors,
         None \in b, NEW d, DiskType(d), Indexed(x, d), Uses(x, d) \subseteq b
  PROVE  Reserved(x, Needed(n), b, d, Reserve(x, n, b, d))
<1> DEFINE want == Lacking(x.direct, n)
           g == Grant(want, b)
           q == [ok |-> DOMAIN g = want,
                 ino |-> [x EXCEPT !.direct = Filled(@, g)],
                 bitmap |-> b \cup Granted(g),
                 disk |-> WithBytes(d, Granted(g))]
           M == {p \in 0 .. NumDirect - 1 : p < n}
           m == n - NumDirect
           N == {p \in Positions : NumDirect <= p /\ p <= NumDirect + m}
           s == ReserveIndirect(q.ino, m, q.bitmap, q.disk)
<1>1. Reserve(x, n, b, d) = IF q.ok /\ n > NumDirect THEN s ELSE q
  BY DEF Reserve
<1>2. Reserved(x, M, b, d, q)
  BY ReserveDirect
<1> HIDE DEF q
<1>3. M \in SUBSET Positions /\ N \in SUBSET Positions
  BY PositionFacts
<1>4. n <= NumDirect => Needed(n) = M
  BY DEF Needed, Positions, Lengths
<1>5. n > NumDirect => Needed(n) = M \cup N
  BY DEF Needed, Positions, Lengths
<1> HIDE DEF M
<1>6. CASE q.ok /\ n > NumDirect
  <2>1. q.ino \in Inodes /\ DiskType(q.disk) /\ Indexed(q.ino, q.disk)
          /\ q.bitmap \in SUBSET Sectors /\ None \in q.bitmap
    BY <1>2 DEF Reserved
  <2>2. Uses(q.ino, q.disk) \subseteq q.bitmap
    BY <1>2, <1>3, ReservedFacts, Zenon
  <2>3. m \in Nat \ {0} /\ m <= NumIndirect
    BY <1>6 DEF Lengths
  <2> HIDE DEF m
  <2>4. Reserved(q.ino, N, q.bitmap, q.disk, s)
    BY <2>1, <2>2, <2>3, ReserveIndex
  <2> HIDE DEF s, N
  <2>5. Reserved(x, M \cup N, b, d, s)
    BY <1>2, <1>3, <1>6, <2>4, ReserveTwice
  <2> QED
    BY <1>1, <1>5, <1>6, <2>5
<1>7. CASE n <= NumDirect
  BY <1>1, <1>2, <1>4, <1>7 DEF Lengths
<1>8. CASE ~q.ok
  <2>1. Reserve(x, n, b, d) = q
    BY <1>1, <1>8
  <2>2. Reserved(x, Needed(n), b, d, q)
    BY <1>2, <1>8, Zenon DEF Reserved
  <2> QED
    BY <2>1, <2>2
<1> QED
  BY <1>6, <1>7, <1>8 DEF Lengths

-----------------------------------------------------------------------------
(* Files next to each other.                                               *)

\* Files that nothing was done to, from disk d and open inodes o to dd and oo.
Untouched(Q, d, o, dd, oo, bb) ==
  \A f \in Q : /\ oo[f.sector] = o[f.sector]
               /\ \A t \in Claims(f.sector, d, o) : dd[t] = d[t] /\ t \in bb

SameClaims(Q, d, o, dd, oo) ==
  \A f \in Q : Claims(f.sector, dd, oo) = Claims(f.sector, d, o)

LEMMA SoundFrame ==
  ASSUME NEW R, NEW d, NEW o, NEW b, Sound(R, d, o, b),
         NEW Q \in SUBSET R, NEW dd, NEW oo, NEW bb, None \in bb,
         Untouched(Q, d, o, dd, oo, bb)
  PROVE  Sound(Q, dd, oo, bb) /\ SameClaims(Q, d, o, dd, oo)
<1>1. ASSUME NEW f \in Q
      PROVE  FileSound(f.sector, dd, oo, bb)
               /\ Claims(f.sector, dd, oo) = Claims(f.sector, d, o)
  <2>1. FileSound(f.sector, d, o, b)
    BY DEF Sound
  <2> QED
    BY <2>1, FileFrame DEF Untouched
<1>2. Disjoint(Q, dd, oo)
  BY <1>1 DEF Disjoint, Sound
<1> QED
  BY <1>1, <1>2 DEF Sound, SameClaims

\* One more file, whose sectors nobody has.
LEMMA SoundGrows ==
  ASSUME NEW R, NEW d, NEW o, NEW b, Sound(R, d, o, b),
         NEW e, FileSound(e.sector, d, o, b),
         \A f \in R : Claims(e.sector, d, o) \cap Claims(f.sector, d, o) = {}
  PROVE  Sound(R \cup {e}, d, o, b)
BY DEF Sound, Disjoint

\* Files closed.
LEMMA SoundShrinks ==
  ASSUME NEW R, NEW d, NEW o, NEW b, Sound(R, d, o, b), NEW oo,
         \A e \in R : oo[e.sector] \in {NotOpen, o[e.sector]}
  PROVE  Sound(R, d, oo, b)
<1>1. ASSUME NEW f \in R
      PROVE  FileSound(f.sector, d, oo, b)
               /\ Claims(f.sector, d, oo) \subseteq Claims(f.sector, d, o)
  <2>1. FileSound(f.sector, d, o, b)
    BY DEF Sound
  <2> QED
    BY <2>1, FileShrinks
<1>2. Disjoint(R, d, oo)
  BY <1>1 DEF Disjoint, Sound
<1> QED
  BY <1>1, <1>2 DEF Sound

\* Files opened: the inode in memory is the one on disk.
LEMMA SoundOpens ==
  ASSUME NEW R, NEW d, NEW o, NEW b, Sound(R, d, o, b), NEW oo,
         \A e \in R : oo[e.sector] \in {o[e.sector],
                                        Current(e.sector, d, o)}
  PROVE  Sound(R, d, oo, b)
<1>1. ASSUME NEW f \in R
      PROVE  Current(f.sector, d, oo) = Current(f.sector, d, o)
  <2>1. Current(f.sector, d, o) \in Inodes
    BY DEF Sound, FileSound, Proper
  <2>2. Current(f.sector, d, o) # NotOpen
    BY <2>1, InodeType
  <2> QED
    BY <2>2 DEF Current
<1> QED
  BY <1>1 DEF Sound, Disjoint, FileSound, Claims

LEMMA SectorsAreUnique ==
  ASSUME NEW R, NEW d, NEW o, NEW b, Sound(R, d, o, b),
         NEW e \in R, NEW f \in R, e.sector = f.sector
  PROVE  e = f
<1>1. e.sector \in Claims(e.sector, d, o) /\ f.sector \in Claims(f.sector, d, o)
  BY DEF Claims
<1> QED
  BY <1>1 DEF Sound, Disjoint

\* The sectors of a file, in the words of the specification.
LEMMA SectorsOfFacts ==
  ASSUME NEW x \in Inodes, NEW d, Indexed(x, d), Full(x, d)
  PROVE  /\ SectorsOf(x, d) = {Pointer(x, d)[p] : p \in Needed(x.len)}
         /\ SectorsOf(x, d) \subseteq Uses(x, d)
         /\ \A i \in 0 .. x.len - 1 :
              BlockOf(x, d, i)
                = Pointer(x, d)[IF i < NumDirect THEN i ELSE i + 1]
         /\ DataOf(x, d) = {Pointer(x, d)[p] : p \in Needed(x.len) \ {NumDirect}}
<1> DEFINE X == Pointer(x, d)
           N == Needed(x.len)
<1>1. x.len \in Lengths
  BY InodeType
<1>2. N \subseteq Positions
  BY DEF Needed
<1>3. x.len > NumDirect => NumDirect \in N /\ x.index # None
  <2> SUFFICES ASSUME x.len > NumDirect
               PROVE  NumDirect \in N /\ x.index # None
    OBVIOUS
  <2>1. NumDirect \in N
    BY <1>1, PositionFacts DEF Needed, Lengths
  <2> QED
    BY <2>1, PointerFacts DEF Full
<1>4. ASSUME NEW i \in 0 .. x.len - 1
      PROVE  BlockOf(x, d, i) = X[IF i < NumDirect THEN i ELSE i + 1]
  <2>1. CASE i < NumDirect
    BY <1>1, <2>1, PointerFacts DEF BlockOf, Lengths
  <2>2. CASE i >= NumDirect
    <3>1. x.index # None
      BY <1>1, <1>3, <2>2 DEF Lengths
    <3>2. PICK k \in 0 .. NumIndirect - 1 : k = i - NumDirect
      BY <1>1, <2>2 DEF Lengths
    <3>3. PointersIn(d[x.index]) = d[x.index].blocks
      BY <3>1, IndexType DEF Indexed
    <3>4. BlockOf(x, d, i) = d[x.index].blocks[k]
      BY <1>1, <2>2, <3>2, <3>3 DEF BlockOf, Lengths
    <3>5. X[NumDirect + 1 + k] = d[x.index].blocks[k]
      BY <3>1, PointerFacts
    <3>6. NumDirect + 1 + k = i + 1
      BY <2>2, <3>2
    <3> QED
      BY <1>1, <2>2, <3>4, <3>5, <3>6 DEF Lengths
  <2> QED
    BY <1>1, <2>1, <2>2 DEF Lengths
<1>5. \A i \in 0 .. x.len - 1 :
        (IF i < NumDirect THEN i ELSE i + 1) \in N \ {NumDirect}
  BY <1>1 DEF Needed, Positions, Lengths
<1>6. \A p \in N \ {NumDirect} : \E i \in 0 .. x.len - 1 :
        p = IF i < NumDirect THEN i ELSE i + 1
  <2> SUFFICES ASSUME NEW p \in N \ {NumDirect}
               PROVE  \E i \in 0 .. x.len - 1 :
                        p = IF i < NumDirect THEN i ELSE i + 1
    OBVIOUS
  <2>1. CASE p < NumDirect
    BY <1>1, <2>1 DEF Needed, Positions, Lengths
  <2>2. CASE p > NumDirect
    <3>1. p - 1 \in 0 .. x.len - 1 /\ ~ (p - 1 < NumDirect) /\ p = (p - 1) + 1
      BY <1>1, <2>2 DEF Needed, Positions, Lengths
    <3> QED
      BY <3>1
  <2> QED
    BY <2>1, <2>2 DEF Needed, Positions
<1> HIDE DEF X, N
<1>7. DataOf(x, d) = {X[p] : p \in N \ {NumDirect}}
  <2>1. \A t \in DataOf(x, d) : t \in {X[p] : p \in N \ {NumDirect}}
    BY <1>4, <1>5 DEF DataOf
  <2>2. \A p \in N \ {NumDirect} : X[p] \in DataOf(x, d)
    <3> SUFFICES ASSUME NEW p \in N \ {NumDirect}
                 PROVE  X[p] \in DataOf(x, d)
      OBVIOUS
    <3>1. PICK i \in 0 .. x.len - 1 : p = IF i < NumDirect THEN i ELSE i + 1
      BY <1>6
    <3>2. BlockOf(x, d, i) = X[p]
      BY <1>4, <3>1
    <3> QED
      BY <3>2 DEF DataOf
  <2> QED
    BY <2>1, <2>2
<1>8. x.len <= NumDirect => NumDirect \notin N
  BY <1>1 DEF N, Needed, Lengths
<1>9. X[NumDirect] = x.index
  BY PointerFacts DEF X
<1>10. SectorsOf(x, d) = {X[p] : p \in N}
  BY <1>1, <1>3, <1>7, <1>8, <1>9 DEF SectorsOf, Lengths
<1>11. \A p \in N : X[p] \in Uses(x, d)
  BY <1>2 DEF X, N, Full, Uses
<1> QED
  BY <1>4, <1>7, <1>10, <1>11 DEF X, N

-----------------------------------------------------------------------------
(* Open files.                                                             *)

\* OpenInodesMatchTable, for directory R, table t, open inodes o and dangling
\* files g; those are in the table.
Match(R, t, o, g) ==
  /\ \A s \in Sectors :
       o[s] # NotOpen <=> \E n \in Names : t[n] = s /\ s # None /\ n \notin g
  /\ \A n \in Names : t[n] # None => \E e \in R : e.name = n /\ e.sector = t[n]
  /\ \A e, f \in R : e.name = f.name \/ e.slot = f.slot => e = f
  /\ \A n \in g : t[n] # None

SectorsDiffer(R) == /\ \A e \in R : e.sector # None
                    /\ \A e, f \in R : e.sector = f.sector => e = f

HandleType(t, o, g) == t \in [Names -> Sectors] /\ OpenType(o) /\ g \subseteq Names

LEMMA SoundSectorsDiffer ==
  ASSUME NEW R, NEW d, NEW o, NEW b, Sound(R, d, o, b)
  PROVE  SectorsDiffer(R)
<1>1. \A e \in R : e.sector # None
  BY DEF Sound, FileSound, Claims
<1> QED
  BY <1>1, SectorsAreUnique, Zenon DEF SectorsDiffer

\* A listed file is open under its own name only.
LEMMA OpenByName ==
  ASSUME NEW R \in SUBSET Entries, NEW t, NEW o, NEW g, Match(R, t, o, g),
         HandleType(t, o, g), SectorsDiffer(R), NEW e \in R
  PROVE  /\ t[e.name] \in {None, e.sector}
         /\ t[e.name] = None => e.name \notin g /\ o[e.sector] = NotOpen
         /\ t[e.name] # None /\ e.name \notin g => o[e.sector] # NotOpen
         /\ \A m \in Names : t[m] = e.sector => m = e.name
<1>1. e.name \in Names /\ e.sector \in Sectors /\ e.sector # None
  BY DEF Entries, SectorsDiffer
<1>2. t[e.name] \in {None, e.sector}
  BY <1>1 DEF Match
<1>3. \A m \in Names : t[m] = e.sector => m = e.name
  BY <1>1 DEF Match, SectorsDiffer
<1>4. t[e.name] = None => e.name \notin g /\ o[e.sector] = NotOpen
  BY <1>1, <1>3 DEF Match
<1>5. t[e.name] # None /\ e.name \notin g => o[e.sector] # NotOpen
  BY <1>1, <1>2 DEF Match
<1> QED
  BY <1>2, <1>3, <1>4, <1>5

\* A sector that is no file's has no inode open.
LEMMA UnlistedNotOpen ==
  ASSUME NEW R, NEW t, NEW o, NEW g, Match(R, t, o, g),
         NEW s \in Sectors, \A e \in R : e.sector # s
  PROVE  o[s] = NotOpen
BY DEF Match

\* The records that InodeClosed, FileClosed and FileOpened make.
Handle(t, o, g) == [table |-> t, open |-> o, dangling |-> g]

LEMMA HandleFields ==
  ASSUME NEW t, NEW o, NEW g
  PROVE  /\ Handle(t, o, g).table = t
         /\ Handle(t, o, g).open = o
         /\ Handle(t, o, g).dangling = g
BY DEF Handle

LEMMA HandleIs ==
  ASSUME NEW k, DOMAIN k = {"table", "open", "dangling"},
         k = [f \in DOMAIN k |-> k[f]]
  PROVE  k = Handle(k.table, k.open, k.dangling)
BY DEF Handle

LEMMA InodeClosedFields ==
  ASSUME NEW t, NEW o, NEW g, NEW s
  PROVE  InodeClosed(Handle(t, o, g), s) =
           Handle(t, [o EXCEPT ![s] = NotOpen],
                  g \cup {m \in Names : t[m] = s})
<1>1. PICK h : h = Handle(t, o, g)
  OBVIOUS
<1> DEFINE k == InodeClosed(h, s)
<1>2. DOMAIN k = {"table", "open", "dangling"} /\ k = [f \in DOMAIN k |-> k[f]]
  BY <1>1 DEF InodeClosed, Handle
<1>3. k.table = t /\ k.open = [o EXCEPT ![s] = NotOpen]
        /\ k.dangling = g \cup {n \in Names : t[n] = s}
  BY <1>1 DEF InodeClosed, Handle
<1> HIDE DEF k
<1>4. k = Handle(k.table, k.open, k.dangling)
  BY <1>2, HandleIs
<1> QED
  BY <1>1, <1>3, <1>4 DEF k

LEMMA FileNotClosed ==
  ASSUME NEW t, NEW o, NEW g, NEW n, t[n] = None
  PROVE  FileClosed(Handle(t, o, g), n) = Handle(t, o, g)
BY HandleFields DEF FileClosed

LEMMA FileClosedFields ==
  ASSUME NEW t, NEW o, NEW g, NEW n, t[n] # None
  PROVE  FileClosed(Handle(t, o, g), n) =
           Handle([t EXCEPT ![n] = None], [o EXCEPT ![t[n]] = NotOpen],
                  (g \cup {m \in Names : t[m] = t[n]}) \ {n})
<1>1. PICK h : h = Handle(t, o, g)
  OBVIOUS
<1>2. h.table = t
  BY <1>1, HandleFields
<1> DEFINE D == g \cup {m \in Names : t[m] = t[n]}
           k == FileClosed(h, n)
<1>3. PICK i : i = Handle(t, [o EXCEPT ![t[n]] = NotOpen], D)
  OBVIOUS
<1>4. InodeClosed(h, t[n]) = i
  BY <1>1, <1>3, InodeClosedFields
<1>5. k = [i EXCEPT !.table[n] = None, !.dangling = @ \ {n}]
  BY <1>2, <1>4 DEF FileClosed
<1> HIDE DEF D, k
<1>6. DOMAIN k = {"table", "open", "dangling"}
        /\ k = [f \in DOMAIN k |-> k[f]]
  BY <1>3, <1>5 DEF Handle
<1>7. k.table = [t EXCEPT ![n] = None]
        /\ k.open = [o EXCEPT ![t[n]] = NotOpen] /\ k.dangling = D \ {n}
  BY <1>3, <1>5 DEF Handle
<1>8. k = Handle(k.table, k.open, k.dangling)
  BY <1>6, HandleIs
<1> QED
  BY <1>1, <1>7, <1>8 DEF D, k

LEMMA FileNotOpened ==
  ASSUME NEW t, NEW o, NEW g, NEW n, NEW s, NEW d, t[n] # None
  PROVE  FileOpened(Handle(t, o, g), n, s, d) = Handle(t, o, g)
BY HandleFields DEF FileOpened

LEMMA FileOpenedFields ==
  ASSUME NEW t, NEW o, NEW g, NEW n, NEW s, NEW d, t[n] = None
  PROVE  FileOpened(Handle(t, o, g), n, s, d) =
           Handle([t EXCEPT ![n] = s],
                  [o EXCEPT ![s] = Current(s, d, o)], g)
<1>1. PICK h : h = Handle(t, o, g)
  OBVIOUS
<1>2. h.table = t
  BY <1>1, HandleFields
<1> DEFINE k == FileOpened(h, n, s, d)
<1>3. k = [h EXCEPT !.table[n] = s,
                    !.open[s] = IF @ = NotOpen THEN d[s] ELSE @]
  BY <1>2 DEF FileOpened
<1> HIDE DEF k
<1>4. DOMAIN k = {"table", "open", "dangling"}
        /\ k = [f \in DOMAIN k |-> k[f]]
  BY <1>1, <1>3 DEF Handle
<1>5. k.table = [t EXCEPT ![n] = s]
        /\ k.open = [o EXCEPT ![s] = Current(s, d, o)] /\ k.dangling = g
  BY <1>1, <1>3 DEF Handle, Current
<1>6. k = Handle(k.table, k.open, k.dangling)
  BY <1>4, HandleIs
<1> QED
  BY <1>1, <1>5, <1>6 DEF k

\* Closing a file by name leaves nothing of it behind.
LEMMA ClosedFacts ==
  ASSUME NEW R \in SUBSET Entries, NEW t, NEW o, NEW g, Match(R, t, o, g),
         HandleType(t, o, g), SectorsDiffer(R), NEW e \in R,
         NEW Q, Q = R \/ Q = R \ {e}
  PROVE  LET tt == [t EXCEPT ![e.name] = None]
             oo == [o EXCEPT ![e.sector] = NotOpen]
             gg == g \ {e.name}
         IN /\ FileClosed(Handle(t, o, g), e.name) = Handle(tt, oo, gg)
            /\ InodeClosed(Handle(tt, oo, gg), e.sector) = Handle(tt, oo, gg)
            /\ Match(Q, tt, oo, gg)
            /\ HandleType(tt, oo, gg)
<1> DEFINE n == e.name
           s == e.sector
           h == Handle(t, o, g)
           tt == [t EXCEPT ![n] = None]
           oo == [o EXCEPT ![s] = NotOpen]
           gg == g \ {n}
           k == Handle(tt, oo, gg)
<1>1. n \in Names /\ s \in Sectors /\ s # None
  BY DEF Entries, SectorsDiffer
<1>2. /\ t[n] \in {None, s}
      /\ t[n] = None => n \notin g /\ o[s] = NotOpen
      /\ \A m \in Names : t[m] = s => m = n
  BY OpenByName
<1>3. /\ DOMAIN t = Names /\ t = [m \in Names |-> t[m]]
      /\ DOMAIN o = Sectors /\ o = [i \in Sectors |-> o[i]]
  BY DEF HandleType, OpenType
<1>4. tt[n] = None /\ \A m \in Names : m # n => tt[m] = t[m]
  BY <1>1, <1>3
<1>5. oo[s] = NotOpen /\ \A i \in Sectors : i # s => oo[i] = o[i]
  BY <1>1, <1>3
<1>6. HandleType(tt, oo, gg)
  BY <1>1, SectorsType DEF HandleType, OpenType
<1>7. \A m \in Names : tt[m] # s
  BY <1>1, <1>2, <1>4
<1>8. InodeClosed(k, s) = k
  <2>1. {m \in Names : tt[m] = s} = {}
    BY <1>7
  <2>2. [oo EXCEPT ![s] = NotOpen] = oo
    BY <1>5
  <2>3. gg \cup {} = gg
    OBVIOUS
  <2> HIDE DEF tt, oo, gg
  <2>4. InodeClosed(k, s) = Handle(tt, [oo EXCEPT ![s] = NotOpen],
                                   gg \cup {m \in Names : tt[m] = s})
    BY InodeClosedFields
  <2> QED
    BY <2>1, <2>2, <2>3, <2>4
<1>9. FileClosed(h, n) = k
  <2>1. CASE t[n] # None
    <3>1. t[n] = s
      BY <1>2, <2>1
    <3>2. {m \in Names : t[m] = s} = {n}
      BY <1>1, <1>2, <3>1
    <3>3. (g \cup {n}) \ {n} = gg
      OBVIOUS
    <3>4. FileClosed(h, n) =
            Handle([t EXCEPT ![n] = None], [o EXCEPT ![t[n]] = NotOpen],
                   (g \cup {m \in Names : t[m] = t[n]}) \ {n})
      BY <2>1, FileClosedFields
    <3> QED
      BY <3>1, <3>2, <3>3, <3>4
  <2>2. CASE t[n] = None
    <3>1. tt = t
      BY <1>3, <2>2
    <3>2. oo = o
      BY <1>2, <1>3, <2>2
    <3>3. gg = g
      BY <1>2, <2>2
    <3>4. FileClosed(h, n) = h
      BY <2>2, FileNotClosed
    <3> QED
      BY <3>1, <3>2, <3>3, <3>4
  <2> QED
    BY <2>1, <2>2
<1> HIDE DEF tt, oo, gg
<1>10. ASSUME NEW i \in Sectors
       PROVE  oo[i] # NotOpen
                <=> \E m \in Names : tt[m] = i /\ i # None /\ m \notin gg
  <2>1. CASE i = s
    BY <1>5, <1>7, <2>1
  <2>2. CASE i # s
    <3>1. oo[i] # NotOpen
            <=> \E m \in Names : t[m] = i /\ i # None /\ m \notin g
      BY <1>5, <2>2 DEF Match
    <3>2. \A m \in Names : i # None => (t[m] = i <=> tt[m] = i)
      BY <1>2, <1>4, <2>2
    <3>3. \A m \in Names : tt[m] = i /\ i # None => (m \in g <=> m \in gg)
      BY <1>4 DEF gg
    <3> QED
      BY <3>1, <3>2, <3>3
  <2> QED
    BY <2>1, <2>2
<1>11. \A m \in Names : tt[m] # None
         => \E f \in Q : f.name = m /\ f.sector = tt[m]
  BY <1>4 DEF Match
<1>12. \A m \in gg : tt[m] # None
  BY <1>4 DEF gg, Match, HandleType
<1>13. Match(Q, tt, oo, gg)
  BY <1>10, <1>11, <1>12 DEF Match
<1> QED
  BY <1>6, <1>8, <1>9, <1>13 DEF tt, oo, gg

\* Opening a listed file whose inode is not dangling.
LEMMA OpenedFacts ==
  ASSUME NEW R \in SUBSET Entries, NEW t, NEW o, NEW g, Match(R, t, o, g),
         HandleType(t, o, g), SectorsDiffer(R), NEW e \in R, e.name \notin g,
         NEW d, d[e.sector] \in Inodes
  PROVE  LET tt == [t EXCEPT ![e.name] = e.sector]
             oo == [o EXCEPT ![e.sector] = Current(e.sector, d, o)]
         IN /\ FileOpened(Handle(t, o, g), e.name, e.sector, d)
                 = Handle(tt, oo, g)
            /\ Match(R, tt, oo, g)
            /\ HandleType(tt, oo, g)
<1> DEFINE n == e.name
           s == e.sector
           c == Current(s, d, o)
           h == Handle(t, o, g)
           tt == [t EXCEPT ![n] = s]
           oo == [o EXCEPT ![s] = c]
           k == Handle(tt, oo, g)
<1>1. n \in Names /\ s \in Sectors /\ s # None
  BY DEF Entries, SectorsDiffer
<1>2. /\ t[n] \in {None, s}
      /\ t[n] = None => o[s] = NotOpen
      /\ t[n] # None => o[s] # NotOpen
      /\ \A m \in Names : t[m] = s => m = n
  BY OpenByName
<1>3. /\ DOMAIN t = Names /\ t = [m \in Names |-> t[m]]
      /\ DOMAIN o = Sectors /\ o = [i \in Sectors |-> o[i]]
      /\ o[s] = NotOpen \/ o[s] \in Inodes
  BY <1>1 DEF HandleType, OpenType
<1>4. c \in Inodes /\ c # NotOpen
  BY <1>3, InodeType DEF Current
<1>5. tt[n] = s /\ \A m \in Names : m # n => tt[m] = t[m]
  BY <1>1, <1>3
<1>6. oo[s] = c /\ \A i \in Sectors : i # s => oo[i] = o[i]
  BY <1>1, <1>3
<1>7. HandleType(tt, oo, g)
  BY <1>1, <1>4, <1>6 DEF HandleType, OpenType
<1>8. FileOpened(h, n, s, d) = k
  <2>1. CASE t[n] # None
    <3>1. tt = t
      BY <1>2, <1>3, <2>1
    <3>2. oo = o
      BY <1>2, <1>3, <2>1 DEF Current
    <3>3. FileOpened(h, n, s, d) = h
      BY <2>1, FileNotOpened
    <3> QED
      BY <3>1, <3>2, <3>3
  <2>2. CASE t[n] = None
    BY <2>2, FileOpenedFields
  <2> QED
    BY <2>1, <2>2
<1> HIDE DEF tt, oo, c
<1>9. ASSUME NEW i \in Sectors
      PROVE  oo[i] # NotOpen
               <=> \E m \in Names : tt[m] = i /\ i # None /\ m \notin g
  <2>1. CASE i = s
    BY <1>1, <1>4, <1>5, <1>6, <2>1
  <2>2. CASE i # s
    <3>1. oo[i] # NotOpen
            <=> \E m \in Names : t[m] = i /\ i # None /\ m \notin g
      BY <1>6, <2>2 DEF Match
    <3>2. \A m \in Names : i # None => (t[m] = i <=> tt[m] = i)
      BY <1>2, <1>5, <2>2
    <3> QED
      BY <3>1, <3>2
  <2> QED
    BY <2>1, <2>2
<1>10. \A m \in Names : tt[m] # None
         => \E f \in R : f.name = m /\ f.sector = tt[m]
  BY <1>5 DEF Match
<1>11. \A m \in g : tt[m] # None
  BY <1>1, <1>5 DEF Match, HandleType
<1>12. Match(R, tt, oo, g)
  BY <1>9, <1>10, <1>11 DEF Match
<1> QED
  BY <1>7, <1>8, <1>12 DEF tt, oo, c

-----------------------------------------------------------------------------
(* What commands have in common: creating and removing a file.             *)

LEMMA NewInodeFacts ==
  ASSUME NEW len \in Lengths, NEW d
  PROVE  LET x == NewInode(len)
         IN /\ x \in Inodes /\ x.len = len /\ x.index = None
            /\ Uses(x, d) = {} /\ Indexed(x, d)
            /\ \A p \in Positions : Pointer(x, d)[p] = None
            /\ Apart(Pointer(x, d))
<1>1. NewInode(len) \in Inodes /\ NewInode(len).len = len
        /\ NewInode(len).index = None
        /\ \A i \in 0 .. NumDirect - 1 : NewInode(len).direct[i] = None
  BY SectorsType DEF NewInode, Inodes
<1>2. PICK x : x = NewInode(len)
  OBVIOUS
<1>3. \A p \in Positions : Pointer(x, d)[p] = None
  BY <1>1, <1>2, PositionFacts DEF Pointer
<1>4. Uses(x, d) = {} /\ Apart(Pointer(x, d)) /\ Indexed(x, d)
  BY <1>1, <1>2, <1>3 DEF Uses, Apart, Indexed
<1> QED
  BY <1>1, <1>2, <1>3, <1>4

\* The state, as far as commands find it, with disk d, marks b and m, the
\* directory R and the handles t, o and g.
Good(d, b, m, R, t, o, g) ==
  /\ DiskType(d)
  /\ b \subseteq Sectors
  /\ m = b
  /\ R \subseteq Entries
  /\ HandleType(t, o, g)
  /\ Sound(R, d, o, b)
  /\ Match(R, t, o, g)

Usable == Good(disk, bitmap, mapfile, root, table, open, dangling)

\* What filesys_create leaves, as c has it.
CreatedSound(c, n, len) ==
  /\ c.ok \in BOOLEAN
  /\ DiskType(c.disk)
  /\ c.bitmap \subseteq Sectors
  /\ c.mapfile = c.bitmap
  /\ bitmap \subseteq c.bitmap
  /\ \A t \in bitmap \ {None} : c.disk[t] = disk[t]
  /\ Sound(c.root, c.disk, open, c.bitmap)
  /\ ~c.ok => c.root = root
  /\ c.ok => /\ ~Listed(n)
             /\ \E e \in Entries :
                  /\ c.root = root \cup {e}
                  /\ e.name = n /\ e.slot \in Vacant
                  /\ e.sector = Nth(0, Free(bitmap)) /\ e.sector \notin bitmap
                  /\ c.disk[e.sector] \in Inodes
                  /\ c.disk[e.sector].len = len
                  /\ \A t \in c.bitmap \ bitmap : t = e.sector
                       \/ t \in SectorsOf(c.disk[e.sector], c.disk)
                  /\ SectorsOf(c.disk[e.sector], c.disk) \cap bitmap = {}
                  /\ Uses(c.disk[e.sector], c.disk) \cap bitmap = {}

LEMMA VacantType ==
  /\ Vacant \in SUBSET Nat /\ IsFiniteSet(Vacant)
  /\ Vacant \in SUBSET Slots /\ Cardinality(Vacant) \in Nat
<1>1. IsFiniteSet(Slots) /\ Slots \in SUBSET Nat
  BY FS_Interval DEF Slots
<1>2. Vacant \in SUBSET Slots
  BY DEF Vacant
<1> QED
  BY <1>1, <1>2, FS_Subset, FS_CardinalityType

LEMMA CreatedFacts ==
  ASSUME Usable, NEW n \in Names, NEW len \in Lengths, Vacant # {}
  PROVE  CreatedSound(Created(n, len), n, len)
<1>1. CASE Free(bitmap) = {}
  <2>1. Created(n, len) = [ok |-> FALSE, bitmap |-> bitmap,
                           mapfile |-> mapfile, disk |-> disk, root |-> root]
    BY <1>1 DEF Created
  <2> QED
    BY <2>1 DEF CreatedSound, Usable, Good
<1>2. CASE Free(bitmap) # {}
  <2> DEFINE s == Nth(0, Free(bitmap))
             b == bitmap \cup {s}
             x == NewInode(len)
             r == Reserve(x, len, b, disk)
             ok == r.ok /\ ~Listed(n)
             marked == IF ok THEN r.bitmap ELSE r.bitmap \ {s}
             dd == IF r.ok THEN [r.disk EXCEPT ![s] = r.ino] ELSE r.disk
             e == [slot |-> Nth(0, Vacant), name |-> n, sector |-> s]
             R == IF ok THEN root \cup {e} ELSE root
             c == [ok |-> ok, bitmap |-> marked, mapfile |-> marked,
                   disk |-> dd, root |-> R]
  <2>1. Created(n, len) = c
    BY <1>2, Zenon DEF Created
  <2>2. s \in Sectors /\ s \notin bitmap
    BY <1>2, FreeType, FirstIsMember DEF Free
  <2>3. None \in bitmap /\ s # None
    BY <2>2 DEF Usable, Good, Sound
  <2>4. Nth(0, Vacant) \in Vacant
    BY VacantType, FirstIsMember
  <2> HIDE DEF s
  <2>5. /\ x \in Inodes /\ x.len = len /\ x.index = None
        /\ Uses(x, disk) = {} /\ Indexed(x, disk)
        /\ Apart(Pointer(x, disk))
    BY NewInodeFacts
  <2>6. b \in SUBSET Sectors /\ None \in b /\ DiskType(disk)
    BY <2>2, <2>3 DEF Usable, Good
  <2> HIDE DEF x, b
  <2>7. Reserved(x, Needed(len), b, disk, r)
    BY <2>5, <2>6, ReserveFacts
  <2> HIDE DEF r
  <2>8. /\ Uses(r.ino, r.disk) \subseteq r.bitmap \ b
        /\ Apart(Pointer(r.ino, r.disk))
    <3>1. Needed(len) \in SUBSET Positions
      BY DEF Needed
    <3> QED
      BY <2>5, <2>7, <3>1, ReservedFacts
  <2>9. /\ r.ok \in BOOLEAN
        /\ r.ino \in Inodes /\ r.ino.len = len
        /\ r.bitmap \subseteq Sectors /\ b \subseteq r.bitmap
        /\ DiskType(r.disk)
        /\ \A t \in b \ {None} : r.disk[t] = disk[t]
        /\ Indexed(r.ino, r.disk)
        /\ r.ok => /\ \A p \in Needed(len) : Pointer(r.ino, r.disk)[p] # None
                   /\ \A t \in r.bitmap \ b :
                        \E p \in Needed(len) : Pointer(r.ino, r.disk)[p] = t
    BY <2>5, <2>7 DEF Reserved
  <2>10. DiskType(dd)
    BY <2>2, <2>9 DEF DiskType
  <2>11. \A t \in Sectors : t # s => dd[t] = r.disk[t]
    BY <2>9 DEF DiskType
  <2>12. r.ok => dd[s] = r.ino
    BY <2>2, <2>9 DEF DiskType
  <2> HIDE DEF dd
  <2>13. \A t \in bitmap \ {None} : dd[t] = disk[t]
    BY <2>2, <2>9, <2>11 DEF b, Usable, Good
  <2>14. marked \subseteq Sectors /\ bitmap \subseteq marked
    BY <2>2, <2>9 DEF b
  <2> HIDE DEF marked
  <2>15. \A f \in root : /\ Claims(f.sector, disk, open) \subseteq bitmap \ {None}
                         /\ f.sector \in bitmap
    BY DEF Usable, Good, Sound, FileSound, Claims
  <2>16. /\ Sound(root, dd, open, marked)
         /\ SameClaims(root, disk, open, dd, open)
    <3>1. Sound(root, disk, open, bitmap)
      BY DEF Usable, Good
    <3>2. None \in marked
      BY <2>3, <2>14
    <3>3. Untouched(root, disk, open, dd, open, marked)
      BY <2>13, <2>14, <2>15 DEF Untouched
    <3> QED
      BY <3>1, <3>2, <3>3, SoundFrame
  <2>17. CASE ~ok
    <3>1. ok \in BOOLEAN /\ c.ok = FALSE /\ c.root = root /\ c.disk = dd
            /\ c.bitmap = marked /\ c.mapfile = marked
      BY <2>17
    <3> HIDE DEF c
    <3> QED
      BY <2>1, <2>10, <2>13, <2>14, <2>16, <3>1 DEF CreatedSound
  <2>18. CASE ok
    <3>1. marked = r.bitmap
      BY <2>18 DEF marked
    <3>2. open[s] = NotOpen
      BY <2>2, <2>15, UnlistedNotOpen DEF Usable, Good
    <3>3. Current(s, dd, open) = r.ino /\ dd[s] = r.ino
      BY <2>12, <2>18, <3>2 DEF Current
    <3>4. s \notin Uses(r.ino, r.disk)
      BY <2>8 DEF b
    <3>5. r.ino.index # None => dd[r.ino.index] = r.disk[r.ino.index]
      <4>1. r.ino.index \in Sectors
        BY <2>9, InodeType
      <4> QED
        BY <2>11, <3>4, <4>1, IndexIsUsed
    <3>6. /\ Pointer(r.ino, dd) = Pointer(r.ino, r.disk)
          /\ Uses(r.ino, dd) = Uses(r.ino, r.disk)
          /\ Indexed(r.ino, dd)
      BY <2>9, <3>5, PointerFrame DEF SamePointers
    <3>7. Full(r.ino, dd)
      BY <2>9, <2>18, <3>6 DEF Full
    <3>8. Proper(r.ino, dd)
      BY <2>8, <2>9, <3>6, <3>7 DEF Proper
    <3>9. Claims(s, dd, open) = {s} \cup Uses(r.ino, r.disk)
      BY <3>3, <3>6 DEF Claims
    <3>10. Claims(s, dd, open) \cap bitmap = {}
      BY <2>2, <2>8, <3>9 DEF b
    <3>11. Claims(s, dd, open) \subseteq marked
      BY <2>8, <2>9, <3>1, <3>9 DEF b
    <3>12. FileSound(s, dd, open, marked)
      <4>1. Extends(r.ino, r.ino)
        BY DEF Extends
      <4>2. None \notin Claims(s, dd, open)
        BY <2>3, <3>10
      <4> QED
        BY <2>9, <3>3, <3>4, <3>6, <3>7, <3>8, <3>11, <4>1, <4>2
           DEF FileSound
    <3>13. e.sector = s /\ e.name = n /\ e.slot \in Vacant /\ e \in Entries
      BY <2>2, <2>4, VacantType DEF Entries
    <3> HIDE DEF e
    <3>14. \A f \in root : Claims(e.sector, dd, open)
                             \cap Claims(f.sector, dd, open) = {}
      BY <2>15, <2>16, <3>10, <3>13 DEF SameClaims
    <3>15. Sound(root \cup {e}, dd, open, marked)
      BY <2>16, <3>12, <3>13, <3>14, SoundGrows
    <3>16. \A t \in marked \ bitmap : t = s \/ t \in SectorsOf(r.ino, dd)
      <4>1. SectorsOf(r.ino, dd) = {Pointer(r.ino, dd)[p] : p \in Needed(len)}
        BY <2>9, <3>6, <3>7, SectorsOfFacts
      <4> QED
        BY <2>9, <2>18, <3>1, <3>6, <4>1 DEF b
    <3>17. c.ok = TRUE /\ c.root = root \cup {e} /\ c.disk = dd
             /\ c.bitmap = marked /\ c.mapfile = marked /\ ~Listed(n)
      BY <2>18
    <3> HIDE DEF c
    <3>18. e.sector = Nth(0, Free(bitmap))
      BY <3>13 DEF s
    <3>19. \E f \in Entries :
             /\ c.root = root \cup {f}
             /\ f.name = n /\ f.slot \in Vacant
             /\ f.sector = Nth(0, Free(bitmap)) /\ f.sector \notin bitmap
             /\ c.disk[f.sector] \in Inodes
             /\ c.disk[f.sector].len = len
             /\ \A t \in c.bitmap \ bitmap : t = f.sector
                  \/ t \in SectorsOf(c.disk[f.sector], c.disk)
             /\ SectorsOf(c.disk[f.sector], c.disk) \cap bitmap = {}
             /\ Uses(c.disk[f.sector], c.disk) \cap bitmap = {}
      <4>1. /\ SectorsOf(r.ino, dd) \cap bitmap = {}
            /\ Uses(r.ino, dd) \cap bitmap = {}
        <5>1. SectorsOf(r.ino, dd) \subseteq Uses(r.ino, dd)
          BY <2>9, <3>6, <3>7, SectorsOfFacts
        <5> QED
          BY <2>8, <3>6, <5>1 DEF b
      <4> QED
        BY <2>2, <2>9, <3>3, <3>13, <3>16, <3>17, <3>18, <4>1
    <3> QED
      BY <2>1, <2>10, <2>13, <2>14, <3>15, <3>17, <3>19 DEF CreatedSound
  <2> QED
    BY <2>17, <2>18
<1> QED
  BY <1>1, <1>2

\* Opening and closing, with all that holds of the state.
LEMMA GoodOpens ==
  ASSUME NEW d, NEW b, NEW m, NEW R, NEW t, NEW o, NEW g,
         Good(d, b, m, R, t, o, g), NEW e \in R, e.name \notin g
  PROVE  LET tt == [t EXCEPT ![e.name] = e.sector]
             oo == [o EXCEPT ![e.sector] = Current(e.sector, d, o)]
         IN /\ FileOpened(Handle(t, o, g), e.name, e.sector, d)
                 = Handle(tt, oo, g)
            /\ Good(d, b, m, R, tt, oo, g)
            /\ oo[e.sector] \in Inodes
<1> DEFINE c == Current(e.sector, d, o)
           tt == [t EXCEPT ![e.name] = e.sector]
           oo == [o EXCEPT ![e.sector] = c]
<1>1. d[e.sector] \in Inodes /\ c \in Inodes
  BY DEF Good, Sound, FileSound, Proper
<1>2. SectorsDiffer(R)
  BY SoundSectorsDiffer DEF Good
<1>3. e.sector \in Sectors
  BY DEF Good, Entries
<1>4. /\ FileOpened(Handle(t, o, g), e.name, e.sector, d)
           = Handle(tt, oo, g)
      /\ Match(R, tt, oo, g)
      /\ HandleType(tt, oo, g)
  BY <1>1, <1>2, OpenedFacts DEF Good
<1>5. oo[e.sector] = c /\ \A i \in Sectors : i # e.sector => oo[i] = o[i]
  BY <1>3 DEF Good, HandleType, OpenType
<1> HIDE DEF oo, tt
<1>6. \A f \in R : oo[f.sector] \in {o[f.sector], Current(f.sector, d, o)}
  BY <1>5 DEF Good, Entries
<1>7. Sound(R, d, oo, b)
  BY <1>6, SoundOpens DEF Good
<1>8. Good(d, b, m, R, tt, oo, g)
  BY <1>4, <1>7 DEF Good
<1> QED
  BY <1>1, <1>4, <1>5, <1>8 DEF tt, oo

LEMMA GoodCloses ==
  ASSUME NEW d, NEW b, NEW m, NEW R, NEW t, NEW o, NEW g,
         Good(d, b, m, R, t, o, g), NEW e \in R
  PROVE  LET tt == [t EXCEPT ![e.name] = None]
             oo == [o EXCEPT ![e.sector] = NotOpen]
             gg == g \ {e.name}
         IN /\ FileClosed(Handle(t, o, g), e.name) = Handle(tt, oo, gg)
            /\ InodeClosed(Handle(tt, oo, gg), e.sector) = Handle(tt, oo, gg)
            /\ Good(d, b, m, R, tt, oo, gg)
            /\ Match(R \ {e}, tt, oo, gg)
            /\ oo[e.sector] = NotOpen
<1> DEFINE tt == [t EXCEPT ![e.name] = None]
           oo == [o EXCEPT ![e.sector] = NotOpen]
           gg == g \ {e.name}
<1>1. SectorsDiffer(R)
  BY SoundSectorsDiffer DEF Good
<1>2. e.sector \in Sectors
  BY DEF Good, Entries
<1>3. /\ FileClosed(Handle(t, o, g), e.name) = Handle(tt, oo, gg)
      /\ InodeClosed(Handle(tt, oo, gg), e.sector) = Handle(tt, oo, gg)
      /\ Match(R, tt, oo, gg)
      /\ HandleType(tt, oo, gg)
  BY <1>1, ClosedFacts DEF Good
<1>4. Match(R \ {e}, tt, oo, gg)
  BY <1>1, ClosedFacts DEF Good
<1>5. oo[e.sector] = NotOpen /\ \A i \in Sectors : i # e.sector => oo[i] = o[i]
  BY <1>2 DEF Good, HandleType, OpenType
<1> HIDE DEF oo, tt, gg
<1>6. \A f \in R : oo[f.sector] \in {NotOpen, o[f.sector]}
  BY <1>5 DEF Good, Entries
<1>7. Sound(R, d, oo, b)
  BY <1>6, SoundShrinks DEF Good
<1>8. Good(d, b, m, R, tt, oo, gg)
  BY <1>3, <1>7 DEF Good
<1> QED
  BY <1>3, <1>4, <1>5, <1>8 DEF tt, oo, gg

LEMMA MatchGrows ==
  ASSUME NEW R, NEW t, NEW o, NEW g, Match(R, t, o, g), NEW e,
         \A f \in R : f.name # e.name /\ f.slot # e.slot
  PROVE  Match(R \cup {e}, t, o, g)
BY DEF Match

-----------------------------------------------------------------------------
(* Writing a file.                                                         *)

\* Reserving nothing.
LEMMA ReserveNothing ==
  ASSUME NEW x \in Inodes, NEW b \in SUBSET Sectors, NEW d, DiskType(d),
         Indexed(x, d)
  PROVE  Reserved(x, {}, b, d, [ok |-> TRUE, ino |-> x, bitmap |-> b,
                                disk |-> d])
BY DEF Reserved

\* The inode in memory, with the length it gets when the write succeeds.
Written(x, r, len) ==
  IF r.ok THEN [r.ino EXCEPT !.len = IF len > @ THEN len ELSE @] ELSE r.ino

\* What Write does to the disk after Reserve; s is the sector of the inode.
DiskWritten(s, r, first, len, back) ==
  LET grown == [r.ino EXCEPT !.len = IF len > @ THEN len ELSE @]
      d == IF r.ok /\ back THEN [r.disk EXCEPT ![s] = grown] ELSE r.disk
  IN IF r.ok
     THEN WithBytes(d, {BlockOf(grown, d, i) : i \in first .. len - 1})
     ELSE d

\* The file is as sound as it was, and took nobody's sectors.
LEMMA WriteKeepsFile ==
  ASSUME NEW s \in Sectors, NEW b \in SUBSET Sectors, None \in b,
         NEW d, DiskType(d), NEW o, o[s] # NotOpen, FileSound(s, d, o, b),
         NEW len \in Lengths, NEW first \in 0 .. len, NEW back \in BOOLEAN,
         len > o[s].len => back, back => len >= o[s].len,
         NEW r, Reserved(o[s], IF len > o[s].len THEN Needed(len) ELSE {},
                         b, d, r),
         NEW dd, dd = DiskWritten(s, r, first, len, back),
         NEW oo, oo[s] = Written(o[s], r, len)
  PROVE  /\ oo[s] \in Inodes
         /\ DiskType(dd)
         /\ r.bitmap \subseteq Sectors /\ b \subseteq r.bitmap
         /\ \A t \in b \ {None} : t \notin Claims(s, d, o) => dd[t] = d[t]
         /\ FileSound(s, dd, oo, r.bitmap)
         /\ Claims(s, dd, oo) \subseteq Claims(s, d, o) \cup (r.bitmap \ b)
<1> DEFINE x == o[s]
           y == d[s]
           z == oo[s]
           N == IF len > x.len THEN Needed(len) ELSE {}
           grown == [r.ino EXCEPT !.len = IF len > @ THEN len ELSE @]
           d1 == IF r.ok /\ back THEN [r.disk EXCEPT ![s] = grown] ELSE r.disk
           W == {BlockOf(grown, d1, i) : i \in first .. len - 1}
<1>1. /\ x \in Inodes /\ Indexed(x, d) /\ Apart(Pointer(x, d)) /\ Full(x, d)
      /\ s # None /\ s \in b /\ s \notin Uses(x, d) /\ Uses(x, d) \subseteq b
      /\ y \in Inodes /\ Full(y, d) /\ Extends(x, y)
      /\ Claims(s, d, o) = {s} \cup Uses(x, d)
  BY DEF FileSound, Current, Claims, Proper
<1>2. N \in SUBSET Positions
  BY DEF Needed
<1>3. Reserved(x, N, b, d, r)
  OBVIOUS
<1> HIDE DEF x, y, N
<1>4. /\ Uses(r.ino, r.disk) \subseteq Uses(x, d) \cup (r.bitmap \ b)
      /\ Uses(r.ino, r.disk) \subseteq r.bitmap
      /\ Apart(Pointer(r.ino, r.disk))
  <2>1. Uses(x, d) \subseteq b /\ Apart(Pointer(x, d)) /\ x \in Inodes
    BY <1>1
  <2> QED
    BY <1>2, <1>3, <2>1, ReservedFacts
<1>5. Extends(r.ino, y) /\ Full(y, r.disk)
  BY <1>1, <1>2, <1>3, ReservedExtends
<1>6. /\ r.ok \in BOOLEAN
      /\ r.ino \in Inodes /\ r.ino.len = x.len
      /\ r.bitmap \subseteq Sectors /\ b \subseteq r.bitmap
      /\ DiskType(r.disk)
      /\ \A t \in b \ {None} : t # x.index => r.disk[t] = d[t]
      /\ Indexed(r.ino, r.disk)
      /\ \A p \in Positions : Pointer(x, d)[p] # None
           => Pointer(r.ino, r.disk)[p] = Pointer(x, d)[p]
      /\ r.ok => \A p \in N : Pointer(r.ino, r.disk)[p] # None
  BY <1>3 DEF Reserved
<1>7. r.disk[s] = y
  <2>1. s # x.index
    BY <1>1, IndexIsUsed
  <2> QED
    BY <1>1, <1>6, <2>1 DEF y
<1>8. x.len \in Lengths
  BY <1>1, InodeType
<1>9. /\ grown \in Inodes /\ grown.len = (IF len > x.len THEN len ELSE x.len)
      /\ grown.direct = r.ino.direct /\ grown.index = r.ino.index
  <2>1. (IF len > r.ino.len THEN len ELSE r.ino.len) \in Lengths
    BY <1>6, <1>8
  <2> QED
    BY <1>6, <2>1, InodeType
<1>10. /\ z \in Inodes /\ z.direct = r.ino.direct /\ z.index = r.ino.index
       /\ r.ok => z = grown
       /\ ~r.ok => z = r.ino
  BY <1>6, <1>9 DEF Written, x
<1>11. dd = IF r.ok THEN WithBytes(d1, W) ELSE d1
  BY DEF DiskWritten
<1> HIDE DEF z, grown
<1>12. s \notin Uses(r.ino, r.disk)
  BY <1>1, <1>4
<1>13. /\ DiskType(d1)
       /\ \A t \in Sectors : t # s => d1[t] = r.disk[t]
       /\ d1[s] = IF r.ok /\ back THEN grown ELSE y
  BY <1>6, <1>7, <1>9 DEF DiskType
<1> HIDE DEF d1
<1>14. r.ino.index # None
         => r.ino.index \in Sectors /\ r.ino.index \in Uses(r.ino, r.disk)
              /\ r.ino.index # s
  BY <1>6, <1>12, IndexIsUsed, InodeType
<1>15. /\ Pointer(grown, d1) = Pointer(r.ino, r.disk)
       /\ Uses(grown, d1) = Uses(r.ino, r.disk)
       /\ Indexed(grown, d1)
  <2>1. r.ino.index # None => d1[r.ino.index] = r.disk[r.ino.index]
    BY <1>13, <1>14
  <2> QED
    BY <1>6, <1>9, <2>1, PointerFrame DEF SamePointers
<1>16. Needed(x.len) \subseteq Positions
         /\ \A p \in Needed(x.len) : Pointer(r.ino, r.disk)[p] # None
  BY <1>1, <1>6 DEF Full, Needed
<1>17. r.ok => Full(grown, d1)
  <2> SUFFICES ASSUME r.ok PROVE Full(grown, d1)
    OBVIOUS
  <2>1. CASE len > x.len
    BY <1>6, <1>9, <1>15, <2>1 DEF Full, N
  <2>2. CASE ~(len > x.len)
    BY <1>9, <1>15, <1>16, <2>2 DEF Full
  <2> QED
    BY <2>1, <2>2
<1>18. r.ok => /\ W \subseteq Uses(grown, d1)
               /\ r.ino.index # None => r.ino.index \notin W
  <2> SUFFICES ASSUME r.ok
               PROVE  /\ W \subseteq Uses(grown, d1)
                      /\ r.ino.index # None => r.ino.index \notin W
    OBVIOUS
  <2>1. /\ DataOf(grown, d1)
             = {Pointer(grown, d1)[p] : p \in Needed(grown.len) \ {NumDirect}}
        /\ SectorsOf(grown, d1) \subseteq Uses(grown, d1)
    BY <1>9, <1>15, <1>17, SectorsOfFacts
  <2>2. W \subseteq DataOf(grown, d1)
    <3>1. \A i \in first .. len - 1 : i \in 0 .. grown.len - 1
      BY <1>8, <1>9 DEF Lengths
    <3> QED
      BY <3>1 DEF DataOf
  <2>3. DataOf(grown, d1) \subseteq SectorsOf(grown, d1)
    BY DEF SectorsOf
  <2>4. r.ino.index = Pointer(grown, d1)[NumDirect]
    BY <1>9, PointerFacts
  <2>5. Needed(grown.len) \subseteq Positions
    BY DEF Needed
  <2>6. r.ino.index # None => r.ino.index \notin DataOf(grown, d1)
    <3>1. Apart(Pointer(grown, d1))
      BY <1>4, <1>15
    <3>2. \A p \in Positions \ {NumDirect} :
            r.ino.index # None => Pointer(grown, d1)[p] # r.ino.index
      BY <2>4, <3>1, PositionFacts DEF Apart
    <3> QED
      BY <2>1, <2>5, <3>2
  <2> QED
    BY <2>1, <2>2, <2>3, <2>6
<1> HIDE DEF W
<1>19. /\ DiskType(dd)
       /\ \A t \in Sectors : t \notin Uses(r.ino, r.disk) => dd[t] = d1[t]
       /\ r.ino.index # None => dd[r.ino.index] = r.disk[r.ino.index]
  <2>1. CASE r.ok
    <3>1. dd = WithBytes(d1, W)
      BY <1>11, <2>1
    <3>2. /\ DiskType(WithBytes(d1, W))
          /\ \A t \in Sectors \ W : WithBytes(d1, W)[t] = d1[t]
      BY <1>13, WithBytesFacts
    <3> QED
      BY <1>13, <1>14, <1>15, <1>18, <2>1, <3>1, <3>2
  <2>2. CASE ~r.ok
    BY <1>11, <1>13, <1>14, <2>2
  <2> QED
    BY <2>1, <2>2
<1>20. /\ Pointer(z, dd) = Pointer(r.ino, r.disk)
       /\ Uses(z, dd) = Uses(r.ino, r.disk)
       /\ Indexed(z, dd)
  <2>1. r.ino.index # None => dd[r.ino.index] = r.disk[r.ino.index]
    BY <1>19
  <2>2. z.direct = r.ino.direct /\ z.index = r.ino.index
    BY <1>10
  <2> QED
    BY <1>6, <2>1, <2>2, PointerFrame DEF SamePointers
<1>21. Full(z, dd)
  <2>1. CASE r.ok
    BY <1>10, <1>15, <1>17, <1>20, <2>1 DEF Full
  <2>2. CASE ~r.ok
    BY <1>6, <1>10, <1>16, <1>20, <2>2 DEF Full
  <2> QED
    BY <2>1, <2>2
<1>22. Proper(z, dd)
  BY <1>4, <1>10, <1>20, <1>21 DEF Proper
<1>23. dd[s] = IF r.ok /\ back THEN z ELSE y
  BY <1>10, <1>12, <1>13, <1>19
<1>24. dd[s] \in Inodes /\ Full(dd[s], dd) /\ Extends(z, dd[s])
  <2>1. CASE r.ok /\ back
    BY <1>10, <1>21, <1>23, <2>1 DEF Extends
  <2>2. CASE ~(r.ok /\ back)
    <3>1. dd[s] = y
      BY <1>23, <2>2
    <3>2. z.len = r.ino.len
      BY <1>6, <1>8, <1>9, <1>10, <2>2 DEF x
    <3>3. Extends(z, y)
      BY <1>5, <1>10, <3>2 DEF Extends
    <3>4. y.index # None => y.index = r.ino.index
      BY <1>5 DEF Extends
    <3>5. Pointer(y, dd) = Pointer(y, r.disk)
      <4>1. y.index # None => dd[y.index] = r.disk[y.index]
        BY <1>19, <3>4
      <4> QED
        BY <4>1, PointerFrame DEF SamePointers
    <3> QED
      BY <1>1, <1>5, <3>1, <3>3, <3>5 DEF Full
  <2> QED
    BY <2>1, <2>2
<1>25. Current(s, dd, oo) = z
  BY <1>10, InodeType DEF Current, z
<1>26. Claims(s, dd, oo) = {s} \cup Uses(r.ino, r.disk)
  BY <1>20, <1>25 DEF Claims
<1>27. None \notin Claims(s, dd, oo) /\ Claims(s, dd, oo) \subseteq r.bitmap
  BY <1>1, <1>4, <1>6, <1>26 DEF Uses
<1>28. FileSound(s, dd, oo, r.bitmap)
  BY <1>12, <1>20, <1>22, <1>24, <1>25, <1>27 DEF FileSound
<1>29. ASSUME NEW t \in b \ {None}, t \notin Claims(s, d, o)
       PROVE  dd[t] = d[t]
  <2>1. t # s /\ t \notin Uses(x, d) /\ t \notin Uses(r.ino, r.disk)
          /\ t \in Sectors
    BY <1>1, <1>4, <1>29
  <2>2. t # x.index
    BY <2>1, IndexIsUsed
  <2> QED
    BY <1>6, <1>13, <1>19, <2>1, <2>2
<1> QED
  BY <1>1, <1>4, <1>6, <1>10, <1>19, <1>26, <1>28, <1>29 DEF z

\* One file is changed, within its own sectors and ones that were free.
LEMMA GoodChanges ==
  ASSUME NEW d, NEW b, NEW m, NEW R, NEW t, NEW o, NEW g,
         Good(d, b, m, R, t, o, g), NEW e \in R, o[e.sector] # NotOpen,
         NEW z \in Inodes, NEW dd, DiskType(dd),
         NEW bb \in SUBSET Sectors, b \subseteq bb,
         NEW oo, oo = [o EXCEPT ![e.sector] = z],
         \A i \in b \ {None} : i \notin Claims(e.sector, d, o) => dd[i] = d[i],
         FileSound(e.sector, dd, oo, bb),
         Claims(e.sector, dd, oo) \subseteq Claims(e.sector, d, o) \cup (bb \ b)
  PROVE  Good(dd, bb, bb, R, t, oo, g)
<1> DEFINE s == e.sector
           Q == R \ {e}
<1>1. /\ s \in Sectors /\ R \subseteq Entries
      /\ OpenType(o) /\ HandleType(t, o, g) /\ Match(R, t, o, g)
      /\ Sound(R, d, o, b)
  BY DEF Good, HandleType, Entries
<1>2. /\ oo[s] = z /\ \A i \in Sectors : i # s => oo[i] = o[i]
      /\ OpenType(oo)
  BY <1>1 DEF OpenType
<1>3. ASSUME NEW f \in Q
      PROVE  /\ Claims(f.sector, d, o) \subseteq b \ {None}
             /\ Claims(f.sector, d, o) \cap Claims(s, d, o) = {}
             /\ f.sector \in Claims(f.sector, d, o)
             /\ oo[f.sector] = o[f.sector]
  <2>1. /\ Claims(f.sector, d, o) \subseteq b \ {None}
        /\ Claims(f.sector, d, o) \cap Claims(s, d, o) = {}
        /\ f.sector \in Claims(f.sector, d, o) /\ s \in Claims(s, d, o)
    BY <1>1 DEF Sound, FileSound, Disjoint, Claims
  <2>2. f.sector # s /\ f.sector \in Sectors
    BY <1>1, <2>1 DEF Entries
  <2> QED
    BY <1>2, <2>1, <2>2
<1>4. Untouched(Q, d, o, dd, oo, bb)
  BY <1>3 DEF Untouched
<1>5. None \in bb
  BY <1>1 DEF Sound
<1>6. Sound(Q, dd, oo, bb) /\ SameClaims(Q, d, o, dd, oo)
  <2> Q \in SUBSET R
    OBVIOUS
  <2> HIDE DEF Q
  <2> QED
    BY <1>1, <1>4, <1>5, SoundFrame
<1>7. \A f \in Q : Claims(s, dd, oo) \cap Claims(f.sector, dd, oo) = {}
  BY <1>3, <1>6 DEF SameClaims
<1>8. Sound(Q \cup {e}, dd, oo, bb)
  <2> HIDE DEF Q
  <2> QED
    BY <1>6, <1>7, SoundGrows
<1>9. Q \cup {e} = R
  OBVIOUS
<1>10. Match(R, t, oo, g)
  <2>1. z # NotOpen
    BY InodeType
  <2> QED
    BY <1>1, <1>2, <2>1 DEF Match
<1> QED
  BY <1>1, <1>2, <1>8, <1>9, <1>10 DEF Good, HandleType

\* The entry of a name.
LEMMA EntryOfIs ==
  ASSUME NEW e \in root, Match(root, table, open, dangling)
  PROVE  EntryOf(e.name) = e
BY DEF EntryOf, Match

LEMMA HandlesBecomeFields ==
  ASSUME NEW t, NEW o, NEW g, HandlesBecome(Handle(t, o, g))
  PROVE  table' = t /\ open' = o /\ dangling' = g
BY HandleFields DEF HandlesBecome

LEMMA WriteKeeps ==
  ASSUME Usable, NEW n \in NamesInUse, NEW len \in 1 .. MaxSize,
         NEW first \in 0 .. len, NEW back \in BOOLEAN,
         Write(n, first, len, back)
  PROVE  /\ Usable'
         /\ \A i \in bitmap \ {None} :
              i \notin Claims(EntryOf(n).sector, disk, open)
                => disk'[i] = disk[i]
<1>1. PICK e \in root : e.name = n
  BY DEF NamesInUse
<1>2. EntryOf(n) = e
  BY <1>1, EntryOfIs DEF Usable, Good
<1>3. n \notin dangling
  BY DEF Write, Broken
<1> DEFINE s == e.sector
           tt == [table EXCEPT ![n] = s]
           o == [open EXCEPT ![s] = Current(s, disk, open)]
           x == o[s]
           r == IF len > x.len THEN Reserve(x, len, bitmap, disk)
                ELSE [ok |-> TRUE, ino |-> x, bitmap |-> bitmap,
                      disk |-> disk]
           z == Written(x, r, len)
           oo == [o EXCEPT ![s] = z]
<1>4. /\ FileOpened(Handles, n, s, disk) = Handle(tt, o, dangling)
      /\ Good(disk, bitmap, mapfile, root, tt, o, dangling)
      /\ o[s] \in Inodes
  <2>1. Handles = Handle(table, open, dangling)
    BY DEF Handles, Handle
  <2> QED
    BY <1>1, <1>3, <2>1, GoodOpens DEF Usable
<1>5. /\ len > x.len => back
      /\ back => len >= x.len
      /\ bitmap' = r.bitmap
      /\ mapfile' = IF r.bitmap # bitmap THEN r.bitmap ELSE mapfile
      /\ disk' = DiskWritten(s, r, first, len, back)
      /\ HandlesBecome([Handle(tt, o, dangling) EXCEPT !.open[s] = z])
      /\ root' = root
  <2> DEFINE R(h) == IF len > h.open[s].len
                     THEN Reserve(h.open[s], len, bitmap, disk)
                     ELSE [ok |-> TRUE, ino |-> h.open[s],
                           bitmap |-> bitmap, disk |-> disk]
  <2>1. PICK h : h = FileOpened(Handles, n, s, disk)
    OBVIOUS
  <2>2. h.open = o
    BY <1>4, <2>1, HandleFields
  <2>3. R(h) = r
    BY <2>2, Zenon
  <2>4. /\ len > h.open[s].len => back
        /\ back => len >= h.open[s].len
        /\ bitmap' = R(h).bitmap
        /\ mapfile' = IF R(h).bitmap # bitmap THEN R(h).bitmap ELSE mapfile
        /\ disk' = DiskWritten(s, R(h), first, len, back)
        /\ HandlesBecome([h EXCEPT !.open[s] = Written(h.open[s], R(h), len)])
        /\ root' = root
    BY <1>2, <2>1, ZenonT(60) DEF Write, DiskWritten, Written
  <2> HIDE DEF R, r, o
  <2> QED
    BY <1>4, <2>1, <2>2, <2>3, <2>4
<1> HIDE DEF tt, o, r
<1>6. table' = tt /\ open' = oo /\ dangling' = dangling
  <2>1. PICK h : h = Handle(tt, o, dangling)
    OBVIOUS
  <2>2. PICK k : k = [h EXCEPT !.open[s] = z]
    OBVIOUS
  <2>3. k.table = tt /\ k.open = oo /\ k.dangling = dangling
    BY <2>1, <2>2 DEF Handle
  <2>4. HandlesBecome(k)
    BY <1>5, <2>1, <2>2
  <2> QED
    BY <2>3, <2>4 DEF HandlesBecome
<1>7. len \in Lengths
  BY DEF Lengths
<1>8. /\ s \in Sectors /\ bitmap \in SUBSET Sectors /\ DiskType(disk)
      /\ Sound(root, disk, o, bitmap) /\ None \in bitmap
      /\ FileSound(s, disk, o, bitmap) /\ OpenType(o)
  BY <1>4 DEF Good, Sound, Entries, HandleType
<1>9. x # NotOpen /\ Current(s, disk, o) = x
  BY <1>4, InodeType DEF Current
<1>10. Indexed(x, disk) /\ Uses(x, disk) \subseteq bitmap
  BY <1>8, <1>9 DEF FileSound, Proper, Claims
<1>11. Reserved(x, IF len > x.len THEN Needed(len) ELSE {}, bitmap, disk, r)
  <2>1. CASE len > x.len
    <3>1. r = Reserve(x, len, bitmap, disk)
      BY <2>1 DEF r
    <3>2. Reserved(x, Needed(len), bitmap, disk, Reserve(x, len, bitmap, disk))
      BY <1>4, <1>7, <1>8, <1>10, ReserveFacts
    <3> QED
      BY <2>1, <3>1, <3>2
  <2>2. CASE ~(len > x.len)
    <3>1. r = [ok |-> TRUE, ino |-> x, bitmap |-> bitmap, disk |-> disk]
      BY <2>2 DEF r
    <3>2. Reserved(x, {}, bitmap, disk, r)
      BY <1>4, <1>8, <1>10, <3>1, ReserveNothing
    <3> QED
      BY <2>2, <3>2
  <2> QED
    BY <2>1, <2>2
<1>12. oo[s] = z /\ disk' = DiskWritten(s, r, first, len, back)
  BY <1>5, <1>8 DEF OpenType
<1>13. /\ oo[s] \in Inodes
       /\ DiskType(disk')
       /\ r.bitmap \subseteq Sectors /\ bitmap \subseteq r.bitmap
       /\ \A i \in bitmap \ {None} :
            i \notin Claims(s, disk, o) => disk'[i] = disk[i]
       /\ FileSound(s, disk', oo, r.bitmap)
       /\ Claims(s, disk', oo)
            \subseteq Claims(s, disk, o) \cup (r.bitmap \ bitmap)
  <2> HIDE DEF z, s, oo
  <2> QED
    BY <1>5, <1>7, <1>8, <1>9, <1>11, <1>12, WriteKeepsFile DEF z
<1>14. Good(disk', r.bitmap, r.bitmap, root, tt, oo, dangling)
  <2>1. z \in Inodes /\ oo = [o EXCEPT ![e.sector] = z]
    BY <1>12, <1>13
  <2> HIDE DEF z, oo
  <2> QED
    BY <1>4, <1>9, <1>13, <2>1, GoodChanges
<1>15. mapfile' = r.bitmap
  BY <1>5 DEF Usable, Good
<1>16. Claims(s, disk, o) = Claims(EntryOf(n).sector, disk, open)
  <2>1. x = Current(s, disk, open)
    BY <1>8 DEF o, OpenType, Usable, Good, HandleType
  <2> QED
    BY <1>2, <1>9, <2>1 DEF Claims
<1> QED
  BY <1>5, <1>6, <1>13, <1>14, <1>15, <1>16 DEF Usable

-----------------------------------------------------------------------------
(* Creating and removing.                                                  *)

LEMMA HandlesAre == Handles = Handle(table, open, dangling)
BY DEF Handles, Handle

\* With disk d the inodes that commands see are the same with o as with open.
SameInodes(d, o) ==
  \A s \in Sectors : Current(s, d, o) = Current(s, d, open)

\* After filesys_create the new file may be opened, as copy_in does.
LEMMA CreationKeeps ==
  ASSUME Usable, NEW n \in Names, NEW len \in Lengths, Vacant # {},
         NEW c, c = Created(n, len)
  PROVE  /\ c.ok \in BOOLEAN
         /\ Good(c.disk, c.bitmap, c.mapfile, c.root, table, open, dangling)
         /\ c.ok => \E tt, oo :
              /\ FileOpened(Handles, n, Nth(0, Free(bitmap)), c.disk)
                   = Handle(tt, oo, dangling)
              /\ Good(c.disk, c.bitmap, c.mapfile, c.root, tt, oo, dangling)
              /\ SameInodes(c.disk, oo)
         /\ c.ok => \E e \in Entries :
              c.root = root \cup {e} /\ e.slot \in Vacant
         /\ ~c.ok => c.root = root
<1>1. CreatedSound(c, n, len)
  BY CreatedFacts
<1>2. CASE ~c.ok
  BY <1>1, <1>2 DEF CreatedSound, Usable, Good
<1>3. CASE c.ok
  <2>1. PICK e \in Entries : /\ c.root = root \cup {e}
                             /\ e.name = n /\ e.slot \in Vacant
                             /\ e.sector = Nth(0, Free(bitmap))
    BY <1>1, <1>3 DEF CreatedSound
  <2>2. ~Listed(n)
    BY <1>1, <1>3 DEF CreatedSound
  <2>3. \A f \in root : f.name # e.name /\ f.slot # e.slot
    BY <2>1, <2>2 DEF Listed, Vacant
  <2>4. Match(c.root, table, open, dangling)
    BY <2>1, <2>3, MatchGrows DEF Usable, Good
  <2>5. Good(c.disk, c.bitmap, c.mapfile, c.root, table, open, dangling)
    BY <1>1, <2>1, <2>4 DEF CreatedSound, Usable, Good
  <2>6. e \in c.root /\ e.name \notin dangling
    BY <2>1, <2>3 DEF Usable, Good, Match, HandleType
  <2> DEFINE tt == [table EXCEPT ![e.name] = e.sector]
             oo == [open EXCEPT ![e.sector] = Current(e.sector, c.disk, open)]
  <2>7. /\ FileOpened(Handle(table, open, dangling), e.name, e.sector, c.disk)
             = Handle(tt, oo, dangling)
        /\ Good(c.disk, c.bitmap, c.mapfile, c.root, tt, oo, dangling)
    BY <2>5, <2>6, GoodOpens
  <2>9. SameInodes(c.disk, oo)
    BY <2>1 DEF SameInodes, Current, Usable, Good, HandleType, OpenType
  <2> HIDE DEF tt, oo
  <2>8. FileOpened(Handles, n, Nth(0, Free(bitmap)), c.disk)
          = Handle(tt, oo, dangling)
    BY <2>1, <2>7, HandlesAre
  <2> QED
    BY <1>3, <2>1, <2>5, <2>7, <2>8, <2>9
<1> QED
  BY <1>1, <1>2, <1>3 DEF CreatedSound

LEMMA CreateKeeps ==
  ASSUME Usable, NEW n \in Names, NEW len \in Lengths, Create(n, len)
  PROVE  Usable'
<1>1. PICK c : c = Created(n, len)
  OBVIOUS
<1>2. Good(c.disk, c.bitmap, c.mapfile, c.root, table, open, dangling)
  BY <1>1, CreationKeeps DEF Create
<1> QED
  BY <1>1, <1>2 DEF Create, CreationBecomes, Usable

\* CopyIn and RestoreNext.
LEMMA CreateOpenKeeps ==
  ASSUME Usable, NEW n \in Names, NEW len \in Lengths, Vacant # {},
         NEW c, c = Created(n, len), CreationBecomes(c),
         HandlesBecome(IF c.ok THEN FileOpened(Handles, n,
                                      Nth(0, Free(bitmap)), c.disk)
                               ELSE Handles)
  PROVE  Usable' /\ SameInodes(disk', open')
<1>1. /\ Good(c.disk, c.bitmap, c.mapfile, c.root, table, open, dangling)
      /\ c.ok => \E tt, oo :
              /\ FileOpened(Handles, n, Nth(0, Free(bitmap)), c.disk)
                   = Handle(tt, oo, dangling)
              /\ Good(c.disk, c.bitmap, c.mapfile, c.root, tt, oo, dangling)
              /\ SameInodes(c.disk, oo)
  BY CreationKeeps
<1>0. SameInodes(c.disk, open)
  BY DEF SameInodes
<1>2. PICK tt, oo :
        /\ HandlesBecome(Handle(tt, oo, dangling))
        /\ Good(c.disk, c.bitmap, c.mapfile, c.root, tt, oo, dangling)
        /\ SameInodes(c.disk, oo)
  BY <1>0, <1>1, HandlesAre
<1>3. table' = tt /\ open' = oo /\ dangling' = dangling
  BY <1>2, HandlesBecomeFields
<1> QED
  BY <1>2, <1>3 DEF CreationBecomes, Usable

\* What does not fit is cut to the sectors that are free, which an inode has
\* pointers enough for.
LEMMA CopiedLength ==
  ASSUME NEW len \in Lengths \cup {NumSectors}
  PROVE  LET free == Cardinality(Free(bitmap))
         IN (IF len > free THEN free ELSE len) \in Lengths
<1> DEFINE free == Cardinality(Free(bitmap))
<1>1. free \in Nat /\ free <= NumSectors
  <2>1. Free(bitmap) \subseteq Sectors
    BY DEF Free
  <2>2. Cardinality(Sectors) = NumSectors
    BY FS_Interval DEF Sectors
  <2> QED
    BY <2>1, <2>2, SectorsType, FS_Subset, FS_CardinalityType
<1> QED
  BY <1>1 DEF Lengths

LEMMA CopyInKeeps ==
  ASSUME Usable, NEW n \in Names, NEW len \in Lengths \cup {NumSectors},
         CopyIn(n, len)
  PROVE  Usable'
<1> DEFINE free == Cardinality(Free(bitmap))
           l == IF len > free THEN free ELSE len
<1>2. l \in Lengths
  BY CopiedLength
<1>3. PICK c : c = Created(n, l)
  OBVIOUS
<1> HIDE DEF l
<1>4. /\ Vacant # {} /\ CreationBecomes(c)
      /\ HandlesBecome(IF c.ok THEN FileOpened(Handles, n,
                                      Nth(0, Free(bitmap)), c.disk)
                               ELSE Handles)
  BY <1>3, Zenon DEF CopyIn, l
<1> QED
  BY <1>2, <1>3, <1>4, CreateOpenKeeps

LEMMA RemoveKeeps ==
  ASSUME Usable, NEW e \in root, Remove(e.name), disk' = disk
  PROVE  /\ Usable'
         /\ Cardinality(Vacant') = Cardinality(Vacant) + 1
         /\ open' = [open EXCEPT ![e.sector] = NotOpen]
<1> DEFINE s == e.sector
           tt == [table EXCEPT ![e.name] = None]
           oo == [open EXCEPT ![s] = NotOpen]
           gg == dangling \ {e.name}
           Q == root \ {e}
           bb == bitmap \ ({s} \cup SectorsOf(disk[s], disk))
<1>1. EntryOf(e.name) = e
  BY EntryOfIs DEF Usable, Good
<1>2. /\ FileClosed(Handles, e.name) = Handle(tt, oo, gg)
      /\ InodeClosed(Handle(tt, oo, gg), s) = Handle(tt, oo, gg)
      /\ Good(disk, bitmap, mapfile, root, tt, oo, gg)
      /\ Match(root \ {e}, tt, oo, gg)
      /\ oo[s] = NotOpen
  BY HandlesAre, GoodCloses DEF Usable
<1>3. Handle(tt, oo, gg).open = oo
  BY HandleFields
<1>4. /\ root' = Q /\ bitmap' = bb /\ mapfile' = bb
      /\ HandlesBecome(Handle(tt, oo, gg))
  <2>1. PICK h : h = FileClosed(Handles, e.name)
    OBVIOUS
  <2>2. h.open[s] = NotOpen /\ InodeClosed(h, s) = Handle(tt, oo, gg)
    BY <1>2, <1>3, <2>1
  <2> HIDE DEF tt, oo, gg
  <2> QED
    BY <1>1, <2>1, <2>2 DEF Remove
<1> HIDE DEF tt, oo, gg
<1>5. table' = tt /\ open' = oo /\ dangling' = gg
  BY <1>4, HandlesBecomeFields
<1>5a. open' = [open EXCEPT ![e.sector] = NotOpen]
  BY <1>5 DEF oo
<1>6. Sound(root, disk, oo, bitmap)
  BY <1>2 DEF Good
<1>7. {s} \cup SectorsOf(disk[s], disk) \subseteq Claims(s, disk, oo)
  <2>1. Current(s, disk, oo) = disk[s]
    BY <1>2 DEF Current
  <2>2. /\ disk[s] \in Inodes /\ Indexed(disk[s], disk)
        /\ Full(disk[s], disk)
    BY <1>6, <2>1 DEF Sound, FileSound, Proper
  <2>3. SectorsOf(disk[s], disk) \subseteq Uses(disk[s], disk)
    BY <2>2, SectorsOfFacts
  <2> QED
    BY <2>1, <2>3 DEF Claims
<1> HIDE DEF bb
<1>8. None \in bb /\ Untouched(Q, disk, oo, disk, oo, bb)
  <2>1. None \in bitmap /\ None \notin Claims(s, disk, oo)
    BY <1>6 DEF Sound, FileSound
  <2>2. \A f \in Q : /\ Claims(f.sector, disk, oo) \subseteq bitmap
                     /\ Claims(f.sector, disk, oo)
                          \cap Claims(s, disk, oo) = {}
    BY <1>6 DEF Sound, FileSound, Disjoint
  <2> QED
    BY <1>7, <2>1, <2>2 DEF bb, Untouched
<1>9. Sound(Q, disk, oo, bb)
  <2> Q \in SUBSET root
    OBVIOUS
  <2> HIDE DEF Q
  <2> QED
    BY <1>6, <1>8, SoundFrame
<1>10. bb \subseteq Sectors
  BY DEF bb, Usable, Good
<1>11. Good(disk, bb, bb, Q, tt, oo, gg)
  BY <1>2, <1>9, <1>10 DEF Good
<1>12. Usable'
  BY <1>4, <1>5, <1>11 DEF Usable
<1>13. Vacant' = Vacant \cup {e.slot} /\ e.slot \notin Vacant
  <2>1. e.slot \in Slots /\ \A f \in root : f.slot = e.slot => f = e
    BY DEF Usable, Good, Match, Entries
  <2> QED
    BY <1>4, <2>1 DEF Vacant
<1> QED
  BY <1>5a, <1>12, <1>13, VacantType, FS_AddElement

-----------------------------------------------------------------------------
(* The inductive invariant.                                                *)

Running == mode \in {"up", "saving", "restoring", "partial"}

\* The free map file has all sectors that files have on disk or in memory,
\* and no two files have one in common; what defragment still holds in memory
\* finds a vacant entry.
IInv ==
  /\ TypeOK
  /\ Sound(root, disk, open, mapfile)
  /\ Match(root, table, open, dangling)
  /\ Running => bitmap = mapfile
  /\ mode \in {"down", "mapless"} => table = [n \in Names |-> None]
  /\ mode \in {"saving", "restoring", "partial"}
       => Len(saved) <= Cardinality(Vacant)

LEMMA RunningIsUsable ==
  ASSUME IInv, Running
  PROVE  Usable
BY DEF IInv, TypeOK, Running, Usable, Good, HandleType, DiskType, OpenType

LEMMA UsableIsKept ==
  ASSUME Usable',
         mode' \in {"up", "saving", "restoring", "partial", "undefined"},
         saved' \in Seq([name : Names, len : Lengths]),
         mode' \in {"saving", "restoring", "partial"}
           => Len(saved') <= Cardinality(Vacant')
  PROVE  IInv'
<1>1. TypeOK'
  BY DEF TypeOK, Usable, Good, HandleType, DiskType, OpenType
<1> QED
  BY <1>1 DEF IInv, Running, Usable, Good


\* The shell lets go of all files; what it had open of one is given up.
LEMMA AllClosed ==
  ASSUME Sound(root, disk, open, mapfile), Match(root, table, open, dangling),
         root \subseteq Entries,
         NEW oo, oo = [s \in Sectors |-> NotOpen]
  PROVE  /\ OpenType(oo)
         /\ Sound(root, disk, oo, mapfile)
         /\ Match(root, [n \in Names |-> None], oo, {})
         /\ Match(root, table, oo, {n \in Names : table[n] # None})
<1>1. \A e \in root : oo[e.sector] = NotOpen
  BY DEF Entries
<1>2. Sound(root, disk, oo, mapfile)
  BY <1>1, SoundShrinks
<1> QED
  BY <1>2 DEF OpenType, Match

LEMMA InitIsSound == Init => IInv
<1> SUFFICES ASSUME Init PROVE IInv
  OBVIOUS
<1>1. None \in Sectors
  BY DEF Sectors, None
<1>2. TypeOK
  BY <1>1 DEF Init, TypeOK, FREE_MAP_SECTOR, None
<1>3. Sound(root, disk, open, mapfile)
  BY DEF Init, Sound, Disjoint, None, FREE_MAP_SECTOR
<1>4. Match(root, table, open, dangling)
  BY DEF Init, Match
<1> QED
  BY <1>2, <1>3, <1>4 DEF Init, IInv, Running

LEMMA OpenKeeps ==
  ASSUME Usable, NEW n \in NamesInUse, Open(n)
  PROVE  Usable'
<1>1. PICK e \in root : e.name = n
  BY DEF NamesInUse
<1>2. EntryOf(n) = e /\ n \notin dangling
  BY <1>1, EntryOfIs DEF Usable, Good, Open, Broken
<1> DEFINE tt == [table EXCEPT ![n] = e.sector]
           oo == [open EXCEPT ![e.sector] = Current(e.sector, disk, open)]
<1>3. /\ FileOpened(Handles, n, e.sector, disk) = Handle(tt, oo, dangling)
      /\ Good(disk, bitmap, mapfile, root, tt, oo, dangling)
  BY <1>1, <1>2, HandlesAre, GoodOpens DEF Usable
<1> HIDE DEF tt, oo
<1>4. table' = tt /\ open' = oo /\ dangling' = dangling
  BY <1>2, <1>3, HandlesBecomeFields DEF Open
<1> QED
  BY <1>3, <1>4 DEF Usable, Open

LEMMA CloseKeeps ==
  ASSUME Usable, NEW n \in NamesInUse, Close(n)
  PROVE  Usable'
<1>1. PICK e \in root : e.name = n
  BY DEF NamesInUse
<1> DEFINE tt == [table EXCEPT ![e.name] = None]
           oo == [open EXCEPT ![e.sector] = NotOpen]
           gg == dangling \ {e.name}
<1>2. /\ FileClosed(Handles, e.name) = Handle(tt, oo, gg)
      /\ InodeClosed(Handle(tt, oo, gg), e.sector) = Handle(tt, oo, gg)
      /\ Good(disk, bitmap, mapfile, root, tt, oo, gg)
      /\ Match(root \ {e}, tt, oo, gg)
      /\ oo[e.sector] = NotOpen
  BY HandlesAre, GoodCloses DEF Usable
<1> HIDE DEF tt, oo, gg
<1>3. table' = tt /\ open' = oo /\ dangling' = gg
  BY <1>1, <1>2, HandlesBecomeFields DEF Close
<1> QED
  BY <1>2, <1>3 DEF Usable, Close

LEMMA FindFileKeeps ==
  ASSUME Usable, FindFile
  PROVE  Usable'
<1> DEFINE tt == [n \in Names |-> None]
           oo == [s \in Sectors |-> NotOpen]
<1>1. HandlesBecome(Handle(tt, oo, {}))
  BY DEF FindFile, Handle
<1>2. table' = tt /\ open' = oo /\ dangling' = {}
  BY <1>1, HandlesBecomeFields
<1>3. /\ OpenType(oo) /\ Sound(root, disk, oo, bitmap)
      /\ Match(root, tt, oo, {})
  BY AllClosed DEF Usable, Good
<1>4. tt \in [Names -> Sectors]
  BY DEF Sectors, None
<1> QED
  BY <1>2, <1>3, <1>4 DEF Usable, Good, HandleType, FindFile

LEMMA FragmentationDegreeKeeps ==
  ASSUME Usable, FragmentationDegree
  PROVE  Usable'
<1> DEFINE oo == [s \in Sectors |-> NotOpen]
<1>1. /\ OpenType(oo) /\ Sound(root, disk, oo, bitmap)
      /\ Match(root, table, oo, {n \in Names : table[n] # None})
  BY AllClosed DEF Usable, Good
<1> QED
  BY <1>1 DEF Usable, Good, HandleType, FragmentationDegree

LEMMA DefragmentStepsKeep ==
  ASSUME IInv, Defragment \/ SaveNext \/ RestoreNext
  PROVE  IInv'
<1>0. saved \in Seq([name : Names, len : Lengths]) /\ Len(saved) \in Nat
  BY DEF IInv, TypeOK
<1>1. Cardinality(Vacant) \in Nat
  BY VacantType
<1>2. CASE Defragment
  <2>1. Usable'
    BY <1>2, RunningIsUsable DEF Defragment, Running, Usable
  <2>2. Vacant' = Vacant
    BY <1>2 DEF Defragment, Vacant
  <2>3. Len(saved') = 0 /\ saved' \in Seq([name : Names, len : Lengths])
    BY <1>2 DEF Defragment
  <2>4. mode' \in {"up", "saving", "restoring", "partial", "undefined"}
    BY <1>2 DEF Defragment
  <2> QED
    BY <1>1, <2>1, <2>2, <2>3, <2>4, UsableIsKept
<1>3. CASE SaveNext
  <2>1. Usable /\ Len(saved) <= Cardinality(Vacant)
    BY <1>3, RunningIsUsable DEF SaveNext, Running, IInv
  <2>2. PICK e \in root :
          /\ saved' = Append(saved, [name |-> e.name,
                                     len |-> InodeOf(e.name).len])
          /\ Remove(e.name)
    BY <1>3 DEF SaveNext
  <2>3. /\ disk' = disk
        /\ mode' \in {"up", "saving", "restoring", "partial", "undefined"}
    BY <1>3 DEF SaveNext
  <2>4. Usable' /\ Cardinality(Vacant') = Cardinality(Vacant) + 1
    BY <2>1, <2>2, <2>3, RemoveKeeps
  <2>5. e.name \in Names
    BY <2>1 DEF Usable, Good, Entries
  <2>6. InodeOf(e.name).len \in Lengths
    <3>1. EntryOf(e.name) = e
      BY <2>1, EntryOfIs DEF Usable, Good
    <3>2. InodeOf(e.name) = Current(e.sector, disk, open)
      BY <3>1 DEF InodeOf, InodeAt, Current
    <3>3. Current(e.sector, disk, open) \in Inodes
      BY <2>1 DEF Usable, Good, Sound, FileSound, Proper
    <3> QED
      BY <3>2, <3>3, InodeType
  <2>7. /\ saved' \in Seq([name : Names, len : Lengths])
        /\ Len(saved') = Len(saved) + 1
    BY <1>0, <2>2, <2>5, <2>6
  <2>8. Len(saved') <= Cardinality(Vacant')
    BY <1>0, <1>1, <2>1, <2>4, <2>7
  <2> QED
    BY <2>3, <2>4, <2>7, <2>8, UsableIsKept
<1>4. CASE RestoreNext
  <2>1. Usable /\ Len(saved) <= Cardinality(Vacant)
    BY <1>4, RunningIsUsable DEF RestoreNext, Running, IInv
  <2> DEFINE n == Head(saved).name
             len == Head(saved).len
  <2>2. PICK c : c = Created(n, len)
    OBVIOUS
  <2>3. /\ CreationBecomes(c)
        /\ HandlesBecome(IF c.ok THEN FileOpened(Handles, n,
                                        Nth(0, Free(bitmap)), c.disk)
                                 ELSE Handles)
        /\ saved' = IF c.ok THEN Tail(saved) ELSE <<>>
        /\ mode' = IF saved' = <<>> THEN "up" ELSE mode
    BY <1>4, <2>2 DEF RestoreNext
  <2>4. n \in Names /\ len \in Lengths /\ Len(saved) > 0
    <3>1. saved # <<>>
      BY <1>4 DEF RestoreNext
    <3>2. Head(saved) \in [name : Names, len : Lengths] /\ Len(saved) > 0
      <4> DEFINE T == [name : Names, len : Lengths]
      <4>1. saved \in Seq(T)
        BY <1>0
      <4> HIDE DEF T
      <4>2. Len(saved) > 0
        BY <3>1, <4>1
      <4>3. Head(saved) \in T
        BY <3>1, <4>1
      <4> QED
        BY <4>2, <4>3 DEF T
    <3> QED
      BY <3>2
  <2> HIDE DEF n, len
  <2>5. Vacant # {}
    BY <1>0, <1>1, <2>1, <2>4, VacantType, FS_EmptySet
  <2>6. Usable'
    BY <2>1, <2>2, <2>3, <2>4, <2>5, CreateOpenKeeps
  <2>7. saved' \in Seq([name : Names, len : Lengths])
    BY <1>0, <1>4, <2>3 DEF RestoreNext
  <2>8. CASE c.ok
    <3>1. PICK e \in Entries : c.root = root \cup {e} /\ e.slot \in Vacant
      BY <2>1, <2>2, <2>4, <2>5, <2>8, CreationKeeps
    <3>2. Vacant' = Vacant \ {e.slot}
      BY <2>3, <3>1 DEF CreationBecomes, Vacant
    <3>3. Cardinality(Vacant') = Cardinality(Vacant) - 1
      <4>1. /\ IsFiniteSet(Vacant) /\ e.slot \in Vacant
            /\ Vacant' = Vacant \ {e.slot}
        BY <3>1, <3>2, VacantType
      <4> QED
        BY <4>1, FS_RemoveElement
    <3>4. Len(saved') = Len(saved) - 1
      <4>1. saved' = Tail(saved)
        BY <2>3, <2>8
      <4> QED
        BY <1>0, <2>4, <4>1
    <3>5. Len(saved') <= Cardinality(Vacant')
      BY <1>0, <1>1, <2>1, <3>3, <3>4
    <3>6. mode' \in {"up", "saving", "restoring", "partial", "undefined"}
      BY <1>4, <2>3 DEF RestoreNext
    <3> QED
      BY <2>6, <2>7, <3>5, <3>6, UsableIsKept
  <2>9. CASE ~c.ok
    <3>1. mode' = "up"
      BY <2>3, <2>9
    <3> QED
      BY <2>6, <2>7, <3>1, UsableIsKept
  <2> QED
    BY <2>8, <2>9
<1> QED
  BY <1>2, <1>3, <1>4

LEMMA StopsAndStartsKeep ==
  ASSUME IInv, Shutdown \/ Boot \/ Format
  PROVE  IInv'
<1> DEFINE tt == [n \in Names |-> None]
           oo == [s \in Sectors |-> NotOpen]
<1>1. /\ OpenType(oo) /\ Sound(root, disk, oo, mapfile)
      /\ Match(root, tt, oo, {}) /\ tt \in [Names -> Sectors]
  <2>1. tt \in [Names -> Sectors]
    BY DEF Sectors, None
  <2>2. root \subseteq Entries
    BY DEF IInv, TypeOK
  <2> QED
    BY <2>1, <2>2, AllClosed DEF IInv
<1>2. CASE Shutdown
  <2>1. TypeOK'
    BY <1>1, <1>2 DEF Shutdown, IInv, TypeOK, OpenType
  <2> QED
    BY <1>1, <1>2, <2>1 DEF Shutdown, IInv, Running
<1>3. CASE Boot
  <2>0. FREE_MAP_SECTOR \in Sectors
    BY DEF Sectors, FREE_MAP_SECTOR
  <2>1. TypeOK'
    BY <1>3, <2>0 DEF Boot, IInv, TypeOK
  <2> QED
    BY <1>3, <2>1 DEF Boot, IInv, Running
<1>4. CASE Format
  <2>1. table = tt /\ mode' = "up"
    BY <1>4 DEF Format, IInv
  <2>2. dangling = {} /\ open = oo
    <3>1. open \in [Sectors -> {NotOpen} \cup Inodes]
            /\ dangling \subseteq Names
      BY DEF IInv, TypeOK
    <3>2. \A s \in Sectors : open[s] = NotOpen
      BY <2>1 DEF IInv, Match
    <3>3. dangling = {}
      BY <2>1, <3>1 DEF IInv, Match
    <3> QED
      BY <3>1, <3>2, <3>3
  <2>3. None \in Sectors /\ FREE_MAP_SECTOR = None
    BY DEF Sectors, FREE_MAP_SECTOR, None
  <2>4. TypeOK'
    BY <1>4, <2>3 DEF Format, IInv, TypeOK
  <2>5. Sound(root', disk', open', mapfile')
    BY <1>4, <2>3 DEF Format, Sound, Disjoint
  <2>6. Match(root', table', open', dangling')
    <3>1. root' = {} /\ table' = tt /\ open' = oo /\ dangling' = {}
      BY <1>4, <2>1, <2>2 DEF Format
    <3>2. Match({}, tt, oo, {})
      BY DEF Match
    <3> QED
      BY <3>1, <3>2
  <2> QED
    BY <1>4, <2>1, <2>4, <2>5, <2>6 DEF Format, IInv, Running
<1> QED
  BY <1>2, <1>3, <1>4

LEMMA UseBrokenKeeps ==
  ASSUME IInv, NEW n, UseBroken(n)
  PROVE  IInv'
BY DEF UseBroken, IInv, TypeOK, Running

\* Every command of Next but defragment.
Command ==
  \/ \E n \in UserNames, len \in 0 .. MaxSize : Create(n, len)
  \/ \E n \in UserNames, len \in (1 .. MaxSize) \cup {NumSectors} :
       CopyIn(n, len)
  \/ \E n \in NamesInUse :
       \/ Open(n) \/ Close(n) \/ Rm(n)
       \/ \E len \in 1 .. MaxSize, back \in BOOLEAN :
            \E first \in 0 .. len : Write(n, first, len, back)
  \/ FindFile \/ FragmentationDegree

LEMMA CommandsStayUp ==
  ASSUME Command
  PROVE  mode = "up" /\ mode' = "up" /\ saved' = saved
<1>1. ASSUME NEW n, NEW len, Create(n, len) \/ CopyIn(n, len)
      PROVE  mode = "up" /\ mode' = "up" /\ saved' = saved
  BY <1>1 DEF Create, CopyIn
<1>2. ASSUME NEW n, Open(n) \/ Close(n) \/ Rm(n)
      PROVE  mode = "up" /\ mode' = "up" /\ saved' = saved
  BY <1>2 DEF Open, Close, Rm
<1>3. ASSUME NEW n, NEW first, NEW len, NEW back,
             Write(n, first, len, back)
      PROVE  mode = "up" /\ mode' = "up" /\ saved' = saved
  BY <1>3, Zenon DEF Write
<1>4. FindFile \/ FragmentationDegree
        => mode = "up" /\ mode' = "up" /\ saved' = saved
  BY DEF FindFile, FragmentationDegree
<1> QED
  BY <1>1, <1>2, <1>3, <1>4 DEF Command

LEMMA CommandsKeep ==
  ASSUME IInv, Command
  PROVE  IInv'
<1>1. mode = "up" /\ mode' = "up" /\ saved' = saved
  BY CommandsStayUp
<1>2. Usable
  BY <1>1, RunningIsUsable DEF Running
<1>3. UserNames \subseteq Names
  BY DEF Names
<1>4. 0 .. MaxSize \subseteq Lengths /\ 1 .. MaxSize \subseteq Lengths
  BY DEF Lengths
<1>5. ASSUME NEW n \in UserNames, NEW len \in 0 .. MaxSize, Create(n, len)
      PROVE  Usable'
  BY <1>2, <1>3, <1>4, <1>5, CreateKeeps
<1>6. ASSUME NEW n \in UserNames,
             NEW len \in (1 .. MaxSize) \cup {NumSectors}, CopyIn(n, len)
      PROVE  Usable'
  BY <1>2, <1>3, <1>4, <1>6, CopyInKeeps
<1>7. ASSUME NEW n \in NamesInUse, Rm(n)
      PROVE  Usable'
  <2>1. PICK e \in root : e.name = n
    BY DEF NamesInUse
  <2> QED
    BY <1>2, <1>7, <2>1, RemoveKeeps DEF Rm
<1>8. Usable'
  BY <1>2, <1>5, <1>6, <1>7, OpenKeeps, CloseKeeps, WriteKeeps,
     FindFileKeeps, FragmentationDegreeKeeps DEF Command
<1> QED
  BY <1>1, <1>8, UsableIsKept DEF IInv, TypeOK

LEMMA NextKeeps == IInv /\ [Next]_vars => IInv'
<1> SUFFICES ASSUME IInv, [Next]_vars PROVE IInv'
  OBVIOUS
<1>1. CASE UNCHANGED vars
  BY <1>1 DEF vars, IInv, TypeOK, Running, Vacant
<1>2. CASE Next
  BY <1>2, CommandsKeep, DefragmentStepsKeep, StopsAndStartsKeep,
     UseBrokenKeeps DEF Next, Command
<1> QED
  BY <1>1, <1>2

LEMMA Invariance == Spec => []IInv
BY InitIsSound, NextKeeps, PTL DEF Spec

-----------------------------------------------------------------------------
(* What the invariant says of the sectors that files own.                  *)

\* A file owns, as its inode on disk has it, some of the sectors it claims,
\* each in one position.
LEMMA OwnedFacts ==
  ASSUME NEW s, NEW d, NEW o, NEW b, FileSound(s, d, o, b)
  PROVE  /\ d[s] \in Inodes /\ Indexed(d[s], d) /\ Full(d[s], d)
         /\ {s} \cup SectorsOf(d[s], d) \subseteq Claims(s, d, o)
         /\ s \notin SectorsOf(d[s], d)
         /\ Apart(Pointer(d[s], d))
<1> DEFINE x == Current(s, d, o)
           y == d[s]
<1>1. /\ x \in Inodes /\ y \in Inodes /\ Extends(x, y) /\ Proper(x, d)
      /\ Full(y, d) /\ s \notin Uses(x, d)
      /\ Claims(s, d, o) = {s} \cup Uses(x, d)
  BY DEF FileSound, Proper, Claims
<1> HIDE DEF x, y
<1>2. Uses(y, d) \subseteq Uses(x, d) /\ Proper(y, d)
  BY <1>1, ExtendsFacts
<1>3. Indexed(y, d) /\ Apart(Pointer(y, d))
  BY <1>2 DEF Proper
<1>4. SectorsOf(y, d) \subseteq Uses(y, d)
  BY <1>1, <1>3, SectorsOfFacts
<1> QED
  BY <1>1, <1>2, <1>3, <1>4 DEF y

LEMMA SectorsAreCounted ==
  ASSUME NEW x \in Inodes, NEW d, Indexed(x, d), Full(x, d),
         Apart(Pointer(x, d))
  PROVE  /\ IsFiniteSet(SectorsOf(x, d))
         /\ Cardinality(SectorsOf(x, d))
              = x.len + (IF x.len > NumDirect THEN 1 ELSE 0)
<1> DEFINE N == Needed(x.len)
           S == SectorsOf(x, d)
           f == [p \in N |-> Pointer(x, d)[p]]
<1>1. x.len \in Lengths
  BY InodeType
<1>2. S = {Pointer(x, d)[p] : p \in N}
  BY SectorsOfFacts
<1>3. N = 0 .. (IF x.len > NumDirect THEN x.len ELSE x.len - 1)
  BY <1>1 DEF Needed, Positions, Lengths
<1>4. IsFiniteSet(N) /\ Cardinality(N)
                          = x.len + (IF x.len > NumDirect THEN 1 ELSE 0)
  <2>1. CASE x.len > NumDirect
    <3>1. PICK h \in Int : h = x.len
      BY <1>1 DEF Lengths
    <3>2. N = 0 .. h /\ x.len \in Nat
      BY <1>1, <1>3, <2>1, <3>1 DEF Lengths
    <3> HIDE DEF N
    <3>3. IsFiniteSet(N) /\ Cardinality(N) = IF 0 > h THEN 0 ELSE h - 0 + 1
      BY <3>2, FS_Interval
    <3> QED
      BY <2>1, <3>1, <3>2, <3>3
  <2>2. CASE ~(x.len > NumDirect)
    <3>1. PICK h \in Int : h = x.len - 1
      BY <1>1 DEF Lengths
    <3>2. N = 0 .. h /\ x.len \in Nat
      BY <1>1, <1>3, <2>2, <3>1 DEF Lengths
    <3> HIDE DEF N
    <3>3. IsFiniteSet(N) /\ Cardinality(N) = IF 0 > h THEN 0 ELSE h - 0 + 1
      BY <3>2, FS_Interval
    <3> QED
      BY <2>2, <3>1, <3>2, <3>3
  <2> QED
    BY <2>1, <2>2
<1>5. N \subseteq Positions /\ \A p \in N : Pointer(x, d)[p] # None
  BY DEF Needed, Full
<1> HIDE DEF N, S
<1>6. f \in Surjection(N, S)
  BY <1>2 DEF Surjection
<1>7. f \in Injection(N, S)
  BY <1>2, <1>5 DEF Injection, IsInjective, Apart
<1> HIDE DEF f
<1>8. IsFiniteSet(S) /\ Cardinality(S) = Cardinality(N)
  BY <1>4, <1>6, <1>7, FS_Surjection
<1> QED
  BY <1>4, <1>8 DEF S

LEMMA SoundSharesNothing ==
  ASSUME TypeOK, Sound(root, disk, open, mapfile)
  PROVE  NoSharing /\ \A e \in root : Owned(e) \subseteq mapfile
<1>1. ASSUME NEW e \in root
      PROVE  /\ FileSound(e.sector, disk, open, mapfile)
             /\ disk[e.sector] \in Inodes
             /\ Owned(e) \subseteq Claims(e.sector, disk, open)
             /\ Owned(e) \subseteq mapfile
             /\ Cardinality(Owned(e))
                  = 1 + disk[e.sector].len
                      + (IF disk[e.sector].len > NumDirect THEN 1 ELSE 0)
  <2> DEFINE s == e.sector
             y == disk[s]
             S == SectorsOf(y, disk)
  <2>1. FileSound(s, disk, open, mapfile)
    BY DEF Sound
  <2>2. /\ y \in Inodes /\ Indexed(y, disk) /\ Full(y, disk)
        /\ {s} \cup S \subseteq Claims(s, disk, open)
        /\ s \notin S
        /\ Apart(Pointer(y, disk))
    BY <2>1, OwnedFacts
  <2>3. Owned(e) = S \cup {s}
    BY DEF Owned
  <2>4. Owned(e) \subseteq mapfile
    BY <2>1, <2>2, <2>3 DEF FileSound
  <2>5. y.len \in Nat
    BY <2>2, InodeType DEF Lengths
  <2> HIDE DEF y, s
  <2>6. /\ IsFiniteSet(S)
        /\ Cardinality(S) = y.len + (IF y.len > NumDirect THEN 1 ELSE 0)
    BY <2>2, SectorsAreCounted
  <2> HIDE DEF S
  <2>7. Cardinality(Owned(e)) = Cardinality(S) + 1
    BY <2>2, <2>3, <2>6, FS_AddElement
  <2>8. Cardinality(Owned(e))
          = 1 + y.len + (IF y.len > NumDirect THEN 1 ELSE 0)
    BY <2>5, <2>6, <2>7
  <2> QED
    BY <2>1, <2>2, <2>3, <2>4, <2>8 DEF y, s
<1>2. \A e, f \in root : e # f => Owned(e) \cap Owned(f) = {}
  BY <1>1 DEF Sound, Disjoint
<1> QED
  BY <1>1, <1>2 DEF NoSharing

-----------------------------------------------------------------------------
(* The theorems.                                                           *)

\* Every variable keeps its type; that of saved and of the directory rest on
\* defragment's finding a vacant entry for every file it holds.
THEOREM TypeCorrect == Spec => []TypeOK
<1>1. IInv => TypeOK
  BY DEF IInv
<1> QED
  BY <1>1, Invariance, PTL

\* No sector belongs to two files, or to one file twice, whatever the sizes:
\* inode_reserve and filesys_create take unmarked sectors only
\* (inode.c:292-316), and what is on disk of a file, be its inode written
\* back or not, is part of what its open inode has.
THEOREM FilesShareNothing == Spec => []NoSharing
<1>1. IInv => NoSharing
  BY SoundSharesNothing DEF IInv
<1> QED
  BY <1>1, Invariance, PTL

\* Every sector of a file is marked in the free map file, and in the free map
\* in memory while the shell runs: bitmap_write follows every change
\* (free-map.c:50-57).
THEOREM SectorsAreMarked == Spec => []MarkedOnDisk
<1>1. IInv => MarkedOnDisk
  BY SoundSharesNothing DEF IInv, MarkedOnDisk, Running
<1> QED
  BY <1>1, Invariance, PTL

\* The list of open inodes and the table of open files agree, freed inodes
\* apart (inode.c:91-93).
THEOREM TableMatchesOpenInodes == Spec => []OpenInodesMatchTable
<1>1. IInv => OpenInodesMatchTable
  BY DEF IInv, Match, OpenInodesMatchTable
<1> QED
  BY <1>1, Invariance, PTL

\* The inodes of a file, on disk and in memory, lead to blocks that can be
\* read, whatever extension the full disk cut short (inode.c:382, 419): of what
\* Broken lists a command meets the freed struct inode alone.
THEOREM BrokenByFreedInodesOnly == Spec => []OnlyFreedInodesBreak
<1>1. ASSUME IInv, NEW n \in Names, Listed(n), Broken(n)
      PROVE  n \in dangling
  <2>1. PICK e \in root : e.name = n
    BY <1>1 DEF Listed
  <2> DEFINE s == e.sector
             x == Current(s, disk, open)
  <2>2. EntryOf(n) = e
    BY <1>1, <2>1, EntryOfIs DEF IInv
  <2>3. InodeOf(n) = x
    BY <2>2 DEF InodeOf, InodeAt, Current
  <2>4. FileSound(s, disk, open, mapfile)
    BY <1>1 DEF IInv, Sound
  <2>5. /\ disk[s] \in Inodes /\ Indexed(disk[s], disk) /\ Full(disk[s], disk)
        /\ x \in Inodes /\ Indexed(x, disk) /\ Full(x, disk)
    BY <2>4, OwnedFacts DEF FileSound, Proper
  <2> HIDE DEF s, x
  <2>6. ASSUME NEW ino \in {disk[s], x}
        PROVE  /\ ino.index # None
                  => disk[ino.index].kind \in {"index", "inode"}
               /\ None \notin SectorsOf(ino, disk)
    <3>1. ino \in Inodes /\ Indexed(ino, disk) /\ Full(ino, disk)
      BY <2>5, <2>6
    <3>2. SectorsOf(ino, disk) \subseteq Uses(ino, disk)
      BY <3>1, SectorsOfFacts
    <3>3. ino.index # None => disk[ino.index].kind = "index"
      BY <3>1 DEF Indexed, IndexBlocks
    <3> QED
      BY <3>2, <3>3 DEF Uses
  <2>7. disk[s].kind = "inode"
    BY <2>5, InodeType
  <2> QED
    BY <1>1, <2>2, <2>3, <2>6, <2>7 DEF Broken, s
<1>2. ASSUME IInv, NEW e \in root,
             NEW ino \in {disk[e.sector], InodeOf(e.name)}, ino.index # None
      PROVE  disk[ino.index].kind = "index"
  <2> DEFINE x == Current(e.sector, disk, open)
  <2>1. EntryOf(e.name) = e
    BY <1>2, EntryOfIs DEF IInv
  <2>2. InodeOf(e.name) = x
    BY <2>1 DEF InodeOf, InodeAt, Current
  <2>3. FileSound(e.sector, disk, open, mapfile)
    BY <1>2 DEF IInv, Sound
  <2>4. Indexed(disk[e.sector], disk) /\ Indexed(x, disk)
    BY <2>3, OwnedFacts DEF FileSound, Proper
  <2> HIDE DEF x
  <2>5. Indexed(ino, disk)
    BY <1>2, <2>2, <2>4
  <2> QED
    BY <1>2, <2>5, IndexType DEF Indexed
<1>3. IInv => OnlyFreedInodesBreak
  BY <1>1, <1>2 DEF OnlyFreedInodesBreak, Broken
<1> QED
  BY <1>3, Invariance, PTL

\* What is not done to marked sectors leaves files as they are on disk.
LEMMA FileIsKept ==
  ASSUME Usable, \A t \in bitmap \ {None} : disk'[t] = disk[t],
         NEW f \in root, NEW y, y = disk[f.sector]
  PROVE  /\ disk'[f.sector] = y
         /\ y \in Inodes
         /\ Indexed(y, disk) /\ Full(y, disk)
         /\ Indexed(y, disk') /\ Full(y, disk')
         /\ Pointer(y, disk') = Pointer(y, disk)
<1> DEFINE s == f.sector
<1>1. FileSound(s, disk, open, bitmap)
  BY DEF Usable, Good, Sound
<1>2. /\ y \in Inodes /\ Indexed(y, disk) /\ Full(y, disk)
      /\ s \in bitmap \ {None} /\ Uses(y, disk) \subseteq bitmap \ {None}
  <2>1. Extends(Current(s, disk, open), y) /\ Current(s, disk, open) \in Inodes
          /\ Claims(s, disk, open) \subseteq bitmap
          /\ None \notin Claims(s, disk, open)
    BY <1>1 DEF FileSound, Proper
  <2>2. y \in Inodes /\ Indexed(y, disk) /\ Full(y, disk)
    BY <1>1, OwnedFacts
  <2>3. Uses(y, disk) \subseteq Uses(Current(s, disk, open), disk)
    BY <2>1, <2>2, ExtendsFacts
  <2> QED
    BY <2>1, <2>2, <2>3 DEF Claims
<1>3. disk'[s] = y
  BY <1>2
<1>4. y.index # None => disk'[y.index] = disk[y.index]
  BY <1>2, IndexIsUsed
<1>5. Pointer(y, disk') = Pointer(y, disk) /\ Indexed(y, disk')
  BY <1>2, <1>4, PointerFrame DEF SamePointers
<1>6. Full(y, disk')
  BY <1>2, <1>5 DEF Full
<1> QED
  BY <1>2, <1>3, <1>5, <1>6

LEMMA OwnedIsKept ==
  ASSUME Usable, \A t \in bitmap \ {None} : disk'[t] = disk[t],
         NEW f \in root
  PROVE  Owned(f)' = Owned(f)
<1>1. PICK y : y = disk[f.sector]
  OBVIOUS
<1>2. /\ disk'[f.sector] = y
      /\ y \in Inodes
      /\ Indexed(y, disk) /\ Full(y, disk)
      /\ Indexed(y, disk') /\ Full(y, disk')
      /\ Pointer(y, disk') = Pointer(y, disk)
  BY <1>1, FileIsKept
<1>3. SectorsOf(y, disk') = SectorsOf(y, disk)
  <2>1. SectorsOf(y, disk) = {Pointer(y, disk)[p] : p \in Needed(y.len)}
    BY <1>2, SectorsOfFacts
  <2>2. SectorsOf(y, disk') = {Pointer(y, disk')[p] : p \in Needed(y.len)}
    BY <1>2, SectorsOfFacts
  <2> QED
    BY <1>2, <2>1, <2>2
<1>4. Owned(f)' = {f.sector} \cup SectorsOf(y, disk')
  BY <1>2 DEF Owned
<1> QED
  BY <1>1, <1>3, <1>4 DEF Owned

\* What an entry's inode points to is what its file claims.
LEMMA PointersAreUses ==
  ASSUME NEW x \in Inodes, NEW d, Indexed(x, d)
  PROVE  (Granted(x.direct) \cup {x.index}
            \cup (IF x.index = None THEN {}
                  ELSE Granted(PointersIn(d[x.index])))) \ {None}
           = Uses(x, d)
<1> DEFINE B == IF x.index = None THEN {} ELSE Granted(PointersIn(d[x.index]))
<1>1. x.direct \in [0 .. NumDirect - 1 -> Sectors]
  BY InodeType
<1>2. Granted(x.direct) = {Pointer(x, d)[p] : p \in 0 .. NumDirect - 1}
  BY <1>1, PointerFacts DEF Granted
<1>3. x.index = Pointer(x, d)[NumDirect]
  BY PointerFacts
<1>4. x.index # None
        => B = {Pointer(x, d)[NumDirect + 1 + i] : i \in 0 .. NumIndirect - 1}
  <2> SUFFICES ASSUME x.index # None
               PROVE  B = {Pointer(x, d)[NumDirect + 1 + i]
                             : i \in 0 .. NumIndirect - 1}
    OBVIOUS
  <2>1. PICK c \in IndexBlocks : c = d[x.index]
    BY DEF Indexed
  <2>2. /\ PointersIn(c) = c.blocks
        /\ c.blocks \in [0 .. NumIndirect - 1 -> Sectors]
    BY <2>1, IndexType
  <2>3. \A i \in 0 .. NumIndirect - 1 :
          Pointer(x, d)[NumDirect + 1 + i] = c.blocks[i]
    BY <2>1, PointerFacts
  <2>4. B = {c.blocks[i] : i \in 0 .. NumIndirect - 1}
    BY <2>1, <2>2 DEF Granted
  <2> HIDE DEF B
  <2> QED
    BY <2>3, <2>4
<1>5. \A q \in Positions : q >= NumDirect /\ x.index = None
                             => Pointer(x, d)[q] = None
  BY PointerFacts
<1> DEFINE A == Granted(x.direct) \cup {x.index} \cup B
<1>6. ASSUME NEW t \in A, t # None
      PROVE  \E q \in Positions : t = Pointer(x, d)[q]
  <2>1. CASE t \in Granted(x.direct)
    BY <1>2, <2>1, PositionFacts
  <2>2. CASE t = x.index
    BY <1>3, <2>2, PositionFacts
  <2>3. CASE t \in B
    <3>0. \A i \in 0 .. NumIndirect - 1 : NumDirect + 1 + i \in Positions
      BY PositionFacts
    <3>1. x.index # None
      BY <2>3
    <3> HIDE DEF B
    <3>2. PICK i \in 0 .. NumIndirect - 1 :
            t = Pointer(x, d)[NumDirect + 1 + i]
      BY <1>4, <2>3, <3>1
    <3> QED
      BY <3>0, <3>2
  <2> QED
    BY <2>1, <2>2, <2>3
<1>7. ASSUME NEW q \in Positions, Pointer(x, d)[q] # None
      PROVE  Pointer(x, d)[q] \in A
  <2> HIDE DEF B
  <2>1. CASE q \in 0 .. NumDirect - 1
    BY <1>2, <2>1
  <2>2. CASE q = NumDirect
    BY <1>3, <2>2
  <2>3. CASE q > NumDirect /\ q - NumDirect - 1 \in 0 .. NumIndirect - 1
    <3>1. q >= NumDirect /\ q = NumDirect + 1 + (q - NumDirect - 1)
      BY <2>3, PositionFacts
    <3>2. x.index # None
      BY <1>5, <1>7, <3>1
    <3>3. PICK i \in 0 .. NumIndirect - 1 : q = NumDirect + 1 + i
      BY <2>3, <3>1
    <3> QED
      BY <1>4, <3>2, <3>3
  <2> QED
    BY <2>1, <2>2, <2>3, PositionFacts
<1> HIDE DEF A
<1>8. A \ {None} = Uses(x, d)
  BY <1>6, <1>7 DEF Uses
<1> QED
  BY <1>8 DEF A

LEMMA ClaimedIs ==
  ASSUME NEW e \in root, FileSound(e.sector, disk, open, bitmap)
  PROVE  Claimed(e) = Claims(e.sector, disk, open)
<1>1. PICK x : x = Current(e.sector, disk, open)
  OBVIOUS
<1>2. x = InodeAt(e.sector) /\ x \in Inodes /\ Indexed(x, disk)
  BY <1>1 DEF FileSound, Proper, InodeAt, Current
<1> QED
  BY <1>1, <1>2, PointersAreUses DEF Claimed, Claims

LEMMA ClaimedIsThen ==
  ASSUME Usable', NEW e \in root'
  PROVE  Claimed(e)' = Claims(e.sector, disk', open')
<1>1. FileSound(e.sector, disk', open', bitmap')
  BY DEF Usable, Good, Sound
<1>2. PICK x : x = Current(e.sector, disk', open')
  OBVIOUS
<1>3. x = InodeAt(e.sector)' /\ x \in Inodes /\ Indexed(x, disk')
  BY <1>1, <1>2 DEF FileSound, Proper, InodeAt, Current
<1> QED
  BY <1>2, <1>3, PointersAreUses DEF Claimed, Claims

\* The new file claims its own sectors alone, and the others what they did.
LEMMA CreationLeaksNothing ==
  ASSUME Usable, Usable', NEW n \in Names, NEW len \in Lengths, Vacant # {},
         CreationBecomes(Created(n, len)), root' # root,
         SameInodes(disk', open')
  PROVE  Leaked' = Leaked
<1>1. PICK c : c = Created(n, len)
  OBVIOUS
<1>2. CreatedSound(c, n, len)
  BY <1>1, CreatedFacts
<1>3. /\ bitmap' = c.bitmap /\ disk' = c.disk /\ root' = c.root
  BY <1>1 DEF CreationBecomes
<1>4. c.ok
  BY <1>2, <1>3 DEF CreatedSound
<1>5. PICK e \in Entries :
        /\ c.root = root \cup {e}
        /\ e.slot \in Vacant
        /\ \A t \in c.bitmap \ bitmap : t = e.sector
             \/ t \in SectorsOf(c.disk[e.sector], c.disk)
        /\ e.sector \notin bitmap
        /\ SectorsOf(c.disk[e.sector], c.disk) \cap bitmap = {}
        /\ Uses(c.disk[e.sector], c.disk) \cap bitmap = {}
  BY <1>2, <1>4 DEF CreatedSound
<1>6. \A s \in Sectors : Current(s, disk', open') = Current(s, disk', open)
  BY DEF SameInodes
<1>7. e \notin root /\ e \in root' /\ e.sector \in Sectors
  BY <1>3, <1>5 DEF Vacant, Entries
<1>8. /\ Claimed(e)' \cap bitmap = {}
      /\ bitmap' \ bitmap \subseteq Claimed(e)'
  <2>1. open[e.sector] = NotOpen
    BY <1>5, <1>7, UnlistedNotOpen DEF Usable, Good, Sound, FileSound, Claims
  <2>2. Current(e.sector, disk', open') = disk'[e.sector]
    BY <1>6, <1>7, <2>1 DEF Current
  <2>3. Claimed(e)' = {e.sector} \cup Uses(disk'[e.sector], disk')
    BY <1>7, <2>2, ClaimedIsThen DEF Claims
  <2>4. FileSound(e.sector, disk', open', bitmap')
    BY <1>7 DEF Usable, Good, Sound
  <2>5. {e.sector} \cup SectorsOf(disk'[e.sector], disk') \subseteq Claimed(e)'
    BY <1>7, <2>4, OwnedFacts, ClaimedIsThen
  <2> QED
    BY <1>3, <1>5, <2>3, <2>5
<1>9. ASSUME NEW f \in root
      PROVE  Claimed(f)' = Claimed(f)
  <2>1. FileSound(f.sector, disk, open, bitmap) /\ f \in root'
          /\ f.sector \in Sectors
    BY <1>3, <1>5 DEF Usable, Good, Sound, Entries
  <2>2. Claimed(f) = Claims(f.sector, disk, open)
    BY <2>1, ClaimedIs
  <2>3. \A t \in Claims(f.sector, disk, open) : disk'[t] = disk[t]
    BY <1>2, <1>3, <2>1 DEF FileSound, CreatedSound
  <2>4. bitmap \subseteq bitmap'
    BY <1>2, <1>3 DEF CreatedSound
  <2>5. Claims(f.sector, disk', open) = Claims(f.sector, disk, open)
    <3>1. \A t \in Claims(f.sector, disk, open) :
            disk'[t] = disk[t] /\ t \in bitmap
      BY <2>1, <2>3 DEF FileSound
    <3> QED
      BY <2>1, <3>1, FileFrame
  <2>6. Claims(f.sector, disk', open') = Claims(f.sector, disk', open)
    BY <1>6, <2>1 DEF Claims
  <2> QED
    BY <2>1, <2>2, <2>5, <2>6, ClaimedIsThen
<1>10. UNION {Claimed(f)' : f \in root'}
         = (UNION {Claimed(f) : f \in root}) \cup Claimed(e)'
  BY <1>3, <1>5, <1>9
<1>11. bitmap \subseteq bitmap'
  BY <1>2, <1>3 DEF CreatedSound
<1> QED
  BY <1>8, <1>10, <1>11 DEF Leaked

\* What a removal gives back is what the file owned on disk.
LEMMA RemovalFrees ==
  ASSUME Usable, NEW e \in root, Remove(e.name)
  PROVE  root' = root \ {e} /\ bitmap' = bitmap \ Owned(e)
<1> DEFINE s == e.sector
           tt == [table EXCEPT ![e.name] = None]
           oo == [open EXCEPT ![s] = NotOpen]
           gg == dangling \ {e.name}
<1>1. EntryOf(e.name) = e
  BY EntryOfIs DEF Usable, Good
<1>2. /\ FileClosed(Handles, e.name) = Handle(tt, oo, gg)
      /\ InodeClosed(Handle(tt, oo, gg), s) = Handle(tt, oo, gg)
      /\ Good(disk, bitmap, mapfile, root, tt, oo, gg)
      /\ Match(root \ {e}, tt, oo, gg)
      /\ oo[s] = NotOpen
  BY HandlesAre, GoodCloses DEF Usable
<1>3. FileClosed(Handles, e.name).open[s] = NotOpen
  <2>1. Handle(tt, oo, gg).open = oo
    BY HandleFields
  <2> QED
    BY <1>2, <2>1
<1> HIDE DEF tt, oo, gg
<1> QED
  BY <1>1, <1>3 DEF Remove, Owned

LEMMA RemovalStrands ==
  ASSUME Usable, NEW e \in root, Remove(e.name), disk' = disk
  PROVE  Leaked' = Leaked \cup Spare(e)
<1>1. root' = root \ {e} /\ bitmap' = bitmap \ Owned(e)
  BY RemovalFrees
<1>2. Usable' /\ open' = [open EXCEPT ![e.sector] = NotOpen]
  BY RemoveKeeps
<1>3. /\ \A f \in root : FileSound(f.sector, disk, open, bitmap)
      /\ Disjoint(root, disk, open)
      /\ root \subseteq Entries /\ OpenType(open)
  BY DEF Usable, Good, Sound, HandleType
<1>4. ASSUME NEW f \in root
      PROVE  /\ Claimed(f) = Claims(f.sector, disk, open)
             /\ Claimed(f) \subseteq bitmap \ {FREE_MAP_SECTOR}
             /\ f # e => Claimed(f)' = Claimed(f)
                          /\ Claimed(f) \cap Claimed(e) = {}
  <2>1. /\ Claimed(f) = Claims(f.sector, disk, open)
        /\ Claimed(e) = Claims(e.sector, disk, open)
    BY <1>3, ClaimedIs
  <2>2. Claimed(f) \subseteq bitmap \ {FREE_MAP_SECTOR}
    BY <1>3, <2>1 DEF FileSound, FREE_MAP_SECTOR, None
  <2>3. ASSUME f # e
        PROVE  Claimed(f)' = Claimed(f) /\ Claimed(f) \cap Claimed(e) = {}
    <3>1. Claimed(f) \cap Claimed(e) = {}
      BY <1>3, <2>1, <2>3 DEF Disjoint
    <3>2. f.sector # e.sector
      BY <2>1, <3>1 DEF Claims
    <3>3. open'[f.sector] = open[f.sector]
      BY <1>2, <1>3, <3>2 DEF OpenType, Entries
    <3>4. Claims(f.sector, disk', open') = Claims(f.sector, disk, open)
      BY <3>3 DEF Claims, Current
    <3>5. f \in root'
      BY <1>1, <2>3
    <3> QED
      BY <1>2, <2>1, <3>1, <3>4, <3>5, ClaimedIsThen
  <2> QED
    BY <2>1, <2>2, <2>3
<1>5. Owned(e) \subseteq Claimed(e)
  <2>1. {e.sector} \cup SectorsOf(disk[e.sector], disk)
          \subseteq Claims(e.sector, disk, open)
    BY <1>3, OwnedFacts
  <2> QED
    BY <1>4, <2>1 DEF Owned
<1> DEFINE U == UNION {Claimed(f) : f \in root \ {e}}
<1>6. UNION {Claimed(f)' : f \in root'} = U
  BY <1>1, <1>4
<1>7. UNION {Claimed(f) : f \in root} = U \cup Claimed(e)
  OBVIOUS
<1>8. U \cap Claimed(e) = {}
  BY <1>4
<1>9. Claimed(e) \subseteq bitmap \ {FREE_MAP_SECTOR}
  BY <1>4
<1> HIDE DEF U
<1> QED
  BY <1>1, <1>5, <1>6, <1>7, <1>8, <1>9 DEF Leaked, Spare

\* A create or copy_in that succeeds strands no sector, whatever the sizes, and
\* an rm those alone that a failed extension of its file had taken: it gives
\* back "its blocks" (inode.c:170) by the inode on disk and its length
\* (fsutil.c:72).
THEOREM StrandedAreSpares == Spec => OnlySparesAreStranded
<1> DEFINE D == UNION {Spare(e) : e \in root \ root'}
           A == mode = "up" /\ mode' = "up" /\ root' # root
                  => Leaked' = Leaked \cup D
<1>1. ASSUME IInv, Next, mode = "up", mode' = "up", root' # root
      PROVE  Leaked' = Leaked \cup D
  <2>1. Usable
    BY <1>1, RunningIsUsable DEF Running
  <2>2. Usable'
    <3>1. IInv' /\ mode' = "up"
      BY <1>1, NextKeeps
    <3> QED
      BY <3>1 DEF IInv, TypeOK, Running, Usable, Good, HandleType, DiskType,
                  OpenType
  <2>3. UserNames \subseteq Names /\ 0 .. MaxSize \subseteq Lengths
          /\ 1 .. MaxSize \subseteq Lengths
    BY DEF Names, Lengths
  <2>4. ASSUME NEW n \in Names, NEW l \in Lengths, Vacant # {},
               CreationBecomes(Created(n, l)), SameInodes(disk', open')
        PROVE  Leaked' = Leaked \cup D
    <3>1. Leaked' = Leaked
      BY <1>1, <2>1, <2>2, <2>4, CreationLeaksNothing
    <3>2. PICK c : c = Created(n, l)
      OBVIOUS
    <3>3. root' = root \/ \E e : root' = root \cup {e}
      BY <2>1, <2>4, <3>2, CreationKeeps DEF CreationBecomes
    <3>4. root \ root' = {}
      BY <3>3
    <3> QED
      BY <3>1, <3>4
  <2>5. ASSUME NEW n \in UserNames, NEW len \in 0 .. MaxSize, Create(n, len)
        PROVE  Leaked' = Leaked \cup D
    <3>1. SameInodes(disk', open')
      BY <2>5 DEF Create, SameInodes
    <3> QED
      BY <2>3, <2>4, <2>5, <3>1 DEF Create
  <2>6. ASSUME NEW n \in UserNames,
               NEW len \in (1 .. MaxSize) \cup {NumSectors}, CopyIn(n, len)
        PROVE  Leaked' = Leaked \cup D
    <3> DEFINE free == Cardinality(Free(bitmap))
               l == IF len > free THEN free ELSE len
    <3>1. PICK c : c = Created(n, l)
      OBVIOUS
    <3>2. l \in Lengths
      BY <2>3, <2>6, CopiedLength
    <3>3. /\ CreationBecomes(c) /\ Vacant # {}
          /\ HandlesBecome(IF c.ok THEN FileOpened(Handles, n,
                                          Nth(0, Free(bitmap)), c.disk)
                                   ELSE Handles)
      BY <2>6, <3>1, Zenon DEF CopyIn
    <3> HIDE DEF l
    <3>4. SameInodes(disk', open')
      BY <2>1, <2>3, <3>1, <3>2, <3>3, CreateOpenKeeps
    <3> QED
      BY <2>3, <2>4, <3>1, <3>2, <3>3, <3>4
  <2>7. ASSUME NEW n \in NamesInUse, Rm(n)
        PROVE  Leaked' = Leaked \cup D
    <3>1. PICK e \in root : e.name = n
      BY DEF NamesInUse
    <3>2. Remove(e.name) /\ disk' = disk
      BY <2>7, <3>1 DEF Rm
    <3>3. Leaked' = Leaked \cup Spare(e) /\ root' = root \ {e}
      BY <2>1, <3>2, RemovalStrands, RemovalFrees
    <3>4. root \ root' = {e}
      BY <3>3
    <3>5. D = Spare(e)
      BY <3>4
    <3> QED
      BY <3>3, <3>5
  <2>8. ASSUME NEW n, Open(n) \/ Close(n) \/ UseBroken(n)
        PROVE  FALSE
    BY <1>1, <2>8 DEF Open, Close, UseBroken
  <2>9. ASSUME NEW n, NEW first, NEW len, NEW back,
               Write(n, first, len, back)
        PROVE  FALSE
    <3>1. root' = root
      BY <2>9, Zenon DEF Write
    <3> QED
      BY <1>1, <3>1
  <2>10. FindFile \/ FragmentationDegree \/ Defragment \/ SaveNext
          \/ RestoreNext \/ Shutdown \/ Boot \/ Format => FALSE
    BY <1>1 DEF FindFile, FragmentationDegree, Defragment, SaveNext,
                RestoreNext, Shutdown, Boot, Format
  <2> HIDE DEF D
  <2> QED
    BY <1>1, <2>5, <2>6, <2>7, <2>8, <2>9, <2>10 DEF Next
<1>2. root' # root => ~UNCHANGED vars
  BY DEF vars
<1>3. IInv /\ [Next]_vars => A
  BY <1>1, <1>2
<1>4. OnlySparesAreStranded <=> [][A]_vars
  BY DEF OnlySparesAreStranded
<1> HIDE DEF A
<1> QED
  BY <1>3, <1>4, Invariance, PTL DEF Spec

=============================================================================
