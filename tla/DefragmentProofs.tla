-------------------------- MODULE DefragmentProofs --------------------------
(***************************************************************************)
(* defragment removes every file before it creates the first again, and    *)
(* stops at the first that it cannot create.  For all sizes of the disk,   *)
(* of an inode and of the directory, it never comes to that: the sectors   *)
(* that it has freed are enough for the files it holds.                    *)
(***************************************************************************)
EXTENDS FileSystemProofs

USE SizeAssumption

Moving == mode \in {"saving", "restoring", "partial"}

\* The sectors that a file of len blocks takes: its inode, its blocks and, past
\* the direct ones, its index block.
Size(len) == 1 + len + (IF len > NumDirect THEN 1 ELSE 0)

Held(q) == {q[i] : i \in DOMAIN q}
NamedApart(q) == \A i, j \in DOMAIN q : q[i].name = q[j].name => i = j

\* The sectors that the files F will take, each under the file it is for: as
\* many as the sum of their sizes.
Units(F) == {u \in F \X (0 .. NumDirect + NumIndirect + 1) :
               u[2] < Size(u[1].len)}

\* What defragment holds in memory finds its name unused and room on the disk.
Room == Cardinality(Units(Held(saved))) <= Cardinality(Free(bitmap))
Unlisted == \A f \in Held(saved), e \in root : f.name # e.name
DInv == IInv /\ (Moving => NamedApart(saved) /\ Unlisted /\ Room)

-----------------------------------------------------------------------------
(* Counting.                                                               *)

LEMMA HeldFinite ==
  ASSUME NEW T, NEW q \in Seq(T)
  PROVE  IsFiniteSet(Held(q)) /\ Held(q) \subseteq T
<1>1. DOMAIN q = 1 .. Len(q) /\ Len(q) \in Nat
  OBVIOUS
<1>2. IsFiniteSet(DOMAIN q)
  BY <1>1, FS_Interval
<1>3. q \in Surjection(DOMAIN q, Held(q))
  BY <1>1 DEF Surjection, Held
<1> QED
  BY <1>1, <1>2, <1>3, FS_Surjection DEF Held

LEMMA HeldAppended ==
  ASSUME NEW T, NEW q \in Seq(T), NEW f \in T
  PROVE  /\ Held(Append(q, f)) = Held(q) \cup {f}
         /\ NamedApart(q) /\ (\A g \in Held(q) : g.name # f.name)
              => NamedApart(Append(q, f))
<1> DEFINE r == Append(q, f)
<1>1. /\ DOMAIN q = 1 .. Len(q) /\ Len(q) \in Nat
      /\ DOMAIN r = 1 .. Len(q) + 1
      /\ \A i \in 1 .. Len(q) : r[i] = q[i]
      /\ r[Len(q) + 1] = f
  OBVIOUS
<1> HIDE DEF r
<1>2. Held(r) = Held(q) \cup {f}
  BY <1>1 DEF Held
<1>3. ASSUME NamedApart(q), \A g \in Held(q) : g.name # f.name
      PROVE  NamedApart(r)
  BY <1>1, <1>3 DEF Held, NamedApart
<1> QED
  BY <1>2, <1>3 DEF r

LEMMA HeldTail ==
  ASSUME NEW T, NEW q \in Seq(T), q # <<>>, NamedApart(q)
  PROVE  /\ Held(q) = Held(Tail(q)) \cup {Head(q)}
         /\ Head(q) \notin Held(Tail(q))
         /\ NamedApart(Tail(q))
         /\ \A g \in Held(Tail(q)) : g.name # Head(q).name
<1> DEFINE r == Tail(q)
           f == Head(q)
<1>1. /\ DOMAIN q = 1 .. Len(q) /\ Len(q) \in Nat /\ Len(q) > 0
      /\ DOMAIN r = 1 .. Len(q) - 1
      /\ \A i \in 1 .. Len(q) - 1 : r[i] = q[i + 1]
      /\ q[1] = f
  OBVIOUS
<1> HIDE DEF r, f
<1>2. Held(q) = Held(r) \cup {f}
  <2>1. \A i \in 1 .. Len(q) : i = 1 \/ (i - 1 \in 1 .. Len(q) - 1
                                         /\ q[i] = r[i - 1])
    BY <1>1
  <2>2. \A i \in 1 .. Len(q) - 1 : i + 1 \in 1 .. Len(q)
    BY <1>1
  <2>3. \A i \in DOMAIN q : q[i] = f \/ \E j \in DOMAIN r : q[i] = r[j]
    BY <1>1, <2>1
  <2>4. \A j \in DOMAIN r : \E i \in DOMAIN q : r[j] = q[i]
    BY <1>1, <2>2
  <2>5. 1 \in DOMAIN q
    BY <1>1
  <2>6. ASSUME NEW g \in Held(q)
        PROVE  g \in Held(r) \cup {f}
    <3>1. PICK i \in DOMAIN q : g = q[i]
      BY DEF Held
    <3> QED
      BY <2>3, <3>1 DEF Held
  <2>7. ASSUME NEW g \in Held(r) \cup {f}
        PROVE  g \in Held(q)
    <3>1. CASE g = f
      BY <1>1, <2>5, <3>1 DEF Held
    <3>2. CASE g \in Held(r)
      <4>1. PICK j \in DOMAIN r : g = r[j]
        BY <3>2 DEF Held
      <4> QED
        BY <2>4, <4>1 DEF Held
    <3> QED
      BY <3>1, <3>2
  <2> QED
    BY <2>6, <2>7
<1>3. \A i \in 1 .. Len(q) - 1 : i + 1 \in 1 .. Len(q) /\ i + 1 # 1
  BY <1>1
<1>4. \A i \in 1 .. Len(q) - 1 : r[i].name # f.name
  BY <1>1, <1>3 DEF NamedApart
<1>5. NamedApart(r)
  <2>1. ASSUME NEW i \in DOMAIN r, NEW j \in DOMAIN r, r[i].name = r[j].name
        PROVE  i = j
    <3>1. /\ i + 1 \in DOMAIN q /\ j + 1 \in DOMAIN q
          /\ r[i] = q[i + 1] /\ r[j] = q[j + 1]
      BY <1>1, <1>3
    <3>2. i + 1 = j + 1
      BY <2>1, <3>1 DEF NamedApart
    <3> QED
      BY <1>1, <3>2
  <2> QED
    BY <2>1 DEF NamedApart
<1>6. \A g \in Held(r) : g.name # f.name
  BY <1>1, <1>4 DEF Held
<1> QED
  BY <1>2, <1>5, <1>6 DEF r, f

LEMMA UnitsFinite ==
  ASSUME NEW F, IsFiniteSet(F)
  PROVE  IsFiniteSet(Units(F)) /\ Cardinality(Units(F)) \in Nat
<1> DEFINE N == 0 .. NumDirect + NumIndirect + 1
<1>1. IsFiniteSet(N)
  BY FS_Interval
<1>2. IsFiniteSet(F \X N)
  BY <1>1, FS_Product
<1>3. Units(F) \in SUBSET (F \X N)
  BY DEF Units
<1> QED
  BY <1>2, <1>3, FS_Subset, FS_CardinalityType

LEMMA OneMoreFile ==
  ASSUME NEW F, IsFiniteSet(F), NEW f, f \notin F, f.len \in Lengths
  PROVE  Cardinality(Units(F \cup {f})) = Cardinality(Units(F)) + Size(f.len)
<1> DEFINE N == 0 .. NumDirect + NumIndirect + 1
           z == Size(f.len)
           K == 0 .. z - 1
           U == {f} \X K
<1>1. z \in Nat /\ z <= NumDirect + NumIndirect + 2
  BY DEF Size, Lengths
<1>2. IsFiniteSet(K) /\ Cardinality(K) = z
  <2>1. PICK h \in Int : h = z - 1
    BY <1>1
  <2>2. K = 0 .. h
    BY <2>1
  <2> HIDE DEF K
  <2>3. IsFiniteSet(K) /\ Cardinality(K) = IF 0 > h THEN 0 ELSE h - 0 + 1
    BY <2>2, FS_Interval
  <2> QED
    BY <1>1, <2>1, <2>3
<1>3. K = {k \in N : k < z}
  BY <1>1
<1>4. \A k \in N : k < z <=> k < Size(f.len)
  OBVIOUS
<1> HIDE DEF N, z, K
<1>5. IsFiniteSet({f}) /\ Cardinality({f}) = 1
  BY FS_Singleton
<1>6. IsFiniteSet(U) /\ Cardinality(U) = z
  <2>1. IsFiniteSet(U) /\ Cardinality(U) = Cardinality({f}) * Cardinality(K)
    BY <1>2, <1>5, FS_Product
  <2> QED
    BY <1>1, <1>2, <1>5, <2>1
<1>7. Units(F \cup {f}) = Units(F) \cup U
  BY <1>3, <1>4 DEF Units, N
<1>8. Units(F) \cap U = {}
  BY DEF Units
<1>9. IsFiniteSet(Units(F)) /\ Cardinality(Units(F)) \in Nat
  BY UnitsFinite
<1> HIDE DEF U
<1>10. Cardinality(Units(F) \cap U) = 0
  BY <1>8, FS_EmptySet
<1>11. Cardinality(Units(F) \cup U)
         = Cardinality(Units(F)) + Cardinality(U)
             - Cardinality(Units(F) \cap U)
  BY <1>6, <1>9, FS_Union
<1>12. Cardinality(Units(F \cup {f})) = Cardinality(Units(F)) + z
  <2>1. PICK k \in Nat : k = Cardinality(Units(F))
    BY <1>9
  <2>2. Cardinality(Units(F \cup {f})) = k + z - 0
    BY <1>6, <1>7, <1>10, <1>11, <2>1, Zenon
  <2> QED
    BY <1>1, <2>1, <2>2
<1> QED
  BY <1>12 DEF z

-----------------------------------------------------------------------------
(* A file of a length that there is room for can be created.               *)

LEMMA IntervalCounted ==
  ASSUME NEW k \in Nat, NEW m \in Nat
  PROVE  LET S == k .. k + m - 1
         IN S \in SUBSET Nat /\ IsFiniteSet(S) /\ Cardinality(S) = m
<1>1. PICK h \in Int : h = k + m - 1
  OBVIOUS
<1>2. IsFiniteSet(k .. h)
        /\ Cardinality(k .. h) = IF k > h THEN 0 ELSE h - k + 1
  BY FS_Interval
<1>3. k .. h \in SUBSET Nat
  OBVIOUS
<1>4. Cardinality(k .. h) = m
  BY <1>1, <1>2
<1> QED
  BY <1>1, <1>2, <1>3, <1>4

LEMMA RankBelow ==
  ASSUME NEW S \in SUBSET Nat, IsFiniteSet(S), NEW i \in S
  PROVE  Rank(i, S) < Cardinality(S)
<1> DEFINE B == {j \in S : j < i}
<1>1. IsFiniteSet(B) /\ Rank(i, S) = Cardinality(B) /\ Rank(i, S) \in Nat
  BY BelowFinite
<1>2. B \in SUBSET S /\ B # S
  <2>1. i \in Nat /\ ~(i < i)
    OBVIOUS
  <2> QED
    BY <2>1
<1> HIDE DEF B
<1>3. Cardinality(B) <= Cardinality(S) /\ Cardinality(B) # Cardinality(S)
  BY <1>2, FS_Subset
<1>4. Cardinality(S) \in Nat
  BY FS_CardinalityType
<1> QED
  BY <1>1, <1>3, <1>4

\* All of want is granted when that many sectors are free, and takes no more.
LEMMA GrantsAll ==
  ASSUME NEW want \in SUBSET Nat, IsFiniteSet(want), NEW b,
         Cardinality(want) <= Cardinality(Free(b))
  PROVE  LET g == Grant(want, b)
         IN /\ DOMAIN g = want
            /\ Cardinality(Free(b)) - Cardinality(want)
                 <= Cardinality(Free(b \cup Granted(g)))
<1> DEFINE D == {i \in want : Rank(i, want) < Cardinality(Free(b))}
           g == Grant(want, b)
           G == Granted(g)
<1>1. g = [i \in D |-> Nth(Rank(i, want), Free(b))]
  BY DEF Grant
<1>2. Cardinality(Free(b)) \in Nat /\ Cardinality(want) \in Nat
        /\ IsFiniteSet(Free(b))
  BY FreeType, FS_CardinalityType
<1>3. \A i \in want : Rank(i, want) \in Nat
                      /\ Rank(i, want) < Cardinality(want)
  BY RankBelow, BelowFinite
<1>4. D = want
  <2>1. \A i \in want : Rank(i, want) < Cardinality(Free(b))
    BY <1>2, <1>3
  <2> QED
    BY <2>1, Zenon
<1> HIDE DEF D, g
<1>5. DOMAIN g = want /\ g = [i \in want |-> g[i]]
  BY <1>1, <1>4
<1>6. G = {g[i] : i \in want}
  BY <1>5 DEF Granted
<1> HIDE DEF G
<1>7. g \in Surjection(want, G)
  BY <1>5, <1>6 DEF Surjection
<1>8. IsFiniteSet(G) /\ Cardinality(G) <= Cardinality(want)
  BY <1>7, FS_Surjection
<1>9. Free(b \cup G) = Free(b) \ G
  BY DEF Free
<1>10. /\ Cardinality(Free(b) \ G)
            = Cardinality(Free(b)) - Cardinality(Free(b) \cap G)
       /\ IsFiniteSet(Free(b) \cap G)
  BY <1>2, FS_Difference, FS_Intersection
<1>11. Cardinality(Free(b) \cap G) <= Cardinality(G)
  BY <1>8, FS_Subset
<1>12. Cardinality(G) \in Nat /\ Cardinality(Free(b) \cap G) \in Nat
  BY <1>8, <1>10, FS_CardinalityType
<1>13. Cardinality(Free(b)) - Cardinality(want)
         <= Cardinality(Free(b \cup G))
  <2>1. PICK i, j, k, h : /\ i = Cardinality(Free(b)) /\ j = Cardinality(want)
                          /\ k = Cardinality(G)
                          /\ h = Cardinality(Free(b) \cap G)
    OBVIOUS
  <2>2. i \in Nat /\ j \in Nat /\ k \in Nat /\ h \in Nat /\ k <= j /\ h <= k
    BY <1>2, <1>8, <1>11, <1>12, <2>1, Zenon
  <2>3. Cardinality(Free(b \cup G)) = i - h
    BY <1>9, <1>10, <2>1, Zenon
  <2>4. i - j <= i - h
    BY <2>2
  <2> QED
    BY <2>1, <2>3, <2>4, Zenon
<1> QED
  BY <1>5, <1>13 DEF g, G

LEMMA LackingAll ==
  ASSUME NEW k \in Nat, NEW f, DOMAIN f = 0 .. k,
         \A i \in 0 .. k : f[i] = None, NEW n \in Nat
  PROVE  Lacking(f, n) = 0 .. (IF n <= k THEN n ELSE k + 1) - 1
<1>1. Lacking(f, n) = {i \in 0 .. k : i < n}
  BY DEF Lacking
<1> QED
  BY <1>1

\* The index block of an inode that has none, and the first m in it.
FreshIndex(x, m, b, d, r) ==
  LET at == Nth(0, Free(b))
      g == Grant(0 .. m - 1, b \cup {at})
  IN /\ at \in Sectors \ b
     /\ r.ok = (DOMAIN g = 0 .. m - 1)
     /\ r.bitmap = b \cup {at} \cup Granted(g)
     /\ r.ino = [x EXCEPT !.index = at]
     /\ r.ok => PointersIn(r.disk[at])
                  = [i \in 0 .. NumIndirect - 1 |->
                       IF i \in DOMAIN g THEN g[i] ELSE None]

LEMMA FreshIndexFacts ==
  ASSUME NEW x \in Inodes, x.index = None,
         NEW m \in Nat \ {0}, m <= NumIndirect,
         NEW b, NEW d, DiskType(d), Free(b) # {}
  PROVE  FreshIndex(x, m, b, d, ReserveIndirect(x, m, b, d))
<1> DEFINE new == x.index = None
           at == IF ~new THEN x.index
                 ELSE IF Free(b) = {} THEN None ELSE Nth(0, Free(b))
           d1 == IF new THEN [d EXCEPT ![at] = EmptyIndex] ELSE d
           blocks == PointersIn(d1[at])
           want == Lacking(blocks, m)
           g == Grant(want, b \cup {at})
           ok == DOMAIN g = want
           d2 == WithBytes(d1, Granted(g))
           c == [kind |-> "index", blocks |-> Filled(blocks, g)]
           r == [ok |-> ok,
                 ino |-> [x EXCEPT !.index = at],
                 bitmap |-> b \cup {at} \cup Granted(g),
                 disk |-> IF ok THEN [d2 EXCEPT ![at] = c] ELSE d2]
           I == 0 .. NumIndirect - 1
<1>1. ReserveIndirect(x, m, b, d) = r
  BY Zenon DEF ReserveIndirect
<1>2. at = Nth(0, Free(b)) /\ at \in Sectors \ b
  BY FreeType, FirstIsMember DEF Free
<1> HIDE DEF at
<1>3. DiskType(d1) /\ d1[at] = EmptyIndex
  BY <1>2, EmptyIndexFacts DEF DiskType
<1> HIDE DEF d1
<1>4. blocks = [i \in I |-> None]
  <2>1. blocks = EmptyIndex.blocks
    BY <1>3, EmptyIndexFacts, IndexType
  <2> QED
    BY <2>1 DEF EmptyIndex
<1> HIDE DEF blocks
<1>5. want = 0 .. m - 1
  <2>1. DOMAIN blocks = I /\ \A i \in I : blocks[i] = None
    BY <1>4
  <2>2. NumIndirect - 1 \in Nat
    OBVIOUS
  <2>3. want = 0 .. (IF m <= NumIndirect - 1 THEN m
                                            ELSE NumIndirect - 1 + 1) - 1
    BY <2>1, <2>2, LackingAll
  <2> QED
    BY <2>3
<1> HIDE DEF want
<1>6. Filled(blocks, g) = [i \in I |-> IF i \in DOMAIN g THEN g[i] ELSE None]
  BY <1>4 DEF Filled
<1>7. DiskType(d2)
  BY <1>3, WithBytesFacts
<1> HIDE DEF d2, g
<1>8. c.kind = "index" /\ c.blocks = Filled(blocks, g)
  OBVIOUS
<1>9. PointersIn(c) = [i \in I |-> c.blocks[i]]
  BY <1>8, Zenon DEF PointersIn
<1>10. PointersIn(c) = [i \in I |-> IF i \in DOMAIN g THEN g[i] ELSE None]
  BY <1>6, <1>8, <1>9
<1> HIDE DEF c
<1>11. ok => r.disk[at] = c
  BY <1>2, <1>7 DEF DiskType
<1>12. r.ok = ok /\ r.ino = [x EXCEPT !.index = at]
         /\ r.bitmap = b \cup {at} \cup Granted(g)
  OBVIOUS
<1> HIDE DEF r
<1>13. g = Grant(0 .. m - 1, b \cup {at})
  BY <1>5 DEF g
<1> QED
  BY <1>1, <1>2, <1>5, <1>10, <1>11, <1>12, <1>13 DEF FreshIndex

\* The positions of the direct blocks of a file of len blocks.
Directs(len) == 0 .. (IF len <= NumDirect THEN len ELSE NumDirect) - 1

LEMMA DirectsFacts ==
  ASSUME NEW len \in Lengths
  PROVE  /\ Directs(len) \in SUBSET Nat /\ IsFiniteSet(Directs(len))
         /\ Cardinality(Directs(len))
              = IF len <= NumDirect THEN len ELSE NumDirect
         /\ \A i \in 0 .. NumDirect - 1 : i < len => i \in Directs(len)
<1>1. PICK m \in Nat : m = IF len <= NumDirect THEN len ELSE NumDirect
  BY DEF Lengths
<1>2. Directs(len) = 0 .. 0 + m - 1
  BY <1>1 DEF Directs
<1>3. \A i \in 0 .. NumDirect - 1 : i < len => i \in Directs(len)
  BY DEF Directs, Lengths
<1>4. /\ 0 .. 0 + m - 1 \in SUBSET Nat /\ IsFiniteSet(0 .. 0 + m - 1)
      /\ Cardinality(0 .. 0 + m - 1) = m
  BY IntervalCounted
<1> QED
  BY <1>1, <1>2, <1>3, <1>4, Zenon

\* What inode_reserve does for a new inode, r: its direct blocks g, which make
\* it x, and then the index block if it needs one.
FreshDirect(len, b, d, g, x, r) ==
  /\ x \in Inodes /\ x.len = len /\ x.index = None
  /\ x.direct = [i \in 0 .. NumDirect - 1 |->
                   IF i \in DOMAIN g THEN g[i] ELSE None]
  /\ r = IF DOMAIN g = Directs(len) /\ len > NumDirect
         THEN ReserveIndirect(x, len - NumDirect, b \cup Granted(g),
                              WithBytes(d, Granted(g)))
         ELSE [ok |-> DOMAIN g = Directs(len), ino |-> x,
               bitmap |-> b \cup Granted(g),
               disk |-> WithBytes(d, Granted(g))]

LEMMA FreshReserve ==
  ASSUME NEW len \in Lengths, NEW b, NEW d, DiskType(d),
         NEW g, g = Grant(Directs(len), b)
  PROVE  \E x : FreshDirect(len, b, d, g, x, Reserve(NewInode(len), len, b, d))
<1> DEFINE y == NewInode(len)
           I == 0 .. NumDirect - 1
           want == Lacking(y.direct, len)
           h == Grant(want, b)
           x == [y EXCEPT !.direct = Filled(@, h)]
           f == [i \in I |-> IF i \in DOMAIN g THEN g[i] ELSE None]
<1>1. y \in Inodes /\ y.len = len /\ y.index = None
  BY NewInodeFacts
<1>2. y.direct = [i \in I |-> None]
  BY DEF NewInode
<1>3. want = Directs(len)
  <2>1. DOMAIN y.direct = I /\ \A i \in I : y.direct[i] = None
    BY <1>2
  <2>2. NumDirect - 1 \in Nat /\ len \in Nat
    BY DEF Lengths
  <2> HIDE DEF y
  <2>3. want = 0 .. (IF len <= NumDirect - 1 THEN len
                                            ELSE NumDirect - 1 + 1) - 1
    BY <2>1, <2>2, LackingAll
  <2> QED
    BY <2>2, <2>3 DEF Directs
<1>4. Reserve(y, len, b, d)
        = IF DOMAIN h = want /\ len > NumDirect
          THEN ReserveIndirect(x, len - NumDirect, b \cup Granted(h),
                               WithBytes(d, Granted(h)))
          ELSE [ok |-> DOMAIN h = want, ino |-> x,
                bitmap |-> b \cup Granted(h),
                disk |-> WithBytes(d, Granted(h))]
  BY Zenon DEF Reserve
<1> HIDE DEF y, want
<1>5. h = g
  BY <1>3
<1>6. Filled(y.direct, h) = f
  BY <1>2, <1>5 DEF Filled
<1>7. f \in [I -> Sectors]
  <2>1. \A i \in DOMAIN g : g[i] \in Sectors
    BY DirectsFacts, GrantFacts
  <2> QED
    BY <2>1, SectorsType
<1> HIDE DEF h, f
<1>8. x = [y EXCEPT !.direct = f]
  BY <1>6
<1> HIDE DEF x
<1>9. x \in Inodes /\ x.direct = f /\ x.index = None /\ x.len = len
  BY <1>1, <1>7, <1>8, InodeType
<1>10. Reserve(y, len, b, d)
         = IF DOMAIN g = Directs(len) /\ len > NumDirect
           THEN ReserveIndirect(x, len - NumDirect, b \cup Granted(g),
                                WithBytes(d, Granted(g)))
           ELSE [ok |-> DOMAIN g = Directs(len), ino |-> x,
                 bitmap |-> b \cup Granted(g),
                 disk |-> WithBytes(d, Granted(g))]
  BY <1>3, <1>4, <1>5, Zenon
<1>11. FreshDirect(len, b, d, g, x, Reserve(y, len, b, d))
  BY <1>9, <1>10, Zenon DEF FreshDirect, f
<1> QED
  BY <1>11 DEF y

LEMMA RoomToReserve ==
  ASSUME NEW len \in Lengths, NEW b, NEW d, DiskType(d),
         len + (IF len > NumDirect THEN 1 ELSE 0) <= Cardinality(Free(b))
  PROVE  Reserve(NewInode(len), len, b, d).ok = TRUE
<1>1. PICK g : g = Grant(Directs(len), b)
  OBVIOUS
<1> DEFINE M == Directs(len)
           c == b \cup Granted(g)
           e == WithBytes(d, Granted(g))
<1>2. /\ M \in SUBSET Nat /\ IsFiniteSet(M)
      /\ Cardinality(M) = IF len <= NumDirect THEN len ELSE NumDirect
  BY DirectsFacts
<1>3. Cardinality(Free(b)) \in Nat /\ len \in Nat
  BY FreeType DEF Lengths
<1>3a. g = Grant(M, b)
  BY <1>1
<1> HIDE DEF M
<1>4. Cardinality(M) <= Cardinality(Free(b))
  BY <1>2, <1>3
<1>5. /\ DOMAIN g = M
      /\ Cardinality(Free(b)) - Cardinality(M) <= Cardinality(Free(c))
  BY <1>2, <1>3a, <1>4, GrantsAll
<1>6. PICK x : FreshDirect(len, b, d, g, x, Reserve(NewInode(len), len, b, d))
  BY <1>1, FreshReserve
<1>6a. /\ x \in Inodes /\ x.index = None
       /\ Reserve(NewInode(len), len, b, d)
            = IF DOMAIN g = M /\ len > NumDirect
              THEN ReserveIndirect(x, len - NumDirect, c, e)
              ELSE [ok |-> DOMAIN g = M, ino |-> x, bitmap |-> c, disk |-> e]
  BY <1>6, Zenon DEF FreshDirect, M
<1>7. DiskType(e)
  BY WithBytesFacts
<1> HIDE DEF c, e
<1>8. CASE ~(len > NumDirect)
  <2>1. Reserve(NewInode(len), len, b, d)
          = [ok |-> DOMAIN g = M, ino |-> x, bitmap |-> c, disk |-> e]
    BY <1>6a, <1>8, Zenon
  <2>2. [ok |-> DOMAIN g = M, ino |-> x, bitmap |-> c, disk |-> e].ok
          = (DOMAIN g = M)
    OBVIOUS
  <2> QED
    BY <1>5, <2>1, <2>2, Zenon
<1>9. CASE len > NumDirect
  <2> DEFINE m == len - NumDirect
             K == 0 .. m - 1
             at == Nth(0, Free(c))
             r == ReserveIndirect(x, m, c, e)
  <2>1. m \in Nat \ {0} /\ m <= NumIndirect
    BY <1>9 DEF Lengths
  <2>2. m + 1 <= Cardinality(Free(c)) /\ Cardinality(Free(c)) \in Nat
    <3>1. Cardinality(Free(c)) \in Nat
      BY FreeType
    <3> QED
      BY <1>2, <1>3, <1>5, <1>9, <3>1
  <2>3. Free(c) # {}
    <3>1. Cardinality(Free(c)) # 0
      BY <2>1, <2>2
    <3> QED
      BY <3>1, FS_EmptySet
  <2> HIDE DEF m
  <2>4. K \in SUBSET Nat /\ IsFiniteSet(K) /\ Cardinality(K) = m
    <3>1. K = 0 .. 0 + m - 1 /\ 0 \in Nat
      BY <2>1
    <3> QED
      BY <2>1, <3>1, IntervalCounted, Zenon
  <2>5. FreshIndex(x, m, c, e, r)
    BY <1>6a, <1>7, <2>1, <2>3, FreshIndexFacts
  <2> HIDE DEF K, r
  <2>6. Cardinality(Free(c \cup {at})) = Cardinality(Free(c)) - 1
    <3>1. at \in Free(c) /\ IsFiniteSet(Free(c))
      BY <2>3, FreeType, FirstIsMember
    <3>2. Free(c \cup {at}) = Free(c) \ {at}
      BY DEF Free
    <3> HIDE DEF at
    <3> QED
      BY <3>1, <3>2, FS_RemoveElement
  <2>7. Cardinality(K) <= Cardinality(Free(c \cup {at}))
    BY <2>1, <2>2, <2>4, <2>6
  <2> HIDE DEF at
  <2>8. DOMAIN Grant(K, c \cup {at}) = K
    BY <2>4, <2>7, GrantsAll
  <2>9. r.ok = TRUE
    BY <2>5, <2>8 DEF FreshIndex, K, at
  <2>10. Reserve(NewInode(len), len, b, d) = r
    BY <1>5, <1>6a, <1>9, Zenon DEF r, m
  <2> QED
    BY <2>9, <2>10
<1> QED
  BY <1>8, <1>9

\* filesys_create succeeds when the name is free and the sectors are enough.
LEMMA RoomToCreate ==
  ASSUME DiskType(disk), NEW n, NEW len \in Lengths, ~Listed(n),
         Size(len) <= Cardinality(Free(bitmap))
  PROVE  Created(n, len).ok = TRUE
<1> DEFINE s == Nth(0, Free(bitmap))
           b == bitmap \cup {s}
           r == Reserve(NewInode(len), len, b, disk)
<1>1. Cardinality(Free(bitmap)) \in Nat /\ IsFiniteSet(Free(bitmap))
  BY FreeType
<1>2. Free(bitmap) # {}
  <2>1. Size(len) >= 1 /\ Size(len) \in Nat
    BY DEF Size, Lengths
  <2> QED
    BY <2>1, FS_EmptySet
<1>3. Cardinality(Free(b)) = Cardinality(Free(bitmap)) - 1
  <2>1. s \in Free(bitmap)
    BY <1>2, FreeType, FirstIsMember
  <2>2. Free(b) = Free(bitmap) \ {s}
    BY DEF Free
  <2>3. Cardinality(Free(bitmap) \ {s}) = Cardinality(Free(bitmap)) - 1
    <3> HIDE DEF s
    <3> QED
      BY <1>1, <2>1, FS_RemoveElement
  <2> HIDE DEF b
  <2> QED
    BY <2>2, <2>3
<1>4. len + (IF len > NumDirect THEN 1 ELSE 0) <= Cardinality(Free(b))
  BY <1>1, <1>3 DEF Size, Lengths
<1> HIDE DEF b
<1>5. r.ok = TRUE
  BY <1>4, RoomToReserve
<1>6. Created(n, len).ok = (r.ok /\ ~Listed(n))
  BY <1>2 DEF Created, b
<1> QED
  BY <1>5, <1>6

-----------------------------------------------------------------------------
(* The steps of defragment.                                                *)

LEMMA OwnedSize ==
  ASSUME NEW s, NEW d, NEW o, NEW b, FileSound(s, d, o, b)
  PROVE  LET S == {s} \cup SectorsOf(d[s], d)
         IN IsFiniteSet(S) /\ Cardinality(S) = Size(d[s].len)
<1>1. PICK y : y = d[s]
  OBVIOUS
<1> DEFINE T == SectorsOf(y, d)
<1>2. /\ y \in Inodes /\ Indexed(y, d) /\ Full(y, d)
      /\ s \notin T /\ Apart(Pointer(y, d))
  BY <1>1, OwnedFacts
<1>3. y.len \in Nat
  BY <1>2, InodeType DEF Lengths
<1>4. /\ IsFiniteSet(T)
      /\ Cardinality(T) = y.len + (IF y.len > NumDirect THEN 1 ELSE 0)
  BY <1>2, SectorsAreCounted
<1> HIDE DEF T
<1>5. IsFiniteSet(T \cup {s}) /\ Cardinality(T \cup {s}) = Cardinality(T) + 1
  BY <1>2, <1>4, FS_AddElement
<1>6. Cardinality(T \cup {s}) = Size(y.len)
  BY <1>3, <1>4, <1>5 DEF Size
<1>7. {s} \cup SectorsOf(d[s], d) = T \cup {s}
  BY <1>1 DEF T
<1> QED
  BY <1>1, <1>5, <1>6, <1>7

\* What is removed leaves its sectors free.
LEMMA RemovalMakesRoom ==
  ASSUME Usable, NEW e \in root, Remove(e.name)
  PROVE  Cardinality(Free(bitmap'))
           = Cardinality(Free(bitmap)) + Size(disk[e.sector].len)
<1>1. bitmap' = bitmap \ Owned(e)
  BY RemovalFrees
<1>2. FileSound(e.sector, disk, open, bitmap)
  BY DEF Usable, Good, Sound
<1>3. /\ IsFiniteSet(Owned(e))
      /\ Cardinality(Owned(e)) = Size(disk[e.sector].len)
  BY <1>2, OwnedSize DEF Owned
<1>4. Owned(e) \subseteq bitmap
  BY <1>2, OwnedFacts DEF Owned, FileSound
<1>5. bitmap \subseteq Sectors
  BY DEF Usable, Good
<1>6. Free(bitmap') = Free(bitmap) \cup Owned(e)
        /\ Free(bitmap) \cap Owned(e) = {}
  BY <1>1, <1>4, <1>5 DEF Free
<1>7. IsFiniteSet(Free(bitmap)) /\ Cardinality(Free(bitmap)) \in Nat
  BY FreeType
<1>8. Cardinality(Owned(e)) \in Nat
  BY <1>3, FS_CardinalityType
<1>9. Cardinality(Free(bitmap) \cap Owned(e)) = 0
  BY <1>6, FS_EmptySet
<1>10. Cardinality(Free(bitmap) \cup Owned(e))
         = Cardinality(Free(bitmap)) + Cardinality(Owned(e))
             - Cardinality(Free(bitmap) \cap Owned(e))
  BY <1>3, <1>7, FS_Union
<1>11. PICK i \in Nat, k \in Nat :
         i = Cardinality(Free(bitmap)) /\ k = Cardinality(Owned(e))
  BY <1>7, <1>8
<1>12. Cardinality(Free(bitmap')) = i + k - 0
  BY <1>6, <1>9, <1>10, <1>11, Zenon
<1>13. i + k - 0 = i + k
  OBVIOUS
<1> QED
  BY <1>3, <1>11, <1>12, <1>13, Zenon

\* The length that an open inode has is the one on disk.
LEMMA LengthInMemory ==
  ASSUME Usable, NEW e \in root
  PROVE  /\ InodeOf(e.name).len = disk[e.sector].len
         /\ disk[e.sector].len \in Lengths
<1>1. EntryOf(e.name) = e
  BY EntryOfIs DEF Usable, Good
<1>2. InodeOf(e.name) = Current(e.sector, disk, open)
  BY <1>1 DEF InodeOf, InodeAt, Current
<1>3. FileSound(e.sector, disk, open, bitmap)
  BY DEF Usable, Good, Sound
<1>4. /\ Extends(Current(e.sector, disk, open), disk[e.sector])
      /\ disk[e.sector] \in Inodes
  BY <1>3 DEF FileSound
<1> QED
  BY <1>2, <1>4, InodeType DEF Extends

\* A file as defragment holds it.
AsHeld(e, d) == [name |-> e.name, len |-> d[e.sector].len]

LEMMA FilesAre == Files = {AsHeld(e, disk) : e \in root} \cup Held(saved)
BY DEF Files, AsHeld, Held

LEMMA SavingKeepsFiles ==
  ASSUME IInv, SaveNext,
         NamedApart(saved), Unlisted, Room
  PROVE  /\ Files' = Files
         /\ NamedApart(saved') /\ Unlisted' /\ Room'
<1> DEFINE T == [name : Names, len : Lengths]
<1>1. Usable /\ saved \in Seq(T)
  BY RunningIsUsable DEF SaveNext, Running, IInv, TypeOK
<1>2. PICK e \in root :
        /\ saved' = Append(saved, [name |-> e.name,
                                   len |-> InodeOf(e.name).len])
        /\ Remove(e.name)
  BY DEF SaveNext
<1>3. disk' = disk
  BY DEF SaveNext
<1> DEFINE k == AsHeld(e, disk)
<1>4. /\ saved' = Append(saved, k)
      /\ k.name = e.name /\ k.len = disk[e.sector].len
      /\ k.len \in Lengths /\ k \in T
  <2>1. e.name \in Names
    BY <1>1 DEF Usable, Good, Entries
  <2> QED
    BY <1>1, <1>2, <2>1, LengthInMemory DEF AsHeld
<1>5. root' = root \ {e}
  BY <1>1, <1>2, RemovalFrees
<1> HIDE DEF k, T
<1>6. Held(saved') = Held(saved) \cup {k}
  BY <1>1, <1>4, HeldAppended
<1>7. \A g \in Held(saved) : g.name # k.name
  BY <1>4 DEF Unlisted
<1>8. NamedApart(saved')
  BY <1>1, <1>4, <1>7, HeldAppended
<1>9. \A f, g \in root : f.name = g.name => f = g
  BY <1>1 DEF Usable, Good, Match
<1>10. Unlisted'
  BY <1>4, <1>5, <1>6, <1>9 DEF Unlisted
<1>11. Room'
  <2>1. IsFiniteSet(Held(saved)) /\ k \notin Held(saved)
    BY <1>1, <1>7, HeldFinite
  <2>2. Cardinality(Units(Held(saved'))) = Cardinality(Units(Held(saved)))
                                             + Size(k.len)
    BY <1>4, <1>6, <2>1, OneMoreFile
  <2>3. Cardinality(Free(bitmap')) = Cardinality(Free(bitmap)) + Size(k.len)
    BY <1>1, <1>2, <1>4, RemovalMakesRoom
  <2>4. /\ Cardinality(Units(Held(saved))) \in Nat
        /\ Cardinality(Free(bitmap)) \in Nat
        /\ Size(k.len) \in Nat
    BY <1>4, <2>1, UnitsFinite, FreeType DEF Size, Lengths
  <2>5. Cardinality(Units(Held(saved'))) <= Cardinality(Free(bitmap'))
    BY <2>2, <2>3, <2>4 DEF Room
  <2> QED
    BY <2>5 DEF Room, Free
<1>12. Files' = {AsHeld(f, disk) : f \in root \ {e}} \cup Held(saved')
  BY <1>3, <1>5 DEF Files, AsHeld, Held
<1>13. Files' = Files
  BY <1>6, <1>12, FilesAre DEF k
<1> QED
  BY <1>8, <1>10, <1>11, <1>13

\* What filesys_create makes when it succeeds: the file e, in as many sectors
\* as its size says, and nothing else.
LEMMA CreationTakes ==
  ASSUME Usable, NEW n \in Names, NEW len \in Lengths, Vacant # {},
         NEW c, c = Created(n, len), c.ok, CreationBecomes(c)
  PROVE  \E e \in Entries :
           /\ root' = root \cup {e} /\ e.name = n /\ e.slot \in Vacant
           /\ e.sector = Nth(0, Free(bitmap)) /\ e.sector \notin bitmap
           /\ disk'[e.sector].len = len
           /\ \A f \in root : disk'[f.sector] = disk[f.sector]
           /\ Cardinality(Free(bitmap)) - Size(len)
                <= Cardinality(Free(bitmap'))
<1>1. CreatedSound(c, n, len)
  BY CreatedFacts
<1>2. bitmap' = c.bitmap /\ disk' = c.disk /\ root' = c.root
  BY DEF CreationBecomes
<1>3. PICK e \in Entries :
        /\ c.root = root \cup {e} /\ e.name = n /\ e.slot \in Vacant
        /\ e.sector = Nth(0, Free(bitmap)) /\ e.sector \notin bitmap
        /\ c.disk[e.sector].len = len
        /\ \A t \in c.bitmap \ bitmap : t = e.sector
             \/ t \in SectorsOf(c.disk[e.sector], c.disk)
  BY <1>1 DEF CreatedSound
<1>4. \A f \in root : f.sector \in bitmap \ {None}
  BY DEF Usable, Good, Sound, FileSound, Claims
<1>5. \A f \in root : c.disk[f.sector] = disk[f.sector]
  BY <1>1, <1>4 DEF CreatedSound
<1> DEFINE S == {e.sector} \cup SectorsOf(c.disk[e.sector], c.disk)
<1>6. IsFiniteSet(S) /\ Cardinality(S) = Size(len)
  <2>1. FileSound(e.sector, c.disk, open, c.bitmap)
    BY <1>1, <1>3 DEF CreatedSound, Sound
  <2>2. IsFiniteSet(S) /\ Cardinality(S) = Size(c.disk[e.sector].len)
    BY <2>1, OwnedSize
  <2> HIDE DEF S
  <2> QED
    BY <1>3, <2>2
<1>7. Free(bitmap) \ S \subseteq Free(c.bitmap)
  BY <1>3 DEF Free
<1> HIDE DEF S
<1>8. /\ IsFiniteSet(Free(bitmap)) /\ Cardinality(Free(bitmap)) \in Nat
      /\ IsFiniteSet(Free(c.bitmap)) /\ Cardinality(Free(c.bitmap)) \in Nat
  BY FreeType
<1>9. /\ IsFiniteSet(Free(bitmap) \ S) /\ IsFiniteSet(Free(bitmap) \cap S)
      /\ Cardinality(Free(bitmap) \ S)
           = Cardinality(Free(bitmap)) - Cardinality(Free(bitmap) \cap S)
  BY <1>8, FS_Difference, FS_Intersection
<1>10. Cardinality(Free(bitmap) \cap S) <= Cardinality(S)
  BY <1>6, FS_Subset
<1>11. Cardinality(Free(bitmap) \ S) <= Cardinality(Free(c.bitmap))
  BY <1>7, <1>8, FS_Subset
<1>12. Cardinality(Free(bitmap) \cap S) \in Nat /\ Size(len) \in Nat
  BY <1>6, <1>9, FS_CardinalityType
<1>13. PICK i, j, k, h :
         /\ i = Cardinality(Free(bitmap)) /\ j = Cardinality(Free(c.bitmap))
         /\ k = Cardinality(Free(bitmap) \cap S) /\ h = Size(len)
  OBVIOUS
<1>14. /\ i \in Nat /\ j \in Nat /\ k \in Nat /\ h \in Nat
       /\ i - k <= j /\ k <= h
  BY <1>6, <1>8, <1>9, <1>10, <1>11, <1>12, <1>13, Zenon
<1>15. i - h <= j
  BY <1>14
<1>16. Cardinality(Free(bitmap)) - Size(len) <= Cardinality(Free(bitmap'))
  BY <1>2, <1>13, <1>15, Zenon
<1> QED
  BY <1>2, <1>3, <1>5, <1>16, Zenon

\* The next file that defragment creates again finds its name unused, a vacant
\* entry and room.
HeadFits ==
  /\ Head(saved).name \in Names /\ Head(saved).len \in Lengths
  /\ ~Listed(Head(saved).name)
  /\ Vacant # {}
  /\ Size(Head(saved).len) <= Cardinality(Free(bitmap))

LEMMA RestoringKeepsFiles ==
  ASSUME IInv, RestoreNext,
         NamedApart(saved), Unlisted, Room
  PROVE  /\ Files' = Files
         /\ NamedApart(saved') /\ Unlisted' /\ Room'
         /\ HeadFits
<1> DEFINE T == [name : Names, len : Lengths]
           k == Head(saved)
<1>1. Usable /\ saved \in Seq(T) /\ saved # <<>>
        /\ Len(saved) <= Cardinality(Vacant)
  BY RunningIsUsable DEF RestoreNext, Running, IInv, TypeOK
<1>2. k \in T /\ Len(saved) > 0 /\ Len(saved) \in Nat
  <2> HIDE DEF T
  <2> QED
    BY <1>1
<1>3. k.name \in Names /\ k.len \in Lengths
        /\ k = [name |-> k.name, len |-> k.len]
  BY <1>2
<1>4. Vacant # {}
  BY <1>1, <1>2, VacantType, FS_EmptySet
<1>5. PICK c : c = Created(k.name, k.len)
  OBVIOUS
<1>6. CreationBecomes(c) /\ saved' = IF c.ok THEN Tail(saved) ELSE <<>>
  BY <1>5 DEF RestoreNext
<1> HIDE DEF k, T
<1>7. /\ Held(saved) = Held(Tail(saved)) \cup {k}
      /\ k \notin Held(Tail(saved))
      /\ NamedApart(Tail(saved))
      /\ \A g \in Held(Tail(saved)) : g.name # k.name
  BY <1>1, HeldTail DEF k
<1>8. Tail(saved) \in Seq(T)
  BY <1>1
<1>9. IsFiniteSet(Held(Tail(saved)))
  BY <1>8, HeldFinite
<1>10. /\ Cardinality(Units(Held(saved)))
             = Cardinality(Units(Held(Tail(saved)))) + Size(k.len)
       /\ Cardinality(Units(Held(Tail(saved)))) \in Nat
  BY <1>3, <1>7, <1>9, OneMoreFile, UnitsFinite
<1>11. PICK i, j, h :
         /\ i = Cardinality(Free(bitmap)) /\ h = Size(k.len)
         /\ j = Cardinality(Units(Held(Tail(saved))))
  OBVIOUS
<1>12. i \in Nat /\ j \in Nat /\ h \in Nat /\ j + h <= i
  <2>1. i \in Nat
    BY <1>11, FreeType
  <2>2. h \in Nat
    BY <1>3, <1>11 DEF Size, Lengths
  <2>3. j + h <= i
    BY <1>10, <1>11, Zenon DEF Room
  <2> QED
    BY <1>10, <1>11, <2>1, <2>2, <2>3
<1>13. c.ok /\ HeadFits
  <2>1. Size(k.len) <= Cardinality(Free(bitmap))
    BY <1>11, <1>12
  <2>2. ~Listed(k.name)
    BY <1>7 DEF Unlisted, Listed
  <2>3. DiskType(disk)
    BY <1>1 DEF Usable, Good
  <2>4. c.ok
    BY <1>3, <1>5, <2>1, <2>2, <2>3, RoomToCreate
  <2>5. HeadFits
    BY <1>3, <1>4, <2>1, <2>2 DEF HeadFits, k
  <2> QED
    BY <2>4, <2>5
<1>14. saved' = Tail(saved)
  BY <1>6, <1>13
<1>15. PICK e \in Entries :
         /\ root' = root \cup {e} /\ e.name = k.name
         /\ disk'[e.sector].len = k.len
         /\ \A f \in root : disk'[f.sector] = disk[f.sector]
         /\ i - h <= Cardinality(Free(bitmap'))
  BY <1>1, <1>3, <1>4, <1>5, <1>6, <1>11, <1>13, CreationTakes
<1>16. Unlisted'
  BY <1>7, <1>14, <1>15 DEF Unlisted
<1>17. Room'
  <2>1. Cardinality(Free(bitmap')) \in Nat
    BY FreeType
  <2>2. j <= Cardinality(Free(bitmap'))
    BY <1>12, <1>15, <2>1
  <2>3. Cardinality(Units(Held(saved'))) <= Cardinality(Free(bitmap'))
    BY <1>11, <1>14, <2>2
  <2> QED
    BY <2>3 DEF Room, Free
<1>18. Files' = {AsHeld(f, disk') : f \in root \cup {e}} \cup Held(Tail(saved))
  BY <1>14, <1>15 DEF Files, AsHeld, Held
<1>19. AsHeld(e, disk') = k
  BY <1>3, <1>15 DEF AsHeld
<1>20. \A f \in root : AsHeld(f, disk') = AsHeld(f, disk)
  BY <1>15 DEF AsHeld
<1>21. Files' = Files
  BY <1>7, <1>18, <1>19, <1>20, FilesAre
<1> QED
  BY <1>7, <1>13, <1>14, <1>16, <1>17, <1>21

-----------------------------------------------------------------------------
(* The theorems.                                                           *)

LEMMA MovingSteps ==
  ASSUME Next, Moving \/ Moving', mode' # "undefined"
  PROVE  Defragment \/ SaveNext \/ RestoreNext
<1>1. Command => mode = "up" /\ mode' = "up"
  BY CommandsStayUp
<1>2. Shutdown \/ Boot \/ Format => ~Moving /\ ~Moving'
  BY DEF Shutdown, Boot, Format, Moving
<1>3. \A n : UseBroken(n) => mode' = "undefined"
  BY DEF UseBroken
<1> QED
  BY <1>1, <1>2, <1>3 DEF Next, Command, Moving

LEMMA InitHasRoom == Init => DInv
BY InitIsSound DEF DInv, Init, Moving

LEMMA DefragmentHasRoom == DInv /\ [Next]_vars => DInv'
<1> SUFFICES ASSUME DInv, [Next]_vars PROVE DInv'
  OBVIOUS
<1>1. IInv'
  BY NextKeeps DEF DInv
<1>2. CASE UNCHANGED vars
  BY <1>1, <1>2 DEF vars, DInv, Moving, Unlisted, Room, Free
<1>3. CASE Next /\ Moving'
  <2>1. mode' # "undefined"
    BY <1>3 DEF Moving
  <2>2. CASE Defragment
    <3>1. saved' = <<>> /\ bitmap' = bitmap
      BY <2>2 DEF Defragment
    <3>2. Held(saved') = {} /\ NamedApart(saved')
      BY <3>1 DEF Held, NamedApart
    <3>3. Units(Held(saved')) = {}
      BY <3>2 DEF Units
    <3>4. Cardinality(Units(Held(saved'))) = 0
      BY <3>3, FS_EmptySet
    <3>5. Room'
      <4>1. Cardinality(Free(bitmap')) \in Nat
        BY FreeType
      <4>2. Cardinality(Units(Held(saved'))) <= Cardinality(Free(bitmap'))
        BY <3>4, <4>1
      <4> QED
        BY <4>2 DEF Room, Free
    <3>6. Unlisted'
      BY <3>2 DEF Unlisted
    <3> QED
      BY <1>1, <3>2, <3>5, <3>6 DEF DInv
  <2>3. CASE SaveNext
    <3>1. Moving
      BY <2>3 DEF SaveNext, Moving
    <3> QED
      BY <1>1, <2>3, <3>1, SavingKeepsFiles DEF DInv
  <2>4. CASE RestoreNext
    <3>1. Moving
      BY <2>4 DEF RestoreNext, Moving
    <3> QED
      BY <1>1, <2>4, <3>1, RestoringKeepsFiles DEF DInv
  <2> QED
    BY <1>3, <2>1, <2>2, <2>3, <2>4, MovingSteps
<1>4. CASE ~Moving'
  BY <1>1, <1>4 DEF DInv
<1> QED
  BY <1>2, <1>3, <1>4

LEMMA DefragmentInvariance == Spec => []DInv
BY InitHasRoom, DefragmentHasRoom, PTL DEF Spec

\* Unless the freed inode of the directory leads to worse, defragment loses no
\* file and changes no length, whatever the sizes, be all files removed first
\* or some left in the directory (fsutil2.c:196-201), though it drops those it
\* cannot create again (fsutil2.c:228, 242): each of them finds its name
\* unused, and the sectors it had are enough for it.
THEOREM NothingIsLost == Spec => DefragmentLosesNothing
<1> DEFINE A == (mode \in {"saving", "restoring", "partial"}
                   /\ mode' # "undefined") => Files' = Files
<1>1. ASSUME DInv, Next, Moving, mode' # "undefined"
      PROVE  Files' = Files
  <2>1. Defragment \/ SaveNext \/ RestoreNext
    BY <1>1, MovingSteps
  <2>2. ~Defragment
    BY <1>1 DEF Defragment, Moving
  <2> QED
    BY <1>1, <2>1, <2>2, SavingKeepsFiles, RestoringKeepsFiles DEF DInv
<1>2. UNCHANGED vars => Files' = Files
  BY DEF vars, Files
<1>3. DInv /\ [Next]_vars => A
  BY <1>1, <1>2 DEF Moving
<1>4. DefragmentLosesNothing <=> [][A]_vars
  BY DEF DefragmentLosesNothing
<1> HIDE DEF A
<1> QED
  BY <1>3, <1>4, DefragmentInvariance, PTL DEF Spec

-----------------------------------------------------------------------------
(* Sectors granted in order: the free ones are the last of the disk.       *)

\* The sectors from k on are free, and no others.
FreeFrom(k, b) == k \in Nat /\ Free(b) = k .. NumSectors - 1

LEMMA RankInInterval ==
  ASSUME NEW k \in Nat, NEW h \in Int, NEW i \in k .. h
  PROVE  Rank(i, k .. h) = i - k
<1>1. {j \in k .. h : j < i} = k .. k + (i - k) - 1
  OBVIOUS
<1>2. i - k \in Nat
  OBVIOUS
<1>3. Cardinality(k .. k + (i - k) - 1) = i - k
  BY <1>2, IntervalCounted
<1> QED
  BY <1>1, <1>3, Zenon DEF Rank

LEMMA NthInInterval ==
  ASSUME NEW k \in Nat, NEW h \in Int, NEW r \in Nat,
         r < Cardinality(k .. h)
  PROVE  Nth(r, k .. h) = k + r /\ k + r <= h
<1>1. k .. h \in SUBSET Nat /\ IsFiniteSet(k .. h)
  BY FS_Interval
<1>2. PICK i : i = Nth(r, k .. h)
  OBVIOUS
<1>3. i \in k .. h /\ Rank(i, k .. h) = r
  BY <1>1, <1>2, NthIsMember
<1>4. r = i - k
  BY <1>3, RankInInterval
<1> QED
  BY <1>2, <1>3, <1>4

\* The sectors 0 .. m - 1 of a file, all granted, follow each other.
LEMMA GrantsInOrder ==
  ASSUME NEW m \in Nat, NEW b, NEW k, FreeFrom(k, b),
         NEW g, g = Grant(0 .. m - 1, b), DOMAIN g = 0 .. m - 1
  PROVE  /\ \A i \in 0 .. m - 1 : g[i] = k + i
         /\ FreeFrom(k + m, b \cup Granted(g))
<1> DEFINE W == 0 .. m - 1
           D == {i \in W : Rank(i, W) < Cardinality(Free(b))}
<1>1. g = [i \in D |-> Nth(Rank(i, W), Free(b))]
  BY DEF Grant
<1>2. D = W
  BY <1>1
<1>3. ASSUME NEW i \in W
      PROVE  g[i] = k + i
  <2>1. Rank(i, W) = i
    <3>1. Rank(i, W) = i - 0
      <4>1. 0 \in Nat /\ m - 1 \in Int
        OBVIOUS
      <4> QED
        BY <4>1, RankInInterval
    <3> QED
      BY <3>1
  <2>2. i \in D
    BY <1>2
  <2>3. i < Cardinality(k .. NumSectors - 1) /\ g[i] = Nth(i, Free(b))
    <3>1. Rank(i, W) < Cardinality(Free(b)) /\ g[i] = Nth(Rank(i, W), Free(b))
      BY <1>1, <2>2
    <3> QED
      BY <2>1, <3>1 DEF FreeFrom
  <2>4. PICK h \in Int : h = NumSectors - 1
    OBVIOUS
  <2>5. k \in Nat /\ Free(b) = k .. h /\ i \in Nat
    BY <2>4 DEF FreeFrom
  <2>6. i < Cardinality(k .. h)
    BY <2>3, <2>4
  <2>7. Nth(i, k .. h) = k + i
    BY <2>5, <2>6, NthInInterval
  <2> QED
    BY <2>3, <2>5, <2>7, Zenon
<1>4. Granted(g) = {k + i : i \in W}
  BY <1>3 DEF Granted
<1>5. k \in Nat
  BY DEF FreeFrom
<1>6. Granted(g) = k .. k + m - 1
  <2>1. \A t \in k .. k + m - 1 : t - k \in W /\ t = k + (t - k)
    BY <1>5
  <2>2. \A i \in W : k + i \in k .. k + m - 1
    BY <1>5
  <2> QED
    BY <1>4, <2>1, <2>2
<1>7. Free(b \cup Granted(g)) = (k .. NumSectors - 1) \ (k .. k + m - 1)
  BY <1>6 DEF Free, FreeFrom
<1>8. (k .. NumSectors - 1) \ (k .. k + m - 1) = k + m .. NumSectors - 1
  BY <1>5
<1>9. FreeFrom(k + m, b \cup Granted(g))
  <2>1. k + m \in Nat
    BY <1>5
  <2> QED
    BY <1>7, <1>8, <2>1, Zenon DEF FreeFrom
<1> QED
  BY <1>3, <1>9

\* The first free sector, taken.
LEMMA FirstInOrder ==
  ASSUME NEW b, NEW k, FreeFrom(k, b), Free(b) # {}
  PROVE  /\ Nth(0, Free(b)) = k /\ k \in Sectors \ b
         /\ FreeFrom(k + 1, b \cup {k})
<1>0. PICK h \in Int : h = NumSectors - 1
  OBVIOUS
<1>1. k \in Nat /\ Free(b) = k .. h
  BY <1>0 DEF FreeFrom
<1>2. Cardinality(Free(b)) \in Nat /\ Cardinality(Free(b)) # 0
  BY FreeType, FS_EmptySet
<1>3. 0 < Cardinality(k .. h) /\ 0 \in Nat
  BY <1>1, <1>2
<1>4. Nth(0, k .. h) = k + 0 /\ k + 0 <= h
  BY <1>1, <1>3, NthInInterval
<1>5. k \in Free(b) /\ Nth(0, Free(b)) = k
  BY <1>1, <1>4
<1>6. Free(b \cup {k}) = (k .. h) \ {k}
  BY <1>1 DEF Free
<1>7. (k .. h) \ {k} = k + 1 .. h
  BY <1>1
<1>8. FreeFrom(k + 1, b \cup {k})
  <2>1. k + 1 \in Nat
    BY <1>1
  <2> QED
    BY <1>0, <1>6, <1>7, <2>1, Zenon DEF FreeFrom
<1> QED
  BY <1>5, <1>8 DEF Free

\* The sectors that r has reserved for a new inode of len blocks: one run from
\* k on, with the index block behind the direct ones.
InOrder(len, b, k, r) ==
  /\ \E j : FreeFrom(j, r.bitmap)
  /\ \A i \in 0 .. len - 1 : i < NumDirect => r.ino.direct[i] = k + i
  /\ len > NumDirect
       => /\ r.ino.index \in Sectors \ b
          /\ \A i \in 0 .. len - 1 : i >= NumDirect
               => PointersIn(r.disk[r.ino.index])[i - NumDirect] = k + 1 + i

LEMMA ReservedInOrder ==
  ASSUME NEW len \in Lengths, NEW b, NEW d, DiskType(d),
         NEW k, FreeFrom(k, b),
         len + (IF len > NumDirect THEN 1 ELSE 0) <= Cardinality(Free(b)),
         NEW r, r = Reserve(NewInode(len), len, b, d)
  PROVE  InOrder(len, b, k, r)
<1>1. PICK g : g = Grant(Directs(len), b)
  OBVIOUS
<1> DEFINE c == b \cup Granted(g)
           e == WithBytes(d, Granted(g))
<1>2. PICK x : FreshDirect(len, b, d, g, x, r)
  BY <1>1, FreshReserve
<1>3. /\ x \in Inodes /\ x.index = None
      /\ x.direct = [i \in 0 .. NumDirect - 1 |->
                       IF i \in DOMAIN g THEN g[i] ELSE None]
  BY <1>2, Zenon DEF FreshDirect
<1>4. /\ DOMAIN g = Directs(len) /\ len > NumDirect
           => r = ReserveIndirect(x, len - NumDirect, c, e)
      /\ ~(DOMAIN g = Directs(len) /\ len > NumDirect)
           => r = [ok |-> DOMAIN g = Directs(len), ino |-> x,
                   bitmap |-> c, disk |-> e]
  BY <1>2, Zenon DEF FreshDirect
<1>5. DiskType(e) /\ len \in Nat /\ k \in Nat
  BY WithBytesFacts DEF Lengths, FreeFrom
<1>6. PICK m \in Nat : m = IF len <= NumDirect THEN len ELSE NumDirect
  BY <1>5
<1>7. Directs(len) = 0 .. m - 1
  BY <1>6 DEF Directs
<1> HIDE DEF c, e
<1>7a. r.ok = TRUE
  BY RoomToReserve
<1>8. DOMAIN g = Directs(len)
  <2>1. CASE ~(DOMAIN g = Directs(len))
    <3>1. r = [ok |-> DOMAIN g = Directs(len), ino |-> x,
               bitmap |-> c, disk |-> e]
      BY <1>4, <2>1
    <3>2. [ok |-> DOMAIN g = Directs(len), ino |-> x,
           bitmap |-> c, disk |-> e].ok = (DOMAIN g = Directs(len))
      OBVIOUS
    <3>3. r.ok = (DOMAIN g = Directs(len))
      BY <3>1, <3>2, Zenon
    <3> QED
      BY <1>7a, <2>1, <3>3
  <2> QED
    BY <2>1
<1>9. /\ \A i \in 0 .. m - 1 : g[i] = k + i
      /\ FreeFrom(k + m, c)
  BY <1>1, <1>7, <1>8, GrantsInOrder DEF c
<1>10. \A i \in 0 .. len - 1 : i < NumDirect => x.direct[i] = k + i
  <2> SUFFICES ASSUME NEW i \in 0 .. len - 1, i < NumDirect
               PROVE  x.direct[i] = k + i
    OBVIOUS
  <2>1. i \in 0 .. NumDirect - 1 /\ i \in 0 .. m - 1
    BY <1>5, <1>6
  <2>2. i \in DOMAIN g
    BY <1>7, <1>8, <2>1
  <2> QED
    BY <1>3, <1>9, <2>1, <2>2
<1>11. CASE ~(len > NumDirect)
  <2>1. r = [ok |-> DOMAIN g = Directs(len), ino |-> x, bitmap |-> c,
             disk |-> e]
    BY <1>4, <1>11
  <2>2. r.ino = x /\ r.bitmap = c
    BY <2>1
  <2> QED
    BY <1>9, <1>10, <1>11, <2>2 DEF InOrder
<1>12. CASE len > NumDirect
  <2>1. PICK n \in Nat : n = len - NumDirect
    BY <1>5, <1>12
  <2>2. n \in Nat \ {0} /\ n <= NumIndirect /\ m = NumDirect
    BY <1>6, <1>12, <2>1 DEF Lengths
  <2>3. r = ReserveIndirect(x, n, c, e)
    BY <1>4, <1>8, <1>12, <2>1
  <2> DEFINE at == Nth(0, Free(c))
             h == Grant(0 .. n - 1, c \cup {at})
  <2>4. Free(c) # {}
    <3>1. PICK l \in Int : l = NumSectors - 1
      OBVIOUS
    <3>2. Free(b) = k .. l /\ Free(c) = k + m .. l
      BY <1>9, <3>1 DEF FreeFrom
    <3>3. Cardinality(k .. l) = IF k > l THEN 0 ELSE l - k + 1
      BY <1>5, FS_Interval
    <3>4. len + 1 <= Cardinality(k .. l)
      BY <1>12, <3>2
    <3>5. k + m <= l
      BY <1>5, <1>12, <2>2, <3>3, <3>4
    <3> QED
      BY <1>5, <3>2, <3>5
  <2>5. at = k + m /\ at \in Sectors \ c /\ FreeFrom(k + m + 1, c \cup {at})
    <3>1. FreeFrom(k + m, c)
      BY <1>9
    <3> HIDE DEF c
    <3>2. /\ Nth(0, Free(c)) = k + m /\ k + m \in Sectors \ c
          /\ FreeFrom(k + m + 1, c \cup {k + m})
      BY <2>4, <3>1, FirstInOrder
    <3> QED
      BY <3>2
  <2>6. FreshIndex(x, n, c, e, r)
    BY <1>3, <1>5, <2>2, <2>3, <2>4, FreshIndexFacts
  <2>7. /\ r.ok = (DOMAIN h = 0 .. n - 1)
        /\ r.bitmap = c \cup {at} \cup Granted(h)
        /\ r.ino = [x EXCEPT !.index = at]
        /\ r.ok => PointersIn(r.disk[at])
                     = [i \in 0 .. NumIndirect - 1 |->
                          IF i \in DOMAIN h THEN h[i] ELSE None]
    BY <2>6, Zenon DEF FreshIndex
  <2> HIDE DEF at, h
  <2>8. DOMAIN h = 0 .. n - 1
    BY <1>7a, <2>7
  <2>9. /\ \A i \in 0 .. n - 1 : h[i] = k + m + 1 + i
        /\ FreeFrom(k + m + 1 + n, c \cup {at} \cup Granted(h))
    <3>1. h = Grant(0 .. n - 1, c \cup {at})
      BY DEF h
    <3>2. n \in Nat
      BY <2>2
    <3>3. PICK j, u : j = k + m + 1 /\ u = c \cup {at}
      OBVIOUS
    <3>4. FreeFrom(j, u) /\ h = Grant(0 .. n - 1, u)
      BY <2>5, <3>1, <3>3, Zenon
    <3>5. /\ \A i \in 0 .. n - 1 : h[i] = j + i
          /\ FreeFrom(j + n, u \cup Granted(h))
      BY <2>8, <3>2, <3>4, GrantsInOrder
    <3> QED
      BY <3>3, <3>5, Zenon
  <2>10. r.ino.index = at /\ r.ino.direct = x.direct
    <3>1. at \in Sectors
      BY <2>5
    <3> QED
      BY <1>3, <2>7, <3>1, InodeType
  <2>11. at \in Sectors \ b
    BY <2>5 DEF c
  <2>12. ASSUME NEW i \in 0 .. len - 1, i >= NumDirect
         PROVE  PointersIn(r.disk[at])[i - NumDirect] = k + 1 + i
    <3>1. PICK q \in 0 .. n - 1 : q = i - NumDirect
      BY <1>5, <2>1, <2>12
    <3>2. q \in 0 .. NumIndirect - 1 /\ q \in DOMAIN h
      BY <2>2, <2>8, <3>1
    <3>3. PointersIn(r.disk[at])[q] = h[q]
      BY <1>7a, <2>7, <3>2
    <3>4. h[q] = k + m + 1 + q
      BY <2>9
    <3>5. k + m + 1 + q = k + 1 + i
      BY <1>5, <2>2, <3>1
    <3> QED
      BY <3>1, <3>3, <3>4, <3>5
  <2>13. \E j : FreeFrom(j, r.bitmap)
    BY <2>7, <2>9
  <2> QED
    BY <1>10, <2>10, <2>11, <2>12, <2>13 DEF InOrder
<1> QED
  BY <1>11, <1>12

\* The blocks of a file of inode y come one after the other, its index block
\* between the direct blocks and the others.
InOneRun(y, d) ==
  \A i \in 1 .. y.len - 1 :
    BlockOf(y, d, i) - BlockOf(y, d, i - 1) = (IF i = NumDirect THEN 2 ELSE 1)

LEMMA CreatedInOrder ==
  ASSUME Usable, NEW n, NEW len \in Lengths, ~Listed(n),
         Size(len) <= Cardinality(Free(bitmap)),
         NEW k, FreeFrom(k, bitmap),
         NEW c, c = Created(n, len)
  PROVE  /\ \E j : FreeFrom(j, c.bitmap)
         /\ Nth(0, Free(bitmap)) = k
         /\ InOneRun(c.disk[k], c.disk)
<1>1. Cardinality(Free(bitmap)) \in Nat /\ IsFiniteSet(Free(bitmap))
  BY FreeType
<1>2. Free(bitmap) # {}
  <2>1. Size(len) >= 1 /\ Size(len) \in Nat
    BY DEF Size, Lengths
  <2> QED
    BY <2>1, FS_EmptySet
<1>3. /\ Nth(0, Free(bitmap)) = k /\ k \in Sectors \ bitmap
      /\ FreeFrom(k + 1, bitmap \cup {k})
  BY <1>2, FirstInOrder
<1>4. PICK b, r : /\ b = bitmap \cup {k}
                  /\ r = Reserve(NewInode(len), len, b, disk)
  OBVIOUS
<1>5. Cardinality(Free(b)) = Cardinality(Free(bitmap)) - 1
  <2>1. k \in Free(bitmap) /\ Free(b) = Free(bitmap) \ {k}
    BY <1>3, <1>4 DEF Free
  <2> QED
    BY <1>1, <2>1, FS_RemoveElement
<1>6. len + (IF len > NumDirect THEN 1 ELSE 0) <= Cardinality(Free(b))
  BY <1>1, <1>5 DEF Size, Lengths
<1>7. DiskType(disk) /\ b \in SUBSET Sectors /\ None \in b /\ k \in b
        /\ k \in Nat
  BY <1>3, <1>4 DEF Usable, Good, Sound, FreeFrom
<1>8. r.ok = TRUE
  BY <1>4, <1>6, <1>7, RoomToReserve
<1>9. /\ \E j : FreeFrom(j, r.bitmap)
      /\ \A i \in 0 .. len - 1 : i < NumDirect
           => r.ino.direct[i] = (k + 1) + i
      /\ len > NumDirect
           => /\ r.ino.index \in Sectors \ b
              /\ \A i \in 0 .. len - 1 : i >= NumDirect
                   => PointersIn(r.disk[r.ino.index])[i - NumDirect]
                        = (k + 1) + 1 + i
  <2>1. PICK l : l = k + 1
    OBVIOUS
  <2>2. FreeFrom(l, b)
    BY <1>3, <1>4, <2>1
  <2>3. InOrder(len, b, l, r)
    BY <1>4, <1>6, <1>7, <2>2, ReservedInOrder
  <2> QED
    BY <2>1, <2>3, Zenon DEF InOrder
<1>10. DiskType(r.disk) /\ r.ino \in Inodes /\ r.ino.len = len
  <2>1. Reserved(NewInode(len), Needed(len), b, disk, r)
    BY <1>4, <1>7, NewInodeFacts, ReserveFacts
  <2> QED
    BY <2>1, NewInodeFacts DEF Reserved
<1>11. PICK y, d : y = r.ino /\ d = [r.disk EXCEPT ![k] = r.ino]
  OBVIOUS
<1>12. c.disk = d /\ c.bitmap = r.bitmap
  <2>1. c = [ok |-> r.ok /\ ~Listed(n),
             bitmap |-> IF r.ok /\ ~Listed(n) THEN r.bitmap
                                              ELSE r.bitmap \ {k},
             mapfile |-> IF r.ok /\ ~Listed(n) THEN r.bitmap
                                               ELSE r.bitmap \ {k},
             disk |-> IF r.ok THEN [r.disk EXCEPT ![k] = r.ino] ELSE r.disk,
             root |-> IF r.ok /\ ~Listed(n)
                      THEN root \cup {[slot |-> Nth(0, Vacant), name |-> n,
                                      sector |-> k]}
                      ELSE root]
    BY <1>2, <1>3, <1>4, Zenon DEF Created
  <2>2. c.disk = IF r.ok THEN [r.disk EXCEPT ![k] = r.ino] ELSE r.disk
    BY <2>1
  <2>3. c.bitmap = IF r.ok /\ ~Listed(n) THEN r.bitmap ELSE r.bitmap \ {k}
    BY <2>1
  <2> QED
    BY <1>8, <1>11, <2>2, <2>3
<1>13. d[k] = y /\ \A t \in Sectors : t # k => d[t] = r.disk[t]
  BY <1>3, <1>10, <1>11 DEF DiskType
<1>14. ASSUME NEW i \in 0 .. len - 1
       PROVE  BlockOf(y, d, i) = k + 1 + i + (IF i < NumDirect THEN 0 ELSE 1)
  <2>1. len \in Nat
    BY DEF Lengths
  <2>2. CASE i < NumDirect
    <3>1. BlockOf(y, d, i) = y.direct[i]
      BY <2>2 DEF BlockOf
    <3>2. y.direct[i] = (k + 1) + i
      BY <1>9, <1>11, <2>2
    <3> QED
      BY <1>7, <2>2, <3>1, <3>2
  <2>3. CASE ~(i < NumDirect)
    <3>1. i >= NumDirect /\ len > NumDirect
      BY <2>1, <2>3
    <3>2. BlockOf(y, d, i) = PointersIn(d[y.index])[i - NumDirect]
      BY <2>3 DEF BlockOf
    <3>3. y.index \in Sectors \ b
      BY <1>9, <1>11, <3>1
    <3>4. d[y.index] = r.disk[y.index]
      BY <1>7, <1>13, <3>3
    <3>5. PointersIn(r.disk[y.index])[i - NumDirect] = (k + 1) + 1 + i
      BY <1>9, <1>11, <3>1
    <3>6. BlockOf(y, d, i) = (k + 1) + 1 + i
      BY <3>2, <3>4, <3>5
    <3> QED
      BY <1>7, <2>3, <3>6
  <2> QED
    BY <2>2, <2>3
<1>15. InOneRun(y, d)
  <2> SUFFICES ASSUME NEW i \in 1 .. len - 1
               PROVE  BlockOf(y, d, i) - BlockOf(y, d, i - 1)
                        = (IF i = NumDirect THEN 2 ELSE 1)
    BY <1>10, <1>11 DEF InOneRun
  <2>1. i \in 0 .. len - 1 /\ i - 1 \in 0 .. len - 1
    BY DEF Lengths
  <2>2. BlockOf(y, d, i) = k + 1 + i + (IF i < NumDirect THEN 0 ELSE 1)
    BY <1>14, <2>1
  <2>3. BlockOf(y, d, i - 1)
          = k + 1 + (i - 1) + (IF i - 1 < NumDirect THEN 0 ELSE 1)
    BY <1>14, <2>1
  <2> QED
    BY <1>7, <2>1, <2>2, <2>3
<1> QED
  BY <1>3, <1>9, <1>12, <1>13, <1>15, Zenon

LEMMA RunIsKept ==
  ASSUME NEW y \in Inodes, NEW d, Indexed(y, d), Full(y, d),
         NEW dd, Indexed(y, dd), Full(y, dd),
         Pointer(y, dd) = Pointer(y, d), InOneRun(y, d)
  PROVE  InOneRun(y, dd)
<1>1. \A i \in 0 .. y.len - 1 : BlockOf(y, dd, i) = BlockOf(y, d, i)
  <2>1. \A i \in 0 .. y.len - 1 :
          BlockOf(y, d, i) = Pointer(y, d)[IF i < NumDirect THEN i ELSE i + 1]
    BY SectorsOfFacts
  <2>2. \A i \in 0 .. y.len - 1 :
          BlockOf(y, dd, i) = Pointer(y, dd)[IF i < NumDirect THEN i ELSE i + 1]
    BY SectorsOfFacts
  <2> QED
    BY <2>1, <2>2
<1>2. y.len \in Nat
  BY InodeType DEF Lengths
<1> SUFFICES ASSUME NEW i \in 1 .. y.len - 1
             PROVE  BlockOf(y, dd, i) - BlockOf(y, dd, i - 1)
                      = (IF i = NumDirect THEN 2 ELSE 1)
  BY DEF InOneRun
<1>3. i \in 0 .. y.len - 1 /\ i - 1 \in 0 .. y.len - 1
  BY <1>2
<1>4. BlockOf(y, d, i) - BlockOf(y, d, i - 1)
        = (IF i = NumDirect THEN 2 ELSE 1)
  BY DEF InOneRun
<1> QED
  BY <1>1, <1>3, <1>4

-----------------------------------------------------------------------------
(* Compaction.                                                             *)

\* While files are created again and nothing has leaked, the sectors taken are
\* the first of the disk.
Tight == /\ \E k : FreeFrom(k, bitmap)
         /\ \A e \in root : InOneRun(disk[e.sector], disk)
TInv == DInv /\ (mode = "restoring" /\ Leaked = {} => Tight)

LEMMA RestoredInOrder ==
  ASSUME TInv, RestoreNext, mode = "restoring", Leaked' = {}
  PROVE  Tight'
<1> DEFINE n == Head(saved).name
           len == Head(saved).len
<1>1. mode = "restoring" /\ Moving /\ DInv /\ IInv
  BY DEF RestoreNext, Moving, TInv, DInv
<1>2. /\ n \in Names /\ len \in Lengths /\ ~Listed(n) /\ Vacant # {}
      /\ Size(len) <= Cardinality(Free(bitmap))
  BY <1>1, RestoringKeepsFiles DEF DInv, HeadFits
<1>3. Usable /\ DiskType(disk)
  BY <1>1, RunningIsUsable DEF Running, Usable, Good
<1>4. PICK c : c = Created(n, len)
  OBVIOUS
<1>5. CreationBecomes(c)
  BY <1>4 DEF RestoreNext
<1> HIDE DEF n, len
<1>6. c.ok
  BY <1>2, <1>3, <1>4, RoomToCreate
<1>7. bitmap' = c.bitmap /\ disk' = c.disk /\ root' = c.root
  BY <1>5 DEF CreationBecomes
<1>8. PICK e \in Entries :
        /\ root' = root \cup {e} /\ e.slot \in Vacant
        /\ e.sector = Nth(0, Free(bitmap))
  BY <1>2, <1>3, <1>4, <1>5, <1>6, CreationTakes
<1>9. Leaked = {}
  <2>1. root' # root
    BY <1>8 DEF Vacant
  <2>2. CreationBecomes(Created(n, len))
    BY <1>4, <1>5
  <2>3. Leaked' = Leaked
    <3>1. HandlesBecome(IF c.ok THEN FileOpened(Handles, n,
                                      Nth(0, Free(bitmap)), c.disk)
                               ELSE Handles)
      BY <1>4 DEF RestoreNext, n, len
    <3>2. Usable' /\ SameInodes(disk', open')
      BY <1>2, <1>3, <1>4, <1>5, <3>1, CreateOpenKeeps
    <3> QED
      BY <1>2, <1>3, <2>1, <2>2, <3>2, CreationLeaksNothing
  <2> QED
    BY <2>3
<1>10. PICK k : FreeFrom(k, bitmap)
  BY <1>1, <1>9 DEF TInv, Tight
<1>11. /\ \E j : FreeFrom(j, c.bitmap)
       /\ e.sector = k
       /\ InOneRun(c.disk[k], c.disk)
  BY <1>2, <1>3, <1>4, <1>8, <1>10, CreatedInOrder
<1>12. ASSUME NEW f \in root
       PROVE  InOneRun(disk'[f.sector], disk')
  <2>1. \A t \in bitmap \ {None} : disk'[t] = disk[t]
    <3>1. CreatedSound(c, n, len)
      BY <1>2, <1>3, <1>4, CreatedFacts
    <3> QED
      BY <1>7, <3>1 DEF CreatedSound
  <2>2. PICK y : y = disk[f.sector]
    OBVIOUS
  <2>3. /\ disk'[f.sector] = y /\ y \in Inodes
        /\ Indexed(y, disk) /\ Full(y, disk)
        /\ Indexed(y, disk') /\ Full(y, disk')
        /\ Pointer(y, disk') = Pointer(y, disk)
    BY <1>3, <2>1, <2>2, FileIsKept
  <2>4. InOneRun(y, disk)
    BY <1>1, <1>9, <2>2 DEF TInv, Tight
  <2>5. InOneRun(y, disk')
    BY <2>3, <2>4, RunIsKept
  <2> QED
    BY <2>3, <2>5
<1> QED
  BY <1>7, <1>8, <1>11, <1>12 DEF Tight

LEMMA InitIsTight == Init => TInv
BY InitHasRoom DEF TInv, Init

LEMMA DefragmentIsTight == TInv /\ [Next]_vars => TInv'
<1> SUFFICES ASSUME TInv, [Next]_vars PROVE TInv'
  OBVIOUS
<1>1. DInv'
  BY DefragmentHasRoom DEF TInv
<1>2. CASE UNCHANGED vars
  BY <1>1, <1>2 DEF vars, TInv, Tight, Leaked, Claimed, InodeAt
<1>3. CASE Next /\ mode' = "restoring" /\ Leaked' = {}
  <2>1. SaveNext \/ RestoreNext
    <3>1. Defragment => mode' # "restoring"
      BY DEF Defragment
    <3> QED
      BY <1>3, <3>1, MovingSteps DEF Moving
  <2>2. CASE SaveNext
    <3>1. root' = {}
      BY <1>3, <2>2 DEF SaveNext
    <3>2. None \in bitmap'
      BY <1>1, <1>3 DEF DInv, IInv, Sound, Running
    <3>3. bitmap' = {None}
      BY <1>3, <3>1, <3>2 DEF Leaked, FREE_MAP_SECTOR, None
    <3>4. FreeFrom(1, bitmap')
      BY <3>3 DEF FreeFrom, Free, Sectors, None
    <3>5. Tight'
      BY <3>1, <3>4 DEF Tight
    <3> QED
      BY <1>1, <3>5 DEF TInv
  <2>3. CASE RestoreNext
    <3>1. mode = "restoring"
      BY <1>3, <2>3 DEF RestoreNext
    <3> QED
      BY <1>1, <1>3, <2>3, <3>1, RestoredInOrder DEF TInv
  <2> QED
    BY <2>1, <2>2, <2>3
<1>4. CASE ~(mode' = "restoring" /\ Leaked' = {})
  BY <1>1, <1>4 DEF TInv
<1> QED
  BY <1>2, <1>3, <1>4

LEMMA TightInvariance == Spec => []TInv
BY InitIsTight, DefragmentIsTight, PTL DEF Spec

\* When the loop has reached the end of the directory and no sector had leaked,
\* defragment leaves each file in one run of sectors, broken only by its index
\* block (fsutil2.c:153), whatever the sizes: all files are off the disk when
\* the first is created again, so that each takes the sectors behind the one
\* before.
THEOREM FilesAreCompacted == Spec => DefragmentCompacts
<1> DEFINE B == \A e \in root' : InOneRun(disk'[e.sector], disk')
           A == mode = "restoring" /\ mode' = "up" /\ Leaked' = {} => B
<1>1. ASSUME TInv, Next, mode = "restoring", mode' = "up", Leaked' = {}
      PROVE  B
  <2>1. RestoreNext
    <3>1. ~Defragment /\ ~SaveNext
      BY <1>1 DEF Defragment, SaveNext
    <3> QED
      BY <1>1, <3>1, MovingSteps DEF Moving
  <2> QED
    BY <1>1, <2>1, RestoredInOrder DEF Tight
<1>2. UNCHANGED vars => mode' = mode
  BY DEF vars
<1>3. TInv /\ [Next]_vars => A
  BY <1>1, <1>2
<1>4. DefragmentCompacts <=> [][A]_vars
  BY DEF DefragmentCompacts, InOneRun
<1> HIDE DEF A
<1> QED
  BY <1>3, <1>4, TightInvariance, PTL DEF Spec
=============================================================================
