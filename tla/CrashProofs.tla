---------------------------- MODULE CrashProofs ----------------------------
(***************************************************************************)
(* What holds of the file system over the write-back cache, for all sizes: *)
(* files that the last clean shutdown left survive a crash at any moment,  *)
(* and the next process can open them.  After `recover 0` files may share  *)
(* sectors, and the invariant of FileSystemProofs is lost; types and the   *)
(* table of open files are therefore proved once more, from less.          *)
(***************************************************************************)
EXTENDS CrashConsistency, FileSystemProofs

USE SizeAssumption

-----------------------------------------------------------------------------
(* What is left when files may share sectors.                              *)

Held(d, b, m, R, t, o, g) ==
  /\ DiskType(d)
  /\ b \subseteq Sectors /\ None \in b
  /\ m \subseteq Sectors /\ None \in m
  /\ R \subseteq Entries
  /\ \A e \in R : e.sector # None
  /\ HandleType(t, o, g)
  /\ Match(R, t, o, g)

\* The state is such while the shell runs.
Holds == Held(disk, bitmap, mapfile, root, table, open, dangling)

\* The invariant of a living process, whatever recover 0 brought back.
Loose ==
  /\ TypeOK
  /\ Match(root, table, open, dangling)
  /\ None \in mapfile
  /\ \A e \in root : e.sector # None
  /\ Running => None \in bitmap
  /\ mode \in {"down", "mapless"} => table = [n \in Names |-> None]
  /\ mode \in {"saving", "restoring", "partial"}
       => Len(saved) <= Cardinality(Vacant)

LEMMA LooseHolds ==
  ASSUME Loose, Running
  PROVE  Holds
BY DEF Loose, TypeOK, Holds, Held, HandleType, DiskType, OpenType

LEMMA HoldsLoose ==
  ASSUME Holds',
         mode' \in {"up", "saving", "restoring", "partial", "undefined"},
         saved' \in Seq([name : Names, len : Lengths]),
         mode' \in {"saving", "restoring", "partial"}
           => Len(saved') <= Cardinality(Vacant')
  PROVE  Loose'
<1>1. TypeOK'
  BY DEF TypeOK, Holds, Held, HandleType, DiskType, OpenType
<1> QED
  BY <1>1 DEF Loose, Running, Holds, Held

LEMMA TightIsLoose == IInv => Loose
<1> SUFFICES ASSUME IInv PROVE Loose
  OBVIOUS
<1>1. \A e \in root : e.sector # None
  BY DEF IInv, Sound, FileSound, Claims
<1> QED
  BY <1>1 DEF IInv, Loose, Sound

-----------------------------------------------------------------------------
(* Opening, closing and removing by name, when another name may stand for  *)
(* the same sector.                                                        *)

\* Opening the file named n, with its inode in sector s.
Opens(R, t, o, g, n, s, d) ==
  \E tt, oo : /\ FileOpened(Handle(t, o, g), n, s, d) = Handle(tt, oo, g)
              /\ Match(R, tt, oo, g)
              /\ HandleType(tt, oo, g)
              /\ n \notin g => oo[s] \in Inodes

LEMMA LooseOpens ==
  ASSUME NEW R, NEW t, NEW o, NEW g, NEW n, NEW s, NEW d,
         R \in SUBSET Entries, \E e \in R : e.name = n /\ e.sector = s,
         Match(R, t, o, g), HandleType(t, o, g), s # None, d[s] \in Inodes
  PROVE  Opens(R, t, o, g, n, s, d)
<1>0. PICK e \in R : e.name = n /\ e.sector = s
  OBVIOUS
<1>1. n \in Names /\ s \in Sectors
  BY <1>0 DEF Entries
<1>2. CASE t[n] # None
  <2>1. t[n] = s
    BY <1>0, <1>1, <1>2 DEF Match
  <2>2. n \notin g => o[s] \in Inodes
    BY <1>1, <2>1 DEF Match, HandleType, OpenType
  <2>3. FileOpened(Handle(t, o, g), n, s, d) = Handle(t, o, g)
    BY <1>2, FileNotOpened
  <2> QED
    BY <2>2, <2>3 DEF Opens
<1>3. CASE t[n] = None
  <2> DEFINE tt == [t EXCEPT ![n] = s]
             oo == [o EXCEPT ![s] = Current(s, d, o)]
  <2>1. FileOpened(Handle(t, o, g), n, s, d) = Handle(tt, oo, g)
    BY <1>3, FileOpenedFields
  <2>2. Current(s, d, o) \in Inodes
    BY <1>1 DEF Current, HandleType, OpenType
  <2>3. n \notin g
    BY <1>3 DEF Match
  <2>4. HandleType(tt, oo, g) /\ oo[s] \in Inodes
    BY <1>1, <2>2 DEF HandleType, OpenType
  <2>5. /\ tt[n] = s /\ \A m \in Names : m # n => tt[m] = t[m]
        /\ oo[s] # NotOpen /\ \A i \in Sectors : i # s => oo[i] = o[i]
    BY <1>1, <2>2, InodeType DEF HandleType, OpenType
  <2> HIDE DEF tt, oo
  <2>6. \A i \in Sectors :
          oo[i] # NotOpen <=> \E m \in Names : tt[m] = i /\ i # None
                                                 /\ m \notin g
    <3>1. ASSUME NEW i \in Sectors, i # s
          PROVE  oo[i] # NotOpen <=> \E m \in Names : tt[m] = i /\ i # None
                                                        /\ m \notin g
      <4>1. oo[i] = o[i]
        BY <2>5, <3>1
      <4>2. \A m \in Names : tt[m] = i /\ i # None <=> t[m] = i /\ i # None
        BY <1>3, <2>5, <3>1
      <4> QED
        BY <4>1, <4>2 DEF Match
    <3> QED
      BY <1>1, <2>3, <2>5, <3>1
  <2>7. \A m \in Names :
          tt[m] # None => \E f \in R : f.name = m /\ f.sector = tt[m]
    BY <1>0, <2>5 DEF Match
  <2>8. \A m \in g : tt[m] # None
    BY <2>3, <2>5 DEF Match, HandleType
  <2>9. Match(R, tt, oo, g)
    BY <2>6, <2>7, <2>8 DEF Match
  <2> QED
    BY <2>1, <2>4, <2>9 DEF Opens
<1> QED
  BY <1>2, <1>3

\* Closing the file named n.
Closes(R, t, o, g, n) ==
  \E tt, oo, gg : /\ FileClosed(Handle(t, o, g), n) = Handle(tt, oo, gg)
                  /\ Match(R, tt, oo, gg)
                  /\ HandleType(tt, oo, gg)
                  /\ tt[n] = None
                  /\ \A s \in Sectors : oo[s] \in {NotOpen, o[s]}

LEMMA LooseCloses ==
  ASSUME NEW R, NEW t, NEW o, NEW g, NEW n \in Names,
         Match(R, t, o, g), HandleType(t, o, g)
  PROVE  Closes(R, t, o, g, n)
<1>1. CASE t[n] = None
  BY <1>1, FileNotClosed DEF Closes
<1>2. CASE t[n] # None
  <2> DEFINE s == t[n]
             tt == [t EXCEPT ![n] = None]
             oo == [o EXCEPT ![s] = NotOpen]
             gg == (g \cup {m \in Names : t[m] = s}) \ {n}
  <2>1. FileClosed(Handle(t, o, g), n) = Handle(tt, oo, gg)
    BY <1>2, FileClosedFields
  <2>2. HandleType(tt, oo, gg)
    BY SectorsType DEF HandleType, OpenType
  <2>3. /\ s \in Sectors
        /\ tt[n] = None /\ \A m \in Names : m # n => tt[m] = t[m]
        /\ oo[s] = NotOpen /\ \A i \in Sectors : i # s => oo[i] = o[i]
    BY DEF HandleType, OpenType
  <2>4. \A m \in Names : m \in gg <=> m # n /\ (m \in g \/ t[m] = s)
    OBVIOUS
  <2>5. gg \subseteq Names
    BY DEF HandleType
  <2> HIDE DEF tt, oo, gg
  <2>6. \A i \in Sectors :
          oo[i] # NotOpen <=> \E m \in Names : tt[m] = i /\ i # None
                                                 /\ m \notin gg
    <3>1. ASSUME NEW i \in Sectors, i # s
          PROVE  oo[i] # NotOpen <=> \E m \in Names : tt[m] = i /\ i # None
                                                        /\ m \notin gg
      <4>1. oo[i] = o[i]
        BY <2>3, <3>1
      <4>2. \A m \in Names : /\ tt[m] = i /\ i # None /\ m \notin gg
                             <=> t[m] = i /\ i # None /\ m \notin g
        BY <2>3, <2>4, <3>1
      <4> QED
        BY <4>1, <4>2 DEF Match
    <3>2. ~ \E m \in Names : tt[m] = s /\ s # None /\ m \notin gg
      BY <1>2, <2>3, <2>4
    <3> QED
      BY <2>3, <3>1, <3>2
  <2>7. \A m \in Names :
          tt[m] # None => \E f \in R : f.name = m /\ f.sector = tt[m]
    BY <2>3 DEF Match
  <2>8. \A m \in gg : tt[m] # None
    BY <1>2, <2>3, <2>4, <2>5 DEF Match
  <2>9. Match(R, tt, oo, gg)
    BY <2>6, <2>7, <2>8 DEF Match
  <2> QED
    BY <2>1, <2>2, <2>3, <2>9 DEF Closes
<1> QED
  BY <1>1, <1>2

\* rm closes the inode once more, by its sector s, and leaves the entries Q.
Removes(Q, t, o, g, s) ==
  \E oo, gg : /\ InodeClosed(Handle(t, o, g), s) = Handle(t, oo, gg)
              /\ Match(Q, t, oo, gg)
              /\ HandleType(t, oo, gg)

LEMMA LooseRemoves ==
  ASSUME NEW R, NEW Q, NEW t, NEW o, NEW g, NEW s \in Sectors, s # None,
         Match(R, t, o, g), HandleType(t, o, g),
         Q \subseteq R, \A f \in R \ Q : t[f.name] = None
  PROVE  Removes(Q, t, o, g, s)
<1> DEFINE oo == [o EXCEPT ![s] = NotOpen]
           gg == g \cup {m \in Names : t[m] = s}
<1>1. InodeClosed(Handle(t, o, g), s) = Handle(t, oo, gg)
  BY InodeClosedFields
<1>2. HandleType(t, oo, gg)
  BY DEF HandleType, OpenType
<1>3. oo[s] = NotOpen /\ \A i \in Sectors : i # s => oo[i] = o[i]
  BY DEF HandleType, OpenType
<1>4. \A m \in Names : m \in gg <=> m \in g \/ t[m] = s
  OBVIOUS
<1> HIDE DEF oo, gg
<1>5. \A i \in Sectors :
        oo[i] # NotOpen <=> \E m \in Names : t[m] = i /\ i # None
                                               /\ m \notin gg
  <2>1. ASSUME NEW i \in Sectors, i # s
        PROVE  oo[i] # NotOpen <=> \E m \in Names : t[m] = i /\ i # None
                                                      /\ m \notin gg
    <3>1. oo[i] = o[i]
      BY <1>3, <2>1
    <3>2. \A m \in Names : /\ t[m] = i /\ i # None /\ m \notin gg
                           <=> t[m] = i /\ i # None /\ m \notin g
      BY <1>4, <2>1
    <3> QED
      BY <3>1, <3>2 DEF Match
  <2> QED
    BY <1>3, <1>4, <2>1
<1>6. \A m \in Names :
        t[m] # None => \E f \in Q : f.name = m /\ f.sector = t[m]
  BY DEF Match
<1>7. \A m \in gg : t[m] # None
  BY DEF Match, gg
<1>8. Match(Q, t, oo, gg)
  BY <1>5, <1>6, <1>7 DEF Match
<1> QED
  BY <1>1, <1>2, <1>8 DEF Removes

-----------------------------------------------------------------------------
(* inode_reserve, whatever the pointers lead to.                           *)

ReservedType(x, b, r) ==
  /\ r.ok \in BOOLEAN
  /\ r.ino \in Inodes /\ r.ino.len = x.len
  /\ b \subseteq r.bitmap /\ r.bitmap \subseteq Sectors
  /\ DiskType(r.disk)

LEMMA PointersAreSectors ==
  ASSUME NEW c \in {MapInode, Bytes} \cup Inodes \cup IndexBlocks
  PROVE  PointersIn(c) \in [0 .. NumIndirect - 1 -> Sectors]
<1> SUFFICES ASSUME NEW i \in 0 .. NumIndirect - 1
             PROVE  (CASE c.kind = "index" -> c.blocks[i]
                       [] c.kind = "inode" /\ i < NumDirect -> c.direct[i]
                       [] c.kind = "inode" /\ i = NumDirect -> c.index
                       [] OTHER -> None) \in Sectors
  BY Zenon DEF PointersIn
<1>1. None \in Sectors
  BY SectorsType
<1>2. CASE c \in IndexBlocks
  <2>1. c.kind = "index" /\ c.blocks[i] \in Sectors
    BY <1>2, IndexType
  <2> QED
    BY <2>1
<1>3. CASE c \in Inodes
  <2>1. c.kind = "inode" /\ c.index \in Sectors
        /\ c.direct \in [0 .. NumDirect - 1 -> Sectors]
    BY <1>3, InodeType
  <2>2. i < NumDirect => c.direct[i] \in Sectors
    BY <2>1
  <2> QED
    BY <1>1, <2>1, <2>2
<1>4. CASE c \in {MapInode, Bytes}
  <2>1. c.kind \in {"map", "bytes"}
    BY <1>4 DEF MapInode, Bytes
  <2> QED
    BY <1>1, <2>1
<1> QED
  BY <1>2, <1>3, <1>4

LEMMA ReserveIndexType ==
  ASSUME NEW x \in Inodes, NEW n, NEW b \in SUBSET Sectors, None \in b,
         NEW d, DiskType(d)
  PROVE  ReservedType(x, b, ReserveIndirect(x, n, b, d))
<1> DEFINE new == x.index = None
           at == IF ~new THEN x.index
                 ELSE IF Free(b) = {} THEN None ELSE Nth(0, Free(b))
           d1 == IF new THEN [d EXCEPT ![at] = EmptyIndex] ELSE d
           blocks == PointersIn(d1[at])
           want == Lacking(blocks, n)
           g == Grant(want, b \cup {at})
           ok == DOMAIN g = want
           d2 == WithBytes(d1, Granted(g))
           block == [kind |-> "index", blocks |-> Filled(blocks, g)]
           d3 == IF ok THEN [d2 EXCEPT ![at] = block] ELSE d2
           r == [ok |-> ok, ino |-> [x EXCEPT !.index = at],
                 bitmap |-> b \cup {at} \cup Granted(g), disk |-> d3]
<1>1. ReserveIndirect(x, n, b, d) = r
  BY Zenon DEF ReserveIndirect
<1>2. at \in Sectors
  <2>1. Free(b) # {} => Nth(0, Free(b)) \in Sectors
    BY FreeType, FirstIsMember
  <2>2. x.index \in Sectors /\ None \in Sectors
    BY InodeType, SectorsType
  <2> QED
    BY <2>1, <2>2
<1> HIDE DEF at
<1>3. DiskType(d1)
  BY <1>2, EmptyIndexFacts DEF DiskType
<1> HIDE DEF d1
<1>4. blocks \in [0 .. NumIndirect - 1 -> Sectors]
  BY <1>2, <1>3, PointersAreSectors DEF DiskType
<1> HIDE DEF blocks
<1>5. /\ Filled(blocks, g) \in [0 .. NumIndirect - 1 -> Sectors]
      /\ Granted(g) \subseteq Sectors
  <2>1. NumIndirect - 1 \in Nat
    OBVIOUS
  <2>2. None \in b \cup {at}
    OBVIOUS
  <2>3. FillsIn(NumIndirect - 1, blocks, n, b \cup {at}, g, Filled(blocks, g))
    BY <1>4, <2>1, <2>2, FilledFacts
  <2> QED
    BY <2>3 DEF FillsIn
<1>6. block \in IndexBlocks
  BY <1>5 DEF IndexBlocks
<1> HIDE DEF block, g, ok
<1>7. DiskType(d3)
  <2>1. DiskType(d2)
    BY <1>3, WithBytesFacts
  <2> QED
    BY <1>2, <1>6, <2>1 DEF DiskType
<1>8. [x EXCEPT !.index = at] \in Inodes /\ [x EXCEPT !.index = at].len = x.len
  BY <1>2, InodeType
<1>9. ok \in BOOLEAN
  BY DEF ok
<1> HIDE DEF d3
<1>10. ReservedType(x, b, r)
  <2> DEFINE ino == [x EXCEPT !.index = at]
             c == b \cup {at} \cup Granted(g)
  <2>1. r = [ok |-> ok, ino |-> ino, bitmap |-> c, disk |-> d3]
    OBVIOUS
  <2>2. ino \in Inodes /\ ino.len = x.len
    BY <1>8
  <2>3. b \subseteq c /\ c \subseteq Sectors
    BY <1>2, <1>5
  <2> HIDE DEF ino, c, r
  <2> QED
    BY <1>7, <1>9, <2>1, <2>2, <2>3 DEF ReservedType
<1> QED
  BY <1>1, <1>10

LEMMA ReserveType ==
  ASSUME NEW x \in Inodes, NEW n, NEW b \in SUBSET Sectors, None \in b,
         NEW d, DiskType(d)
  PROVE  ReservedType(x, b, Reserve(x, n, b, d))
<1> DEFINE want == Lacking(x.direct, n)
           g == Grant(want, b)
           ino1 == [x EXCEPT !.direct = Filled(@, g)]
           b1 == b \cup Granted(g)
           d1 == WithBytes(d, Granted(g))
           ok == DOMAIN g = want
           r == [ok |-> ok, ino |-> ino1, bitmap |-> b1, disk |-> d1]
<1>1. Reserve(x, n, b, d) = IF ok /\ n > NumDirect
                            THEN ReserveIndirect(ino1, n - NumDirect, b1, d1)
                            ELSE r
  BY Zenon DEF Reserve
<1>2. /\ Filled(x.direct, g) \in [0 .. NumDirect - 1 -> Sectors]
      /\ Granted(g) \subseteq Sectors
  <2>1. NumDirect - 1 \in Nat /\ x.direct \in [0 .. NumDirect - 1 -> Sectors]
    BY InodeType
  <2>2. FillsIn(NumDirect - 1, x.direct, n, b, g, Filled(x.direct, g))
    BY <2>1, FilledFacts
  <2> QED
    BY <2>2 DEF FillsIn
<1>3. ino1 \in Inodes /\ ino1.len = x.len
  <2>1. ino1 = [x EXCEPT !.direct = Filled(x.direct, g)]
    BY DEF Inodes
  <2> QED
    BY <1>2, <2>1, InodeType
<1>4. b1 \in SUBSET Sectors /\ None \in b1 /\ b \subseteq b1
  BY <1>2
<1>5. DiskType(d1)
  BY WithBytesFacts
<1>6. ok \in BOOLEAN
  OBVIOUS
<1> HIDE DEF ino1, b1, d1, ok
<1>7. ReservedType(x, b, r)
  BY <1>3, <1>4, <1>5, <1>6 DEF ReservedType
<1>8. ReservedType(x, b, ReserveIndirect(ino1, n - NumDirect, b1, d1))
  <2>1. ReservedType(ino1, b1, ReserveIndirect(ino1, n - NumDirect, b1, d1))
    BY <1>3, <1>4, <1>5, ReserveIndexType
  <2> QED
    BY <1>3, <1>4, <2>1 DEF ReservedType
<1> HIDE DEF r
<1> QED
  BY <1>1, <1>7, <1>8

-----------------------------------------------------------------------------
(* The commands, whatever the files share.                                 *)

\* What filesys_create returns.
CreatedType(c, n) ==
  /\ c.ok \in BOOLEAN
  /\ DiskType(c.disk)
  /\ c.bitmap \subseteq Sectors /\ None \in c.bitmap
  /\ c.mapfile \subseteq Sectors /\ None \in c.mapfile
  /\ ~c.ok => c.root = root
  /\ c.ok => \E e \in Entries :
       /\ c.root = root \cup {e}
       /\ ~Listed(n) /\ e.name = n /\ e.slot \in Vacant
       /\ e.sector = Nth(0, Free(bitmap)) /\ e.sector # None
       /\ c.disk[e.sector] \in Inodes

LEMMA CreatedLoose ==
  ASSUME Holds, NEW n \in Names, NEW len \in Lengths, Vacant # {}
  PROVE  CreatedType(Created(n, len), n)
<1>0. /\ bitmap \in SUBSET Sectors /\ None \in bitmap /\ DiskType(disk)
      /\ mapfile \subseteq Sectors /\ None \in mapfile
  BY DEF Holds, Held
<1>1. CASE Free(bitmap) = {}
  <2> DEFINE c == [ok |-> FALSE, bitmap |-> bitmap,
                   mapfile |-> mapfile, disk |-> disk, root |-> root]
  <2>1. Created(n, len) = c
    BY <1>1 DEF Created
  <2>2. /\ c.ok = FALSE /\ c.bitmap = bitmap /\ c.mapfile = mapfile
        /\ c.disk = disk /\ c.root = root
    OBVIOUS
  <2> HIDE DEF c
  <2> QED
    BY <1>0, <2>1, <2>2 DEF CreatedType
<1>2. CASE Free(bitmap) # {}
  <2> DEFINE s == Nth(0, Free(bitmap))
             b == bitmap \cup {s}
             x == NewInode(len)
             r == Reserve(x, len, b, disk)
             ok == r.ok /\ ~Listed(n)
             marked == IF ok THEN r.bitmap ELSE r.bitmap \ {s}
             dd == IF r.ok THEN [r.disk EXCEPT ![s] = r.ino] ELSE r.disk
             e == [slot |-> Nth(0, Vacant), name |-> n, sector |-> s]
             R == IF ok THEN root \cup {e} ELSE root
             c == [ok |-> ok, bitmap |-> marked, mapfile |-> marked,
                   disk |-> dd, root |-> R]
  <2>1. Created(n, len) = c
    BY <1>2, Zenon DEF Created
  <2>2. s \in Sectors /\ s \notin bitmap /\ s # None
    BY <1>0, <1>2, FreeType, FirstIsMember DEF Free
  <2>3. Nth(0, Vacant) \in Vacant
    BY VacantType, FirstIsMember
  <2>4. /\ e \in Entries /\ e.slot \in Vacant
        /\ e.name = n /\ e.sector = s
    BY <2>2, <2>3, VacantType DEF Entries
  <2>5. s = Nth(0, Free(bitmap))
    OBVIOUS
  <2> HIDE DEF s, e
  <2>6. ReservedType(x, b, r)
    <3>1. x \in Inodes
      BY NewInodeFacts
    <3>2. b \in SUBSET Sectors /\ None \in b
      BY <1>0, <2>2
    <3> HIDE DEF x, b
    <3> QED
      BY <1>0, <3>1, <3>2, ReserveType
  <2>7. /\ r.ok \in BOOLEAN /\ r.ino \in Inodes /\ r.bitmap \subseteq Sectors
        /\ bitmap \subseteq r.bitmap /\ DiskType(r.disk)
    BY <2>6 DEF ReservedType
  <2> HIDE DEF r
  <2>8. DiskType(dd) /\ (r.ok => dd[s] \in Inodes)
    BY <2>2, <2>7 DEF DiskType
  <2>9. marked \subseteq Sectors /\ None \in marked
    BY <1>0, <2>2, <2>7
  <2>10. /\ c.ok = ok /\ c.bitmap = marked /\ c.mapfile = marked
         /\ c.disk = dd /\ c.root = R
    OBVIOUS
  <2>11. ok \in BOOLEAN /\ (ok => r.ok /\ ~Listed(n))
    BY <2>7
  <2>12. R = IF ok THEN root \cup {e} ELSE root
    OBVIOUS
  <2> HIDE DEF c, dd, marked, ok, R
  <2> QED
    BY <2>1, <2>2, <2>4, <2>5, <2>8, <2>9, <2>10, <2>11, <2>12
       DEF CreatedType
<1> QED
  BY <1>1, <1>2

\* The directory after filesys_create, and the file opened.
LEMMA CreationLoose ==
  ASSUME Holds, NEW n \in Names, NEW len \in Lengths, Vacant # {},
         NEW c, c = Created(n, len)
  PROVE  /\ Held(c.disk, c.bitmap, c.mapfile, c.root, table, open, dangling)
         /\ c.ok => \E tt, oo :
              /\ FileOpened(Handles, n, Nth(0, Free(bitmap)), c.disk)
                   = Handle(tt, oo, dangling)
              /\ Held(c.disk, c.bitmap, c.mapfile, c.root, tt, oo, dangling)
         /\ c.ok => \E e \in Entries :
              c.root = root \cup {e} /\ e.slot \in Vacant
         /\ ~c.ok => c.root = root
<1>1. CreatedType(c, n)
  BY CreatedLoose
<1>2. /\ root \subseteq Entries /\ HandleType(table, open, dangling)
      /\ Match(root, table, open, dangling)
      /\ \A e \in root : e.sector # None
  BY DEF Holds, Held
<1>3. CASE ~c.ok
  BY <1>1, <1>2, <1>3 DEF CreatedType, Held
<1>4. CASE c.ok
  <2>1. PICK e \in Entries :
          /\ c.root = root \cup {e}
          /\ ~Listed(n) /\ e.name = n /\ e.slot \in Vacant
          /\ e.sector = Nth(0, Free(bitmap)) /\ e.sector # None
          /\ c.disk[e.sector] \in Inodes
    BY <1>1, <1>4 DEF CreatedType
  <2>2. Match(c.root, table, open, dangling)
    <3>1. \A f \in root : f.name # e.name /\ f.slot # e.slot
      BY <2>1 DEF Listed, Vacant
    <3> QED
      BY <1>2, <2>1, <3>1, MatchGrows
  <2>3. /\ c.root \in SUBSET Entries /\ e \in c.root
        /\ \A f \in c.root : f.sector # None
    BY <1>2, <2>1
  <2>4. Held(c.disk, c.bitmap, c.mapfile, c.root, table, open, dangling)
    BY <1>1, <1>2, <2>2, <2>3 DEF CreatedType, Held
  <2>5. Opens(c.root, table, open, dangling, n, Nth(0, Free(bitmap)), c.disk)
    <3>1. PICK s : s = Nth(0, Free(bitmap))
      OBVIOUS
    <3>2. \E f \in c.root : f.name = n /\ f.sector = s
      BY <2>1, <2>3, <3>1
    <3>3. s # None /\ c.disk[s] \in Inodes
      BY <2>1, <3>1
    <3>4. Opens(c.root, table, open, dangling, n, s, c.disk)
      BY <1>2, <2>2, <2>3, <3>2, <3>3, LooseOpens
    <3> QED
      BY <3>1, <3>4
  <2>6. \E tt, oo :
          /\ FileOpened(Handles, n, Nth(0, Free(bitmap)), c.disk)
               = Handle(tt, oo, dangling)
          /\ Held(c.disk, c.bitmap, c.mapfile, c.root, tt, oo, dangling)
    BY <2>4, <2>5, HandlesAre DEF Held, Opens
  <2> QED
    BY <1>4, <2>1, <2>4, <2>6
<1> QED
  BY <1>1, <1>3, <1>4 DEF CreatedType

LEMMA CreateLoose ==
  ASSUME Holds, NEW n \in Names, NEW len \in Lengths, Create(n, len)
  PROVE  Holds'
<1>1. PICK c : c = Created(n, len)
  OBVIOUS
<1>2. Vacant # {} /\ CreationBecomes(c)
      /\ UNCHANGED <<table, open, dangling>>
  BY <1>1 DEF Create
<1>3. Held(c.disk, c.bitmap, c.mapfile, c.root, table, open, dangling)
  BY <1>1, <1>2, CreationLoose
<1> QED
  BY <1>2, <1>3 DEF CreationBecomes, Holds

LEMMA CreateOpenLoose ==
  ASSUME Holds, NEW n \in Names, NEW len \in Lengths, Vacant # {},
         NEW c, c = Created(n, len), CreationBecomes(c),
         HandlesBecome(IF c.ok THEN FileOpened(Handles, n,
                                      Nth(0, Free(bitmap)), c.disk)
                               ELSE Handles)
  PROVE  Holds'
<1>1. disk' = c.disk /\ bitmap' = c.bitmap /\ mapfile' = c.mapfile
        /\ root' = c.root
  BY DEF CreationBecomes
<1>2. CASE c.ok
  <2>1. PICK tt, oo :
          /\ FileOpened(Handles, n, Nth(0, Free(bitmap)), c.disk)
               = Handle(tt, oo, dangling)
          /\ Held(c.disk, c.bitmap, c.mapfile, c.root, tt, oo, dangling)
    BY <1>2, CreationLoose
  <2>2. table' = tt /\ open' = oo /\ dangling' = dangling
    BY <1>2, <2>1, HandlesBecomeFields
  <2> QED
    BY <1>1, <2>1, <2>2 DEF Holds
<1>3. CASE ~c.ok
  <2>1. table' = table /\ open' = open /\ dangling' = dangling
    BY <1>3, HandlesAre, HandlesBecomeFields
  <2>2. Held(c.disk, c.bitmap, c.mapfile, c.root, table, open, dangling)
    BY CreationLoose
  <2> QED
    BY <1>1, <2>1, <2>2 DEF Holds
<1>4. c.ok \in BOOLEAN
  BY CreatedLoose DEF CreatedType
<1> QED
  BY <1>2, <1>3, <1>4

LEMMA CopyInLoose ==
  ASSUME Holds, NEW n \in Names, NEW len \in Lengths \cup {NumSectors},
         CopyIn(n, len)
  PROVE  Holds'
<1> DEFINE free == Cardinality(Free(bitmap))
           want == IF len > free THEN free ELSE len
<1>1. want \in Lengths
  BY CopiedLength
<1>2. PICK c : c = Created(n, want)
  OBVIOUS
<1>3. /\ Vacant # {} /\ CreationBecomes(c)
      /\ HandlesBecome(IF c.ok THEN FileOpened(Handles, n,
                                      Nth(0, Free(bitmap)), c.disk)
                               ELSE Handles)
  BY <1>2 DEF CopyIn
<1> HIDE DEF want
<1> QED
  BY <1>1, <1>2, <1>3, CreateOpenLoose

\* A file that is not broken has an inode on disk, and in memory.
LEMMA UnbrokenFile ==
  ASSUME Holds, NEW e \in root, ~Broken(e.name)
  PROVE  /\ EntryOf(e.name) = e
         /\ e.name \in Names /\ e.sector \in Sectors /\ e.sector # None
         /\ e.name \notin dangling
         /\ disk[e.sector] \in Inodes
         /\ InodeOf(e.name) \in Inodes
<1>1. /\ EntryOf(e.name) = e
      /\ e.name \in Names /\ e.sector \in Sectors /\ e.sector # None
  BY EntryOfIs DEF Holds, Held, Entries
<1>2. e.name \notin dangling /\ disk[e.sector].kind = "inode"
  BY <1>1 DEF Broken, Listed
<1>3. disk[e.sector] \in {MapInode, Bytes} \cup Inodes \cup IndexBlocks
  BY <1>1 DEF Holds, Held, DiskType
<1>4. disk[e.sector] \in Inodes
  <2>1. MapInode.kind # "inode" /\ Bytes.kind # "inode"
    BY DEF MapInode, Bytes
  <2>2. \A c \in IndexBlocks : c.kind # "inode"
    BY IndexType
  <2> QED
    BY <1>2, <1>3, <2>1, <2>2
<1>5. InodeOf(e.name) \in Inodes
  BY <1>1, <1>4 DEF InodeOf, InodeAt, Holds, Held, HandleType, OpenType
<1> QED
  BY <1>1, <1>2, <1>4, <1>5

LEMMA FileOpens ==
  ASSUME Holds, NEW e \in root, ~Broken(e.name)
  PROVE  /\ Opens(root, table, open, dangling, e.name, e.sector, disk)
         /\ e.name \notin dangling
<1>1. PICK n, s : n = e.name /\ s = e.sector
  OBVIOUS
<1>2. /\ \E f \in root : f.name = n /\ f.sector = s
      /\ s # None /\ disk[s] \in Inodes /\ n \notin dangling
  BY <1>1, UnbrokenFile
<1>3. Opens(root, table, open, dangling, n, s, disk)
  BY <1>2, LooseOpens DEF Holds, Held
<1> QED
  BY <1>1, <1>2, <1>3

LEMMA OpenLoose ==
  ASSUME Holds, NEW n \in NamesInUse, Open(n)
  PROVE  Holds'
<1>1. PICK e \in root : e.name = n
  BY DEF NamesInUse
<1>2. ~Broken(n) /\ EntryOf(n) = e
  BY <1>1, UnbrokenFile DEF Open
<1>3. PICK tt, oo : /\ FileOpened(Handles, n, e.sector, disk)
                         = Handle(tt, oo, dangling)
                    /\ Match(root, tt, oo, dangling)
                    /\ HandleType(tt, oo, dangling)
  BY <1>1, <1>2, FileOpens, HandlesAre DEF Opens
<1>4. /\ HandlesBecome(Handle(tt, oo, dangling))
      /\ UNCHANGED <<bitmap, mapfile, disk, root>>
  BY <1>2, <1>3 DEF Open
<1>5. table' = tt /\ open' = oo /\ dangling' = dangling
  BY <1>4, HandlesBecomeFields
<1> QED
  BY <1>3, <1>4, <1>5 DEF Holds, Held

LEMMA CloseLoose ==
  ASSUME Holds, NEW n \in NamesInUse, Close(n)
  PROVE  Holds'
<1>1. n \in Names
  BY DEF NamesInUse, Holds, Held, Entries
<1>2. Closes(root, table, open, dangling, n)
  BY <1>1, LooseCloses DEF Holds, Held
<1>3. PICK tt, oo, gg : /\ FileClosed(Handles, n) = Handle(tt, oo, gg)
                        /\ Match(root, tt, oo, gg)
                        /\ HandleType(tt, oo, gg)
  BY <1>2, HandlesAre DEF Closes
<1>4. /\ HandlesBecome(Handle(tt, oo, gg))
      /\ UNCHANGED <<bitmap, mapfile, disk, root>>
  BY <1>3 DEF Close
<1>5. table' = tt /\ open' = oo /\ dangling' = gg
  BY <1>4, HandlesBecomeFields
<1> QED
  BY <1>3, <1>4, <1>5 DEF Holds, Held

LEMMA RemoveLoose ==
  ASSUME Holds, NEW e \in root, ~Broken(e.name), Remove(e.name), disk' = disk
  PROVE  /\ Holds'
         /\ Cardinality(Vacant') = Cardinality(Vacant) + 1
<1>1. /\ root \subseteq Entries /\ Match(root, table, open, dangling)
      /\ HandleType(table, open, dangling)
      /\ e.name \in Names /\ e.sector \in Sectors /\ e.sector # None
  BY DEF Holds, Held, Entries
<1>2. EntryOf(e.name) = e
  BY <1>1, EntryOfIs
<1> DEFINE Q == root \ {e}
<1>3. Closes(root, table, open, dangling, e.name)
  BY <1>1, LooseCloses
<1>4. PICK t, o, g : /\ FileClosed(Handles, e.name) = Handle(t, o, g)
                     /\ Match(root, t, o, g)
                     /\ HandleType(t, o, g)
                     /\ t[e.name] = None
                     /\ \A s \in Sectors : o[s] \in {NotOpen, open[s]}
  BY <1>3, HandlesAre DEF Closes
<1>5. Removes(Q, t, o, g, e.sector)
  <2>1. Q \subseteq root /\ \A f \in root \ Q : t[f.name] = None
    BY <1>4
  <2> HIDE DEF Q
  <2>2. \A s \in Sectors : s # None => Removes(Q, t, o, g, s)
    BY <1>4, <2>1, LooseRemoves
  <2> QED
    BY <1>1, <2>2
<1>6. PICK oo, gg : /\ InodeClosed(Handle(t, o, g), e.sector)
                         = Handle(t, oo, gg)
                    /\ Match(Q, t, oo, gg)
                    /\ HandleType(t, oo, gg)
  BY <1>5 DEF Removes
<1> DEFINE ino == IF o[e.sector] = NotOpen THEN disk[e.sector]
                                       ELSE o[e.sector]
<1>7. /\ root' = Q
      /\ bitmap' = bitmap \ ({e.sector} \cup SectorsOf(ino, disk))
      /\ mapfile' = bitmap'
      /\ HandlesBecome(Handle(t, oo, gg))
  <2>1. PICK h : h = FileClosed(Handles, e.name)
    OBVIOUS
  <2>2. h = Handle(t, o, g) /\ h.open = o
    BY <1>4, <2>1, HandleFields
  <2>3. InodeClosed(h, e.sector) = Handle(t, oo, gg)
    BY <1>6, <2>2
  <2> QED
    BY <1>2, <2>1, <2>2, <2>3 DEF Remove
<1>8. None \notin SectorsOf(ino, disk)
  <2>1. ino \in {disk[e.sector], InodeOf(e.name)}
    BY <1>1, <1>2, <1>4 DEF InodeOf, InodeAt
  <2>2. Listed(e.name)
    BY DEF Listed
  <2> HIDE DEF ino
  <2> QED
    BY <1>2, <2>1, <2>2 DEF Broken
<1> HIDE DEF ino
<1>9. table' = t /\ open' = oo /\ dangling' = gg
  BY <1>7, HandlesBecomeFields
<1>10. /\ bitmap' \subseteq Sectors /\ None \in bitmap' /\ mapfile' = bitmap'
       /\ Q \subseteq Entries /\ \A f \in Q : f.sector # None
  BY <1>1, <1>7, <1>8 DEF Holds, Held
<1>11. Vacant' = Vacant \cup {e.slot} /\ e.slot \notin Vacant
  <2>1. e.slot \in Slots /\ \A f \in root : f.slot = e.slot => f = e
    BY <1>1 DEF Match, Entries
  <2> QED
    BY <1>7, <2>1 DEF Vacant
<1>12. Holds'
  <2> HIDE DEF Q
  <2>1. Held(disk, bitmap', bitmap', Q, t, oo, gg)
    BY <1>6, <1>10 DEF Held, Holds
  <2> QED
    BY <1>7, <1>9, <2>1 DEF Holds
<1> QED
  BY <1>11, <1>12, VacantType, FS_AddElement

LEMMA WriteLoose ==
  ASSUME Holds, NEW n \in NamesInUse, NEW len \in 1 .. MaxSize,
         NEW first \in 0 .. len, NEW back \in BOOLEAN,
         Write(n, first, len, back)
  PROVE  Holds'
<1>1. PICK e \in root : e.name = n
  BY DEF NamesInUse
<1>2. ~Broken(n)
  BY DEF Write
<1>3. PICK s : s = e.sector
  OBVIOUS
<1>4. EntryOf(n).sector = s /\ s \in Sectors
  BY <1>1, <1>2, <1>3, UnbrokenFile
<1>5. PICK tt, o : /\ FileOpened(Handles, n, s, disk) = Handle(tt, o, dangling)
                   /\ Match(root, tt, o, dangling)
                   /\ HandleType(tt, o, dangling)
                   /\ o[s] \in Inodes
  BY <1>1, <1>2, <1>3, FileOpens, HandlesAre DEF Opens
<1> DEFINE R(x) == IF len > x.len THEN Reserve(x, len, bitmap, disk)
                   ELSE [ok |-> TRUE, ino |-> x, bitmap |-> bitmap,
                         disk |-> disk]
<1>6. PICK x, r : x = o[s] /\ r = R(x)
  OBVIOUS
<1> DEFINE z == Written(x, r, len)
           oo == [o EXCEPT ![s] = z]
<1>7. /\ bitmap' = r.bitmap
      /\ mapfile' = IF r.bitmap # bitmap THEN r.bitmap ELSE mapfile
      /\ disk' = DiskWritten(s, r, first, len, back)
      /\ HandlesBecome([Handle(tt, o, dangling) EXCEPT !.open[s] = z])
      /\ root' = root
  <2>1. PICK h : h = FileOpened(Handles, n, s, disk)
    OBVIOUS
  <2>2. h = Handle(tt, o, dangling) /\ h.open[s] = x
    BY <1>5, <1>6, <2>1, HandleFields
  <2>3. /\ bitmap' = R(h.open[s]).bitmap
        /\ mapfile' = IF R(h.open[s]).bitmap # bitmap
                      THEN R(h.open[s]).bitmap ELSE mapfile
        /\ disk' = DiskWritten(s, R(h.open[s]), first, len, back)
        /\ HandlesBecome([h EXCEPT !.open[s] =
                            Written(h.open[s], R(h.open[s]), len)])
        /\ root' = root
    BY <1>4, <2>1, ZenonT(60) DEF Write, DiskWritten, Written
  <2> HIDE DEF R
  <2> QED
    BY <1>6, <2>2, <2>3
<1>8. table' = tt /\ open' = oo /\ dangling' = dangling
  <2>1. PICK h : h = Handle(tt, o, dangling)
    OBVIOUS
  <2> HIDE DEF z
  <2>2. PICK k : k = [h EXCEPT !.open[s] = z]
    OBVIOUS
  <2>3. k.table = tt /\ k.open = oo /\ k.dangling = dangling
    BY <2>1, <2>2 DEF Handle
  <2>4. HandlesBecome(k)
    BY <1>7, <2>1, <2>2
  <2> QED
    BY <2>3, <2>4 DEF HandlesBecome
<1>9. /\ bitmap \in SUBSET Sectors /\ None \in bitmap /\ DiskType(disk)
      /\ mapfile \subseteq Sectors /\ None \in mapfile
  BY DEF Holds, Held
<1>10. x \in Inodes
  BY <1>5, <1>6
<1>11. ReservedType(x, bitmap, r)
  <2>1. CASE len > x.len
    BY <1>6, <1>9, <1>10, <2>1, ReserveType
  <2>2. CASE ~(len > x.len)
    <3>1. r = [ok |-> TRUE, ino |-> x, bitmap |-> bitmap, disk |-> disk]
      BY <1>6, <2>2
    <3> QED
      BY <1>9, <1>10, <3>1 DEF ReservedType
  <2> QED
    BY <2>1, <2>2
<1> HIDE DEF R
<1>12. len \in Lengths
  BY DEF Lengths
<1> DEFINE grown == [r.ino EXCEPT !.len = IF len > @ THEN len ELSE @]
<1>13. grown \in Inodes
  <2>1. r.ino \in Inodes
    BY <1>11 DEF ReservedType
  <2>2. PICK l \in Lengths : l = IF len > r.ino.len THEN len ELSE r.ino.len
    BY <1>12, <2>1, InodeType
  <2>3. grown = [r.ino EXCEPT !.len = l]
    BY <2>2
  <2> QED
    BY <2>1, <2>2, <2>3, InodeType
<1>14. z \in Inodes
  <2> z = IF r.ok THEN grown ELSE r.ino
    BY DEF Written
  <2> HIDE DEF z, grown
  <2> QED
    BY <1>11, <1>13 DEF ReservedType
<1>15. DiskType(disk')
  <2> DEFINE d == IF r.ok /\ back THEN [r.disk EXCEPT ![s] = grown] ELSE r.disk
             S == {BlockOf(grown, d, i) : i \in first .. len - 1}
  <2>1. disk' = IF r.ok THEN WithBytes(d, S) ELSE d
    BY <1>7 DEF DiskWritten
  <2> HIDE DEF grown, S
  <2>2. DiskType(d)
    BY <1>4, <1>11, <1>13 DEF DiskType, ReservedType
  <2> HIDE DEF d
  <2>3. DiskType(WithBytes(d, S))
    BY <2>2, WithBytesFacts
  <2> QED
    BY <2>1, <2>2, <2>3
<1>16. HandleType(tt, oo, dangling) /\ Match(root, tt, oo, dangling)
  <2>1. z # NotOpen /\ o[s] # NotOpen
    BY <1>5, <1>14, InodeType
  <2> HIDE DEF z
  <2>2. \A i \in Sectors : oo[i] # NotOpen <=> o[i] # NotOpen
    BY <1>4, <1>5, <2>1 DEF HandleType, OpenType
  <2>3. HandleType(tt, oo, dangling)
    BY <1>4, <1>5, <1>14 DEF HandleType, OpenType
  <2> HIDE DEF oo
  <2> QED
    BY <1>5, <2>2, <2>3 DEF Match
<1>17. /\ bitmap' \subseteq Sectors /\ None \in bitmap'
       /\ mapfile' \subseteq Sectors /\ None \in mapfile'
  BY <1>7, <1>9, <1>11 DEF ReservedType
<1>18. root' \subseteq Entries /\ \A f \in root' : f.sector # None
  BY <1>7 DEF Holds, Held
<1> HIDE DEF oo
<1>19. Match(root', table', open', dangling') /\ HandleType(table', open', dangling')
  BY <1>7, <1>8, <1>16
<1> QED
  BY <1>15, <1>17, <1>18, <1>19 DEF Holds, Held

\* All files are closed, or only lose their inodes.
LEMMA LooseClosed ==
  ASSUME Match(root, table, open, dangling), NEW oo,
         oo = [s \in Sectors |-> NotOpen]
  PROVE  /\ OpenType(oo)
         /\ [n \in Names |-> None] \in [Names -> Sectors]
         /\ Match(root, [n \in Names |-> None], oo, {})
         /\ Match(root, table, oo, {n \in Names : table[n] # None})
<1>1. [n \in Names |-> None] \in [Names -> Sectors]
  BY SectorsType
<1>2. OpenType(oo)
  BY DEF OpenType
<1>3. \A s \in Sectors : oo[s] = NotOpen
  OBVIOUS
<1>4. Match(root, [n \in Names |-> None], oo, {})
  BY <1>3 DEF Match
<1>5. Match(root, table, oo, {n \in Names : table[n] # None})
  BY <1>3 DEF Match
<1> QED
  BY <1>1, <1>2, <1>4, <1>5

LEMMA ClosingLoose ==
  ASSUME Holds, FindFile \/ FragmentationDegree
  PROVE  Holds'
<1> DEFINE oo == [s \in Sectors |-> NotOpen]
<1>1. /\ OpenType(oo)
      /\ [n \in Names |-> None] \in [Names -> Sectors]
      /\ Match(root, [n \in Names |-> None], oo, {})
      /\ Match(root, table, oo, {n \in Names : table[n] # None})
  BY LooseClosed DEF Holds, Held
<1>2. UNCHANGED <<bitmap, mapfile, disk, root>> /\ open' = oo
  BY DEF FindFile, FragmentationDegree, HandlesBecome
<1>3. CASE FindFile
  <2>1. table' = [n \in Names |-> None] /\ dangling' = {}
    BY <1>3 DEF FindFile, HandlesBecome
  <2> HIDE DEF oo
  <2> QED
    BY <1>1, <1>2, <2>1 DEF Holds, Held, HandleType
<1>4. CASE FragmentationDegree
  <2>1. table' = table /\ dangling' = {n \in Names : table[n] # None}
    BY <1>4 DEF FragmentationDegree
  <2> HIDE DEF oo
  <2> QED
    BY <1>1, <1>2, <2>1 DEF Holds, Held, HandleType
<1> QED
  BY <1>3, <1>4

\* recover 0 makes entries of different names in different slots.
LEMMA RecoverLoose ==
  ASSUME Holds, Recover
  PROVE  Holds'
<1> DEFINE found == {s \in Free(bitmap) : disk[s].kind = "inode" /\ ~Listed(s)}
           New(s) == [slot |-> Nth(Rank(s, found), Vacant), name |-> s,
                      sector |-> s]
<1>1. /\ Cardinality(found) <= Cardinality(Vacant)
      /\ root' = root \cup {New(s) : s \in found}
      /\ bitmap' = bitmap \cup found
      /\ UNCHANGED <<mapfile, disk, table, open, dangling>>
  BY DEF Recover
<1>2. /\ found \in SUBSET Nat /\ IsFiniteSet(found) /\ found \subseteq Sectors
      /\ \A s \in found : s # None /\ ~Listed(s)
  <2>1. found \subseteq Free(bitmap) /\ None \in bitmap
    BY DEF Holds, Held
  <2>2. \A s \in found : ~Listed(s)
    OBVIOUS
  <2> HIDE DEF found
  <2> QED
    BY <2>1, <2>2, FreeType, FS_Subset DEF Free
<1> HIDE DEF found
<1>3. ASSUME NEW s \in found
      PROVE  Rank(s, found) \in Nat /\ Rank(s, found) < Cardinality(Vacant)
  <2> DEFINE B == {j \in found : j < s}
  <2>1. IsFiniteSet(B) /\ Rank(s, found) = Cardinality(B)
          /\ Rank(s, found) \in Nat
    BY <1>2, BelowFinite
  <2>2. B \subseteq found /\ s \in found \ B
    BY <1>2, <1>3
  <2>3. Cardinality(B) < Cardinality(found)
    <3> HIDE DEF B
    <3>1. B # found /\ B \in SUBSET found
      BY <2>2
    <3>2. Cardinality(B) \in Nat /\ Cardinality(found) \in Nat
      BY <1>2, <2>1, FS_CardinalityType
    <3>3. /\ Cardinality(B) <= Cardinality(found)
          /\ Cardinality(found) = Cardinality(B) => found = B
      BY <1>2, <3>1, FS_Subset
    <3> QED
      BY <3>1, <3>2, <3>3
  <2>4. Cardinality(found) \in Nat /\ Cardinality(Vacant) \in Nat
    BY <1>2, VacantType, FS_CardinalityType
  <2> QED
    BY <1>1, <2>1, <2>3, <2>4
<1>4. ASSUME NEW s \in found
      PROVE  /\ Nth(Rank(s, found), Vacant) \in Vacant
             /\ Rank(Nth(Rank(s, found), Vacant), Vacant) = Rank(s, found)
  BY <1>3, VacantType, NthIsMember
<1>5. ASSUME NEW s \in found
      PROVE  /\ New(s) \in Entries /\ New(s).name = s /\ New(s).sector = s
             /\ New(s).slot = Nth(Rank(s, found), Vacant)
             /\ New(s).slot \in Vacant
  <2>1. s \in Names /\ s \in Sectors
    BY <1>2 DEF Names
  <2> QED
    BY <1>4, <2>1, VacantType DEF Entries
<1>6. ASSUME NEW s \in found, NEW t \in found, New(s).slot = New(t).slot
      PROVE  s = t
  <2>1. Rank(s, found) = Rank(t, found)
    BY <1>4, <1>5, <1>6
  <2> QED
    BY <1>2, <2>1, RankIsUnique
<1> HIDE DEF New
<1>7. /\ root \subseteq Entries /\ \A e \in root : e.sector # None
      /\ Match(root, table, open, dangling)
  BY DEF Holds, Held
<1>8. root' \subseteq Entries /\ \A e \in root' : e.sector # None
  BY <1>1, <1>2, <1>5, <1>7
<1>9. ASSUME NEW e \in root', NEW f \in root',
             e.name = f.name \/ e.slot = f.slot
      PROVE  e = f
  <2>1. ASSUME NEW a \in root, NEW s \in found
        PROVE  a.name # New(s).name /\ a.slot # New(s).slot
    BY <1>2, <1>5 DEF Listed, Vacant
  <2>2. CASE e \in root /\ f \in root
    BY <1>7, <1>9, <2>2 DEF Match
  <2>3. CASE e \in root /\ f \notin root
    <3>1. PICK s \in found : f = New(s)
      BY <1>1, <2>3
    <3> QED
      BY <1>9, <2>1, <2>3, <3>1
  <2>4. CASE e \notin root /\ f \in root
    <3>1. PICK s \in found : e = New(s)
      BY <1>1, <2>4
    <3> QED
      BY <1>9, <2>1, <2>4, <3>1
  <2>5. CASE e \notin root /\ f \notin root
    <3>1. PICK s \in found : e = New(s)
      BY <1>1, <2>5
    <3>2. PICK t \in found : f = New(t)
      BY <1>1, <2>5
    <3>3. s = t
      BY <1>5, <1>6, <1>9, <3>1, <3>2
    <3> QED
      BY <3>1, <3>2, <3>3
  <2> QED
    BY <2>2, <2>3, <2>4, <2>5
<1>10. Match(root', table, open, dangling)
  <2>1. root \subseteq root'
    BY <1>1
  <2> QED
    BY <1>7, <1>9, <2>1 DEF Match
<1> QED
  BY <1>1, <1>2, <1>8, <1>10 DEF Holds, Held

LEMMA DefragmentLoose ==
  ASSUME Loose, Defragment \/ SaveNext \/ RestoreNext
  PROVE  Loose'
<1>0. /\ saved \in Seq([name : Names, len : Lengths]) /\ Len(saved) \in Nat
      /\ Cardinality(Vacant) \in Nat
  BY VacantType DEF Loose, TypeOK
<1>1. Holds
  BY LooseHolds DEF Defragment, SaveNext, RestoreNext, Running
<1>2. CASE Defragment
  <2>1. Holds' /\ Vacant' = Vacant
    BY <1>1, <1>2 DEF Defragment, Holds, Vacant
  <2>2. Len(saved') = 0 /\ saved' \in Seq([name : Names, len : Lengths])
    BY <1>2 DEF Defragment
  <2>3. mode' \in {"up", "saving", "restoring", "partial", "undefined"}
    BY <1>2 DEF Defragment
  <2> QED
    BY <1>0, <2>1, <2>2, <2>3, HoldsLoose
<1>3. CASE SaveNext
  <2>1. Len(saved) <= Cardinality(Vacant)
    BY <1>3 DEF SaveNext, Loose
  <2>2. PICK e \in root :
          /\ ~Broken(e.name)
          /\ saved' = Append(saved, [name |-> e.name,
                                     len |-> InodeOf(e.name).len])
          /\ Remove(e.name)
    BY <1>3 DEF SaveNext
  <2>3. /\ disk' = disk
        /\ mode' \in {"up", "saving", "restoring", "partial", "undefined"}
    BY <1>3 DEF SaveNext
  <2>4. Holds' /\ Cardinality(Vacant') = Cardinality(Vacant) + 1
    BY <1>1, <2>2, <2>3, RemoveLoose
  <2>5. e.name \in Names /\ InodeOf(e.name).len \in Lengths
    BY <1>1, <2>2, UnbrokenFile, InodeType
  <2>6. /\ saved' \in Seq([name : Names, len : Lengths])
        /\ Len(saved') = Len(saved) + 1
    BY <1>0, <2>2, <2>5
  <2>7. Len(saved') <= Cardinality(Vacant')
    BY <1>0, <2>1, <2>4, <2>6
  <2> QED
    BY <2>3, <2>4, <2>6, <2>7, HoldsLoose
<1>4. CASE RestoreNext
  <2>1. Len(saved) <= Cardinality(Vacant)
    BY <1>4 DEF RestoreNext, Loose
  <2> DEFINE n == Head(saved).name
             len == Head(saved).len
             T == [name : Names, len : Lengths]
  <2>2. PICK c : c = Created(n, len)
    OBVIOUS
  <2>3. /\ CreationBecomes(c)
        /\ HandlesBecome(IF c.ok THEN FileOpened(Handles, n,
                                        Nth(0, Free(bitmap)), c.disk)
                                 ELSE Handles)
        /\ saved' = IF c.ok THEN Tail(saved) ELSE <<>>
        /\ mode' = IF saved' = <<>> THEN "up" ELSE mode
    BY <1>4, <2>2 DEF RestoreNext
  <2>4. n \in Names /\ len \in Lengths /\ Len(saved) > 0
    <3>1. saved # <<>> /\ saved \in Seq(T)
      BY <1>0, <1>4 DEF RestoreNext
    <3> HIDE DEF T
    <3>2. Head(saved) \in T /\ Len(saved) > 0
      BY <3>1
    <3> QED
      BY <3>2 DEF T
  <2> HIDE DEF n, len
  <2>5. Vacant # {}
    BY <1>0, <2>1, <2>4, VacantType, FS_EmptySet
  <2>6. Holds'
    BY <1>1, <2>2, <2>3, <2>4, <2>5, CreateOpenLoose
  <2>7. saved' \in Seq(T)
    BY <1>0, <1>4, <2>3 DEF RestoreNext
  <2>8. CASE c.ok
    <3>1. PICK e \in Entries : c.root = root \cup {e} /\ e.slot \in Vacant
      BY <1>1, <2>2, <2>4, <2>5, <2>8, CreationLoose
    <3>2. /\ IsFiniteSet(Vacant) /\ e.slot \in Vacant
          /\ Vacant' = Vacant \ {e.slot}
      BY <2>3, <3>1, VacantType DEF CreationBecomes, Vacant
    <3>3. Cardinality(Vacant') = Cardinality(Vacant) - 1
      BY <3>2, FS_RemoveElement
    <3>4. saved' = Tail(saved)
      BY <2>3, <2>8
    <3>5. Len(saved') = Len(saved) - 1
      BY <1>0, <2>4, <3>4
    <3>6. Len(saved') <= Cardinality(Vacant')
      BY <1>0, <2>1, <3>3, <3>5
    <3>7. mode' \in {"up", "saving", "restoring", "partial", "undefined"}
      BY <1>4, <2>3 DEF RestoreNext
    <3> QED
      BY <2>6, <2>7, <3>6, <3>7, HoldsLoose
  <2>9. CASE ~c.ok
    <3>1. mode' = "up"
      BY <2>3, <2>9
    <3> QED
      BY <2>6, <2>7, <3>1, HoldsLoose
  <2> QED
    BY <2>8, <2>9
<1> QED
  BY <1>2, <1>3, <1>4

LEMMA StopsLoose ==
  ASSUME Loose, Shutdown \/ Boot \/ \E n : UseBroken(n)
  PROVE  Loose'
<1>1. CASE Shutdown
  <2> DEFINE tt == [n \in Names |-> None]
             oo == [s \in Sectors |-> NotOpen]
  <2>1. OpenType(oo) /\ Match(root, tt, oo, {}) /\ tt \in [Names -> Sectors]
    BY LooseClosed DEF Loose
  <2>2. TypeOK'
    BY <1>1, <2>1 DEF Shutdown, Loose, TypeOK, OpenType
  <2> QED
    BY <1>1, <2>1, <2>2 DEF Shutdown, Loose, Running
<1>2. CASE Boot
  <2>0. FREE_MAP_SECTOR \in Sectors /\ FREE_MAP_SECTOR = None
    BY DEF Sectors, FREE_MAP_SECTOR, None
  <2>1. TypeOK'
    BY <1>2, <2>0 DEF Boot, Loose, TypeOK
  <2>2. None \in bitmap'
    BY <1>2, <2>0 DEF Boot, Loose
  <2> QED
    BY <1>2, <2>1, <2>2 DEF Boot, Loose, Running
<1>3. CASE \E n : UseBroken(n)
  BY <1>3 DEF UseBroken, Loose, TypeOK, Running
<1> QED
  BY <1>1, <1>2, <1>3

\* Formatting restores the invariant of FileSystem.
LEMMA FormatIsTight ==
  ASSUME Loose, Format
  PROVE  IInv'
<1> DEFINE tt == [n \in Names |-> None]
           oo == [s \in Sectors |-> NotOpen]
<1>1. table = tt /\ mode' = "up"
  BY DEF Format, Loose
<1>2. dangling = {} /\ open = oo
  <2>1. open \in [Sectors -> {NotOpen} \cup Inodes] /\ dangling \subseteq Names
    BY DEF Loose, TypeOK
  <2>2. \A s \in Sectors : open[s] = NotOpen
    BY <1>1 DEF Loose, Match
  <2>3. dangling = {}
    BY <1>1, <2>1 DEF Loose, Match
  <2> QED
    BY <2>1, <2>2, <2>3
<1>3. None \in Sectors /\ FREE_MAP_SECTOR = None
  BY DEF Sectors, FREE_MAP_SECTOR, None
<1>4. TypeOK'
  BY <1>3 DEF Format, Loose, TypeOK
<1>5. Sound(root', disk', open', mapfile')
  BY <1>3 DEF Format, Sound, Disjoint
<1>6. Match(root', table', open', dangling')
  <2>1. root' = {} /\ table' = tt /\ open' = oo /\ dangling' = {}
    BY <1>1, <1>2 DEF Format
  <2>2. Match({}, tt, oo, {})
    BY DEF Match
  <2> QED
    BY <2>1, <2>2
<1> QED
  BY <1>1, <1>4, <1>5, <1>6 DEF Format, IInv, Running

LEMMA CommandsLoose ==
  ASSUME Loose,
         \/ \E n \in UserNames, len \in 0 .. MaxSize : Create(n, len)
         \/ \E n \in UserNames, len \in (1 .. MaxSize) \cup {NumSectors} :
              CopyIn(n, len)
         \/ \E n \in NamesInUse :
              \/ Open(n) \/ Close(n) \/ Rm(n)
              \/ \E len \in 1 .. MaxSize, back \in BOOLEAN :
                   \E first \in 0 .. len : Write(n, first, len, back)
         \/ FindFile \/ FragmentationDegree \/ Recover
  PROVE  Loose'
<1>1. mode = "up" /\ mode' = "up" /\ saved' = saved
  <2>1. ASSUME NEW n, NEW len, Create(n, len) \/ CopyIn(n, len)
        PROVE  mode = "up" /\ mode' = "up" /\ saved' = saved
    BY <2>1 DEF Create, CopyIn
  <2>2. ASSUME NEW n, Open(n) \/ Close(n) \/ Rm(n)
        PROVE  mode = "up" /\ mode' = "up" /\ saved' = saved
    BY <2>2 DEF Open, Close, Rm
  <2>3. ASSUME NEW n, NEW first, NEW len, NEW back,
               Write(n, first, len, back)
        PROVE  mode = "up" /\ mode' = "up" /\ saved' = saved
    BY <2>3, Zenon DEF Write
  <2>4. FindFile \/ FragmentationDegree
          => mode = "up" /\ mode' = "up" /\ saved' = saved
    BY DEF FindFile, FragmentationDegree
  <2>5. Recover => mode = "up" /\ mode' = "up" /\ saved' = saved
    BY Zenon DEF Recover
  <2> QED
    BY <2>1, <2>2, <2>3, <2>4, <2>5
<1>2. Holds
  BY <1>1, LooseHolds DEF Running
<1>3. /\ UserNames \subseteq Names
      /\ 0 .. MaxSize \subseteq Lengths /\ 1 .. MaxSize \subseteq Lengths
  BY DEF Names, Lengths
<1>4. ASSUME NEW n \in UserNames, NEW len \in 0 .. MaxSize, Create(n, len)
      PROVE  Holds'
  BY <1>2, <1>3, <1>4, CreateLoose
<1>5. ASSUME NEW n \in UserNames,
             NEW len \in (1 .. MaxSize) \cup {NumSectors}, CopyIn(n, len)
      PROVE  Holds'
  BY <1>2, <1>3, <1>5, CopyInLoose
<1>6. ASSUME NEW n \in NamesInUse, Rm(n)
      PROVE  Holds'
  <2>1. PICK e \in root : e.name = n
    BY DEF NamesInUse
  <2>2. ~Broken(e.name) /\ Remove(e.name) /\ disk' = disk
    BY <1>6, <2>1 DEF Rm
  <2> QED
    BY <1>2, <2>2, RemoveLoose
<1>7. Holds'
  BY <1>2, <1>4, <1>5, <1>6, OpenLoose, CloseLoose, WriteLoose,
     ClosingLoose, RecoverLoose
<1> QED
  BY <1>1, <1>7, HoldsLoose DEF Loose, TypeOK

-----------------------------------------------------------------------------
(* A file with everything on the disk that it takes to read it.            *)

\* All sectors that the inode on disk d of entry e's file leads to, those
\* past its length included.
Kept(e, d) == {e.sector} \cup Uses(d[e.sector], d)
Readable(e, d) == /\ d[e.sector] \in Inodes
                  /\ Indexed(d[e.sector], d)
                  /\ Full(d[e.sector], d)

LEMMA KeptFacts ==
  ASSUME NEW e \in Entries, NEW o, NEW b,
         FileSound(e.sector, disk, o, b)
  PROVE  /\ Readable(e, disk)
         /\ Kept(e, disk) \subseteq Claims(e.sector, disk, o)
         /\ Kept(e, disk) \subseteq b
<1> DEFINE x == Current(e.sector, disk, o)
           y == disk[e.sector]
<1>1. /\ y \in Inodes /\ Full(y, disk) /\ Extends(x, y)
      /\ x \in Inodes /\ Proper(x, disk)
      /\ Claims(e.sector, disk, o) \subseteq b
  BY DEF FileSound, Proper
<1> HIDE DEF x, y
<1>2. Uses(y, disk) \subseteq Uses(x, disk) /\ Proper(y, disk)
  BY <1>1, ExtendsFacts
<1>3. Claims(e.sector, disk, o) = {e.sector} \cup Uses(x, disk)
  BY DEF x, Claims
<1>4. Kept(e, disk) = {e.sector} \cup Uses(y, disk)
  BY DEF y, Kept
<1>5. Readable(e, disk)
  BY <1>1, <1>2 DEF y, Readable, Proper
<1> QED
  BY <1>1, <1>2, <1>3, <1>4, <1>5

LEMMA OwnedIsKeptToo ==
  ASSUME NEW e, Readable(e, disk)
  PROVE  Owned(e) \subseteq Kept(e, disk)
<1>1. SectorsOf(disk[e.sector], disk) \subseteq Uses(disk[e.sector], disk)
  BY SectorsOfFacts DEF Readable
<1> QED
  BY <1>1 DEF Owned, Kept

\* A disk that differs elsewhere has the same file.
LEMMA ReadableFrame ==
  ASSUME NEW e, NEW d, NEW dd, Readable(e, d),
         \A t \in Kept(e, d) : dd[t] = d[t]
  PROVE  /\ Readable(e, dd)
         /\ Kept(e, dd) = Kept(e, d)
         /\ SectorsOf(dd[e.sector], dd) = SectorsOf(d[e.sector], d)
<1>1. PICK x : x = d[e.sector]
  OBVIOUS
<1>2. x \in Inodes /\ Indexed(x, d) /\ Full(x, d)
  BY <1>1 DEF Readable
<1>3. dd[e.sector] = x
  BY <1>1 DEF Kept
<1>4. x.index # None => dd[x.index] = d[x.index]
  BY <1>1, IndexIsUsed DEF Kept
<1>5. /\ Pointer(x, dd) = Pointer(x, d)
      /\ Uses(x, dd) = Uses(x, d)
      /\ Indexed(x, dd)
  BY <1>2, <1>4, PointerFrame DEF SamePointers
<1>6. Full(x, dd)
  BY <1>2, <1>5 DEF Full
<1>7. SectorsOf(x, dd) = SectorsOf(x, d)
  <2>1. SectorsOf(x, d) = {Pointer(x, d)[p] : p \in Needed(x.len)}
    BY <1>2, SectorsOfFacts
  <2>2. SectorsOf(x, dd) = {Pointer(x, dd)[p] : p \in Needed(x.len)}
    BY <1>2, <1>5, <1>6, SectorsOfFacts
  <2> QED
    BY <1>5, <2>1, <2>2
<1> QED
  BY <1>1, <1>2, <1>3, <1>5, <1>6, <1>7 DEF Readable, Kept

LEMMA SnapshotFrame ==
  ASSUME NEW e, Readable(e, disk),
         \A t \in Kept(e, disk) : disk'[t] = disk[t]
  PROVE  Snapshot(e)' = Snapshot(e)
<1> DEFINE S == Owned(e)
<1>1. SectorsOf(disk'[e.sector], disk') = SectorsOf(disk[e.sector], disk)
  BY ReadableFrame
<1>2. {e.sector} \cup SectorsOf(disk'[e.sector], disk') = S
  BY <1>1 DEF Owned
<1>3. \A s \in S : disk'[s] = disk[s]
  BY OwnedIsKeptToo
<1> HIDE DEF S
<1>4. [s \in S |-> disk'[s]] = [s \in S |-> disk[s]]
  BY <1>3
<1>5. Snapshot(e)' = [entry |-> e, sectors |-> [s \in S |-> disk'[s]]]
  BY <1>2 DEF Snapshot, Owned
<1>6. Snapshot(e) = [entry |-> e, sectors |-> [s \in S |-> disk[s]]]
  BY DEF Snapshot, S
<1> QED
  BY <1>4, <1>5, <1>6

-----------------------------------------------------------------------------
(* The inductive invariant.                                                *)

\* A file of the last clean shutdown is as it was, and the device has it.
Guarded(f) ==
  /\ f.entry \in root
  /\ f = Snapshot(f.entry)
  /\ f.entry \in stable.root
  /\ \A e \in stable.root : e.name = f.entry.name => e = f.entry
  /\ \A t \in Kept(f.entry, disk) :
       stable.disk[t] = disk[t] /\ t \in stable.mapfile

\* The process lives.
Alive == /\ Loose
         /\ ~recovered => IInv
         /\ \A f \in base : Guarded(f)

\* The inodes in memory are as on disk d.
Mirrors(o, d) == \A s \in Sectors : o[s] \in {NotOpen, d[s]}

\* Another process found what was stable.
Dead == /\ TypeOK
        /\ mode \in {"down", "up", "mapless"}
        /\ disk = stable.disk /\ mapfile = stable.mapfile /\ root = stable.root
        /\ dangling = {}
        /\ Mirrors(open, disk)
        /\ \A f \in base :
             /\ f.entry \in root
             /\ \A e \in root : e.name = f.entry.name => e = f.entry
             /\ f = Snapshot(f.entry)
             /\ Readable(f.entry, disk)
             /\ Kept(f.entry, disk) \subseteq mapfile

CInv == /\ DiskType(stable.disk)
        /\ stable.mapfile \subseteq Sectors
        /\ stable.root \subseteq Entries
        /\ recovered \in BOOLEAN /\ crashed \in BOOLEAN
        /\ base # {} => ~recovered
        /\ crashed => Dead
        /\ ~crashed => Alive

LEMMA InitIsCInv ==
  ASSUME CInit
  PROVE  CInv
<1>1. IInv
  BY InitIsSound DEF CInit
<1>2. Loose
  BY <1>1, TightIsLoose
<1>3. TypeOK
  BY <1>1 DEF IInv
<1>4. /\ DiskType(stable.disk) /\ stable.mapfile \subseteq Sectors
      /\ stable.root \subseteq Entries
  BY <1>3 DEF CInit, Live, TypeOK, DiskType
<1> QED
  BY <1>1, <1>2, <1>4 DEF CInit, CInv, Alive

-----------------------------------------------------------------------------
(* Write-backs, and commands on other files.                               *)

\* A file that a step leaves alone stays guarded.
LEMMA GuardedStays ==
  ASSUME IInv, NEW f, Guarded(f), f.entry \in root', stable' = stable,
         \A t \in Claims(f.entry.sector, disk, open) : disk'[t] = disk[t]
  PROVE  Guarded(f)'
<1>1. PICK e : e = f.entry
  OBVIOUS
<1>2. /\ e \in root /\ f = Snapshot(e) /\ e \in stable.root
      /\ \A x \in stable.root : x.name = e.name => x = e
      /\ \A t \in Kept(e, disk) :
           stable.disk[t] = disk[t] /\ t \in stable.mapfile
  BY <1>1 DEF Guarded
<1>3. e \in Entries /\ FileSound(e.sector, disk, open, mapfile)
  BY <1>2 DEF IInv, TypeOK, Sound
<1>4. Readable(e, disk) /\ \A t \in Kept(e, disk) : disk'[t] = disk[t]
  BY <1>1, <1>3, KeptFacts
<1>5. Snapshot(e)' = Snapshot(e)
  BY <1>4, SnapshotFrame
<1>6. Kept(e, disk') = Kept(e, disk)
  BY <1>4, ReadableFrame
<1> QED
  BY <1>1, <1>2, <1>4, <1>5, <1>6 DEF Guarded

LEMMA SyncKeeps ==
  ASSUME CInv, Sync
  PROVE  CInv'
<1>1. /\ ~crashed /\ base # {} /\ ~recovered
      /\ UNCHANGED <<vars, base, recovered, crashed>>
  BY DEF Sync, CInv
<1>2. Alive /\ IInv /\ \A f \in base : Guarded(f)
  BY <1>1 DEF CInv, Alive
<1>3. /\ DiskType(stable.disk) /\ stable.mapfile \subseteq Sectors
      /\ stable.root \subseteq Entries
  BY DEF CInv
<1>4. /\ DiskType(disk) /\ mapfile \subseteq Sectors /\ root \subseteq Entries
      /\ Sound(root, disk, open, mapfile) /\ Match(root, table, open, dangling)
  BY <1>2 DEF IInv, TypeOK, DiskType
<1>5. UNCHANGED <<mode, bitmap, mapfile, disk, root, table, open, dangling,
                  saved>>
  BY <1>1 DEF vars
\* It is enough to see what the write-back leaves of the device.
<1>6. SUFFICES /\ DiskType(stable'.disk) /\ stable'.mapfile \subseteq Sectors
               /\ stable'.root \subseteq Entries
               /\ \A f \in base : Guarded(f)'
  BY <1>1, <1>2, <1>5 DEF CInv, Alive, Loose, IInv, TypeOK, Running, Vacant
<1>7. ASSUME NEW f \in base
      PROVE  /\ f.entry \in root /\ f = Snapshot(f.entry)
             /\ f.entry \in stable.root
             /\ \A e \in stable.root : e.name = f.entry.name => e = f.entry
             /\ \A t \in Kept(f.entry, disk) :
                  stable.disk[t] = disk[t] /\ t \in stable.mapfile
             /\ Snapshot(f.entry)' = Snapshot(f.entry)
             /\ \A e \in root : e.name = f.entry.name => e = f.entry
             /\ Kept(f.entry, disk) \subseteq mapfile
             /\ Kept(f.entry, disk) \subseteq Sectors
  <2>1. f.entry \in root
    BY <1>2 DEF Guarded
  <2>2. PICK e \in root : e = f.entry
    BY <2>1
  <2>3. e \in Entries /\ FileSound(e.sector, disk, open, mapfile)
    BY <1>4 DEF Sound
  <2>4. Kept(e, disk) \subseteq mapfile /\ Kept(e, disk) \subseteq Sectors
    BY <1>4, <2>3, KeptFacts
  <2>5. Snapshot(f.entry)' = Snapshot(f.entry)
    BY <1>5 DEF Snapshot, Owned
  <2> QED
    BY <1>2, <1>4, <2>2, <2>4, <2>5 DEF Guarded, Match
<1>8. ASSUME NEW s, WriteBack(s)
      PROVE  /\ DiskType(stable'.disk) /\ stable'.mapfile \subseteq Sectors
             /\ stable'.root \subseteq Entries
             /\ \A f \in base : Guarded(f)'
  <2>1. /\ stable'.disk = [stable.disk EXCEPT ![s] = disk[s]]
        /\ stable'.mapfile = stable.mapfile
        /\ stable'.root = stable.root
    BY <1>8 DEF WriteBack
  <2>2. \A t \in Sectors : stable'.disk[t] = IF t = s THEN disk[t]
                                             ELSE stable.disk[t]
    BY <1>3, <2>1 DEF DiskType
  <2>3. DiskType(stable'.disk)
    BY <1>3, <1>4, <2>1 DEF DiskType
  <2>4. ASSUME NEW f \in base PROVE Guarded(f)'
    <3>1. \A t \in Kept(f.entry, disk) :
            stable'.disk[t] = disk[t] /\ t \in stable'.mapfile
      BY <1>7, <2>1, <2>2
    <3>2. disk' = disk /\ root' = root
      BY <1>5
    <3>3. \A t \in Kept(f.entry, disk') :
            stable'.disk[t] = disk'[t] /\ t \in stable'.mapfile
      BY <3>1, <3>2
    <3> QED
      BY <1>7, <2>1, <3>2, <3>3 DEF Guarded
  <2> QED
    BY <1>3, <2>1, <2>3, <2>4
<1>9. ASSUME WriteBackMap
      PROVE  /\ DiskType(stable'.disk) /\ stable'.mapfile \subseteq Sectors
             /\ stable'.root \subseteq Entries
             /\ \A f \in base : Guarded(f)'
  <2>1. /\ stable'.disk = stable.disk
        /\ stable'.mapfile = mapfile
        /\ stable'.root = stable.root
    BY <1>4, <1>9 DEF WriteBackMap
  <2> QED
    BY <1>3, <1>4, <1>5, <1>7, <2>1 DEF Guarded
<1>10. ASSUME WriteBackRoot
       PROVE  /\ DiskType(stable'.disk) /\ stable'.mapfile \subseteq Sectors
              /\ stable'.root \subseteq Entries
              /\ \A f \in base : Guarded(f)'
  <2>1. /\ stable'.disk = stable.disk
        /\ stable'.mapfile = stable.mapfile
        /\ stable'.root = root
    BY <1>10 DEF WriteBackRoot
  <2> QED
    BY <1>3, <1>4, <1>5, <1>7, <2>1 DEF Guarded
<1> QED
  BY <1>8, <1>9, <1>10 DEF Sync

\* A step leaves the file of e as it is.
Spared(e) == /\ e \in root'
             /\ \A t \in Claims(e.sector, disk, open) : disk'[t] = disk[t]

LEMMA ClaimsAreMarked ==
  ASSUME Usable, NEW e \in root
  PROVE  Claims(e.sector, disk, open) \subseteq bitmap \ {None}
BY DEF Usable, Good, Sound, FileSound

\* filesys_create writes to sectors that were not marked, or to sector 0.
LEMMA CreationSpares ==
  ASSUME Usable, NEW n \in Names, NEW len \in Lengths, Vacant # {},
         NEW c, c = Created(n, len), CreationBecomes(c), NEW e \in root
  PROVE  Spared(e)
<1>1. CreatedSound(c, n, len)
  BY CreatedFacts
<1>2. /\ root \subseteq c.root
      /\ \A t \in bitmap \ {None} : c.disk[t] = disk[t]
  BY <1>1 DEF CreatedSound
<1>3. root \subseteq root' /\ \A t \in bitmap \ {None} : disk'[t] = disk[t]
  BY <1>2 DEF CreationBecomes
<1> QED
  BY <1>3, ClaimsAreMarked DEF Spared

LEMMA SparesKeeps ==
  ASSUME IInv, Spares, NEW e \in root
  PROVE  Spared(e)
<1>1. /\ UserNames \subseteq Names
      /\ 0 .. MaxSize \subseteq Lengths /\ 1 .. MaxSize \subseteq Lengths
  BY DEF Names, Lengths
<1>2. ASSUME NEW n \in UserNames, NEW len \in 0 .. MaxSize, Create(n, len)
      PROVE  Spared(e)
  <2>1. PICK c : c = Created(n, len)
    OBVIOUS
  <2>2. Usable /\ Vacant # {} /\ CreationBecomes(c)
    BY <1>2, <2>1, RunningIsUsable DEF Create, Running
  <2> QED
    BY <1>1, <2>1, <2>2, CreationSpares
<1>3. ASSUME NEW n \in UserNames,
             NEW len \in (1 .. MaxSize) \cup {NumSectors}, CopyIn(n, len)
      PROVE  Spared(e)
  <2> DEFINE free == Cardinality(Free(bitmap))
             l == IF len > free THEN free ELSE len
  <2>1. l \in Lengths
    BY <1>1, CopiedLength
  <2>2. PICK c : c = Created(n, l)
    OBVIOUS
  <2> HIDE DEF l
  <2>3. mode = "up" /\ Vacant # {}
    BY <1>3 DEF CopyIn
  <2>4. CreationBecomes(c)
    BY <1>3, <2>2, Zenon DEF CopyIn, l
  <2>5. Usable
    BY <2>3, RunningIsUsable DEF Running
  <2> QED
    BY <1>1, <2>1, <2>2, <2>3, <2>4, <2>5, CreationSpares
<1>4. ASSUME \/ \E n \in NamesInUse : Open(n) \/ Close(n)
             \/ FindFile \/ FragmentationDegree \/ Boot
      PROVE  Spared(e)
  <2>1. root' = root /\ disk' = disk
    BY <1>4 DEF Open, Close, FindFile, FragmentationDegree, Boot
  <2> QED
    BY <2>1 DEF Spared
<1> QED
  BY <1>2, <1>3, <1>4 DEF Spares

\* rm and write touch the file they name.
LEMMA ChangesSpare ==
  ASSUME IInv, NEW n \in NamesInUse,
         \/ Rm(n)
         \/ \E len \in 1 .. MaxSize, back \in BOOLEAN :
              \E first \in 0 .. len : Write(n, first, len, back),
         NEW e \in root, e.name # n
  PROVE  Spared(e)
<1>1. PICK f \in root : f.name = n
  BY DEF NamesInUse
<1>2. EntryOf(n) = f /\ f # e
  BY <1>1, EntryOfIs DEF IInv
<1>3. CASE Rm(n)
  <2>1. disk' = disk /\ root' = root \ {f}
    BY <1>2, <1>3 DEF Rm, Remove
  <2> QED
    BY <1>2, <2>1 DEF Spared
<1>4. ASSUME NEW len \in 1 .. MaxSize, NEW back \in BOOLEAN,
             NEW first \in 0 .. len, Write(n, first, len, back)
      PROVE  Spared(e)
  <2>1. mode = "up" /\ root' = root
    BY <1>4, Zenon DEF Write
  <2>2. Usable
    BY <2>1, RunningIsUsable DEF Running
  <2>3. \A i \in bitmap \ {None} :
          i \notin Claims(f.sector, disk, open) => disk'[i] = disk[i]
    BY <1>2, <1>4, <2>2, WriteKeeps
  <2>4. Claims(e.sector, disk, open) \subseteq bitmap \ {None}
    BY <2>2, ClaimsAreMarked
  <2>5. Claims(e.sector, disk, open) \cap Claims(f.sector, disk, open) = {}
    BY <1>1, <1>2 DEF IInv, Sound, Disjoint
  <2> QED
    BY <2>1, <2>3, <2>4, <2>5 DEF Spared
<1> QED
  BY <1>3, <1>4

\* The device has its type, whether it keeps files of base or all there is.
LEMMA DeviceType ==
  ASSUME CInv, TypeOK', stable' \in {stable, Live'}
  PROVE  /\ DiskType(stable'.disk)
         /\ stable'.mapfile \subseteq Sectors
         /\ stable'.root \subseteq Entries
<1>1. CASE stable' = stable
  BY <1>1 DEF CInv
<1>2. CASE stable' = Live'
  <2>1. /\ stable'.disk = disk' /\ stable'.mapfile = mapfile'
        /\ stable'.root = root'
    BY <1>2 DEF Live
  <2> QED
    BY <2>1 DEF TypeOK, DiskType
<1> QED
  BY <1>1, <1>2

LEMMA CommandStepKeeps ==
  ASSUME CInv, CommandStep
  PROVE  CInv'
<1>1. /\ ~crashed /\ ~crashed' /\ crashed' \in BOOLEAN /\ Alive
      /\ stable' = IF base' = {} THEN Live' ELSE stable
      /\ Spares \/ Changes \/ Upsets
  BY DEF CommandStep, CInv, Settle
<1>2. /\ Loose /\ (~recovered => IInv) /\ \A f \in base : Guarded(f)
      /\ base # {} => ~recovered
      /\ recovered \in BOOLEAN
  BY <1>1 DEF Alive, CInv
\* It is enough to see what the command leaves of the state and of base.
<1>3. SUFFICES /\ Loose' /\ (~recovered' => IInv')
               /\ recovered' \in BOOLEAN
               /\ base' # {} => ~recovered'
               /\ \A f \in base' : f \in base /\ Spared(f.entry)
  <2>1. ASSUME NEW f \in base'
        PROVE  Guarded(f)'
    <3>1. IInv /\ Guarded(f) /\ stable' = stable
      BY <1>1, <1>2, <1>3, <2>1
    <3>2. Spared(f.entry)
      BY <1>3, <2>1
    <3> QED
      BY <3>1, <3>2, GuardedStays DEF Spared
  <2>2. TypeOK' /\ stable' \in {stable, Live'}
    BY <1>1, <1>3 DEF Loose
  <2>3. /\ DiskType(stable'.disk) /\ stable'.mapfile \subseteq Sectors
        /\ stable'.root \subseteq Entries
    BY <2>2, DeviceType
  <2> QED
    BY <1>1, <1>3, <2>1, <2>3 DEF CInv, Alive
<1>4. CASE Spares
  <2>1. Loose'
    BY <1>2, <1>4, CommandsLoose, StopsLoose DEF Spares
  <2>2. ~recovered => IInv'
    BY <1>2, <1>4, CommandsKeep, StopsAndStartsKeep DEF Spares, Command
  <2>3. base' = base /\ recovered' = recovered
    BY <1>4 DEF Spares
  <2>4. ASSUME NEW f \in base
        PROVE  Spared(f.entry)
    <3>1. IInv /\ f.entry \in root
      BY <1>2 DEF Guarded
    <3> QED
      BY <1>4, <3>1, SparesKeeps
  <2> QED
    BY <1>2, <2>1, <2>2, <2>3, <2>4
<1>5. CASE Changes
  <2>1. PICK n \in NamesInUse :
          /\ \/ Rm(n)
             \/ \E len \in 1 .. MaxSize, back \in BOOLEAN :
                  \E first \in 0 .. len : Write(n, first, len, back)
          /\ base' = Without(n)
          /\ recovered' = recovered
    BY <1>5 DEF Changes
  <2>2. Loose'
    BY <1>2, <2>1, CommandsLoose
  <2>3. ~recovered => IInv'
    BY <1>2, <2>1, CommandsKeep DEF Command
  <2>4. ASSUME NEW f \in base'
        PROVE  f \in base /\ Spared(f.entry)
    <3>1. f \in base /\ f.entry.name # n
      BY <2>1 DEF Without
    <3>2. IInv /\ f.entry \in root
      BY <1>2, <3>1 DEF Guarded
    <3> QED
      BY <2>1, <3>1, <3>2, ChangesSpare
  <2> QED
    BY <1>2, <2>1, <2>2, <2>3, <2>4
<1>6. CASE Upsets
  <2>1. base' = {}
    BY <1>6 DEF Upsets
  <2>2. CASE Recover /\ recovered' = TRUE
    BY <1>2, <2>1, <2>2, CommandsLoose
  <2>3. CASE Format /\ recovered' = FALSE
    <3>1. IInv'
      BY <1>2, <2>3, FormatIsTight
    <3>2. Loose'
      BY <3>1, TightIsLoose, PTL
    <3> QED
      BY <2>1, <2>3, <3>1, <3>2
  <2>4. CASE /\ \/ Defragment \/ SaveNext \/ RestoreNext
                \/ \E n \in NamesInUse : UseBroken(n)
             /\ recovered' = recovered
    <3>1. Loose'
      BY <1>2, <2>4, DefragmentLoose, StopsLoose
    <3>2. IInv => IInv'
      BY <2>4, DefragmentStepsKeep, UseBrokenKeeps
    <3> QED
      BY <1>2, <2>1, <2>4, <3>1, <3>2
  <2> QED
    BY <1>6, <2>2, <2>3, <2>4 DEF Upsets
<1> QED
  BY <1>1, <1>4, <1>5, <1>6

-----------------------------------------------------------------------------
(* Stops, crashes and what the next process finds.                         *)

LEMMA CleanShutdownKeeps ==
  ASSUME CInv, CleanShutdown
  PROVE  CInv'
<1>1. /\ ~crashed /\ crashed' = crashed /\ recovered' = recovered
      /\ Shutdown /\ stable' = Live
      /\ base' = IF mode = "up" /\ ~recovered
                 THEN {Snapshot(e) : e \in root} ELSE {}
  BY DEF CleanShutdown
<1>2. /\ Loose /\ (~recovered => IInv)
      /\ recovered \in BOOLEAN /\ crashed \in BOOLEAN
  BY <1>1 DEF CInv, Alive
<1>3. Loose' /\ (~recovered' => IInv')
  BY <1>1, <1>2, StopsLoose, StopsAndStartsKeep
<1>4. UNCHANGED <<disk, mapfile, root>>
  BY <1>1 DEF Shutdown
<1>5. /\ stable'.disk = disk /\ stable'.mapfile = mapfile
      /\ stable'.root = root
  BY <1>1 DEF Live
<1>6. stable' = Live'
  BY <1>1, <1>4 DEF Live
<1>7. /\ DiskType(stable'.disk) /\ stable'.mapfile \subseteq Sectors
      /\ stable'.root \subseteq Entries
  BY <1>3, <1>6, DeviceType DEF Loose
<1>8. ASSUME NEW f \in base'
      PROVE  Guarded(f)'
  <2>1. ~recovered /\ f \in {Snapshot(e) : e \in root}
    BY <1>1, <1>8
  <2>2. PICK e \in root : f = Snapshot(e)
    BY <2>1
  <2>3. f.entry = e
    BY <2>2 DEF Snapshot
  <2>4. /\ e \in Entries /\ FileSound(e.sector, disk, open, mapfile)
        /\ \A x \in root : x.name = e.name => x = e
    BY <1>2, <2>1 DEF IInv, TypeOK, Sound, Match
  <2>5. Kept(e, disk) \subseteq mapfile
    BY <2>4, KeptFacts
  <2>6. Snapshot(e)' = Snapshot(e)
    BY <1>4 DEF Snapshot, Owned
  <2> QED
    BY <1>4, <1>5, <2>2, <2>3, <2>4, <2>5, <2>6 DEF Guarded
<1> QED
  BY <1>1, <1>2, <1>3, <1>7, <1>8 DEF CInv, Alive

LEMMA CrashKeeps ==
  ASSUME CInv, Crash
  PROVE  CInv'
<1>1. /\ ~crashed /\ base # {} /\ crashed' = TRUE /\ mode' = "down"
      /\ disk' = stable.disk /\ mapfile' = stable.mapfile
      /\ root' = stable.root
      /\ table' = [n \in Names |-> None]
      /\ open' = [s \in Sectors |-> NotOpen]
      /\ dangling' = {} /\ saved' = <<>>
      /\ UNCHANGED <<bitmap, stable, base, recovered>>
  BY DEF Crash
<1>2. /\ IInv /\ ~recovered /\ \A f \in base : Guarded(f)
      /\ DiskType(stable.disk) /\ stable.mapfile \subseteq Sectors
      /\ stable.root \subseteq Entries
  BY <1>1 DEF CInv, Alive
<1>3. TypeOK'
  <2>1. table' \in [Names -> Sectors]
    BY <1>1, SectorsType DEF Sectors, None
  <2>2. open' \in [Sectors -> {NotOpen} \cup Inodes]
    BY <1>1
  <2>3. saved' \in Seq([name : Names, len : Lengths])
    BY <1>1
  <2>4. bitmap' \subseteq Sectors
    BY <1>1, <1>2 DEF IInv, TypeOK
  <2> QED
    BY <1>1, <1>2, <2>1, <2>2, <2>3, <2>4 DEF TypeOK, DiskType
<1>4. ASSUME NEW f \in base
      PROVE  /\ f.entry \in root'
             /\ \A e \in root' : e.name = f.entry.name => e = f.entry
             /\ f = Snapshot(f.entry)'
             /\ Readable(f.entry, disk')
             /\ Kept(f.entry, disk') \subseteq mapfile'
  <2>1. Guarded(f)
    BY <1>2
  <2>2. PICK e \in root : e = f.entry
    BY <2>1 DEF Guarded
  <2>3. e \in Entries /\ FileSound(e.sector, disk, open, mapfile)
    BY <1>2 DEF IInv, TypeOK, Sound
  <2>4. Readable(e, disk)
    BY <2>3, KeptFacts
  <2>5. \A t \in Kept(e, disk) : disk'[t] = disk[t] /\ t \in mapfile'
    BY <1>1, <2>1, <2>2 DEF Guarded
  <2>6. Readable(e, disk') /\ Kept(e, disk') = Kept(e, disk)
    BY <2>4, <2>5, ReadableFrame
  <2>7. Snapshot(e)' = Snapshot(e)
    BY <2>4, <2>5, SnapshotFrame
  <2> QED
    BY <1>1, <2>1, <2>2, <2>5, <2>6, <2>7 DEF Guarded
<1>5. Dead'
  BY <1>1, <1>3, <1>4 DEF Dead, Mirrors
<1> QED
  BY <1>1, <1>2, <1>5 DEF CInv

\* Opening a file while all inodes in memory are as on the disk.
OpensClean(t, o, g, n, s, d) ==
  \E tt, oo : /\ FileOpened(Handle(t, o, g), n, s, d) = Handle(tt, oo, g)
              /\ HandleType(tt, oo, g) /\ Mirrors(oo, d)

LEMMA CleanOpens ==
  ASSUME NEW t, NEW o, NEW g, NEW n, NEW s, NEW d,
         HandleType(t, o, g), Mirrors(o, d),
         n \in Names, s \in Sectors, d[s] \in Inodes
  PROVE  OpensClean(t, o, g, n, s, d)
<1>1. CASE t[n] # None
  <2>1. FileOpened(Handle(t, o, g), n, s, d) = Handle(t, o, g)
    BY <1>1, FileNotOpened
  <2> QED
    BY <2>1 DEF OpensClean
<1>2. CASE t[n] = None
  <2> DEFINE tt == [t EXCEPT ![n] = s]
             oo == [o EXCEPT ![s] = Current(s, d, o)]
  <2>1. FileOpened(Handle(t, o, g), n, s, d) = Handle(tt, oo, g)
    BY <1>2, FileOpenedFields
  <2>2. Current(s, d, o) = d[s]
    BY DEF Mirrors, Current
  <2>3. HandleType(tt, oo, g) /\ Mirrors(oo, d)
    BY <2>2 DEF HandleType, OpenType, Mirrors
  <2> HIDE DEF tt, oo
  <2> QED
    BY <2>1, <2>3 DEF OpensClean
<1> QED
  BY <1>1, <1>2

\* Mounting and opening files change nothing that a file is made of.
LEMMA RemountKeeps ==
  ASSUME CInv, Remount
  PROVE  CInv'
<1>1. crashed /\ Dead /\ UNCHANGED crashVars
  BY DEF Remount, CInv
<1>2. UNCHANGED <<stable, base, recovered, crashed>>
  BY <1>1 DEF crashVars
<1>3. SUFFICES Dead'
  BY <1>1, <1>2 DEF CInv
<1>4. UNCHANGED <<mapfile, disk, root>>
  BY DEF Remount, Boot, Open
\* It is enough to see what becomes of the mode and of the open files.
<1>5. SUFFICES /\ TypeOK' /\ mode' \in {"down", "up", "mapless"}
               /\ dangling' = {}
               /\ Mirrors(open', disk)
  <2>1. \A e : Snapshot(e)' = Snapshot(e)
    BY <1>4 DEF Snapshot, Owned
  <2> QED
    BY <1>1, <1>2, <1>4, <1>5, <2>1 DEF Dead
<1>6. CASE Boot
  <2>1. FREE_MAP_SECTOR \in Sectors
    BY DEF Sectors, FREE_MAP_SECTOR
  <2> QED
    BY <1>1, <1>6, <2>1 DEF Boot, Dead, TypeOK
<1>7. ASSUME NEW f \in base, Open(f.entry.name)
      PROVE  /\ TypeOK' /\ mode' \in {"down", "up", "mapless"}
             /\ dangling' = {}
             /\ Mirrors(open', disk)
  <2>1. PICK e, n, s : e = f.entry /\ n = e.name /\ s = e.sector
    OBVIOUS
  <2>2. /\ e \in root /\ \A x \in root : x.name = n => x = e
        /\ disk[s] \in Inodes
    BY <1>1, <2>1 DEF Dead, Readable
  <2>3. EntryOf(n) = e
    BY <2>1, <2>2 DEF EntryOf
  <2>4. e \in Entries
    BY <1>1, <2>2 DEF Dead, TypeOK
  <2>5. n \in Names /\ s \in Sectors
    BY <2>1, <2>4 DEF Entries
  <2>6. /\ HandlesBecome(FileOpened(Handle(table, open, dangling), n, s, disk))
        /\ UNCHANGED <<mode, bitmap, mapfile, disk, root, saved>>
    BY <1>7, <2>1, <2>3, HandlesAre DEF Open
  <2>7. HandleType(table, open, {}) /\ dangling = {} /\ Mirrors(open, disk)
    BY <1>1 DEF Dead, TypeOK, HandleType, OpenType
  <2>8. PICK tt, oo :
          /\ FileOpened(Handle(table, open, {}), n, s, disk)
               = Handle(tt, oo, {})
          /\ HandleType(tt, oo, {}) /\ Mirrors(oo, disk)
    BY <2>2, <2>5, <2>7, CleanOpens DEF OpensClean
  <2>9. table' = tt /\ open' = oo /\ dangling' = {}
    BY <2>6, <2>7, <2>8, HandlesBecomeFields
  <2> QED
    BY <1>1, <2>6, <2>8, <2>9 DEF Dead, TypeOK, HandleType, OpenType
<1> QED
  BY <1>6, <1>7 DEF Remount

LEMMA CNextKeeps == CInv /\ [CNext]_allVars => CInv'
<1> SUFFICES ASSUME CInv, [CNext]_allVars PROVE CInv'
  OBVIOUS
<1>1. CASE UNCHANGED allVars
  <2>1. UNCHANGED <<mode, bitmap, mapfile, disk, root, table, open, dangling,
                    saved, stable, base, recovered, crashed>>
    BY <1>1 DEF allVars, vars, crashVars
  <2>2. (\A e : Snapshot(e)' = Snapshot(e)) /\ Vacant' = Vacant
    BY <2>1 DEF Snapshot, Owned, Vacant
  <2>3. (Alive => Alive') /\ (Dead => Dead')
    BY <2>1, <2>2 DEF Alive, Dead, Guarded, Loose, IInv, TypeOK, Running
  <2> QED
    BY <2>1, <2>3 DEF CInv
<1>2. CASE CNext
  BY <1>2, SyncKeeps, CommandStepKeeps, CleanShutdownKeeps, CrashKeeps,
     RemountKeeps DEF CNext
<1> QED
  BY <1>1, <1>2

LEMMA CrashInvariance == CSpec => []CInv
<1>1. CInit => CInv
  BY InitIsCInv
<1> QED
  BY <1>1, CNextKeeps, PTL DEF CSpec

-----------------------------------------------------------------------------
(* The theorems.                                                           *)

\* Whatever recover 0 brought back and whatever a crash left, every variable,
\* the history and the device keep their types: what a command reads as an
\* inode is one (inode.c:113-132).
THEOREM CrashTypeCorrect == CSpec => []CTypeOK
<1>1. CInv => CTypeOK
  BY DEF CInv, Alive, Dead, Loose, CTypeOK, DiskType, Guarded, TypeOK
<1> QED
  BY <1>1, CrashInvariance, PTL

\* As long as the process lives, the table of open files, the open inodes and
\* the directory agree, also once `recover 0` has brought back removed files
\* whose blocks belong to others (fsutil2.c:278-283).
THEOREM HandlesAgreeDespiteRecover == CSpec => []HandlesAgree
<1>1. CInv => HandlesAgree
  BY DEF CInv, Alive, Loose, Match, HandlesAgree, OpenInodesMatchTable
<1> QED
  BY <1>1, CrashInvariance, PTL

\* A file of the device's, in the words of Snapshot.
LEMMA SnapshotFacts ==
  ASSUME NEW e, NEW f, f = Snapshot(e), Readable(e, disk)
  PROVE  /\ DOMAIN f.sectors \subseteq Kept(e, disk)
         /\ \A s \in DOMAIN f.sectors : f.sectors[s] = disk[s]
<1>1. f.sectors = [s \in Owned(e) |-> disk[s]]
  BY DEF Snapshot
<1> QED
  BY <1>1, OwnedIsKeptToo

\* A file that no command changed since the last clean shutdown survives a
\* crash at any moment: the device holds its entry, its inode, its blocks and
\* their marks, however much of what was done next to it was written back
\* (cache.c:71-99).
THEOREM OldFilesSurviveCrashes == CSpec => []OldFilesSurvive
<1>1. ASSUME CInv, NEW f \in base
      PROVE  /\ f.entry \in stable.root
             /\ \A e \in stable.root : e.name = f.entry.name => e = f.entry
             /\ \A s \in DOMAIN f.sectors : /\ stable.disk[s] = f.sectors[s]
                                            /\ s \in stable.mapfile
  <2>1. CASE crashed
    <3>1. Dead
      BY <1>1, <2>1 DEF CInv
    <3>2. /\ f = Snapshot(f.entry) /\ Readable(f.entry, disk)
          /\ Kept(f.entry, disk) \subseteq mapfile
          /\ f.entry \in root
          /\ \A e \in root : e.name = f.entry.name => e = f.entry
          /\ disk = stable.disk /\ mapfile = stable.mapfile
          /\ root = stable.root
      BY <3>1 DEF Dead
    <3> QED
      BY <3>2, SnapshotFacts
  <2>2. CASE ~crashed
    <3>1. IInv /\ Guarded(f)
      BY <1>1, <2>2 DEF CInv, Alive
    <3>2. f.entry \in Entries
            /\ FileSound(f.entry.sector, disk, open, mapfile)
      BY <3>1 DEF Guarded, IInv, TypeOK, Sound
    <3>3. Readable(f.entry, disk)
      BY <3>2, KeptFacts
    <3>4. /\ f = Snapshot(f.entry)
          /\ f.entry \in stable.root
          /\ \A e \in stable.root : e.name = f.entry.name => e = f.entry
          /\ \A t \in Kept(f.entry, disk) :
               stable.disk[t] = disk[t] /\ t \in stable.mapfile
      BY <3>1 DEF Guarded
    <3> QED
      BY <3>3, <3>4, SnapshotFacts
  <2> QED
    BY <2>1, <2>2
<1>2. CInv => OldFilesSurvive
  BY <1>1 DEF OldFilesSurvive
<1> QED
  BY <1>2, CrashInvariance, PTL

\* After the crash they are found by name and can be opened, and again: the
\* inode is one, its index block too, and no block is sector 0
\* (inode.c:113-132, directory.c:74-108).
THEOREM OldFilesAreReadable == CSpec => []OldFilesReadable
<1>1. ASSUME CInv, crashed, NEW f \in base
      PROVE  Listed(f.entry.name) /\ ~Broken(f.entry.name)
  <2>1. Dead
    BY <1>1 DEF CInv
  <2>2. PICK e, n, s : e = f.entry /\ n = e.name /\ s = e.sector
    OBVIOUS
  <2>3. /\ e \in root /\ \A x \in root : x.name = n => x = e
        /\ Readable(e, disk) /\ n \notin dangling
    BY <2>1, <2>2 DEF Dead
  <2>4. EntryOf(n) = e /\ Listed(n)
    BY <2>2, <2>3 DEF EntryOf, Listed
  <2>5. s \in Sectors
    BY <2>1, <2>2, <2>3 DEF Dead, TypeOK, Entries
  <2>6. PICK x : x = disk[s]
    OBVIOUS
  <2>7. x \in Inodes /\ Indexed(x, disk) /\ Full(x, disk)
    BY <2>2, <2>3, <2>6 DEF Readable
  <2>8. InodeOf(n) = x
    BY <2>1, <2>2, <2>4, <2>5, <2>6 DEF InodeOf, InodeAt, Dead, Mirrors
  <2>9. /\ x.kind = "inode"
        /\ x.index # None => disk[x.index].kind = "index"
    BY <2>7, InodeType, IndexType DEF Indexed
  <2>10. None \notin SectorsOf(x, disk)
    BY <2>7, SectorsOfFacts DEF Full
  <2>11. ~Broken(n)
    BY <2>2, <2>3, <2>4, <2>6, <2>8, <2>9, <2>10 DEF Broken
  <2> QED
    BY <2>2, <2>4, <2>11
<1>2. CInv => OldFilesReadable
  BY <1>1 DEF OldFilesReadable
<1> QED
  BY <1>2, CrashInvariance, PTL

=============================================================================
