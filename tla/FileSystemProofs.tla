-------------------------- MODULE FileSystemProofs --------------------------
(***************************************************************************)
(* Proofs about FileSystem, for any disk, directory, file table and sizes. *)
(***************************************************************************)
EXTENDS FileSystem, FiniteSetTheorems, WellFoundedInduction, SequenceTheorems, TLAPS

\* The header of the file at entry i of the directory, and its sectors.
HeaderOf(i) == disk[table[i].sector]
DataOf(i) == Range(HeaderOf(i).dataSectors)
Mine(i) == {table[i].sector} \cup DataOf(i)

\* A listed file has a header in its first sector and data in the others, which
\* are different sectors.
Listing ==
  \A i \in Used : /\ HeaderOf(i) \in Header /\ table[i].sector \notin DataOf(i)
                  /\ IsInjective(HeaderOf(i).dataSectors)
                  /\ \A s \in DataOf(i) : disk[s] \in DataSector

\* The marked sectors are those of the system and of the listed files, and
\* each of them has one owner.
Marks ==
  /\ \A s \in Sector : s \in freeMap <=> s \in FormattedMap \/ \E i \in Used : s \in Mine(i)
  /\ \A i \in Used : Mine(i) \cap FormattedMap = {}
  /\ \A i, j \in Used : i # j => Mine(i) \cap Mine(j) = {}

UniqueNames == \A i, j \in Used : table[i].name = table[j].name => i = j

\* An open file has the name and the header of a listed one.
Handles ==
  \A h \in Handle : IsOpen(h) =>
    \E i \in Used : table[i].name = file[h].of /\ HeaderOf(i) = file[h].hdr

IInv == TypeOK /\ Listing /\ Marks /\ UniqueNames /\ Handles
-----------------------------------------------------------------------------
(* Arithmetic of bytes and sectors *)

LEMMA Constants ==
  /\ SectorSize \in Nat \ {0} /\ NumSectors \in Nat \ {0} /\ NumDirEntries \in Nat \ {0}
  /\ NumDirect \in Nat \ {0} /\ NumSlots \in Nat \ {0}
  /\ Size \subseteq Nat /\ Count \subseteq Nat
  /\ FreeMapFileSize \in Nat /\ DirectoryFileSize \in Nat
BY FileSystemAssumption

\* A byte is in one sector, at one place.
LEMMA DivMod ==
  ASSUME NEW s \in Nat \ {0}, NEW a \in Nat
  PROVE  /\ a \div s \in Nat /\ a % s \in 0 .. s - 1
         /\ a = (a \div s) * s + (a % s)
OBVIOUS

LEMMA DivUnique ==
  ASSUME NEW s \in Nat \ {0}, NEW n \in Nat, NEW r \in 0 .. s - 1
  PROVE  (n * s + r) \div s = n /\ (n * s + r) % s = r
OBVIOUS

LEMMA ProductGrows ==
  ASSUME NEW s \in Nat \ {0}, NEW n \in Nat, NEW m \in Nat, n < m
  PROVE  n * s + s <= m * s
OBVIOUS

LEMMA DivMonotone ==
  ASSUME NEW s \in Nat \ {0}, NEW a \in Nat, NEW b \in Nat, a <= b
  PROVE  a \div s <= b \div s
<1>1. /\ a \div s \in Nat /\ (a \div s) * s <= a
      /\ b \div s \in Nat /\ b < (b \div s) * s + s
  BY DivMod
<1>2. CASE b \div s < a \div s
  <2>1. (b \div s) * s + s <= (a \div s) * s
    BY <1>1, <1>2, ProductGrows
  <2>2. (b \div s) * s \in Nat /\ (a \div s) * s \in Nat
    BY <1>1
  <2> QED BY <1>1, <2>1, <2>2
<1> QED BY <1>1, <1>2

LEMMA RoundUp ==
  ASSUME NEW s \in Nat \ {0}, NEW n \in Nat
  PROVE  /\ DivRoundUp(n, s) \in Nat
         /\ \A j \in 0 .. n - 1 : j \div s < DivRoundUp(n, s)
         /\ \A m \in Nat : DivRoundUp(n, s) > m => n > m * s
<1> DEFINE d == DivRoundUp(n, s)
<1>1. n + s - 1 \in Nat
  OBVIOUS
<1>2. d \in Nat /\ d * s <= n + s - 1 /\ n + s - 1 < d * s + s
  BY <1>1, DivMod DEF DivRoundUp
<1> HIDE DEF d
<1>3. ASSUME NEW j \in 0 .. n - 1 PROVE j \div s < d
  <2>1. j \div s \in Nat /\ (j \div s) * s <= j
    BY DivMod
  <2>2. d \in Nat /\ j < d * s
    BY <1>2
  <2>3. CASE d < j \div s
    BY <2>1, <2>2, <2>3, ProductGrows
  <2>4. CASE d = j \div s
    BY <2>1, <2>2, <2>4
  <2> QED BY <2>1, <2>2, <2>3, <2>4
<1>4. ASSUME NEW m \in Nat, d > m PROVE n > m * s
  <2>1. m * s + s <= d * s
    BY <1>2, <1>4, ProductGrows
  <2>2. m * s \in Nat /\ d * s \in Nat
    BY <1>2
  <2> QED BY <1>2, <2>1, <2>2
<1> QED BY <1>2, <1>3, <1>4 DEF d
-----------------------------------------------------------------------------
(* Least elements and ranks *)

\* A set of natural numbers that is not empty has a least one.
LEMMA Least ==
  ASSUME NEW S \in SUBSET Nat, S # {}
  PROVE  Min(S) \in S /\ \A y \in S : Min(S) <= y
<1>1. \A y \in S : y \in Nat
  OBVIOUS
<1>2. PICK x \in S : \A y \in S : ~ (<<y, x>> \in OpToRel(<, Nat))
  BY <1>1, NatLessThanWellFounded, WFMin
<1>3. \A y \in S : ~ (y < x)
  BY <1>1, <1>2 DEF OpToRel
<1>4. \A y \in S : x <= y
  BY <1>1, <1>3
<1> QED BY <1>4 DEF Min

LEMMA MinOfTwo ==
  ASSUME NEW a \in Nat, NEW b \in Nat
  PROVE  Min({a, b}) = IF a <= b THEN a ELSE b
<1>1. Min({a, b}) \in {a, b} /\ \A y \in {a, b} : Min({a, b}) <= y
  BY Least
<1> QED BY <1>1

\* Every i below the number of elements of a finite set of numbers is the rank
\* of one of them.
LEMMA Ranks ==
  ASSUME NEW S \in SUBSET Nat, IsFiniteSet(S), NEW i \in 0 .. Cardinality(S) - 1
  PROVE  \E s \in S : Cardinality({r \in S : r < s}) = i
<1> DEFINE below(s) == {r \in S : r < s}
           rank == [s \in S |-> Cardinality(below(s))]
           T == 0 .. Cardinality(S) - 1
<1>1. Cardinality(S) \in Nat
  BY FS_CardinalityType
<1>2. \A s \in S : /\ IsFiniteSet(below(s)) /\ Cardinality(below(s)) \in Nat
                   /\ Cardinality(below(s)) < Cardinality(S)
  <2> TAKE s \in S
  <2>1. below(s) \subseteq S /\ below(s) # S
    OBVIOUS
  <2> QED BY <2>1, FS_Subset, FS_CardinalityType
<1>3. ASSUME NEW s \in S, NEW t \in S, s < t
      PROVE  rank[s] < rank[t]
  <2>1. below(s) \subseteq below(t) /\ s \in below(t) /\ s \notin below(s)
    <3>1. \A r \in S : r \in Nat
      OBVIOUS
    <3>2. \A r \in S : r < s => r < t
      BY <1>3, <3>1
    <3>3. ~ (s < s)
      BY <3>1
    <3> QED BY <1>3, <3>2, <3>3
  <2>2. /\ IsFiniteSet(below(t)) /\ below(s) # below(t)
        /\ Cardinality(below(s)) \in Nat /\ Cardinality(below(t)) \in Nat
    BY <1>2, <2>1
  <2> HIDE DEF below
  <2>3. Cardinality(below(s)) < Cardinality(below(t))
    BY <2>1, <2>2, FS_Subset
  <2> QED BY <2>3
<1>4. rank \in Injection(S, T)
  <2>1. rank \in [S -> T]
    BY <1>1, <1>2
  <2>2. \A s, t \in S : s # t => rank[s] # rank[t]
    <3> SUFFICES ASSUME NEW s \in S, NEW t \in S, s # t PROVE rank[s] # rank[t]
      OBVIOUS
    <3>1. s < t \/ t < s
      OBVIOUS
    <3>2. rank[s] \in Nat /\ rank[t] \in Nat
      BY <1>2
    <3> HIDE DEF rank
    <3> QED BY <1>3, <3>1, <3>2
  <2> HIDE DEF rank
  <2> QED BY <2>1, <2>2 DEF Injection, IsInjective
<1>5. IsFiniteSet(T) /\ Cardinality(T) = Cardinality(S)
  BY <1>1, FS_Interval
<1>6. rank \in Surjection(S, T)
  BY <1>4, <1>5, FS_Injection
<1> QED BY <1>6 DEF Surjection
-----------------------------------------------------------------------------
(* Bitmap, headers and directory *)

LEMMA Sectors ==
  /\ Sector \subseteq Nat /\ IsFiniteSet(Sector) /\ Cardinality(Sector) = NumSectors
  /\ \A S \in SUBSET Sector : IsFiniteSet(S) /\ Cardinality(S) \in Nat
                               /\ NumClear(S) = NumSectors - Cardinality(S)
<1>1. Sector \subseteq Nat
  BY Constants DEF Sector
<1>2. IsFiniteSet(Sector) /\ Cardinality(Sector) = NumSectors
  BY Constants, FS_Interval DEF Sector
<1>3. ASSUME NEW S \in SUBSET Sector
      PROVE  IsFiniteSet(S) /\ Cardinality(S) \in Nat /\ NumClear(S) = NumSectors - Cardinality(S)
  <2>1. IsFiniteSet(S) /\ Cardinality(S) \in Nat
    BY <1>2, FS_Subset, FS_CardinalityType
  <2>2. Cardinality(Sector \ S) = Cardinality(Sector) - Cardinality(Sector \cap S)
    BY <1>2, FS_Difference
  <2>3. Sector \cap S = S
    OBVIOUS
  <2> QED BY <1>2, <2>1, <2>2, <2>3 DEF NumClear
<1> QED BY <1>1, <1>2, <1>3

\* FindFreeSlot returns different sectors, none of them marked.
LEMMA FoundSlots ==
  ASSUME NEW map \in SUBSET Sector, NEW k \in Nat, k <= NumClear(map), NEW q,
         q = FindFreeSlots(map, k)
  PROVE  /\ q \in Seq(Sector) /\ Len(q) = k /\ IsInjective(q) /\ DOMAIN q = 1 .. k
         /\ Range(q) \subseteq Sector \ map
<1> DEFINE clear == Sector \ map
           rank(s) == Cardinality({r \in clear : r < s})
<1>1. q = [i \in 1 .. k |-> CHOOSE s \in clear : rank(s) = i - 1]
  BY DEF FindFreeSlots
<1>2. clear \in SUBSET Nat /\ IsFiniteSet(clear) /\ NumClear(map) = Cardinality(clear)
      /\ Cardinality(clear) \in Nat
  BY Sectors DEF NumClear
<1>3. \A i \in 1 .. k : \E s \in clear : rank(s) = i - 1
  <2> TAKE i \in 1 .. k
  <2>1. i - 1 \in 0 .. Cardinality(clear) - 1
    BY <1>2
  <2> QED BY <1>2, <2>1, Ranks
<1> HIDE DEF clear, rank
<1>4. \A i \in 1 .. k : q[i] \in clear /\ rank(q[i]) = i - 1
  BY <1>1, <1>3
<1>5. q \in [1 .. k -> Sector]
  BY <1>1, <1>4 DEF clear
<1>6. q \in Seq(Sector) /\ Len(q) = k /\ DOMAIN q = 1 .. k
  BY <1>5, IsASeq, LenProperties
<1>7. IsInjective(q)
  BY <1>4, <1>6 DEF IsInjective
<1>8. Range(q) \subseteq clear
  BY <1>4, <1>6 DEF Range
<1> QED BY <1>6, <1>7, <1>8 DEF clear

\* An injective sequence has as many elements as its length.
LEMMA InjectiveLen ==
  ASSUME NEW q \in Seq(Sector), IsInjective(q)
  PROVE  IsFiniteSet(Range(q)) /\ Cardinality(Range(q)) = Len(q)
<1>1. DOMAIN q = 1 .. Len(q) /\ Len(q) \in Nat /\ q \in [1 .. Len(q) -> Sector]
  BY LenProperties
<1>2. q \in Injection(1 .. Len(q), Range(q)) /\ q \in Surjection(1 .. Len(q), Range(q))
  BY <1>1 DEF Injection, Surjection, Range
<1>3. IsFiniteSet(1 .. Len(q)) /\ Cardinality(1 .. Len(q)) = Len(q)
  BY <1>1, FS_Interval
<1> QED BY <1>2, <1>3, FS_Surjection

\* The bitmap of a new disk marks sectors of the disk.
LEMMA Formatted == FormattedMap \in SUBSET Sector
<1> DEFINE d1 == DivRoundUp(FreeMapFileSize, SectorSize)
           d2 == DivRoundUp(DirectoryFileSize, SectorSize)
           q1 == FindFreeSlots({0, 1}, d1)
           map2 == {0, 1} \cup Range(q1)
           q2 == FindFreeSlots(map2, d2)
<1>1. d1 \in Nat /\ d2 \in Nat /\ 2 + d1 + d2 <= NumSectors
  BY Constants, RoundUp, FormatAssumption
<1> HIDE DEF d1, d2
<1>2. {0, 1} \in SUBSET Sector /\ Cardinality({0, 1}) = 2
  <2>1. {0, 1} = {0} \cup {1} /\ Cardinality({0}) = 1 /\ IsFiniteSet({0})
    BY FS_Singleton
  <2>2. Cardinality({0} \cup {1}) = 2
    BY <2>1, FS_AddElement
  <2> QED BY <1>1, <2>1, <2>2, Constants DEF Sector
<1>3. d1 <= NumClear({0, 1})
  BY <1>1, <1>2, Sectors, Constants
<1>4. /\ q1 \in Seq(Sector) /\ Len(q1) = d1 /\ IsInjective(q1)
      /\ Range(q1) \subseteq Sector \ {0, 1}
  BY <1>1, <1>2, <1>3, FoundSlots
<1> HIDE DEF q1
<1>5. map2 \in SUBSET Sector /\ Cardinality(map2) = 2 + d1
  <2>1. IsFiniteSet(Range(q1)) /\ Cardinality(Range(q1)) = d1
    BY <1>4, InjectiveLen
  <2>2. IsFiniteSet({0, 1}) /\ {0, 1} \cap Range(q1) = {} /\ Cardinality({}) = 0
    BY <1>2, <1>4, Sectors, FS_EmptySet
  <2>3. Cardinality(map2) = 2 + d1 - 0
    BY <1>2, <2>1, <2>2, FS_Union
  <2> QED BY <1>1, <1>2, <1>4, <2>3
<1>6. d2 <= NumClear(map2)
  BY <1>1, <1>5, Sectors, Constants
<1> HIDE DEF map2
<1>7. Range(q2) \subseteq Sector
  BY <1>1, <1>5, <1>6, FoundSlots
<1>8. FormattedMap = map2 \cup Range(q2)
  BY DEF FormattedMap, Allocate, map2, q1, d1, d2
<1> QED BY <1>5, <1>7, <1>8

\* Headers and data are told apart.
LEMMA Kinds ==
  /\ \A x \in Header : /\ x.numBytes \in Nat /\ x.numBytes \in Size /\ x.dataSectors \in Seq(Sector)
                        /\ "numBytes" \in DOMAIN x
                        /\ Len(x.dataSectors) = DivRoundUp(x.numBytes, SectorSize)
                        /\ DOMAIN x.dataSectors = 1 .. Len(x.dataSectors)
                        /\ Range(x.dataSectors) \subseteq Sector
  /\ \A x \in DataSector : "numBytes" \notin DOMAIN x
  /\ \A x \in OpenFile : x.hdr \in Header /\ x.seekPosition \in Nat /\ x.of \in Name
                          /\ x # Absent /\ x # Gone
  /\ \A x \in Entry : x.name \in Name /\ x.sector \in Sector /\ x # Absent
<1>1. ASSUME NEW x \in Header
      PROVE  /\ x.numBytes \in Nat /\ x.numBytes \in Size /\ x.dataSectors \in Seq(Sector)
             /\ "numBytes" \in DOMAIN x
             /\ Len(x.dataSectors) = DivRoundUp(x.numBytes, SectorSize)
             /\ DOMAIN x.dataSectors = 1 .. Len(x.dataSectors)
             /\ Range(x.dataSectors) \subseteq Sector
  <2>1. /\ x \in [numBytes : Size, dataSectors : Seq(Sector)]
        /\ Len(x.dataSectors) = DivRoundUp(x.numBytes, SectorSize)
    BY DEF Header
  <2>2. DOMAIN x.dataSectors = 1 .. Len(x.dataSectors) /\ Range(x.dataSectors) \subseteq Sector
    BY <2>1, LenProperties DEF Range
  <2> QED BY <2>1, <2>2, Constants
<1>2. \A x \in DataSector : "numBytes" \notin DOMAIN x
  BY DEF DataSector
<1>3. \A x \in OpenFile : x.hdr \in Header /\ x.seekPosition \in Nat /\ x.of \in Name
                          /\ x # Absent /\ x # Gone
  BY MarkAssumption DEF OpenFile
<1>4. \A x \in Entry : x.name \in Name /\ x.sector \in Sector /\ x # Absent
  BY MarkAssumption DEF Entry
<1> QED BY <1>1, <1>2, <1>3, <1>4

LEMMA UsedEntry ==
  ASSUME TypeOK
  PROVE  /\ Used \subseteq 1 .. NumDirEntries /\ DOMAIN table = 1 .. NumDirEntries
         /\ \A i \in 1 .. NumDirEntries : i \in Used <=> table[i] # Absent
         /\ \A i \in Used : /\ table[i] \in Entry /\ table[i].name \in Name
                            /\ table[i].sector \in Sector
BY Kinds DEF TypeOK, Used, Unused

\* FindIndex finds the only entry with a name.
LEMMA FoundIndex ==
  ASSUME TypeOK, UniqueNames, NEW n \in Name
  PROVE  /\ FindIndex(n) = {i \in Used : table[i].name = n}
         /\ \A i \in Used : table[i].name = n =>
              FindIndex(n) = {i} /\ Min(FindIndex(n)) = i /\ Find(n) = table[i].sector
<1>1. FindIndex(n) = {i \in Used : table[i].name = n}
  BY UsedEntry DEF FindIndex
<1>2. ASSUME NEW i \in Used, table[i].name = n
      PROVE  FindIndex(n) = {i} /\ Min(FindIndex(n)) = i /\ Find(n) = table[i].sector
  <2>1. FindIndex(n) = {i}
    BY <1>1, <1>2 DEF UniqueNames
  <2>2. i \in Nat
    BY UsedEntry, Constants
  <2>3. Min({i}) = i
    BY <2>2, Least
  <2> QED BY <2>1, <2>3 DEF Find
<1> QED BY <1>1, <1>2
-----------------------------------------------------------------------------
(* The sectors that a write changes *)

LEMMA ClippedTransfer ==
  ASSUME NEW f \in OpenFile, NEW k \in Nat
  PROVE  LET c == Clipped(f, k) IN
         /\ c \in Nat /\ c <= k
         /\ c > 0 => f.seekPosition + c <= f.hdr.numBytes
         /\ c = 0 => k = 0 \/ f.seekPosition >= f.hdr.numBytes
         /\ c < k /\ f.seekPosition < f.hdr.numBytes => f.seekPosition + c = f.hdr.numBytes
<1>1. f.seekPosition \in Nat /\ f.hdr.numBytes \in Nat
  BY Kinds
<1>2. CASE k <= 0 \/ f.seekPosition >= f.hdr.numBytes
  <2>1. Clipped(f, k) = 0
    BY <1>2 DEF Clipped
  <2> QED BY <1>1, <1>2, <2>1
<1>3. CASE ~ (k <= 0 \/ f.seekPosition >= f.hdr.numBytes)
  <2>1. f.hdr.numBytes - f.seekPosition \in Nat
    BY <1>1, <1>3
  <2>2. Clipped(f, k) = Min({k, f.hdr.numBytes - f.seekPosition})
    BY <1>3 DEF Clipped
  <2>3. Clipped(f, k) = IF k <= f.hdr.numBytes - f.seekPosition
                        THEN k ELSE f.hdr.numBytes - f.seekPosition
    BY <2>1, <2>2, MinOfTwo
  <2> QED BY <1>1, <1>3, <2>3
<1> QED BY <1>2, <1>3

\* The sector of a byte is one of the file's.
LEMMA ByteInFile ==
  ASSUME NEW hdr \in Header, NEW j \in 0 .. hdr.numBytes - 1
  PROVE  /\ j \div SectorSize \in Nat /\ (j \div SectorSize) + 1 \in DOMAIN hdr.dataSectors
         /\ ByteToSector(hdr, j) \in Range(hdr.dataSectors)
         /\ ByteToSector(hdr, j) = hdr.dataSectors[(j \div SectorSize) + 1]
         /\ j % SectorSize \in 0 .. SectorSize - 1
<1>1. hdr.numBytes \in Nat /\ DOMAIN hdr.dataSectors = 1 .. DivRoundUp(hdr.numBytes, SectorSize)
  BY Kinds
<1>2. j \div SectorSize \in Nat /\ j % SectorSize \in 0 .. SectorSize - 1
  <2>1. j \in Nat
    BY <1>1
  <2> QED BY <2>1, DivMod, Constants
<1>3. j \div SectorSize < DivRoundUp(hdr.numBytes, SectorSize) /\ DivRoundUp(hdr.numBytes, SectorSize) \in Nat
  BY <1>1, RoundUp, Constants
<1>4. (j \div SectorSize) + 1 \in DOMAIN hdr.dataSectors
  BY <1>1, <1>2, <1>3
<1> QED BY <1>2, <1>4 DEF ByteToSector, Range

\* OpenFile::WriteAt reads in every sector that it covers in part, so a byte of
\* a sector that it writes is new or was read in.
LEMMA CoveredOrReadIn ==
  ASSUME NEW from \in Nat, NEW to \in Nat, from < to, NEW j \in Nat, ~ (from <= j /\ j < to),
         NEW first, first = from \div SectorSize,
         NEW last, last = (to - 1) \div SectorSize,
         j \div SectorSize \in first .. last
  PROVE  j \div SectorSize \in
           ReadIn(first, last, from = first * SectorSize, to = (last + 1) * SectorSize)
<1> DEFINE n == j \div SectorSize
           S == SectorSize
<1>1. S \in Nat \ {0}
  BY Constants
<1>2. to - 1 \in Nat
  OBVIOUS
<1>3. first \in Nat /\ first * S <= from /\ from < first * S + S
  BY <1>1, DivMod
<1>4. last \in Nat /\ last * S <= to - 1 /\ to - 1 < last * S + S
  <2> DEFINE e == to - 1
  <2>1. e \in Nat
    OBVIOUS
  <2> HIDE DEF e
  <2>2. e \div S \in Nat /\ (e \div S) * S <= e /\ e < (e \div S) * S + S
    BY <1>1, <2>1, DivMod
  <2> QED BY <2>2 DEF e
<1>5. n \in Nat /\ n * S <= j /\ j < n * S + S /\ n \in first .. last
  BY <1>1, DivMod
<1> HIDE DEF n, S
<1>6. CASE j < from
  <2>1. n = first
    <3>1. CASE first < n
      <4>1. first * S + S <= n * S
        BY <1>1, <1>3, <1>5, <3>1, ProductGrows
      <4>2. first * S \in Nat /\ n * S \in Nat
        BY <1>1, <1>3, <1>5
      <4> QED BY <1>1, <1>3, <1>5, <1>6, <4>1, <4>2
    <3> QED BY <1>3, <1>5, <3>1
  <2>2. from # first * S
    BY <1>5, <1>6, <2>1
  <2> QED BY <2>1, <2>2 DEF ReadIn, n, S
<1>7. CASE to <= j
  <2>1. n = last
    <3>1. CASE n < last
      <4>1. n * S + S <= last * S
        BY <1>1, <1>4, <1>5, <3>1, ProductGrows
      <4>2. last * S \in Nat /\ n * S \in Nat
        BY <1>1, <1>4, <1>5
      <4> QED BY <1>1, <1>4, <1>5, <1>7, <4>1, <4>2
    <3> QED BY <1>4, <1>5, <3>1
  <2>2. (last + 1) * S = last * S + S /\ last * S \in Nat
    BY <1>1, <1>4
  <2>3. to # (last + 1) * S
    BY <1>1, <1>5, <1>7, <2>1, <2>2
  <2> QED BY <2>1, <2>3 DEF ReadIn, n, S
<1> QED BY <1>6, <1>7

LEMMA WriteEffect ==
  ASSUME TypeOK, NEW f \in OpenFile, NEW k \in Nat, NEW b \in Byte, NEW garbage \in Byte,
         IsInjective(f.hdr.dataSectors),
         \A s \in Range(f.hdr.dataSectors) : disk[s] \in DataSector,
         NEW d, d = WriteAt(f, k, b, garbage)
  PROVE  /\ d \in [Sector -> Header \cup DataSector]
         /\ \A s \in Sector \ Range(f.hdr.dataSectors) : d[s] = disk[s]
         /\ \A s \in Range(f.hdr.dataSectors) : d[s] \in DataSector
         /\ \A j \in 0 .. f.hdr.numBytes - 1 :
              d[ByteToSector(f.hdr, j)].bytes[j % SectorSize] =
                IF f.seekPosition <= j /\ j < f.seekPosition + Clipped(f, k) THEN b
                ELSE disk[ByteToSector(f.hdr, j)].bytes[j % SectorSize]
<1> DEFINE q == f.hdr.dataSectors
           N == f.hdr.numBytes
           S == SectorSize
           from == f.seekPosition
           to == from + Clipped(f, k)
           first == from \div S
           last == (to - 1) \div S
           old == ReadIn(first, last, from = first * S, to = (last + 1) * S)
           Byt(i, s) == CASE from <= i /\ i < to -> b
                          [] ~ (from <= i /\ i < to) /\ i \div S \in old
                               /\ i < N -> disk[s].bytes[i % S]
                          [] OTHER -> garbage
           hit(s) == {n \in first .. last : q[n + 1] = s}
           new(s) == [bytes |-> [i \in 0 .. S - 1 |-> Byt(Min(hit(s)) * S + i, s)]]
<1>1. /\ S \in Nat \ {0} /\ from \in Nat /\ N \in Nat /\ Clipped(f, k) \in Nat
      /\ f.hdr \in Header /\ q \in Seq(Sector) /\ Range(q) \subseteq Sector
      /\ disk \in [Sector -> Header \cup DataSector]
  BY Constants, Kinds, ClippedTransfer DEF TypeOK
<1>2. CASE Clipped(f, k) = 0
  <2>1. d = disk
    <3>1. from = from + Clipped(f, k)
      BY <1>1, <1>2
    <3> QED BY <3>1 DEF WriteAt
  <2>2. \A j \in 0 .. N - 1 : ~ (from <= j /\ j < from + Clipped(f, k))
    BY <1>1, <1>2
  <2> QED BY <1>1, <2>1, <2>2
<1>3. CASE Clipped(f, k) # 0
  <2>1. d = [s \in Sector |-> IF hit(s) = {} THEN disk[s] ELSE new(s)]
    <3>1. d = IF from = to THEN disk
              ELSE [s \in Sector |-> IF hit(s) = {} THEN disk[s] ELSE new(s)]
      BY Zenon DEF WriteAt
    <3>2. from # to
      BY <1>1, <1>3
    <3> HIDE DEF from, to
    <3> QED BY <3>1, <3>2
  <2>2. to \in Nat /\ from < to /\ to <= N
    <3>1. Clipped(f, k) > 0 => from + Clipped(f, k) <= N
      BY ClippedTransfer
    <3> QED BY <1>1, <1>3, <3>1
  <2>3. first \in Nat /\ last \in Nat
    <3> DEFINE e == to - 1
    <3> HIDE DEF to
    <3>1. e \in Nat
      BY <1>1, <2>2
    <3> HIDE DEF e
    <3>2. e \div S \in Nat /\ from \div S \in Nat
      BY <1>1, <3>1, DivMod
    <3> QED BY <3>2 DEF e
  <2>4. \A n \in first .. last : n \in Nat /\ n + 1 \in DOMAIN q
    <3>1. to - 1 \in 0 .. f.hdr.numBytes - 1
      BY <1>1, <2>2
    <3>2. last + 1 \in DOMAIN q /\ DOMAIN q = 1 .. Len(q)
      BY <1>1, <3>1, ByteInFile, Kinds
    <3>3. Len(q) \in Nat
      BY <1>1, LenProperties
    <3> QED BY <2>3, <3>2, <3>3
  <2> HIDE DEF q, N, S, from, to, first, last, old, Byt
  <2>5. ASSUME NEW s \in Sector, NEW n \in Nat, NEW i \in 0 .. S - 1, s \in Range(q)
        PROVE  Byt(n * S + i, s) \in Byte
    <3>1. disk[s] \in DataSector
      BY <2>5 DEF q
    <3>2. (n * S + i) % S = i
      BY <1>1, DivUnique
    <3>3. disk[s].bytes[i] \in Byte
      BY <3>1, <2>5 DEF DataSector, S
    <3> QED BY <3>2, <3>3 DEF Byt
  <2>6. \A s \in Sector : s \notin Range(q) => hit(s) = {}
    BY <2>4 DEF Range
  <2>7. ASSUME NEW s \in Sector, hit(s) # {} PROVE d[s] \in DataSector
    <3>1. hit(s) \in SUBSET Nat
      BY <2>4
    <3>2. Min(hit(s)) \in Nat
      BY <2>7, <3>1, Least
    <3>3. s \in Range(q)
      BY <2>6, <2>7
    <3>4. \A i \in 0 .. S - 1 : Byt(Min(hit(s)) * S + i, s) \in Byte
      BY <2>5, <3>2, <3>3
    <3>5. d[s] = new(s)
      BY <2>1, <2>7
    <3> QED BY <3>4, <3>5 DEF DataSector, S
  <2>8. \A s \in Range(q) : d[s] \in DataSector
    <3> TAKE s \in Range(q)
    <3>1. s \in Sector /\ disk[s] \in DataSector
      BY <1>1 DEF q
    <3>2. CASE hit(s) = {}
      <4>1. d[s] = disk[s]
        BY <2>1, <3>1, <3>2
      <4> QED BY <3>1, <4>1
    <3> QED BY <2>7, <3>1, <3>2
  <2>9. \A s \in Sector \ Range(q) : d[s] = disk[s]
    BY <2>1, <2>6
  <2>10. d \in [Sector -> Header \cup DataSector]
    <3>1. \A s \in Sector : d[s] \in Header \cup DataSector
      BY <1>1, <2>8, <2>9
    <3>2. DOMAIN d = Sector /\ d = [s \in Sector |-> d[s]]
      BY <2>1
    <3> QED BY <3>1, <3>2
  <2>11. ASSUME NEW j \in 0 .. N - 1
         PROVE  d[ByteToSector(f.hdr, j)].bytes[j % S] =
                  IF from <= j /\ j < to THEN b ELSE disk[ByteToSector(f.hdr, j)].bytes[j % S]
    <3> DEFINE n == j \div S
               s == q[n + 1]
    <3>1. /\ n \in Nat /\ n + 1 \in DOMAIN q /\ s \in Range(q) /\ ByteToSector(f.hdr, j) = s
          /\ j % S \in 0 .. S - 1 /\ s \in Sector /\ j \in Nat
      <4>1. j \in 0 .. f.hdr.numBytes - 1
        BY <2>11 DEF N
      <4>2. /\ n \in Nat /\ n + 1 \in DOMAIN q /\ s \in Range(q) /\ ByteToSector(f.hdr, j) = s
            /\ j % S \in 0 .. S - 1
        BY <1>1, <4>1, ByteInFile DEF q, S
      <4> QED BY <1>1, <2>11, <4>2
    <3>2. j = n * S + (j % S)
      BY <1>1, <3>1, DivMod
    <3> HIDE DEF n, s
    <3>3. CASE n \in first .. last
      <4>1. hit(s) = {n}
        <5>1. \A m \in first .. last : q[m + 1] = s => m = n
          BY <2>4, <3>1 DEF IsInjective, s, q
        <5> QED BY <3>3, <5>1 DEF s
      <4>2. Min(hit(s)) = n
        BY <3>1, <4>1, Least
      <4>3. d[s] = new(s)
        <5>1. hit(s) # {}
          BY <4>1
        <5> HIDE DEF hit, new
        <5> QED BY <2>1, <3>1, <5>1
      <4>4. d[s].bytes[j % S] = Byt(Min(hit(s)) * S + (j % S), s)
        BY <3>1, <4>3
      <4>5. d[s].bytes[j % S] = Byt(j, s)
        BY <3>2, <4>2, <4>4
      <4>6. CASE from <= j /\ j < to
        BY <3>1, <4>5, <4>6 DEF Byt
      <4>7. CASE ~ (from <= j /\ j < to)
        <5>1. n \in old
          BY <1>1, <2>2, <3>1, <3>3, <4>7, CoveredOrReadIn DEF old, n, S, first, last
        <5>2. j < N
          BY <1>1, <2>11
        <5> QED BY <3>1, <4>5, <4>7, <5>1, <5>2 DEF Byt, n
      <4> QED BY <4>6, <4>7
    <3>4. CASE n \notin first .. last
      <4>1. hit(s) = {}
        BY <2>4, <3>1, <3>4 DEF IsInjective, s, q
      <4>2. d[s] = disk[s]
        BY <2>1, <3>1, <4>1
      <4>3. ~ (from <= j /\ j < to)
        <5> SUFFICES ASSUME from <= j, j < to PROVE FALSE
          OBVIOUS
        <5>1. first <= n
          BY <1>1, <3>1, DivMonotone DEF first, n
        <5>2. j <= to - 1 /\ to - 1 \in Nat
          BY <2>2, <3>1
        <5>3. n <= last
          BY <1>1, <3>1, <5>2, DivMonotone DEF last, n
        <5> QED BY <2>3, <3>1, <3>4, <5>1, <5>3
      <4> QED BY <3>1, <4>2, <4>3
    <3> QED BY <3>3, <3>4
  <2> QED BY <2>8, <2>9, <2>10, <2>11 DEF q, N, S, from, to
<1> QED BY <1>2, <1>3
-----------------------------------------------------------------------------
(* The invariant *)

LEMMA FileSectors ==
  ASSUME IInv, NEW i \in Used
  PROVE  /\ i \in 1 .. NumDirEntries /\ table[i] \in Entry /\ table[i].name \in Name
         /\ table[i].sector \in Sector /\ HeaderOf(i) \in Header
         /\ table[i].sector \notin DataOf(i) /\ IsInjective(HeaderOf(i).dataSectors)
         /\ \A s \in DataOf(i) : disk[s] \in DataSector
         /\ Mine(i) \subseteq Sector /\ Mine(i) \subseteq freeMap /\ DataOf(i) \subseteq Mine(i)
         /\ table[i].sector \in Mine(i) /\ Mine(i) \cap FormattedMap = {}
         /\ \A j \in Used : i # j => Mine(i) \cap Mine(j) = {}
<1>1. TypeOK /\ Listing /\ Marks
  BY DEF IInv
<1>2. /\ i \in 1 .. NumDirEntries /\ table[i] \in Entry /\ table[i].name \in Name
      /\ table[i].sector \in Sector
  BY <1>1, UsedEntry
<1>3. /\ HeaderOf(i) \in Header /\ table[i].sector \notin DataOf(i)
      /\ IsInjective(HeaderOf(i).dataSectors)
      /\ \A s \in DataOf(i) : disk[s] \in DataSector
  BY <1>1 DEF Listing
<1>4. Mine(i) \subseteq Sector
  BY <1>2, <1>3, Kinds DEF Mine, DataOf
<1> QED BY <1>1, <1>2, <1>3, <1>4 DEF Marks, Mine

LEMMA InitInv == Init => IInv
<1> SUFFICES ASSUME Init PROVE IInv
  OBVIOUS
<1>1. TypeOK
  <2>1. PICK b \in Byte : disk = [s \in Sector |-> Data(b)]
    BY DEF Init
  <2>2. Data(b) \in DataSector
    BY DEF Data, DataSector
  <2>3. disk \in [Sector -> Header \cup DataSector]
    BY <2>1, <2>2
  <2> QED BY <2>3, Formatted DEF Init, TypeOK
<1>2. Used = {}
  BY DEF Init, Used, Unused
<1>3. \A h \in Handle : ~ IsOpen(h)
  BY DEF Init, IsOpen
<1>4. freeMap = FormattedMap
  BY DEF Init
<1> QED BY <1>1, <1>2, <1>3, <1>4 DEF IInv, Listing, Marks, UniqueNames, Handles

\* A step that changes only handles.
LEMMA SameDisk ==
  ASSUME IInv, UNCHANGED <<disk, freeMap, table>>, lost' \in BOOLEAN,
         file' \in [Handle -> OpenFile \cup {Absent, Gone}],
         \A h \in Handle : file'[h] \notin {Absent, Gone} =>
           \E i \in Used : table[i].name = file'[h].of /\ HeaderOf(i) = file'[h].hdr
  PROVE  IInv'
<1>1. Used' = Used
  BY DEF Used, Unused
<1>2. \A i : HeaderOf(i)' = HeaderOf(i) /\ DataOf(i)' = DataOf(i) /\ Mine(i)' = Mine(i)
  BY DEF HeaderOf, DataOf, Mine
<1>3. TypeOK'
  BY DEF IInv, TypeOK
<1>4. Listing'
  <2>1. Listing
    BY DEF IInv
  <2> QED BY <1>1, <1>2, <2>1 DEF Listing
<1>5. Marks'
  <2>1. Marks
    BY DEF IInv
  <2> QED BY <1>1, <1>2, <2>1 DEF Marks
<1>6. UniqueNames'
  BY <1>1 DEF IInv, UniqueNames
<1>7. Handles'
  BY <1>1, <1>2 DEF Handles, IsOpen
<1> QED BY <1>3, <1>4, <1>5, <1>6, <1>7 DEF IInv

LEMMA OpenStep ==
  ASSUME IInv, NEW n \in Name, NEW h \in Handle, Open(n, h)
  PROVE  IInv'
<1>1. TypeOK /\ UniqueNames /\ Handles
  BY DEF IInv
<1>2. PICK i \in Used : table[i].name = n
  BY <1>1, FoundIndex DEF Open
<1>3. NewOpenFile(n) = [hdr |-> HeaderOf(i), seekPosition |-> 0, of |-> n]
  BY <1>1, <1>2, FoundIndex DEF NewOpenFile, HeaderOf
<1>4. NewOpenFile(n) \in OpenFile
  BY <1>3, FileSectors DEF OpenFile
<1>5. file' = [file EXCEPT ![h] = NewOpenFile(n)] /\ file \in [Handle -> OpenFile \cup {Absent, Gone}]
  BY <1>1 DEF Open, TypeOK
<1>6. file' \in [Handle -> OpenFile \cup {Absent, Gone}]
  BY <1>4, <1>5
<1>7. ASSUME NEW g \in Handle, file'[g] \notin {Absent, Gone}
      PROVE  \E j \in Used : table[j].name = file'[g].of /\ HeaderOf(j) = file'[g].hdr
  <2>1. CASE g = h
    BY <1>2, <1>3, <1>5, <2>1
  <2>2. CASE g # h
    <3>1. file'[g] = file[g]
      BY <1>5, <2>2
    <3> QED BY <1>1, <1>7, <3>1 DEF Handles, IsOpen
  <2> QED BY <2>1, <2>2
<1>8. UNCHANGED <<disk, freeMap, table>> /\ lost' \in BOOLEAN
  BY <1>1 DEF Open, TypeOK
<1> QED BY <1>6, <1>7, <1>8, SameDisk

LEMMA CloseStep ==
  ASSUME IInv, NEW h \in Handle, Close(h)
  PROVE  IInv'
<1>1. TypeOK /\ Handles
  BY DEF IInv
<1>2. file' = [file EXCEPT ![h] = Absent] /\ file \in [Handle -> OpenFile \cup {Absent, Gone}]
  BY <1>1 DEF Close, TypeOK
<1>3. file' \in [Handle -> OpenFile \cup {Absent, Gone}]
  BY <1>2
<1>4. ASSUME NEW g \in Handle, file'[g] \notin {Absent, Gone}
      PROVE  \E j \in Used : table[j].name = file'[g].of /\ HeaderOf(j) = file'[g].hdr
  <2>1. file'[g] = file[g]
    BY <1>2, <1>4
  <2> QED BY <1>1, <1>4, <2>1 DEF Handles, IsOpen
<1>5. UNCHANGED <<disk, freeMap, table>> /\ lost' \in BOOLEAN
  BY <1>1 DEF Close, TypeOK
<1> QED BY <1>3, <1>4, <1>5, SameDisk

\* A transfer moves the position of its handle.
LEMMA Moves ==
  ASSUME TypeOK, NEW h \in Handle, IsOpen(h), NEW k \in Count,
         file' = [file EXCEPT ![h].seekPosition = @ + Clipped(file[h], k)]
  PROVE  /\ file[h] \in OpenFile
         /\ file' \in [Handle -> OpenFile \cup {Absent, Gone}]
         /\ file'[h].of = file[h].of /\ file'[h].hdr = file[h].hdr
         /\ file'[h].seekPosition = file[h].seekPosition + Clipped(file[h], k)
         /\ file'[h] \notin {Absent, Gone}
         /\ \A g \in Handle : g # h => file'[g] = file[g]
<1>1. file \in [Handle -> OpenFile \cup {Absent, Gone}] /\ file[h] \in OpenFile
  BY DEF TypeOK, IsOpen
<1>2. Clipped(file[h], k) \in Nat
  BY <1>1, ClippedTransfer, Constants
<1>3. file[h].hdr \in Header /\ file[h].seekPosition \in Nat /\ file[h].of \in Name
  BY <1>1, Kinds
<1>4. file'[h] = [file[h] EXCEPT !.seekPosition = @ + Clipped(file[h], k)]
  BY <1>1
<1>5. file'[h] = [hdr |-> file[h].hdr, of |-> file[h].of,
                  seekPosition |-> file[h].seekPosition + Clipped(file[h], k)]
  BY <1>1, <1>4 DEF OpenFile
<1>6. file[h].seekPosition + Clipped(file[h], k) \in Nat
  BY <1>2, <1>3
<1>7. file'[h] \in OpenFile
  BY <1>3, <1>5, <1>6 DEF OpenFile
<1>8. \A g \in Handle : g # h => file'[g] = file[g]
  BY <1>1
<1>9. file' \in [Handle -> OpenFile \cup {Absent, Gone}]
  <2>1. DOMAIN file' = Handle /\ file' = [g \in Handle |-> file'[g]]
    BY <1>1
  <2>2. \A g \in Handle : file'[g] \in OpenFile \cup {Absent, Gone}
    BY <1>1, <1>7, <1>8
  <2> QED BY <2>1, <2>2
<1> QED BY <1>1, <1>5, <1>7, <1>8, <1>9, Kinds

LEMMA ReadStep ==
  ASSUME IInv, NEW h \in Handle, NEW k \in Count, Read(h, k)
  PROVE  IInv'
<1>1. TypeOK /\ Handles /\ IsOpen(h)
  BY DEF IInv, Read
<1>2. file' = [file EXCEPT ![h].seekPosition = @ + Clipped(file[h], k)]
  BY DEF Read
<1>3. /\ file' \in [Handle -> OpenFile \cup {Absent, Gone}]
      /\ file'[h].of = file[h].of /\ file'[h].hdr = file[h].hdr
      /\ \A g \in Handle : g # h => file'[g] = file[g]
  BY <1>1, <1>2, Moves
<1>4. ASSUME NEW g \in Handle, file'[g] \notin {Absent, Gone}
      PROVE  \E j \in Used : table[j].name = file'[g].of /\ HeaderOf(j) = file'[g].hdr
  <2>1. IsOpen(g) /\ file'[g].of = file[g].of /\ file'[g].hdr = file[g].hdr
    BY <1>1, <1>3, <1>4 DEF IsOpen
  <2> QED BY <1>1, <2>1 DEF Handles
<1>5. UNCHANGED <<disk, freeMap, table>> /\ lost' \in BOOLEAN
  BY <1>1 DEF Read, TypeOK
<1> QED BY <1>3, <1>4, <1>5, SameDisk

\* A write changes the sectors of its own file only, and no header.
LEMMA WriteStep ==
  ASSUME IInv, NEW h \in Handle, NEW k \in Count, NEW b \in Byte, Write(h, k, b)
  PROVE  IInv'
<1>1. TypeOK /\ Listing /\ Marks /\ Handles /\ IsOpen(h) /\ k \in Nat
  BY Constants DEF IInv, Write
<1>2. file' = [file EXCEPT ![h].seekPosition = @ + Clipped(file[h], k)]
  BY DEF Write
<1>3. /\ file[h] \in OpenFile
      /\ file' \in [Handle -> OpenFile \cup {Absent, Gone}]
      /\ file'[h].of = file[h].of /\ file'[h].hdr = file[h].hdr
      /\ \A g \in Handle : g # h => file'[g] = file[g]
  BY <1>1, <1>2, Moves
<1>4. PICK i \in Used : HeaderOf(i) = file[h].hdr
  BY <1>1 DEF Handles
<1>5. PICK garbage \in Byte : disk' = WriteAt(file[h], k, b, garbage)
  BY DEF Write
<1>6. /\ disk' \in [Sector -> Header \cup DataSector]
      /\ \A s \in Sector \ DataOf(i) : disk'[s] = disk[s]
      /\ \A s \in DataOf(i) : disk'[s] \in DataSector
  <2>1. IsInjective(file[h].hdr.dataSectors) /\ Range(file[h].hdr.dataSectors) = DataOf(i)
        /\ \A s \in DataOf(i) : disk[s] \in DataSector
    BY <1>4, FileSectors DEF DataOf
  <2> QED BY <1>1, <1>3, <1>5, <2>1, WriteEffect
<1>7. Used' = Used /\ UNCHANGED <<freeMap, table, lost>>
  BY DEF Write, Used, Unused
<1>8. \A j \in Used : table[j].sector \in Sector \ DataOf(i)
  <2> TAKE j \in Used
  <2>1. CASE j = i
    BY <2>1, FileSectors
  <2>2. CASE j # i
    BY <2>2, FileSectors
  <2> QED BY <2>1, <2>2
<1>9. \A j \in Used : HeaderOf(j)' = HeaderOf(j) /\ DataOf(j)' = DataOf(j) /\ Mine(j)' = Mine(j)
  BY <1>6, <1>7, <1>8 DEF HeaderOf, DataOf, Mine
<1>10. TypeOK'
  BY <1>1, <1>3, <1>6, <1>7 DEF TypeOK
<1>11. Listing'
  <2> SUFFICES ASSUME NEW j \in Used, NEW s \in DataOf(j) PROVE disk'[s] \in DataSector
    BY <1>1, <1>7, <1>9 DEF Listing
  <2>1. s \in Sector /\ disk[s] \in DataSector
    BY FileSectors
  <2> QED BY <1>6, <2>1
<1>12. Marks'
  BY <1>1, <1>7, <1>9 DEF Marks
<1>13. UniqueNames'
  BY <1>7 DEF IInv, UniqueNames
<1>14. Handles'
  <2> SUFFICES ASSUME NEW g \in Handle, IsOpen(g)'
               PROVE  \E j \in Used : table[j].name = file'[g].of /\ HeaderOf(j) = file'[g].hdr
    BY <1>7, <1>9 DEF Handles
  <2>1. IsOpen(g) /\ file'[g].of = file[g].of /\ file'[g].hdr = file[g].hdr
    BY <1>1, <1>3 DEF IsOpen
  <2> QED BY <1>1, <2>1 DEF Handles
<1> QED BY <1>10, <1>11, <1>12, <1>13, <1>14 DEF IInv

\* What Create takes for a file: a sector for its header and sectors for its
\* data, which no file has, and an entry of the directory.
LEMMA Room ==
  ASSUME IInv, NEW n \in Name, NEW size \in Size, CanCreate(n, size),
         NEW hdr, hdr = Allocate(freeMap \cup {HeaderSector}, size),
         NEW q, q = hdr.dataSectors
  PROVE  /\ HeaderSector \in Sector \ freeMap
         /\ hdr \in Header /\ hdr = [numBytes |-> size, dataSectors |-> q]
         /\ IsInjective(q) /\ Len(q) = DivRoundUp(size, SectorSize)
         /\ Range(q) \subseteq Sector \ (freeMap \cup {HeaderSector})
         /\ Min(Unused) \in 1 .. NumDirEntries /\ table[Min(Unused)] = Absent
         /\ Min(Unused) \notin Used
<1> DEFINE map == freeMap \cup {HeaderSector}
           k == DivRoundUp(size, SectorSize)
<1>1. TypeOK /\ freeMap \in SUBSET Sector /\ size \in Nat
  BY Constants DEF IInv, TypeOK
<1>2. HeaderSector \in Sector \ freeMap
  <2>1. NumClear(freeMap) >= 1
    <3>1. NumClear(freeMap) > 0 /\ NumClear(freeMap) \in Int
      BY <1>1, Sectors, Constants DEF CanCreate
    <3> QED BY <3>1
  <2>2. 1 \in DOMAIN FindFreeSlots(freeMap, 1) /\ Range(FindFreeSlots(freeMap, 1)) \subseteq Sector \ freeMap
    BY <1>1, <2>1, FoundSlots
  <2> QED BY <2>2 DEF HeaderSector, Range
<1>3. map \in SUBSET Sector /\ k \in Nat /\ k <= NumClear(map)
  <2>1. k \in Nat
    BY <1>1, RoundUp, Constants
  <2>2. map \in SUBSET Sector
    BY <1>1, <1>2
  <2>3. NumClear(map) \in Int /\ NumClear(map) >= k
    BY <2>2, Sectors, Constants DEF CanCreate, CanAllocate
  <2> HIDE DEF k, map
  <2> QED BY <2>1, <2>2, <2>3
<1>4. q = FindFreeSlots(map, k) /\ hdr = [numBytes |-> size, dataSectors |-> q]
  BY DEF Allocate
<1> HIDE DEF map, k
<1>5. q \in Seq(Sector) /\ Len(q) = k /\ IsInjective(q) /\ Range(q) \subseteq Sector \ map
  BY <1>3, <1>4, FoundSlots
<1>6. hdr \in Header
  BY <1>4, <1>5 DEF Header, k
<1>7. Min(Unused) \in Unused
  <2>1. Unused \in SUBSET Nat /\ Unused # {}
    BY <1>1, UsedEntry, Constants DEF Unused, CanCreate
  <2> QED BY <2>1, Least
<1>8. Min(Unused) \in 1 .. NumDirEntries /\ table[Min(Unused)] = Absent
  BY <1>1, <1>7, UsedEntry DEF Unused
<1> QED BY <1>2, <1>4, <1>5, <1>6, <1>7, <1>8 DEF map, k, Used

\* The disk after Create: its header, its sectors as data, all else as before.
LEMMA Formats ==
  ASSUME TypeOK, NEW q, Range(q) \subseteq Sector, NEW s0 \in Sector \ Range(q),
         NEW b \in Byte, NEW hdr \in Header,
         disk' = [AsData(q, b) EXCEPT ![s0] = hdr]
  PROVE  /\ disk' \in [Sector -> Header \cup DataSector]
         /\ disk'[s0] = hdr
         /\ \A s \in Range(q) : disk'[s] \in DataSector
         /\ \A s \in Sector : s \notin Range(q) \cup {s0} => disk'[s] = disk[s]
<1>1. disk \in [Sector -> Header \cup DataSector]
  BY DEF TypeOK
<1>2. Data(b) \in DataSector
  BY DEF Data, DataSector
<1>3. \A s \in Sector : disk'[s] = IF s = s0 THEN hdr ELSE AsData(q, b)[s]
  BY DEF AsData
<1>4. \A s \in Range(q) : AsData(q, b)[s] \in DataSector
  <2> TAKE s \in Range(q)
  <2>1. CASE "numBytes" \in DOMAIN disk[s]
    BY <1>2, <2>1 DEF AsData
  <2>2. CASE "numBytes" \notin DOMAIN disk[s]
    <3>1. disk[s] \in DataSector
      BY <1>1, <2>2, Kinds
    <3> QED BY <2>2, <3>1 DEF AsData
  <2> QED BY <2>1, <2>2
<1>5. \A s \in Sector : s \notin Range(q) => AsData(q, b)[s] = disk[s]
  BY DEF AsData
<1>6. \A s \in Sector : disk'[s] \in Header \cup DataSector
  <2> TAKE s \in Sector
  <2>1. disk[s] \in Header \cup DataSector
    BY <1>1
  <2> QED BY <1>3, <1>4, <1>5, <2>1
<1>7. disk' = [s \in Sector |-> disk'[s]]
  BY DEF AsData
<1>8. disk' \in [Sector -> Header \cup DataSector]
  BY <1>6, <1>7
<1> QED BY <1>3, <1>4, <1>5, <1>8

\* What a successful Create does.
LEMMA CreateEffect ==
  ASSUME IInv, NEW n \in Name, NEW size \in Size, CanCreate(n, size),
         NEW hdr, hdr = Allocate(freeMap \cup {HeaderSector}, size),
         NEW u, u = Min(Unused), WriteBack(n, hdr)
  PROVE  /\ u \in 1 .. NumDirEntries /\ u \notin Used /\ Used' = Used \cup {u}
         /\ table' \in [1 .. NumDirEntries -> Entry \cup {Absent}]
         /\ table'[u] = [name |-> n, sector |-> HeaderSector]
         /\ \A i \in Used : /\ table'[i] = table[i] /\ HeaderOf(i)' = HeaderOf(i)
                            /\ DataOf(i)' = DataOf(i) /\ Mine(i)' = Mine(i)
         /\ HeaderOf(u)' = hdr /\ DataOf(u)' = Range(hdr.dataSectors)
         /\ Mine(u)' = {HeaderSector} \cup Range(hdr.dataSectors)
         /\ Mine(u)' \subseteq Sector \ freeMap
         /\ freeMap' = freeMap \cup Mine(u)'
         /\ disk' \in [Sector -> Header \cup DataSector]
         /\ \A s \in Range(hdr.dataSectors) : disk'[s] \in DataSector
         /\ \A s \in freeMap : disk'[s] = disk[s]
<1> DEFINE q == hdr.dataSectors
           s0 == HeaderSector
<1>1. TypeOK /\ freeMap \in SUBSET Sector /\ table \in [1 .. NumDirEntries -> Entry \cup {Absent}]
  BY DEF IInv, TypeOK
<1>2. /\ s0 \in Sector \ freeMap /\ hdr \in Header
      /\ Range(q) \subseteq Sector \ (freeMap \cup {s0})
      /\ u \in 1 .. NumDirEntries /\ table[u] = Absent /\ u \notin Used
  BY Room
<1>3. PICK b \in Byte : disk' = [AsData(q, b) EXCEPT ![s0] = hdr]
  BY DEF WriteBack, WriteHeader
<1> HIDE DEF q, s0
<1>4. /\ disk' \in [Sector -> Header \cup DataSector]
      /\ disk'[s0] = hdr
      /\ \A s \in Range(q) : disk'[s] \in DataSector
      /\ \A s \in Sector : s \notin Range(q) \cup {s0} => disk'[s] = disk[s]
  BY <1>1, <1>2, <1>3, Formats
<1>5. \A s \in freeMap : disk'[s] = disk[s]
  BY <1>1, <1>2, <1>4
<1>6. table' = [table EXCEPT ![u] = [name |-> n, sector |-> s0]]
  BY DEF WriteBack, WriteDirectory, Added, s0
<1>7. [name |-> n, sector |-> s0] \in Entry
  BY <1>2 DEF Entry
<1>8. /\ table' \in [1 .. NumDirEntries -> Entry \cup {Absent}]
      /\ table'[u] = [name |-> n, sector |-> s0]
      /\ \A i \in 1 .. NumDirEntries : i # u => table'[i] = table[i]
  BY <1>1, <1>2, <1>6, <1>7
<1>9. Used' = Used \cup {u}
  <2>1. table'[u] # Absent
    BY <1>7, <1>8, Kinds
  <2>2. Used' = {i \in 1 .. NumDirEntries : table'[i] # Absent}
    BY <1>8 DEF Used, Unused
  <2>3. Used = {i \in 1 .. NumDirEntries : table[i] # Absent}
    BY <1>1 DEF Used, Unused
  <2> QED BY <1>2, <1>8, <2>1, <2>2, <2>3
<1>10. ASSUME NEW i \in Used
      PROVE  /\ table'[i] = table[i] /\ HeaderOf(i)' = HeaderOf(i)
             /\ DataOf(i)' = DataOf(i) /\ Mine(i)' = Mine(i)
  <2>1. table[i].sector \in freeMap /\ i \in 1 .. NumDirEntries /\ i # u
    BY <1>2, FileSectors
  <2>2. table'[i] = table[i]
    BY <1>8, <2>1
  <2>3. HeaderOf(i)' = HeaderOf(i)
    BY <1>5, <2>1, <2>2 DEF HeaderOf
  <2> QED BY <2>2, <2>3 DEF DataOf, Mine
<1>11. table'[u].sector = s0
  BY <1>8
<1>12. HeaderOf(u)' = hdr
  BY <1>4, <1>11 DEF HeaderOf
<1>13. DataOf(u)' = Range(q) /\ Mine(u)' = {s0} \cup Range(q)
  BY <1>11, <1>12 DEF DataOf, Mine, q
<1>14. freeMap' = freeMap \cup {s0} \cup Range(q)
  BY DEF WriteBack, WriteMap, s0, q
<1> QED BY <1>2, <1>4, <1>5, <1>8, <1>9, <1>10, <1>12, <1>13, <1>14 DEF q, s0

LEMMA CreateStep ==
  ASSUME IInv, NEW n \in Name, NEW size \in Size, Create(n, size)
  PROVE  IInv'
<1> DEFINE hdr == Allocate(freeMap \cup {HeaderSector}, size)
<1>1. PICK u : u = Min(Unused)
  OBVIOUS
<1>2. CASE ~ (Len(hdr.dataSectors) <= NumDirect)
  <2>1. UNCHANGED <<disk, freeMap, table, file>> /\ lost' \in BOOLEAN
    BY <1>2 DEF Create
  <2>2. file' \in [Handle -> OpenFile \cup {Absent, Gone}] /\ Handles
    BY <2>1 DEF IInv, TypeOK
  <2> QED BY <2>1, <2>2, SameDisk DEF Handles, IsOpen
<1>3. CASE Len(hdr.dataSectors) <= NumDirect
  <2>1. /\ TypeOK /\ Listing /\ Marks /\ UniqueNames /\ Handles /\ freeMap \in SUBSET Sector
        /\ file \in [Handle -> OpenFile \cup {Absent, Gone}] /\ lost \in BOOLEAN
    BY DEF IInv, TypeOK
  <2>2. CanCreate(n, size) /\ WriteBack(n, hdr)
    BY <1>3 DEF Create
  <2>3. UNCHANGED <<file, lost>> /\ FindIndex(n) = {}
    BY <2>2 DEF WriteBack, CanCreate
  <2>4. /\ hdr \in Header /\ IsInjective(hdr.dataSectors)
        /\ HeaderSector \notin Range(hdr.dataSectors)
    BY <2>2, Room
  <2>5. /\ u \in 1 .. NumDirEntries /\ u \notin Used /\ Used' = Used \cup {u}
        /\ table' \in [1 .. NumDirEntries -> Entry \cup {Absent}]
        /\ table'[u] = [name |-> n, sector |-> HeaderSector]
        /\ \A i \in Used : /\ table'[i] = table[i] /\ HeaderOf(i)' = HeaderOf(i)
                           /\ DataOf(i)' = DataOf(i) /\ Mine(i)' = Mine(i)
        /\ HeaderOf(u)' = hdr /\ DataOf(u)' = Range(hdr.dataSectors)
        /\ Mine(u)' = {HeaderSector} \cup Range(hdr.dataSectors)
        /\ Mine(u)' \subseteq Sector \ freeMap
        /\ freeMap' = freeMap \cup Mine(u)'
        /\ disk' \in [Sector -> Header \cup DataSector]
        /\ \A s \in Range(hdr.dataSectors) : disk'[s] \in DataSector
        /\ \A s \in freeMap : disk'[s] = disk[s]
    BY <1>1, <2>2, CreateEffect
  <2> HIDE DEF hdr
  <2>6. TypeOK'
    BY <2>1, <2>3, <2>5 DEF TypeOK
  <2>7. Listing'
    <3> SUFFICES ASSUME NEW i \in Used'
                 PROVE  /\ HeaderOf(i)' \in Header /\ table'[i].sector \notin DataOf(i)'
                        /\ IsInjective(HeaderOf(i)'.dataSectors)
                        /\ \A s \in DataOf(i)' : disk'[s] \in DataSector
      BY DEF Listing
    <3>1. CASE i = u
      BY <2>4, <2>5, <3>1
    <3>2. CASE i \in Used
      BY <2>5, <3>2, FileSectors
    <3> QED BY <2>5, <3>1, <3>2
  <2>8. Marks'
    <3>1. \A i \in Used : Mine(i) \subseteq freeMap /\ Mine(i) \cap FormattedMap = {}
      BY FileSectors
    <3>2. FormattedMap \subseteq freeMap /\ FormattedMap' = FormattedMap
      BY <2>1, Formatted DEF Marks, FormattedMap
    <3>3. \A s \in Sector : s \in freeMap' <=> s \in FormattedMap \/ \E i \in Used' : s \in Mine(i)'
      BY <2>1, <2>5 DEF Marks
    <3>4. \A i \in Used' : Mine(i)' \cap FormattedMap = {}
      BY <2>5, <3>1, <3>2
    <3>5. \A i, j \in Used' : i # j => Mine(i)' \cap Mine(j)' = {}
      <4> SUFFICES ASSUME NEW i \in Used', NEW j \in Used', i # j PROVE Mine(i)' \cap Mine(j)' = {}
        OBVIOUS
      <4>1. CASE i \in Used /\ j \in Used
        BY <2>5, <4>1, FileSectors
      <4>2. CASE i = u /\ j \in Used
        BY <2>5, <3>1, <4>2
      <4>3. CASE i \in Used /\ j = u
        BY <2>5, <3>1, <4>3
      <4> QED BY <2>5, <4>1, <4>2, <4>3
    <3> QED BY <3>2, <3>3, <3>4, <3>5 DEF Marks
  <2>9. UniqueNames'
    <3>1. \A i \in Used : table[i].name # n
      BY <2>1, <2>3, FoundIndex
    <3>2. table'[u].name = n
      BY <2>5
    <3> QED BY <2>1, <2>5, <3>1, <3>2 DEF UniqueNames
  <2>10. Handles'
    <3> SUFFICES ASSUME NEW h \in Handle, IsOpen(h)
                 PROVE  \E i \in Used' : table'[i].name = file[h].of /\ HeaderOf(i)' = file[h].hdr
      BY <2>3 DEF Handles, IsOpen
    <3>1. PICK i \in Used : table[i].name = file[h].of /\ HeaderOf(i) = file[h].hdr
      BY <2>1 DEF Handles
    <3> QED BY <2>5, <3>1
  <2> QED BY <2>6, <2>7, <2>8, <2>9, <2>10 DEF IInv
<1> QED BY <1>2, <1>3

\* What a Remove of a listed file does.
LEMMA RemoveEffect ==
  ASSUME IInv, NEW n \in Name, Remove(n), NEW u \in Used, table[u].name = n
  PROVE  /\ table' = [table EXCEPT ![u] = Absent] /\ Used' = Used \ {u}
         /\ freeMap' = freeMap \ Mine(u) /\ disk' = disk /\ lost' = lost
         /\ file' = Orphaned(n) /\ result' = [ok |-> TRUE]
         /\ \A i \in Used' : /\ table'[i] = table[i] /\ HeaderOf(i)' = HeaderOf(i)
                             /\ DataOf(i)' = DataOf(i) /\ Mine(i)' = Mine(i)
<1>1. TypeOK /\ UniqueNames /\ table \in [1 .. NumDirEntries -> Entry \cup {Absent}]
  BY DEF IInv, TypeOK
<1>2. FindIndex(n) = {u} /\ Min(FindIndex(n)) = u /\ Find(n) = table[u].sector
  BY <1>1, FoundIndex
<1>3. u \in 1 .. NumDirEntries
  BY FileSectors
<1>4. /\ table' = [table EXCEPT ![u] = Absent] /\ disk' = disk /\ lost' = lost
      /\ file' = Orphaned(n) /\ result' = [ok |-> TRUE]
      /\ freeMap' = Deallocate(freeMap, disk[Find(n)]) \ {Find(n)}
  BY <1>2 DEF Remove, WriteMap, WriteDirectory, Removed
<1>5. freeMap' = freeMap \ Mine(u)
  BY <1>2, <1>4 DEF Deallocate, Mine, DataOf, HeaderOf
<1>6. Used' = Used \ {u}
  <2>1. Used' = {i \in 1 .. NumDirEntries : table'[i] # Absent}
    BY <1>1, <1>4 DEF Used, Unused
  <2>2. Used = {i \in 1 .. NumDirEntries : table[i] # Absent}
    BY <1>1 DEF Used, Unused
  <2>3. \A i \in 1 .. NumDirEntries : table'[i] = IF i = u THEN Absent ELSE table[i]
    BY <1>1, <1>3, <1>4
  <2> QED BY <2>1, <2>2, <2>3
<1>7. \A i \in Used' : table'[i] = table[i]
  BY <1>1, <1>4, <1>6, UsedEntry
<1>8. \A i \in Used' : HeaderOf(i)' = HeaderOf(i) /\ DataOf(i)' = DataOf(i) /\ Mine(i)' = Mine(i)
  BY <1>4, <1>7 DEF HeaderOf, DataOf, Mine
<1> QED BY <1>4, <1>5, <1>6, <1>7, <1>8

LEMMA RemoveStep ==
  ASSUME IInv, NEW n \in Name, Remove(n)
  PROVE  IInv'
<1>1. /\ TypeOK /\ Listing /\ Marks /\ UniqueNames /\ Handles /\ freeMap \in SUBSET Sector
      /\ file \in [Handle -> OpenFile \cup {Absent, Gone}] /\ lost \in BOOLEAN
      /\ table \in [1 .. NumDirEntries -> Entry \cup {Absent}]
      /\ disk \in [Sector -> Header \cup DataSector]
  BY DEF IInv, TypeOK
<1>2. CASE FindIndex(n) = {}
  <2>1. UNCHANGED <<disk, freeMap, table, file, lost>>
    BY <1>2 DEF Remove
  <2> QED BY <1>1, <2>1, SameDisk DEF Handles, IsOpen
<1>3. CASE FindIndex(n) # {}
  <2>1. PICK u \in Used : table[u].name = n
    BY <1>1, <1>3, FoundIndex
  <2>2. /\ table' = [table EXCEPT ![u] = Absent] /\ Used' = Used \ {u}
        /\ freeMap' = freeMap \ Mine(u) /\ disk' = disk /\ lost' = lost
        /\ file' = Orphaned(n)
        /\ \A i \in Used' : /\ table'[i] = table[i] /\ HeaderOf(i)' = HeaderOf(i)
                            /\ DataOf(i)' = DataOf(i) /\ Mine(i)' = Mine(i)
    BY <2>1, RemoveEffect
  <2>3. file' = [h \in Handle |-> IF IsOpen(h) /\ file[h].of = n THEN Gone ELSE file[h]]
    BY <2>2 DEF Orphaned
  <2>4. TypeOK'
    <3>1. file' \in [Handle -> OpenFile \cup {Absent, Gone}]
      BY <1>1, <2>3
    <3>2. table' \in [1 .. NumDirEntries -> Entry \cup {Absent}]
      BY <1>1, <2>2
    <3> QED BY <1>1, <2>2, <3>1, <3>2 DEF TypeOK
  <2>5. Listing'
    BY <1>1, <2>2 DEF Listing
  <2>6. Marks'
    <3>1. \A i \in Used' : i \in Used /\ i # u
      BY <2>2
    <3>2. Mine(u) \cap FormattedMap = {} /\ \A i \in Used' : Mine(i) \cap Mine(u) = {}
      BY <2>1, <3>1, FileSectors
    <3>3. FormattedMap' = FormattedMap
      BY DEF FormattedMap
    <3>4. \A s \in Sector : s \in freeMap' <=> s \in FormattedMap \/ \E i \in Used' : s \in Mine(i)'
      BY <1>1, <2>2, <3>1, <3>2 DEF Marks
    <3> QED BY <1>1, <2>2, <3>1, <3>3, <3>4 DEF Marks
  <2>7. UniqueNames'
    BY <1>1, <2>2 DEF UniqueNames
  <2>8. Handles'
    <3> SUFFICES ASSUME NEW h \in Handle, IsOpen(h)'
                 PROVE  \E i \in Used' : table'[i].name = file'[h].of /\ HeaderOf(i)' = file'[h].hdr
      BY DEF Handles
    <3>1. IsOpen(h) /\ file'[h] = file[h] /\ file[h].of # n
      BY <2>3 DEF IsOpen
    <3>2. PICK i \in Used : table[i].name = file[h].of /\ HeaderOf(i) = file[h].hdr
      BY <1>1, <3>1 DEF Handles
    <3>3. i \in Used'
      BY <2>1, <2>2, <3>1, <3>2
    <3> QED BY <2>2, <3>1, <3>2, <3>3
  <2> QED BY <2>4, <2>5, <2>6, <2>7, <2>8 DEF IInv
<1> QED BY <1>2, <1>3

LEMMA NextInv == IInv /\ [Next]_vars => IInv'
<1> SUFFICES ASSUME IInv, [Next]_vars PROVE IInv'
  OBVIOUS
<1>1. /\ file \in [Handle -> OpenFile \cup {Absent, Gone}] /\ Handles /\ lost \in BOOLEAN
  BY DEF IInv, TypeOK
<1>2. ASSUME UNCHANGED <<disk, freeMap, table, file>>, lost' \in BOOLEAN PROVE IInv'
  BY <1>1, <1>2, SameDisk DEF Handles, IsOpen
<1>3. CASE UNCHANGED vars
  BY <1>1, <1>2, <1>3 DEF vars
<1>4. ASSUME NEW n \in Name, NEW size \in Size, Create(n, size) PROVE IInv'
  BY <1>4, CreateStep
<1>5. ASSUME NEW n \in Name, NEW size \in Size, CreateFails(n, size) PROVE IInv'
  BY <1>1, <1>2, <1>5 DEF CreateFails
<1>6. ASSUME NEW n \in Name, NEW h \in Handle, Open(n, h) PROVE IInv'
  BY <1>6, OpenStep
<1>7. ASSUME NEW n \in Name, OpenFails(n) PROVE IInv'
  BY <1>1, <1>2, <1>7 DEF OpenFails
<1>8. ASSUME NEW n \in Name, Remove(n) PROVE IInv'
  BY <1>8, RemoveStep
<1>9. ASSUME NEW h \in Handle, Close(h) PROVE IInv'
  BY <1>9, CloseStep
<1>10. ASSUME NEW h \in Handle, UseGone(h) PROVE IInv'
  BY <1>2, <1>10 DEF UseGone
<1>11. ASSUME NEW h \in Handle, NEW k \in Count, Read(h, k) PROVE IInv'
  BY <1>11, ReadStep
<1>12. ASSUME NEW h \in Handle, NEW k \in Count, NEW b \in Byte, Write(h, k, b) PROVE IInv'
  BY <1>12, WriteStep
<1> QED BY <1>3, <1>4, <1>5, <1>6, <1>7, <1>8, <1>9, <1>10, <1>11, <1>12 DEF Next

LEMMA Invariant == Spec => []IInv
BY InitInv, NextInv, PTL DEF Spec

\* The disk holds headers and data, the directory entries and handles are well
\* formed: no call stores anything else.
THEOREM FileSystemTypes == Spec => []TypeOK
<1>1. IInv => TypeOK
  BY DEF IInv
<1> QED BY <1>1, Invariant, PTL

\* The sectors of a file, in order: its header, then its data.
LEMMA OwnedSectors ==
  ASSUME IInv, NEW i \in Used
  PROVE  /\ IsInjective(Owned(i)) /\ Range(Owned(i)) = Mine(i) /\ Owned(i) \in Seq(Sector)
         /\ Len(Owned(i)) = 1 + DivRoundUp(HeaderOf(i).numBytes, SectorSize)
<1> DEFINE s == table[i].sector
           q == HeaderOf(i).dataSectors
           o == Owned(i)
<1>1. /\ s \in Sector /\ q \in Seq(Sector) /\ IsInjective(q) /\ s \notin Range(q)
      /\ Mine(i) = {s} \cup Range(q) /\ Len(q) = DivRoundUp(HeaderOf(i).numBytes, SectorSize)
  BY FileSectors, Kinds DEF Mine, DataOf
<1>2. o = <<s>> \o q
  BY DEF Owned, HeaderOf
<1> HIDE DEF s, q, o
<1>3. Len(q) \in Nat /\ DOMAIN q = 1 .. Len(q)
  BY <1>1, LenProperties
<1>4. <<s>> \in Seq(Sector) /\ Len(<<s>>) = 1 /\ <<s>>[1] = s
  BY <1>1
<1>5. /\ o \in Seq(Sector) /\ Len(o) = 1 + Len(q) /\ o[1] = s
      /\ \A k \in 2 .. 1 + Len(q) : o[k] = q[k - 1]
  BY <1>1, <1>2, <1>3, <1>4, ConcatProperties
<1>6. DOMAIN o = 1 .. 1 + Len(q)
  BY <1>5, LenProperties
<1>7. \A k \in 2 .. 1 + Len(q) : k - 1 \in DOMAIN q
  BY <1>3
<1>8. IsInjective(o)
  <2> SUFFICES ASSUME NEW k \in DOMAIN o, NEW m \in DOMAIN o, o[k] = o[m] PROVE k = m
    BY DEF IsInjective
  <2>1. CASE k = 1 /\ m = 1
    BY <2>1
  <2>2. CASE k = 1 /\ m # 1
    <3>1. m \in 2 .. 1 + Len(q)
      BY <1>3, <1>6, <2>2
    <3> QED BY <1>1, <1>5, <1>7, <2>2, <3>1 DEF Range
  <2>3. CASE k # 1 /\ m = 1
    <3>1. k \in 2 .. 1 + Len(q)
      BY <1>3, <1>6, <2>3
    <3> QED BY <1>1, <1>5, <1>7, <2>3, <3>1 DEF Range
  <2>4. CASE k # 1 /\ m # 1
    <3>1. k \in 2 .. 1 + Len(q) /\ m \in 2 .. 1 + Len(q)
      BY <1>3, <1>6, <2>4
    <3>2. k - 1 = m - 1
      BY <1>1, <1>5, <1>7, <3>1 DEF IsInjective
    <3> QED BY <3>1, <3>2
  <2> QED BY <2>1, <2>2, <2>3, <2>4
<1>9. Range(o) = {s} \cup Range(q)
  <2>1. Range(o) \subseteq {s} \cup Range(q)
    <3> SUFFICES ASSUME NEW k \in 1 .. 1 + Len(q) PROVE o[k] \in {s} \cup Range(q)
      BY <1>6 DEF Range
    <3>1. CASE k = 1
      BY <1>5, <3>1
    <3>2. CASE k # 1
      <4>1. k \in 2 .. 1 + Len(q)
        BY <1>3, <3>2
      <4> QED BY <1>5, <1>7, <4>1 DEF Range
    <3> QED BY <3>1, <3>2
  <2>2. s \in Range(o)
    BY <1>3, <1>5, <1>6 DEF Range
  <2>3. \A k \in DOMAIN q : q[k] \in Range(o)
    <3> TAKE k \in DOMAIN q
    <3>1. k + 1 \in 2 .. 1 + Len(q) /\ k = (k + 1) - 1
      BY <1>3
    <3>2. o[k + 1] = q[k] /\ k + 1 \in DOMAIN o
      BY <1>3, <1>5, <1>6, <3>1
    <3> QED BY <3>2 DEF Range
  <2> QED BY <2>1, <2>2, <2>3 DEF Range
<1> QED BY <1>1, <1>5, <1>8, <1>9 DEF o, q

\* No sequence of calls, failed ones included, loses a sector or gives it to two
\* files: the bitmap marks what the listed files and the system own, each sector
\* has one owner, no name is listed twice, and a handle has the header of the
\* file that it was opened for.
THEOREM SectorsOwnedHolds == Spec => []SectorsOwned
<1>1. ASSUME IInv PROVE SectorsOwned
  <2>1. TypeOK /\ Marks /\ UniqueNames /\ Handles /\ freeMap \in SUBSET Sector
    BY <1>1 DEF IInv, TypeOK
  <2>2. \A i \in Used : IsInjective(Owned(i)) /\ Range(Owned(i)) = Mine(i)
    BY <1>1, OwnedSectors
  <2>3. \A i \in Used : Mine(i) \subseteq freeMap
    BY <1>1, FileSectors
  <2>4. FormattedMap \subseteq freeMap
    BY <2>1, Formatted DEF Marks
  <2>5. freeMap = FormattedMap \cup UNION {Range(Owned(i)) : i \in Used}
    BY <2>1, <2>2, <2>3, <2>4 DEF Marks
  <2>6. \A i \in Used : Range(Owned(i)) \cap FormattedMap = {}
    BY <2>1, <2>2 DEF Marks
  <2>7. \A i, j \in Used : i # j => Range(Owned(i)) \cap Range(Owned(j)) = {}
    BY <2>1, <2>2 DEF Marks
  <2>8. ASSUME NEW h \in Handle, IsOpen(h)
        PROVE  FindIndex(file[h].of) # {} /\ file[h].hdr = disk[Find(file[h].of)]
    <3>1. PICK i \in Used : table[i].name = file[h].of /\ HeaderOf(i) = file[h].hdr
      BY <2>1, <2>8 DEF Handles
    <3>2. file[h].of \in Name
      BY <1>1, <3>1, FileSectors
    <3> QED BY <2>1, <3>1, <3>2, FoundIndex DEF HeaderOf
  <2> QED BY <2>1, <2>2, <2>5, <2>6, <2>7, <2>8 DEF SectorsOwned, UniqueNames
<1> QED BY <1>1, Invariant, PTL
-----------------------------------------------------------------------------
(* The file system implements FileStore *)

\* FileStore counts and compares as FileSystem does.
LEMMA SameCounts ==
  ASSUME NEW S
  PROVE  Abstract!Cardinality(S) = Cardinality(S) /\ Abstract!Min(S) = Min(S)
BY DEF Abstract!Cardinality, Cardinality, Abstract!Min, Min

\* The contents of a listed file are as many bytes as its header says.
LEMMA ListedFile ==
  ASSUME IInv, NEW i \in Used, NEW n, n = table[i].name, NEW hdr, hdr = HeaderOf(i)
  PROVE  /\ n \in Name /\ hdr \in Header /\ hdr.numBytes \in Nat /\ hdr.numBytes \in Size
         /\ Files[n] = [k \in 1 .. hdr.numBytes |->
                          disk[ByteToSector(hdr, k - 1)].bytes[(k - 1) % SectorSize]]
         /\ Files[n] \in [1 .. hdr.numBytes -> Byte]
         /\ Files[n] \in Seq(Byte) /\ Len(Files[n]) = hdr.numBytes /\ Files[n] # Absent
<1> DEFINE c == [k \in 1 .. hdr.numBytes |->
                   disk[ByteToSector(hdr, k - 1)].bytes[(k - 1) % SectorSize]]
<1>1. TypeOK /\ UniqueNames
  BY DEF IInv
<1>2. /\ n \in Name /\ hdr \in Header /\ hdr.numBytes \in Nat /\ hdr.numBytes \in Size
  BY FileSectors, Kinds
<1>3. FindIndex(n) = {i} /\ Find(n) = table[i].sector
  BY <1>1, <1>2, FoundIndex
<1>4. disk[Find(n)] = hdr
  BY <1>3 DEF HeaderOf
<1>5. Contents(n) = c
  BY <1>3, <1>4 DEF Contents
<1>6. Files[n] = c
  BY <1>2, <1>5 DEF Files
<1>7. ASSUME NEW k \in 1 .. hdr.numBytes
      PROVE  disk[ByteToSector(hdr, k - 1)].bytes[(k - 1) % SectorSize] \in Byte
  <2> DEFINE j == k - 1
  <2>1. j \in 0 .. hdr.numBytes - 1
    BY <1>2
  <2> HIDE DEF j
  <2>2. ByteToSector(hdr, j) \in Range(hdr.dataSectors) /\ j % SectorSize \in 0 .. SectorSize - 1
    BY <1>2, <2>1, ByteInFile
  <2>3. disk[ByteToSector(hdr, j)] \in DataSector
    BY <2>2, FileSectors DEF DataOf
  <2>4. disk[ByteToSector(hdr, j)].bytes[j % SectorSize] \in Byte
    BY <2>2, <2>3 DEF DataSector
  <2> QED BY <2>4 DEF j
<1>8. c \in [1 .. hdr.numBytes -> Byte]
  BY <1>7
<1> HIDE DEF c
<1>9. c \in Seq(Byte) /\ Len(c) = hdr.numBytes
  BY <1>2, <1>8, IsASeq, LenProperties
<1>10. c # Absent
  BY <1>2, <1>8, FileSystemAssumption
<1> QED BY <1>2, <1>6, <1>8, <1>9, <1>10 DEF c

\* The names of the store are those that the directory lists.
LEMMA ListedNames ==
  ASSUME IInv, NEW n \in Name
  PROVE  /\ n \in Abstract!Listed <=> FindIndex(n) # {}
         /\ n \in Abstract!Listed <=> \E i \in Used : table[i].name = n
         /\ n \notin Abstract!Listed => Files[n] = Absent
<1>1. TypeOK /\ UniqueNames
  BY DEF IInv
<1>2. FindIndex(n) = {i \in Used : table[i].name = n}
  BY <1>1, FoundIndex
<1>3. n \in Abstract!Listed <=> Files[n] # Absent
  BY DEF Abstract!Listed
<1>4. ASSUME NEW i \in Used, table[i].name = n PROVE Files[n] # Absent
  BY <1>4, ListedFile
<1>5. ASSUME FindIndex(n) = {} PROVE Files[n] = Absent
  BY <1>5 DEF Files, Contents
<1> QED BY <1>2, <1>3, <1>4, <1>5

\* The directory has an entry for each file of the store.
LEMMA DirectoryRoom ==
  ASSUME IInv
  PROVE  Cardinality(Abstract!Listed) < NumDirEntries <=> Unused # {}
<1> DEFINE all == 1 .. NumDirEntries
           f == [i \in Used |-> table[i].name]
<1>1. TypeOK /\ UniqueNames /\ NumDirEntries \in Nat
  BY Constants DEF IInv
<1>2. IsFiniteSet(all) /\ Cardinality(all) = NumDirEntries
  BY <1>1, FS_Interval
<1>3. Used \in SUBSET all /\ DOMAIN table = all /\ Used = all \ Unused /\ Unused \subseteq all
  BY <1>1, UsedEntry DEF Used, Unused
<1>4. IsFiniteSet(Used) /\ Cardinality(Used) \in Nat /\ Cardinality(Used) <= NumDirEntries
      /\ (Cardinality(Used) = NumDirEntries => Used = all)
  BY <1>2, <1>3, FS_Subset, FS_CardinalityType
<1>5. f \in Bijection(Used, Abstract!Listed)
  <2>1. \A i \in Used : table[i].name \in Name
    BY FileSectors
  <2>2. \A i \in Used : table[i].name \in Abstract!Listed
    BY <2>1, ListedNames
  <2>3. \A n \in Abstract!Listed : \E i \in Used : table[i].name = n
    BY ListedNames DEF Abstract!Listed
  <2>4. f \in [Used -> Abstract!Listed]
    BY <2>2
  <2>5. \A i, j \in Used : f[i] = f[j] => i = j
    BY <1>1 DEF UniqueNames
  <2>6. f \in Injection(Used, Abstract!Listed)
    BY <2>4, <2>5 DEF Injection, IsInjective
  <2>7. f \in Surjection(Used, Abstract!Listed)
    BY <2>3, <2>4 DEF Surjection
  <2> QED BY <2>6, <2>7 DEF Bijection
<1>6. Cardinality(Abstract!Listed) = Cardinality(Used)
  BY <1>4, <1>5, FS_Bijection DEF ExistsBijection
<1>7. Cardinality(Used) < NumDirEntries <=> Used # all
  BY <1>1, <1>2, <1>4
<1> QED BY <1>3, <1>6, <1>7

\* The sectors that the store counts as taken are those that the bitmap marks,
\* besides the system's.
LEMMA SpaceLeft ==
  ASSUME IInv
  PROVE  Abstract!Free = NumClear(freeMap)
<1> DEFINE index(n) == CHOOSE i \in Used : table[i].name = n
           F == freeMap \ FormattedMap
           f == [x \in Abstract!Taken |-> Owned(index(x[1]))[x[2]]]
<1>1. TypeOK /\ Marks /\ freeMap \in SUBSET Sector
  BY DEF IInv, TypeOK
<1>2. ASSUME NEW n \in Abstract!Listed
      PROVE  /\ index(n) \in Used /\ table[index(n)].name = n /\ n \in Name
             /\ 1 .. Abstract!Sectors(Len(Files[n])) = DOMAIN Owned(index(n))
  <2>1. n \in Name
    BY DEF Abstract!Listed
  <2>2. index(n) \in Used /\ table[index(n)].name = n
    BY <2>1, ListedNames
  <2> HIDE DEF index
  <2>3. /\ Owned(index(n)) \in Seq(Sector)
        /\ Len(Owned(index(n))) = 1 + DivRoundUp(HeaderOf(index(n)).numBytes, SectorSize)
    BY <2>2, OwnedSectors
  <2>4. Len(Files[n]) = HeaderOf(index(n)).numBytes
    BY <2>2, ListedFile
  <2>5. DOMAIN Owned(index(n)) = 1 .. Len(Owned(index(n)))
    BY <2>3, LenProperties
  <2> QED BY <2>1, <2>2, <2>3, <2>4, <2>5 DEF Abstract!Sectors, DivRoundUp, index
<1> HIDE DEF index
<1>3. ASSUME NEW x
      PROVE  x \in Abstract!Taken <=>
               \E n \in Abstract!Listed : \E k \in DOMAIN Owned(index(n)) : x = <<n, k>>
  <2>1. x \in Abstract!Taken <=>
          \E n \in Abstract!Listed : x \in {n} \X (1 .. Abstract!Sectors(Len(Files[n])))
    BY DEF Abstract!Taken
  <2>2. \A n \in Abstract!Listed : x \in {n} \X (1 .. Abstract!Sectors(Len(Files[n]))) <=>
          \E k \in DOMAIN Owned(index(n)) : x = <<n, k>>
    <3> TAKE n \in Abstract!Listed
    <3>1. x \in {n} \X DOMAIN Owned(index(n)) <=> \E k \in DOMAIN Owned(index(n)) : x = <<n, k>>
      OBVIOUS
    <3> QED BY <1>2, <3>1
  <2> QED BY <2>1, <2>2
<1>4. f \in Bijection(Abstract!Taken, F)
  <2>1. ASSUME NEW n \in Abstract!Listed, NEW k \in DOMAIN Owned(index(n))
        PROVE  Owned(index(n))[k] \in Mine(index(n)) /\ Owned(index(n))[k] \in F
    <3>1. Owned(index(n))[k] \in Mine(index(n))
      BY <1>2, OwnedSectors DEF Range
    <3>2. Mine(index(n)) \subseteq freeMap /\ Mine(index(n)) \cap FormattedMap = {}
      BY <1>2, FileSectors
    <3> QED BY <3>1, <3>2
  <2>2. f \in [Abstract!Taken -> F]
    <3> SUFFICES ASSUME NEW x \in Abstract!Taken PROVE Owned(index(x[1]))[x[2]] \in F
      OBVIOUS
    <3>1. PICK n \in Abstract!Listed : \E k \in DOMAIN Owned(index(n)) : x = <<n, k>>
      BY <1>3
    <3>2. PICK k \in DOMAIN Owned(index(n)) : x = <<n, k>>
      BY <3>1
    <3> QED BY <2>1, <3>2
  <2>3. ASSUME NEW x \in Abstract!Taken, NEW y \in Abstract!Taken, f[x] = f[y] PROVE x = y
    <3>1. PICK n \in Abstract!Listed : \E k \in DOMAIN Owned(index(n)) : x = <<n, k>>
      BY <1>3
    <3>2. PICK k \in DOMAIN Owned(index(n)) : x = <<n, k>>
      BY <3>1
    <3>3. PICK m \in Abstract!Listed : \E l \in DOMAIN Owned(index(m)) : y = <<m, l>>
      BY <1>3
    <3>4. PICK l \in DOMAIN Owned(index(m)) : y = <<m, l>>
      BY <3>3
    <3>5. Owned(index(n))[k] = Owned(index(m))[l]
      BY <2>3, <3>2, <3>4
    <3>6. index(n) = index(m)
      BY <1>2, <2>1, <3>5, FileSectors
    <3>7. n = m
      BY <1>2, <3>6
    <3>8. k = l
      BY <1>2, <3>5, <3>6, OwnedSectors DEF IsInjective
    <3> QED BY <3>2, <3>4, <3>7, <3>8
  <2>4. ASSUME NEW s \in F PROVE \E x \in Abstract!Taken : f[x] = s
    <3>1. PICK i \in Used : s \in Mine(i)
      BY <1>1, <2>4 DEF Marks
    <3>2. PICK n \in Name : n = table[i].name /\ n \in Abstract!Listed
      BY FileSectors, ListedNames
    <3>3. index(n) = i
      BY <1>2, <3>2 DEF IInv, UniqueNames
    <3>4. PICK k \in DOMAIN Owned(index(n)) : Owned(index(n))[k] = s
      BY <3>1, <3>3, OwnedSectors DEF Range
    <3>5. <<n, k>> \in Abstract!Taken
      BY <1>3, <3>2, <3>4
    <3> QED BY <3>4, <3>5
  <2> HIDE DEF f, F
  <2>5. f \in Injection(Abstract!Taken, F)
    BY <2>2, <2>3 DEF Injection, IsInjective
  <2>6. f \in Surjection(Abstract!Taken, F)
    BY <2>2, <2>4 DEF Surjection
  <2> QED BY <2>5, <2>6 DEF Bijection
<1>5. IsFiniteSet(F) /\ Cardinality(F) = Cardinality(freeMap) - Cardinality(FormattedMap)
      /\ Cardinality(FormattedMap) \in Nat /\ Cardinality(freeMap) \in Nat
  <2>1. FormattedMap \subseteq freeMap
    BY <1>1, Formatted DEF Marks
  <2>2. freeMap \cap FormattedMap = FormattedMap
    BY <2>1
  <2>3. IsFiniteSet(freeMap) /\ Cardinality(freeMap) \in Nat /\ Cardinality(FormattedMap) \in Nat
    BY <1>1, Sectors, Formatted
  <2>4. IsFiniteSet(F) /\ Cardinality(F) = Cardinality(freeMap) - Cardinality(freeMap \cap FormattedMap)
    BY <2>3, FS_Difference
  <2> QED BY <2>2, <2>3, <2>4
<1>6. Cardinality(Abstract!Taken) = Cardinality(F)
  <2>1. f \in Injection(Abstract!Taken, F) /\ f \in Surjection(Abstract!Taken, F)
    BY <1>4 DEF Bijection
  <2> HIDE DEF f, F
  <2> QED BY <1>5, <2>1, FS_Injection
<1>7. NumClear(freeMap) = NumSectors - Cardinality(freeMap)
  BY <1>1, Sectors
<1>8. Abstract!Free = (NumSectors - Cardinality(FormattedMap)) - Cardinality(Abstract!Taken)
  BY SameCounts DEF Abstract!Free
<1> HIDE DEF F
<1> QED BY <1>5, <1>6, <1>7, <1>8, Constants

\* The bytes of the file at entry i, and what Files says of all entries.
Bytes(i) == [k \in 1 .. HeaderOf(i).numBytes |->
               disk[ByteToSector(HeaderOf(i), k - 1)].bytes[(k - 1) % SectorSize]]

FilesRight ==
  /\ \A i \in Used : /\ Files[table[i].name] = Bytes(i)
                     /\ Bytes(i) \in [1 .. HeaderOf(i).numBytes -> Byte]
                     /\ table[i].name \in Name /\ HeaderOf(i) \in Header
  /\ \A n \in Name : (\A i \in Used : table[i].name # n) => Files[n] = Absent
  /\ Files = [n \in Name |-> Files[n]]

LEMMA FilesAre == IInv => FilesRight
<1> SUFFICES ASSUME IInv PROVE FilesRight
  OBVIOUS
<1>1. ASSUME NEW i \in Used
      PROVE  /\ Files[table[i].name] = Bytes(i)
             /\ Bytes(i) \in [1 .. HeaderOf(i).numBytes -> Byte]
             /\ table[i].name \in Name /\ HeaderOf(i) \in Header
  BY ListedFile DEF Bytes
<1>2. \A n \in Name : (\A i \in Used : table[i].name # n) => Files[n] = Absent
  BY ListedNames
<1>3. Files = [n \in Name |-> Files[n]]
  BY DEF Files
<1> QED BY <1>1, <1>2, <1>3 DEF FilesRight

LEMMA FilesAreNext == IInv' => FilesRight'
BY FilesAre, PTL

LEMMA SameFiles ==
  ASSUME UNCHANGED <<disk, table>>
  PROVE  Files' = Files
BY DEF Files, Contents, FindIndex, Find

\* A file keeps its contents if its header and its sectors are left alone.
LEMMA KeptFile ==
  ASSUME IInv, IInv', NEW i \in Used, i \in Used', table'[i] = table[i],
         \A s \in Mine(i) : disk'[s] = disk[s]
  PROVE  Files'[table[i].name] = Files[table[i].name]
<1>1. HeaderOf(i)' = HeaderOf(i) /\ HeaderOf(i) \in Header
  BY FileSectors DEF HeaderOf
<1>2. ASSUME NEW k \in 1 .. HeaderOf(i).numBytes
      PROVE  disk'[ByteToSector(HeaderOf(i), k - 1)] = disk[ByteToSector(HeaderOf(i), k - 1)]
  <2> DEFINE j == k - 1
  <2>1. j \in 0 .. HeaderOf(i).numBytes - 1
    BY <1>1, Kinds
  <2> HIDE DEF j
  <2>2. ByteToSector(HeaderOf(i), j) \in DataOf(i)
    BY <1>1, <2>1, ByteInFile DEF DataOf
  <2>3. disk'[ByteToSector(HeaderOf(i), j)] = disk[ByteToSector(HeaderOf(i), j)]
    BY <2>2, FileSectors
  <2> QED BY <2>3 DEF j
<1>3. Bytes(i)' = [k \in 1 .. HeaderOf(i).numBytes |->
                     disk'[ByteToSector(HeaderOf(i), k - 1)].bytes[(k - 1) % SectorSize]]
  BY <1>1 DEF Bytes, ByteToSector
<1>4. Bytes(i)' = Bytes(i)
  BY <1>2, <1>3 DEF Bytes
<1>5. Files[table[i].name] = Bytes(i)
  BY FilesAre DEF FilesRight
<1>6. Files'[table'[i].name] = Bytes(i)'
  BY FilesAreNext DEF FilesRight
<1> QED BY <1>4, <1>5, <1>6

\* Create tests what the store tests.
LEMMA CreateTest ==
  ASSUME IInv, NEW n \in Name, NEW size \in Size
  PROVE  CanCreate(n, size) <=> /\ n \notin Abstract!Listed
                                /\ Abstract!Cardinality(Abstract!Listed) < NumDirEntries
                                /\ Abstract!Sectors(size) <= Abstract!Free
<1> DEFINE D == DivRoundUp(size, SectorSize)
           C == NumClear(freeMap)
<1>1. freeMap \in SUBSET Sector /\ size \in Nat /\ D \in Nat
  BY RoundUp, Constants DEF IInv, TypeOK
<1>2. Abstract!Sectors(size) = 1 + D /\ Abstract!Free = C
  BY SpaceLeft DEF Abstract!Sectors, DivRoundUp
<1>3. C \in Int /\ C = NumSectors - Cardinality(freeMap) /\ Cardinality(freeMap) \in Nat
  BY <1>1, Sectors, Constants
<1>4. ASSUME C > 0
      PROVE  NumClear(freeMap \cup {HeaderSector}) = C - 1
  <2>1. HeaderSector \in Sector \ freeMap
    <3>1. C >= 1
      BY <1>3, <1>4
    <3>2. 1 \in DOMAIN FindFreeSlots(freeMap, 1)
          /\ Range(FindFreeSlots(freeMap, 1)) \subseteq Sector \ freeMap
      BY <1>1, <3>1, FoundSlots
    <3> QED BY <3>2 DEF HeaderSector, Range
  <2>2. Cardinality(freeMap \cup {HeaderSector}) = Cardinality(freeMap) + 1
    BY <1>1, <2>1, Sectors, FS_AddElement
  <2>3. NumClear(freeMap \cup {HeaderSector}) = NumSectors - Cardinality(freeMap \cup {HeaderSector})
    BY <1>1, <2>1, Sectors
  <2> QED BY <1>3, <2>2, <2>3, Constants
<1>5. CanAllocate(freeMap \cup {HeaderSector}, size) <=> NumClear(freeMap \cup {HeaderSector}) >= D
  BY DEF CanAllocate
<1> HIDE DEF C, D
<1>6. C > 0 /\ CanAllocate(freeMap \cup {HeaderSector}, size) <=> 1 + D <= C
  BY <1>1, <1>3, <1>4, <1>5
<1>7. FindIndex(n) = {} <=> n \notin Abstract!Listed
  BY ListedNames
<1>8. Unused # {} <=> Abstract!Cardinality(Abstract!Listed) < NumDirEntries
  BY DirectoryRoom, SameCounts
<1> QED BY <1>2, <1>6, <1>7, <1>8 DEF CanCreate, C

LEMMA CreateFailsSim ==
  ASSUME IInv, NEW n \in Name, NEW size \in Size, CreateFails(n, size)
  PROVE  Abstract!Create(n, size)
<1>1. ~ (/\ n \notin Abstract!Listed
         /\ Abstract!Cardinality(Abstract!Listed) < NumDirEntries
         /\ Abstract!Sectors(size) <= Abstract!Free)
  BY CreateTest DEF CreateFails
<1>2. Files' = Files /\ Opened' = Opened /\ Position' = Position
  BY SameFiles DEF CreateFails, Opened, Position, IsOpen
<1> QED BY <1>1, <1>2 DEF Abstract!Create, CreateFails

LEMMA CreateSim ==
  ASSUME IInv, IInv', NEW n \in Name, NEW size \in Size, Create(n, size)
  PROVE  Abstract!Create(n, size) \/ Abstract!Lose
<1> DEFINE hdr == Allocate(freeMap \cup {HeaderSector}, size)
<1>1. CanCreate(n, size) /\ ~ lost
  BY DEF Create
<1>2. /\ n \notin Abstract!Listed
      /\ Abstract!Cardinality(Abstract!Listed) < NumDirEntries
      /\ Abstract!Sectors(size) <= Abstract!Free
  BY <1>1, CreateTest
<1>3. CASE ~ (Len(hdr.dataSectors) <= NumDirect)
  <2>1. lost' = TRUE /\ UNCHANGED <<disk, freeMap, table, file, call, result>>
    BY <1>3 DEF Create
  <2>2. Len(hdr.dataSectors) = DivRoundUp(size, SectorSize)
    BY <1>1, Room
  <2>3. size > NumDirect * SectorSize
    <3>1. DivRoundUp(size, SectorSize) \in Nat /\ DivRoundUp(size, SectorSize) > NumDirect
      BY <1>3, <2>2, RoundUp, Constants
    <3> QED BY <3>1, RoundUp, Constants
  <2>4. Files' = Files /\ Opened' = Opened /\ Position' = Position
    BY <2>1, SameFiles DEF Opened, Position, IsOpen
  <2> QED BY <1>1, <1>2, <2>1, <2>3, <2>4 DEF Abstract!Lose
<1>4. CASE Len(hdr.dataSectors) <= NumDirect
  <2>1. WriteBack(n, hdr)
    BY <1>4 DEF Create
  <2>2. PICK u : u = Min(Unused)
    OBVIOUS
  <2>3. /\ u \notin Used /\ Used' = Used \cup {u}
        /\ table'[u] = [name |-> n, sector |-> HeaderSector]
        /\ \A i \in Used : table'[i] = table[i]
        /\ HeaderOf(u)' = hdr
        /\ \A s \in freeMap : disk'[s] = disk[s]
    BY <1>1, <2>1, <2>2, CreateEffect
  <2>4. hdr.numBytes = size
    BY DEF Allocate
  <2> HIDE DEF hdr
  <2>5. Files'[n] \in [1 .. size -> Byte]
    <3>1. table'[u].name = n /\ u \in Used'
      BY <2>3
    <3>2. Files'[n] = Bytes(u)' /\ Bytes(u)' \in [1 .. HeaderOf(u)'.numBytes -> Byte]
      BY <3>1, FilesAreNext DEF FilesRight
    <3> QED BY <2>3, <2>4, <3>2
  <2>6. ASSUME NEW m \in Name, m # n PROVE Files'[m] = Files[m]
    <3>1. CASE \E i \in Used : table[i].name = m
      <4>1. PICK i \in Used : table[i].name = m
        BY <3>1
      <4>2. i \in Used' /\ table'[i] = table[i] /\ \A s \in Mine(i) : disk'[s] = disk[s]
        BY <2>3, FileSectors
      <4> QED BY <4>1, <4>2, KeptFile
    <3>2. CASE \A i \in Used : table[i].name # m
      <4>1. \A i \in Used' : table'[i].name # m
        BY <2>3, <2>6, <3>2
      <4> QED BY <3>2, <4>1, FilesAre, FilesAreNext DEF FilesRight
    <3> QED BY <3>1, <3>2
  <2>7. Files' = [Files EXCEPT ![n] = Files'[n]]
    <3>1. Files' = [m \in Name |-> Files'[m]] /\ Files = [m \in Name |-> Files[m]]
      BY FilesAre, FilesAreNext DEF FilesRight
    <3> QED BY <2>6, <3>1
  <2>8. Opened' = Opened /\ Position' = Position
    BY <2>1 DEF WriteBack, Opened, Position, IsOpen
  <2>9. call' = "Create" /\ result' = [ok |-> TRUE] /\ lost' = lost
    BY <2>1 DEF WriteBack
  <2> QED BY <1>1, <1>2, <2>5, <2>7, <2>8, <2>9 DEF Abstract!Create
<1> QED BY <1>3, <1>4

LEMMA OpenSim ==
  ASSUME IInv, NEW n \in Name, NEW h \in Handle, Open(n, h)
  PROVE  Abstract!Open(n, h)
<1>1. TypeOK /\ UniqueNames /\ file \in [Handle -> OpenFile \cup {Absent, Gone}]
  BY DEF IInv, TypeOK
<1>2. PICK i \in Used : table[i].name = n
  BY <1>1, FoundIndex DEF Open
<1>3. n \in Abstract!Listed
  BY <1>2, ListedNames
<1>4. NewOpenFile(n) \in OpenFile /\ NewOpenFile(n).of = n /\ NewOpenFile(n).seekPosition = 0
  <2>1. disk[Find(n)] \in Header
    BY <1>1, <1>2, FoundIndex, FileSectors DEF HeaderOf
  <2> QED BY <2>1 DEF NewOpenFile, OpenFile
<1>5. file' = [file EXCEPT ![h] = NewOpenFile(n)]
  BY DEF Open
<1>6. \A g \in Handle : /\ IsOpen(g)' <=> (g = h \/ IsOpen(g))
                        /\ g # h => file'[g] = file[g]
  BY <1>1, <1>4, <1>5, Kinds DEF IsOpen
<1>7. file'[h] = NewOpenFile(n)
  BY <1>1, <1>5
<1>8. Opened' = [Opened EXCEPT ![h] = n]
  BY <1>4, <1>6, <1>7 DEF Opened
<1>9. Position' = [Position EXCEPT ![h] = 0]
  BY <1>4, <1>6, <1>7 DEF Position
<1>10. Files' = Files
  BY SameFiles DEF Open
<1> QED BY <1>3, <1>8, <1>9, <1>10 DEF Abstract!Open, Open

LEMMA CloseSim ==
  ASSUME IInv, NEW h \in Handle, Close(h)
  PROVE  Abstract!Close(h)
<1>1. file \in [Handle -> OpenFile \cup {Absent, Gone}]
  BY DEF IInv, TypeOK
<1>2. file' = [file EXCEPT ![h] = Absent]
  BY DEF Close
<1>3. \A g \in Handle : /\ IsOpen(g)' <=> (g # h /\ IsOpen(g))
                        /\ g # h => file'[g] = file[g]
  BY <1>1, <1>2 DEF IsOpen
<1>4. file'[h] = Absent
  BY <1>1, <1>2
<1>5. Opened' = [Opened EXCEPT ![h] = Absent]
  BY <1>3, <1>4 DEF Opened
<1>6. Position' = [Position EXCEPT ![h] = 0]
  BY <1>3, <1>4 DEF Position
<1>7. Files' = Files
  BY SameFiles DEF Close
<1> QED BY <1>5, <1>6, <1>7 DEF Abstract!Close, Close

LEMMA RemoveSim ==
  ASSUME IInv, IInv', NEW n \in Name, Remove(n)
  PROVE  Abstract!Remove(n)
<1>1. /\ TypeOK /\ UniqueNames /\ file \in [Handle -> OpenFile \cup {Absent, Gone}]
  BY DEF IInv, TypeOK
<1>2. CASE FindIndex(n) = {}
  <2>1. UNCHANGED <<disk, freeMap, table, file>>
    BY <1>2 DEF Remove
  <2>2. Files' = Files /\ Opened' = Opened /\ Position' = Position
    BY <2>1, SameFiles DEF Opened, Position, IsOpen
  <2>3. n \notin Abstract!Listed /\ Files[n] = Absent
    BY <1>2, ListedNames
  <2>4. Files = [Files EXCEPT ![n] = Absent]
    BY <2>3 DEF Files
  <2>5. Opened = [h \in Handle |-> Opened[h]] /\ Position = [h \in Handle |-> Position[h]]
    BY DEF Opened, Position
  <2>6. call' = "Remove" /\ result' = [ok |-> FALSE] /\ ~ lost /\ lost' = lost
    BY <1>2 DEF Remove
  <2>7. (n \in Abstract!Listed) = FALSE
    BY <2>3
  <2>8. /\ Opened' = [h \in Handle |-> IF FALSE /\ Opened[h] = n THEN Gone ELSE Opened[h]]
        /\ Position' = [h \in Handle |-> IF FALSE /\ Opened[h] = n THEN 0 ELSE Position[h]]
    BY <2>2, <2>5
  <2> QED BY <2>2, <2>4, <2>6, <2>7, <2>8 DEF Abstract!Remove
<1>3. CASE FindIndex(n) # {}
  <2>1. PICK u \in Used : table[u].name = n
    BY <1>1, <1>3, FoundIndex
  <2>2. /\ Used' = Used \ {u} /\ disk' = disk /\ lost' = lost
        /\ file' = Orphaned(n) /\ result' = [ok |-> TRUE]
        /\ \A i \in Used' : table'[i] = table[i]
    BY <2>1, RemoveEffect
  <2>3. n \in Abstract!Listed
    BY <2>1, ListedNames
  <2>4. ASSUME NEW m \in Name, m # n PROVE Files'[m] = Files[m]
    <3>1. CASE \E i \in Used : table[i].name = m
      <4>1. PICK i \in Used : table[i].name = m
        BY <3>1
      <4>2. i \in Used' /\ table'[i] = table[i]
        BY <2>1, <2>2, <2>4, <4>1
      <4> QED BY <2>2, <4>1, <4>2, KeptFile
    <3>2. CASE \A i \in Used : table[i].name # m
      <4>1. \A i \in Used' : table'[i].name # m
        BY <2>2, <3>2
      <4> QED BY <3>2, <4>1, FilesAre, FilesAreNext DEF FilesRight
    <3> QED BY <3>1, <3>2
  <2>5. Files'[n] = Absent
    <3>1. \A i \in Used' : table'[i].name # n
      BY <1>1, <2>1, <2>2 DEF UniqueNames
    <3> QED BY <3>1, FilesAreNext DEF FilesRight
  <2>6. Files' = [Files EXCEPT ![n] = Absent]
    <3>1. Files' = [m \in Name |-> Files'[m]] /\ Files = [m \in Name |-> Files[m]]
      BY FilesAre, FilesAreNext DEF FilesRight
    <3> QED BY <2>4, <2>5, <3>1
  <2>7. \A h \in Handle : /\ IsOpen(h) => file[h] \in OpenFile
                          /\ ~ IsOpen(h) => file[h] \in {Absent, Gone}
    BY <1>1 DEF IsOpen
  <2>8. \A h \in Handle : Opened[h] = n <=> IsOpen(h) /\ file[h].of = n
    BY <2>7, FileSystemAssumption DEF Opened
  <2>9. \A h \in Handle : file'[h] = IF Opened[h] = n THEN Gone ELSE file[h]
    BY <2>2, <2>8 DEF Orphaned
  <2>10. \A h \in Handle : IsOpen(h)' <=> IsOpen(h) /\ Opened[h] # n
    BY <2>9 DEF IsOpen
  <2>11. Opened' = [h \in Handle |-> IF Opened[h] = n THEN Gone ELSE Opened[h]]
    <3>1. Opened' = [h \in Handle |-> IF IsOpen(h)' THEN file'[h].of ELSE file'[h]]
      BY DEF Opened
    <3>2. \A h \in Handle : Opened[h] = IF IsOpen(h) THEN file[h].of ELSE file[h]
      BY DEF Opened
    <3>3. ASSUME NEW h \in Handle
          PROVE  (IF IsOpen(h)' THEN file'[h].of ELSE file'[h])
                   = IF Opened[h] = n THEN Gone ELSE Opened[h]
      BY <2>8, <2>9, <2>10, <3>2
    <3> QED BY <3>1, <3>3
  <2>12. Position' = [h \in Handle |-> IF Opened[h] = n THEN 0 ELSE Position[h]]
    <3>1. Position' = [h \in Handle |-> IF IsOpen(h)' THEN file'[h].seekPosition ELSE 0]
      BY DEF Position
    <3>2. \A h \in Handle : Position[h] = IF IsOpen(h) THEN file[h].seekPosition ELSE 0
      BY DEF Position
    <3>3. ASSUME NEW h \in Handle
          PROVE  (IF IsOpen(h)' THEN file'[h].seekPosition ELSE 0)
                   = IF Opened[h] = n THEN 0 ELSE Position[h]
      BY <2>9, <2>10, <3>2
    <3> QED BY <3>1, <3>3
  <2>13. call' = "Remove" /\ ~ lost
    BY DEF Remove
  <2> QED BY <2>2, <2>3, <2>6, <2>11, <2>12, <2>13 DEF Abstract!Remove
<1> QED BY <1>2, <1>3

\* The bytes that a transfer reaches, in the file system and in the store.
LEMMA Transfer ==
  ASSUME IInv, NEW h \in Handle, IsOpen(h), NEW k \in Count,
         NEW f, f = file[h], NEW n, n = f.of, NEW i \in Used, table[i].name = n,
         HeaderOf(i) = f.hdr
  PROVE  /\ f \in OpenFile /\ n \in Name /\ Opened[h] = n /\ Position[h] = f.seekPosition
         /\ Abstract!Moved(h, k) = Clipped(f, k)
         /\ \A j \in 1 .. f.hdr.numBytes :
              j \in Abstract!Reached(h, k) <=>
                f.seekPosition <= j - 1 /\ j - 1 < f.seekPosition + Clipped(f, k)
<1> DEFINE p == f.seekPosition
           N == f.hdr.numBytes
           c == Clipped(f, k)
           hi == IF p + k <= N THEN p + k ELSE N
<1>1. k \in Nat /\ f \in OpenFile
  BY Constants DEF IInv, TypeOK, IsOpen
<1>2. n \in Name /\ p \in Nat /\ N \in Nat
  BY <1>1, Kinds
<1>3. Opened[h] = n /\ Position[h] = p
  BY DEF Opened, Position
<1>4. Len(Files[n]) = N
  <2>1. Len(Files[table[i].name]) = HeaderOf(i).numBytes
    BY ListedFile
  <2> QED BY <2>1
<1>5. Abstract!Reached(h, k) = p + 1 .. hi
  <2>1. Abstract!Reached(h, k) = p + 1 .. Min({p + k, N})
    BY <1>3, <1>4, SameCounts DEF Abstract!Reached
  <2>2. Min({p + k, N}) = hi
    BY <1>1, <1>2, MinOfTwo
  <2> QED BY <2>1, <2>2
<1>6. Abstract!Moved(h, k) = IF p + 1 > hi THEN 0 ELSE hi - (p + 1) + 1
  <2>1. p + 1 \in Int /\ hi \in Int
    BY <1>1, <1>2
  <2> HIDE DEF p, hi
  <2> QED BY <1>5, <2>1, SameCounts, FS_Interval DEF Abstract!Moved
<1>7. c = IF p + 1 > hi THEN 0 ELSE hi - p
  <2>1. CASE k <= 0 \/ p >= N
    <3>1. c = 0
      BY <2>1 DEF Clipped
    <3> QED BY <1>1, <1>2, <2>1, <3>1
  <2>2. CASE ~ (k <= 0 \/ p >= N)
    <3>1. N - p \in Nat
      BY <1>2, <2>2
    <3>2. c = Min({k, N - p})
      BY <2>2 DEF Clipped
    <3>3. c = IF k <= N - p THEN k ELSE N - p
      BY <1>1, <3>1, <3>2, MinOfTwo
    <3> HIDE DEF c
    <3> QED BY <1>1, <1>2, <2>2, <3>3
  <2> QED BY <2>1, <2>2
<1> HIDE DEF c, p, N
<1>8. hi \in Int
  BY <1>1, <1>2
<1>9. Abstract!Moved(h, k) = c
  BY <1>2, <1>6, <1>7, <1>8
<1>10. \A j \in 1 .. N : j \in Abstract!Reached(h, k) <=> p <= j - 1 /\ j - 1 < p + c
  BY <1>2, <1>5, <1>7, <1>8
<1> QED BY <1>1, <1>2, <1>3, <1>9, <1>10 DEF c, p, N

\* After a transfer the position of its handle has moved.
LEMMA MovedPosition ==
  ASSUME IInv, NEW h \in Handle, IsOpen(h), NEW k \in Count,
         file' = [file EXCEPT ![h].seekPosition = @ + Clipped(file[h], k)]
  PROVE  /\ Opened' = Opened
         /\ Position' = [Position EXCEPT ![h] = @ + Clipped(file[h], k)]
<1>1. TypeOK
  BY DEF IInv
<1>2. /\ file'[h].of = file[h].of
      /\ file'[h].seekPosition = file[h].seekPosition + Clipped(file[h], k)
      /\ file'[h] \notin {Absent, Gone}
      /\ \A g \in Handle : g # h => file'[g] = file[g]
  BY <1>1, Moves
<1>3. \A g \in Handle : IsOpen(g)' = IsOpen(g)
  BY <1>2 DEF IsOpen
<1>4. Opened' = Opened
  BY <1>2, <1>3 DEF Opened
<1>5. Position' = [g \in Handle |-> IF IsOpen(g) THEN file'[g].seekPosition ELSE 0]
  BY <1>3 DEF Position
<1>6. Position' = [Position EXCEPT ![h] = @ + Clipped(file[h], k)]
  <2>1. Position = [g \in Handle |-> IF IsOpen(g) THEN file[g].seekPosition ELSE 0]
    BY DEF Position
  <2>2. Position[h] = file[h].seekPosition
    BY <2>1
  <2>3. \A g \in Handle : (IF IsOpen(g) THEN file'[g].seekPosition ELSE 0) =
          IF g = h THEN Position[h] + Clipped(file[h], k) ELSE Position[g]
    BY <1>2, <2>1, <2>2
  <2> HIDE DEF IsOpen
  <2> QED BY <1>5, <2>1, <2>3
<1> QED BY <1>4, <1>6

LEMMA ReadSim ==
  ASSUME IInv, NEW h \in Handle, NEW k \in Count, Read(h, k)
  PROVE  Abstract!Read(h, k)
<1> DEFINE f == file[h]
           n == f.of
           p == f.seekPosition
           c == Clipped(f, k)
           N == f.hdr.numBytes
<1>1. Handles /\ IsOpen(h)
  BY DEF IInv, Read
<1>2. PICK i \in Used : table[i].name = f.of /\ HeaderOf(i) = f.hdr
  BY <1>1 DEF Handles
<1>3. /\ f \in OpenFile /\ n \in Name /\ Opened[h] = n /\ Position[h] = p
      /\ Abstract!Moved(h, k) = c
  BY <1>1, <1>2, Transfer
<1>4. p \in Nat /\ N \in Nat /\ c \in Nat /\ (c > 0 => p + c <= N)
  BY <1>3, Kinds, ClippedTransfer, Constants
<1>5. Opened' = Opened /\ Position' = [Position EXCEPT ![h] = @ + c]
  BY <1>1, MovedPosition DEF Read
<1>6. Files' = Files
  BY SameFiles DEF Read
<1>7. ReadAt(f, k) = SubSeq(Files[n], p + 1, p + c)
  <2>1. Files[n] = Bytes(i) /\ Bytes(i) \in [1 .. N -> Byte]
    BY <1>2, FilesAre DEF FilesRight
  <2>2. Bytes(i) = [j \in 1 .. N |-> disk[ByteToSector(f.hdr, j - 1)].bytes[(j - 1) % SectorSize]]
    BY <1>2 DEF Bytes
  <2>3. ReadAt(f, k) = [j \in 1 .. c |->
          disk[ByteToSector(f.hdr, p + j - 1)].bytes[(p + j - 1) % SectorSize]]
    BY DEF ReadAt
  <2> HIDE DEF f, n, p, c, N
  <2>4. ASSUME NEW j \in 1 .. c
        PROVE  Bytes(i)[p + j] = disk[ByteToSector(f.hdr, p + j - 1)].bytes[(p + j - 1) % SectorSize]
    <3>1. PICK x : x = p + j
      OBVIOUS
    <3>2. x \in 1 .. N
      BY <1>4, <3>1
    <3>3. Bytes(i)[x] = disk[ByteToSector(f.hdr, x - 1)].bytes[(x - 1) % SectorSize]
      BY <2>2, <3>2
    <3>4. x - 1 = p + j - 1
      BY <1>4, <3>1
    <3> QED BY <3>1, <3>3, <3>4
  <2>5. SubSeq(Files[n], p + 1, p + c) = [j \in 1 .. c |-> Bytes(i)[p + j]]
    <3>1. \A j \in p + 1 .. p + c : Bytes(i)[j] \in Byte
      <4> TAKE j \in p + 1 .. p + c
      <4>1. j \in 1 .. N
        BY <1>4
      <4> QED BY <2>1, <4>1
    <3>2. p + 1 \in Int /\ p + c \in Int
      BY <1>4
    <3> DEFINE q == SubSeq(Bytes(i), p + 1, p + c)
    <3>3. /\ q \in Seq(Byte)
          /\ Len(q) = IF p + 1 <= p + c THEN (p + c) - (p + 1) + 1 ELSE 0
          /\ \A j \in 1 .. (p + c) - (p + 1) + 1 : q[j] = Bytes(i)[p + 1 + j - 1]
      BY <3>1, <3>2, SubSeqProperties
    <3> HIDE DEF q
    <3>4. Len(q) = c /\ (p + c) - (p + 1) + 1 = c
      BY <1>4, <3>3
    <3>5. \A j \in 1 .. c : p + 1 + j - 1 = p + j
      BY <1>4
    <3>6. \A j \in 1 .. c : q[j] = Bytes(i)[p + j]
      BY <3>3, <3>4, <3>5
    <3>7. q = [j \in 1 .. c |-> q[j]]
      BY <3>3, <3>4
    <3> QED BY <2>1, <3>6, <3>7 DEF q
  <2> QED BY <2>3, <2>4, <2>5
<1>8. call' = "Read" /\ ~ lost /\ lost' = lost /\ result' = [bytes |-> ReadAt(f, k)]
  BY DEF Read
<1> HIDE DEF f, n, p, c, N
<1> QED BY <1>3, <1>5, <1>6, <1>7, <1>8 DEF Abstract!Read

LEMMA WriteSim ==
  ASSUME IInv, IInv', NEW h \in Handle, NEW k \in Count, NEW b \in Byte, Write(h, k, b)
  PROVE  Abstract!Write(h, k, b)
<1>1. TypeOK /\ Handles /\ IsOpen(h) /\ k \in Nat
  BY Constants DEF IInv, Write
<1>2. PICK f, n, p, c, N : /\ f = file[h] /\ n = f.of /\ p = f.seekPosition
                           /\ c = Clipped(f, k) /\ N = f.hdr.numBytes
  OBVIOUS
<1>3. PICK i \in Used : table[i].name = n /\ HeaderOf(i) = f.hdr
  BY <1>1, <1>2 DEF Handles
<1>4. /\ f \in OpenFile /\ n \in Name /\ Opened[h] = n /\ Position[h] = p
      /\ Abstract!Moved(h, k) = c
      /\ \A j \in 1 .. N : j \in Abstract!Reached(h, k) <=> p <= j - 1 /\ j - 1 < p + c
  BY <1>1, <1>2, <1>3, Transfer
<1>5. p \in Nat /\ N \in Nat /\ c \in Nat
  BY <1>1, <1>2, <1>4, Kinds, ClippedTransfer
<1>6. Opened' = Opened /\ Position' = [Position EXCEPT ![h] = @ + c]
  BY <1>1, <1>2, MovedPosition DEF Write
<1>7. PICK garbage \in Byte : disk' = WriteAt(f, k, b, garbage)
  BY <1>2 DEF Write
<1>8. /\ \A s \in Sector \ DataOf(i) : disk'[s] = disk[s]
      /\ \A j \in 0 .. N - 1 :
           disk'[ByteToSector(f.hdr, j)].bytes[j % SectorSize] =
             IF p <= j /\ j < p + c THEN b
             ELSE disk[ByteToSector(f.hdr, j)].bytes[j % SectorSize]
  <2>1. IsInjective(f.hdr.dataSectors) /\ Range(f.hdr.dataSectors) = DataOf(i)
        /\ \A s \in DataOf(i) : disk[s] \in DataSector
    BY <1>3, FileSectors DEF DataOf
  <2> QED BY <1>1, <1>2, <1>4, <1>7, <2>1, WriteEffect
<1>9. Used' = Used /\ UNCHANGED <<freeMap, table, lost>>
  BY DEF Write, Used, Unused
<1>10. ASSUME NEW m \in Name, m # n PROVE Files'[m] = Files[m]
  <2>1. CASE \E j \in Used : table[j].name = m
    <3>1. PICK j \in Used : table[j].name = m
      BY <2>1
    <3>2. j # i
      BY <1>3, <1>10, <3>1
    <3>3. \A s \in Mine(j) : s \in Sector \ DataOf(i)
      BY <3>2, FileSectors
    <3> QED BY <1>8, <1>9, <3>1, <3>3, KeptFile
  <2>2. CASE \A j \in Used : table[j].name # m
    BY <1>9, <2>2, FilesAre, FilesAreNext DEF FilesRight
  <2> QED BY <2>1, <2>2
<1>11. Files'[n] = [j \in 1 .. N |-> IF j \in Abstract!Reached(h, k) THEN b ELSE Files[n][j]]
  <2>1. HeaderOf(i)' = f.hdr
    <3>1. table[i].sector \in Sector \ DataOf(i)
      BY FileSectors
    <3> QED BY <1>3, <1>8, <1>9, <3>1 DEF HeaderOf
  <2>2. Files[n] = Bytes(i) /\ Bytes(i) \in [1 .. N -> Byte]
    BY <1>2, <1>3, FilesAre DEF FilesRight
  <2>3. Files'[n] = Bytes(i)'
    BY <1>3, <1>9, FilesAreNext DEF FilesRight
  <2>4. Bytes(i)' = [j \in 1 .. N |-> disk'[ByteToSector(f.hdr, j - 1)].bytes[(j - 1) % SectorSize]]
    BY <1>2, <2>1 DEF Bytes, ByteToSector
  <2>5. Bytes(i) = [j \in 1 .. N |-> disk[ByteToSector(f.hdr, j - 1)].bytes[(j - 1) % SectorSize]]
    BY <1>2, <1>3 DEF Bytes
  <2>6. ASSUME NEW j \in 1 .. N
        PROVE  disk'[ByteToSector(f.hdr, j - 1)].bytes[(j - 1) % SectorSize] =
                 IF j \in Abstract!Reached(h, k) THEN b ELSE Files[n][j]
    <3> DEFINE e == j - 1
    <3>1. e \in 0 .. N - 1
      BY <1>5
    <3>2. Files[n][j] = disk[ByteToSector(f.hdr, e)].bytes[e % SectorSize]
      BY <2>2, <2>5
    <3>3. j \in Abstract!Reached(h, k) <=> p <= e /\ e < p + c
      BY <1>4
    <3> HIDE DEF e
    <3>4. disk'[ByteToSector(f.hdr, e)].bytes[e % SectorSize] =
            IF j \in Abstract!Reached(h, k) THEN b ELSE Files[n][j]
      BY <1>8, <3>1, <3>2, <3>3
    <3> QED BY <3>4 DEF e
  <2> QED BY <2>3, <2>4, <2>6
<1>12. Files' = [Files EXCEPT ![n] = [j \in DOMAIN @ |->
                   IF j \in Abstract!Reached(h, k) THEN b ELSE @[j]]]
  <2>1. Files' = [m \in Name |-> Files'[m]] /\ Files = [m \in Name |-> Files[m]]
    BY FilesAre, FilesAreNext DEF FilesRight
  <2>2. DOMAIN Files[n] = 1 .. N
    BY <1>2, <1>3, FilesAre DEF FilesRight
  <2>3. Files'[n] = [j \in DOMAIN Files[n] |->
                       IF j \in Abstract!Reached(h, k) THEN b ELSE Files[n][j]]
    BY <1>11, <2>2
  <2> QED BY <1>4, <1>10, <2>1, <2>3
<1>13. call' = "Write" /\ result' = [count |-> c] /\ ~ lost /\ lost' = lost
  BY <1>2 DEF Write
<1> QED BY <1>4, <1>6, <1>12, <1>13 DEF Abstract!Write

\* The file system on the disk implements the store of named files, for any
\* disk, directory, sizes and sequence of calls: bytes written are the bytes
\* read, in this file and no other, Create fails exactly when there is no room
\* or the name is taken, and Remove gives back all that the file took.
THEOREM FilesAreStored == Spec => ImplementsFileStore
<1>1. Init => Abstract!Init
  <2> SUFFICES ASSUME Init PROVE Abstract!Init
    OBVIOUS
  <2>1. \A n : FindIndex(n) = {}
    BY DEF Init, FindIndex
  <2>2. Files = [n \in Name |-> Absent]
    BY <2>1 DEF Files, Contents
  <2>3. Opened = [h \in Handle |-> Absent] /\ Position = [h \in Handle |-> 0]
    BY DEF Init, Opened, Position, IsOpen
  <2> QED BY <2>2, <2>3 DEF Init, Abstract!Init
<1>2. ASSUME IInv, IInv', [Next]_vars PROVE [Abstract!Next]_(Abstract!vars)
  <2>1. CASE UNCHANGED vars
    <3>1. Files' = Files /\ Opened' = Opened /\ Position' = Position
      BY <2>1, SameFiles DEF vars, Opened, Position, IsOpen
    <3> QED BY <2>1, <3>1 DEF vars, Abstract!vars
  <2>2. ASSUME NEW n \in Name, NEW size \in Size, Create(n, size) PROVE Abstract!Next
    BY <1>2, <2>2, CreateSim DEF Abstract!Next
  <2>3. ASSUME NEW n \in Name, NEW size \in Size, CreateFails(n, size) PROVE Abstract!Next
    BY <1>2, <2>3, CreateFailsSim DEF Abstract!Next
  <2>4. ASSUME NEW n \in Name, NEW h \in Handle, Open(n, h) PROVE Abstract!Next
    BY <1>2, <2>4, OpenSim DEF Abstract!Next
  <2>5. ASSUME NEW n \in Name, OpenFails(n) PROVE Abstract!Next
    <3>1. Files' = Files /\ Opened' = Opened /\ Position' = Position
      BY <2>5, SameFiles DEF OpenFails, Opened, Position, IsOpen
    <3>2. Abstract!OpenFails
      BY <2>5, <3>1 DEF OpenFails, Abstract!OpenFails
    <3> QED BY <3>2 DEF Abstract!Next
  <2>6. ASSUME NEW n \in Name, Remove(n) PROVE Abstract!Next
    BY <1>2, <2>6, RemoveSim DEF Abstract!Next
  <2>7. ASSUME NEW h \in Handle, Close(h) PROVE Abstract!Next
    BY <1>2, <2>7, CloseSim DEF Abstract!Next
  <2>8. ASSUME NEW h \in Handle, UseGone(h) PROVE Abstract!Next
    <3>1. Files' = Files /\ Opened' = Opened /\ Position' = Position
      BY <2>8, SameFiles DEF UseGone, Opened, Position, IsOpen
    <3>2. Opened[h] = Gone
      BY <2>8 DEF UseGone, Opened, IsOpen
    <3>3. Abstract!Lose
      BY <2>8, <3>1, <3>2 DEF UseGone, Abstract!Lose
    <3> QED BY <3>3 DEF Abstract!Next
  <2>9. ASSUME NEW h \in Handle, NEW k \in Count, Read(h, k) PROVE Abstract!Next
    BY <1>2, <2>9, ReadSim DEF Abstract!Next
  <2>10. ASSUME NEW h \in Handle, NEW k \in Count, NEW b \in Byte, Write(h, k, b)
         PROVE  Abstract!Next
    BY <1>2, <2>10, WriteSim DEF Abstract!Next
  <2> QED BY <1>2, <2>1, <2>2, <2>3, <2>4, <2>5, <2>6, <2>7, <2>8, <2>9, <2>10 DEF Next
<1> QED BY <1>1, <1>2, Invariant, PTL DEF Spec, ImplementsFileStore, Abstract!Spec
=============================================================================
