----------------------------- MODULE FileSystem -----------------------------
(***************************************************************************)
(* The file system on the simulated disk (filesys/filesys.cc, directory.cc,*)
(* filehdr.cc, openfile.cc, userprog/bitmap.cc), used by one caller at a   *)
(* time: filesys.cc assumes "no concurrent access" and is not robust to an *)
(* exit in the middle of an operation, so an operation is one step.        *)
(*                                                                         *)
(* The bitmap and the directory are files in sectors that are never given  *)
(* away; they are fetched, changed in memory and written back as a whole.  *)
(* A name stands for its first FileNameMaxLen characters.  The constructor *)
(* creates "stdin" and "stdout" before the two files are open, which is an *)
(* access through an uninitialized pointer; the model starts with a disk   *)
(* formatted without them.                                                 *)
(***************************************************************************)
EXTENDS Integers, Sequences, FiniteSetsExt, Functions

CONSTANTS Name, Byte,
          Size,                 \* the sizes that callers ask for
          Count,                \* the numbers of bytes they transfer
          Type,                 \* the types of files that they open
          NumSectors, SectorSize,
          NumDirEntries,        \* 10
          NumDirect,            \* data sectors that a header can name: 30
          NumSlots,             \* N_FILES_IN_TABLE: 100
          FreeMapFileSize, DirectoryFileSize,
          Absent, Gone, Kernel

ASSUME FileSystemAssumption ==
  /\ {NumSectors, SectorSize, NumDirEntries, NumDirect, NumSlots} \subseteq Nat \ {0}
  /\ {FreeMapFileSize, DirectoryFileSize} \cup Size \cup Count \subseteq Nat
  /\ Absent \notin Name /\ Gone \notin Name /\ Absent # Gone
  /\ \A size \in Size : Absent \notin [1 .. size -> Byte]

Sector == 0 .. NumSectors - 1
Slot == 0 .. NumSlots - 1
Handle == Slot \cup {Kernel}     \* the file table, and a file the kernel has open

VARIABLES
  disk,      \* the sectors: a FileHeader, or SectorSize bytes of data
  freeMap,   \* the bitmap file: the sectors that are marked
  table,     \* the directory file: Absent, or the name and header of a file
  file,      \* the OpenFile of each handle, Absent, or Gone when it was removed
  call,      \* the last call
  result,    \* what it returned
  lost       \* history: an undefined access; the model stops

vars == <<disk, freeMap, table, file, call, result, lost>>
-----------------------------------------------------------------------------
(* Bitmap, headers and directory *)

\* BitMap::NumClear.
NumClear(map) == Cardinality(Sector \ map)

\* BitMap::FindFreeSlot, called k times: the i-th call returns the sector that
\* has i - 1 clear ones before it.
FindFreeSlots(map, k) ==
  LET clear == Sector \ map
  IN  [i \in 1 .. k |-> CHOOSE s \in clear : Cardinality({r \in clear : r < s}) = i - 1]

DivRoundUp(n, s) == (n + s - 1) \div s

\* The constructor asserts that its two files fit on the disk.
ASSUME FormatAssumption ==
  2 + DivRoundUp(FreeMapFileSize, SectorSize) + DivRoundUp(DirectoryFileSize, SectorSize)
    <= NumSectors

\* What a sector can hold, an entry of the directory, and an OpenFile.
Header == {hdr \in [numBytes : Size, dataSectors : Seq(Sector)] :
             Len(hdr.dataSectors) = DivRoundUp(hdr.numBytes, SectorSize)}
DataSector == [bytes : [0 .. SectorSize - 1 -> Byte]]
Entry == [name : Name, sector : Sector]
OpenFile == [hdr : Header, seekPosition : Nat, of : Name]

ASSUME MarkAssumption == Absent \notin Entry \cup OpenFile /\ Gone \notin OpenFile

TypeOK ==
  /\ disk \in [Sector -> Header \cup DataSector]
  /\ freeMap \subseteq Sector
  /\ table \in [1 .. NumDirEntries -> Entry \cup {Absent}]
  /\ file \in [Handle -> OpenFile \cup {Absent, Gone}]
  /\ lost \in BOOLEAN

\* FileHeader::Allocate: whether there is room, and the header.
CanAllocate(map, size) == NumClear(map) >= DivRoundUp(size, SectorSize)
Allocate(map, size) ==
  [numBytes |-> size, dataSectors |-> FindFreeSlots(map, DivRoundUp(size, SectorSize))]

\* FileHeader::Deallocate.
Deallocate(map, hdr) == map \ Range(hdr.dataSectors)

ByteToSector(hdr, offset) == hdr.dataSectors[(offset \div SectorSize) + 1]

\* Directory::FindIndex and Find, and the entries that are not in use.
FindIndex(n) == {i \in DOMAIN table : table[i] # Absent /\ table[i].name = n}
Find(n) == table[Min(FindIndex(n))].sector
Unused == {i \in DOMAIN table : table[i] = Absent}

\* Directory::Add of a new name, and Directory::Remove.
Added(n, sector) == [table EXCEPT ![Min(Unused)] = [name |-> n, sector |-> sector]]
Removed(n) == [table EXCEPT ![Min(FindIndex(n))] = Absent]

\* BitMap::WriteBack and Directory::WriteBack.
WriteMap(map) == freeMap' = map
WriteDirectory(entries) == table' = entries

\* FileSystem::FileSystem(TRUE) from "Initializing the file system" on.
FormattedMap ==
  LET map1 == {0, 1}
      map2 == map1 \cup Range(Allocate(map1, FreeMapFileSize).dataSectors)
  IN  map2 \cup Range(Allocate(map2, DirectoryFileSize).dataSectors)

\* A sector of data, all bytes b.
Data(b) == [bytes |-> [i \in 0 .. SectorSize - 1 |-> b]]

Init ==
  /\ \E b \in Byte : disk = [s \in Sector |-> Data(b)]
  /\ freeMap = FormattedMap
  /\ table = [i \in 1 .. NumDirEntries |-> Absent]
  /\ file = [h \in Handle |-> Absent]
  /\ call = "FileSystem" /\ result = [ok |-> TRUE]
  /\ lost = FALSE
-----------------------------------------------------------------------------
(* FileSystem *)

\* The data sectors of a new file keep what they hold; what the words of an
\* old header are as bytes is not modelled and may be anything.
AsData(sectors, b) ==
  [s \in Sector |-> IF s \in Range(sectors) /\ "numBytes" \in DOMAIN disk[s]
                    THEN Data(b) ELSE disk[s]]

\* The tests of Create, in its order: the name is new, and there is room for
\* the header, the directory entry and the data.
HeaderSector == FindFreeSlots(freeMap, 1)[1]
CanCreate(n, size) ==
  /\ FindIndex(n) = {}
  /\ NumClear(freeMap) > 0
  /\ Unused # {}
  /\ CanAllocate(freeMap \cup {HeaderSector}, size)

\* Create fails: the changed copies of the bitmap and the directory are
\* discarded.
CreateFails(n, size) ==
  /\ ~ lost /\ ~ CanCreate(n, size)
  /\ call' = "Create" /\ result' = [ok |-> FALSE]
  /\ UNCHANGED <<disk, freeMap, table, file, lost>>

\* FileHeader::WriteBack to sector.
WriteHeader(hdr, sector) ==
  \E b \in Byte : disk' = [AsData(hdr.dataSectors, b) EXCEPT ![sector] = hdr]

\* Create succeeds and writes back hdr, the directory and the bitmap.
WriteBack(n, hdr) ==
  /\ WriteHeader(hdr, HeaderSector)
  /\ WriteDirectory(Added(n, HeaderSector))
  /\ WriteMap(freeMap \cup {HeaderSector} \cup Range(hdr.dataSectors))
  /\ call' = "Create" /\ result' = [ok |-> TRUE]
  /\ UNCHANGED <<file, lost>>

\* Mutant: the data is allocated before the header's sector is marked.
CreateDataFirst(n, size) ==
  /\ ~ lost /\ CanCreate(n, size)
  /\ Len(Allocate(freeMap, size).dataSectors) <= NumDirect
  /\ WriteBack(n, Allocate(freeMap, size))

\* FileSystem::Create.  A header with more than NumDirect sectors overruns
\* dataSectors, which Allocate does not test.
Create(n, size) ==
  /\ ~ lost /\ CanCreate(n, size)
  /\ LET hdr == Allocate(freeMap \cup {HeaderSector}, size)
     IN  IF Len(hdr.dataSectors) <= NumDirect
         THEN WriteBack(n, hdr)
         ELSE lost' = TRUE /\ UNCHANGED <<disk, freeMap, table, file, call, result>>

\* FileSystem::getIdxFreeSlot.
FreeSlot == {i \in Slot : i >= 2 /\ file[i] = Absent}

\* OpenFile::OpenFile, for the file with name n; of is a history of that name.
NewOpenFile(n) == [hdr |-> disk[Find(n)], seekPosition |-> 0, of |-> n]

\* The slot of Open(name, type), if there is one.
SlotFor(type) == CASE type = 2 -> {0}
                   [] type = 3 -> {1}
                   [] type \in {0, 1} /\ FreeSlot # {} -> {Min(FreeSlot)}
                   [] OTHER -> {}

\* Open(name, type) takes its slot; Open(name), which the kernel calls, wants a
\* free slot but does not take it.
Opens == UNION {SlotFor(type) : type \in Type} \cup (IF FreeSlot = {} THEN {} ELSE {Kernel})

\* FileSystem::Open.
Open(n, h) ==
  /\ ~ lost /\ h \in Opens /\ FindIndex(n) # {}
  /\ file' = [file EXCEPT ![h] = NewOpenFile(n)]
  /\ call' = "Open" /\ result' = [ok |-> TRUE]
  /\ UNCHANGED <<disk, freeMap, table, lost>>

OpenFails(n) ==
  /\ ~ lost
  /\ FindIndex(n) = {} \/ FreeSlot = {} \/ \E type \in Type : SlotFor(type) = {}
  /\ call' = "Open" /\ result' = [ok |-> FALSE]
  /\ UNCHANGED <<disk, freeMap, table, file, lost>>

IsOpen(h) == file[h] \notin {Absent, Gone}

\* OpenFile::~OpenFile, by the code that has the file open.
Close(h) ==
  /\ ~ lost /\ file[h] # Absent
  /\ file' = [file EXCEPT ![h] = Absent]
  /\ call' = "Close" /\ result' = [ok |-> TRUE]
  /\ UNCHANGED <<disk, freeMap, table, lost>>

\* Open files whose name is removed keep a header that no longer counts.
Orphaned(n) == [h \in Handle |-> IF IsOpen(h) /\ file[h].of = n THEN Gone ELSE file[h]]

\* FileSystem::Remove.
Remove(n) ==
  /\ ~ lost
  /\ call' = "Remove" /\ result' = [ok |-> FindIndex(n) # {}]
  /\ IF FindIndex(n) = {} THEN UNCHANGED <<freeMap, table, file>>
     ELSE /\ WriteMap(Deallocate(freeMap, disk[Find(n)]) \ {Find(n)})
          /\ WriteDirectory(Removed(n))
          /\ file' = Orphaned(n)
  /\ UNCHANGED <<disk, lost>>
-----------------------------------------------------------------------------
(* OpenFile: the bytes of a transfer and the sectors that hold them *)

\* The number of bytes that a transfer of k bytes moves.
Clipped(f, k) == IF k <= 0 \/ f.seekPosition >= f.hdr.numBytes THEN 0
                 ELSE Min({k, f.hdr.numBytes - f.seekPosition})

\* OpenFile::ReadAt at the position of the file.
ReadAt(f, k) ==
  [i \in 1 .. Clipped(f, k) |->
     LET at == f.seekPosition + i - 1
     IN  disk[ByteToSector(f.hdr, at)].bytes[at % SectorSize]]

\* OpenFile::Read.
Read(h, k) ==
  /\ ~ lost /\ IsOpen(h)
  /\ call' = "Read" /\ result' = [bytes |-> ReadAt(file[h], k)]
  /\ file' = [file EXCEPT ![h].seekPosition = @ + Clipped(file[h], k)]
  /\ UNCHANGED <<disk, freeMap, table, lost>>

\* Mutant: the last sector is read in only if the transfer has one sector.
ReadInOneSided(first, last, firstAligned, lastAligned) ==
  (IF ~ firstAligned THEN {first} ELSE {})
    \cup (IF ~ lastAligned /\ first = last /\ firstAligned THEN {last} ELSE {})

\* The sectors of a write that WriteAt reads in first.
ReadIn(first, last, firstAligned, lastAligned) ==
  (IF ~ firstAligned THEN {first} ELSE {})
    \cup (IF ~ lastAligned /\ (first # last \/ firstAligned) THEN {last} ELSE {})

\* OpenFile::WriteAt of k bytes b at the position of the file: the new disk.
\* A byte of the buffer that is neither new nor read in is not initialized;
\* garbage is what it holds.
WriteAt(f, k, b, garbage) ==
  LET from  == f.seekPosition
      to    == from + Clipped(f, k)
      first == from \div SectorSize
      last  == (to - 1) \div SectorSize
      old   == ReadIn(first, last, from = first * SectorSize, to = (last + 1) * SectorSize)
      Byt(i, s) == CASE from <= i /\ i < to -> b
                     [] ~ (from <= i /\ i < to) /\ i \div SectorSize \in old
                          /\ i < f.hdr.numBytes -> disk[s].bytes[i % SectorSize]
                     [] OTHER -> garbage
  IN  IF from = to THEN disk
      ELSE [s \in Sector |->
              LET hit == {n \in first .. last : f.hdr.dataSectors[n + 1] = s}
              IN  IF hit = {} THEN disk[s]
                  ELSE [bytes |-> [i \in 0 .. SectorSize - 1 |-> Byt(Min(hit) * SectorSize + i, s)]]]

\* OpenFile::Write.
Write(h, k, b) ==
  /\ ~ lost /\ IsOpen(h)
  /\ \E garbage \in Byte : disk' = WriteAt(file[h], k, b, garbage)
  /\ file' = [file EXCEPT ![h].seekPosition = @ + Clipped(file[h], k)]
  /\ call' = "Write" /\ result' = [count |-> Clipped(file[h], k)]
  /\ UNCHANGED <<freeMap, table, lost>>

\* Through a handle whose file was removed a read may return bytes of another
\* file, and a write may end up in one or in a header.
UseGone(h) ==
  /\ ~ lost /\ file[h] = Gone
  /\ lost' = TRUE
  /\ UNCHANGED <<disk, freeMap, table, file, call, result>>

Next ==
  \/ \E n \in Name : \/ \E size \in Size : Create(n, size) \/ CreateFails(n, size)
                     \/ \E h \in Handle : Open(n, h)
                     \/ OpenFails(n)
                     \/ Remove(n)
  \/ \E h \in Handle : \/ Close(h)
                       \/ UseGone(h)
                       \/ \E k \in Count : Read(h, k) \/ \E b \in Byte : Write(h, k, b)

Spec == Init /\ [][Next]_vars
-----------------------------------------------------------------------------
(* Correctness *)

Used == DOMAIN table \ Unused
Owned(i) == <<table[i].sector>> \o disk[table[i].sector].dataSectors

\* The bitmap marks exactly the sectors of the bitmap and directory files and
\* those of the listed files, no sector has two owners, no name is listed twice,
\* and an open file works with the header that is on the disk unless the file
\* was removed.  So Deallocate finds the sectors it frees marked, and no
\* sequence of calls, failed ones included, loses a sector or gives it twice.
SectorsOwned ==
  ~ lost =>
    /\ freeMap = FormattedMap \cup UNION {Range(Owned(i)) : i \in Used}
    /\ \A i \in Used : IsInjective(Owned(i)) /\ Range(Owned(i)) \cap FormattedMap = {}
    /\ \A i, j \in Used : i # j => Range(Owned(i)) \cap Range(Owned(j)) = {}
    /\ \A i, j \in Used : table[i].name = table[j].name => i = j
    /\ \A h \in Handle : IsOpen(h) =>
         FindIndex(file[h].of) # {} /\ file[h].hdr = disk[Find(file[h].of)]

\* The bytes of a listed file, from its header and its sectors.
Contents(n) ==
  IF FindIndex(n) = {} THEN Absent
  ELSE LET hdr == disk[Find(n)]
       IN  [i \in 1 .. hdr.numBytes |-> disk[ByteToSector(hdr, i - 1)].bytes[(i - 1) % SectorSize]]

\* The state of the store that the disk, the directory and the handles stand for.
Files == [n \in Name |-> Contents(n)]
Opened == [h \in Handle |-> IF IsOpen(h) THEN file[h].of ELSE file[h]]
Position == [h \in Handle |-> IF IsOpen(h) THEN file[h].seekPosition ELSE 0]

Abstract == INSTANCE FileStore WITH
  files <- Files, opened <- Opened, pos <- Position,
  MaxFiles <- NumDirEntries, MaxFileSize <- NumDirect * SectorSize,
  Capacity <- NumSectors - Cardinality(FormattedMap)

\* Bitmap, directory, headers and sectors implement named files of fixed size:
\* a write changes the bytes it names and no others, also in sectors that it
\* covers in part; a read returns them; a failed call changes nothing; Create
\* fails only for the reasons that filesys.cc:176 lists; Remove gives back all
\* that Create took.
ImplementsFileStore == Abstract!Spec
=============================================================================
