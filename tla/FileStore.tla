------------------------------ MODULE FileStore ------------------------------
(***************************************************************************)
(* What the file system promises its callers (filesys.h, openfile.h):      *)
(* named files of fixed size on a disk of Capacity sectors, opened under   *)
(* handles that keep a position.  A file takes one sector for its header   *)
(* and as many for its data as its size needs.                             *)
(*                                                                         *)
(* Nothing is promised once a file is used through a handle after its      *)
(* removal, or created larger than MaxFileSize: the store is then lost.    *)
(***************************************************************************)
EXTENDS Integers, Sequences, FiniteSetsExt

CONSTANTS Name, Byte, Handle, Size, Count,
          Absent,                     \* no such file; also a closed handle
          Gone,                       \* the file of a handle was removed
          SectorSize, MaxFiles, MaxFileSize, Capacity

VARIABLES files,    \* the contents of each file, or Absent
          opened,   \* the file of each handle
          pos,      \* the position of each handle
          call,     \* the last call
          result,   \* what it returned
          lost

vars == <<files, opened, pos, call, result, lost>>

Listed == {n \in Name : files[n] # Absent}
Sectors(size) == 1 + (size + SectorSize - 1) \div SectorSize
Taken == UNION {{n} \X (1 .. Sectors(Len(files[n]))) : n \in Listed}
Free == Capacity - Cardinality(Taken)

Init ==
  /\ files = [n \in Name |-> Absent]
  /\ opened = [h \in Handle |-> Absent]
  /\ pos = [h \in Handle |-> 0]
  /\ call = "FileSystem" /\ result = [ok |-> TRUE]
  /\ lost = FALSE

\* Create succeeds exactly when the name is new, the directory has room and
\* the disk has room; what a new file contains is not specified.
Create(n, size) ==
  LET ok == n \notin Listed /\ Cardinality(Listed) < MaxFiles /\ Sectors(size) <= Free
  IN  /\ call' = "Create" /\ ~ lost
      /\ result' = [ok |-> ok]
      /\ IF ok THEN /\ files'[n] \in [1 .. size -> Byte]
                    /\ files' = [files EXCEPT ![n] = files'[n]]
               ELSE UNCHANGED files
      /\ UNCHANGED <<opened, pos, lost>>

\* A handle is bound to a listed file; a file table slot may be in the way.
Open(n, h) ==
  /\ call' = "Open" /\ ~ lost /\ n \in Listed
  /\ result' = [ok |-> TRUE]
  /\ opened' = [opened EXCEPT ![h] = n]
  /\ pos' = [pos EXCEPT ![h] = 0]
  /\ UNCHANGED <<files, lost>>

OpenFails ==
  /\ call' = "Open" /\ ~ lost
  /\ result' = [ok |-> FALSE]
  /\ UNCHANGED <<files, opened, pos, lost>>

Close(h) ==
  /\ call' = "Close" /\ ~ lost
  /\ result' = [ok |-> TRUE]
  /\ opened' = [opened EXCEPT ![h] = Absent]
  /\ pos' = [pos EXCEPT ![h] = 0]
  /\ UNCHANGED <<files, lost>>

Remove(n) ==
  /\ call' = "Remove" /\ ~ lost
  /\ result' = [ok |-> n \in Listed]
  /\ files' = [files EXCEPT ![n] = Absent]
  /\ opened' = [h \in Handle |-> IF n \in Listed /\ opened[h] = n THEN Gone ELSE opened[h]]
  /\ pos' = [h \in Handle |-> IF n \in Listed /\ opened[h] = n THEN 0 ELSE pos[h]]
  /\ UNCHANGED lost

\* The bytes that a transfer of k bytes through handle h reaches.
Reached(h, k) == pos[h] + 1 .. Min({pos[h] + k, Len(files[opened[h]])})

Moved(h, k) == Cardinality(Reached(h, k))

Read(h, k) ==
  /\ call' = "Read" /\ ~ lost /\ opened[h] \in Name
  /\ result' = [bytes |-> SubSeq(files[opened[h]], pos[h] + 1, pos[h] + Moved(h, k))]
  /\ pos' = [pos EXCEPT ![h] = @ + Moved(h, k)]
  /\ UNCHANGED <<files, opened, lost>>

Write(h, k, b) ==
  /\ call' = "Write" /\ ~ lost /\ opened[h] \in Name
  /\ result' = [count |-> Moved(h, k)]
  /\ pos' = [pos EXCEPT ![h] = @ + Moved(h, k)]
  /\ files' = [files EXCEPT ![opened[h]] =
                 [i \in DOMAIN @ |-> IF i \in Reached(h, k) THEN b ELSE @[i]]]
  /\ UNCHANGED <<opened, lost>>

\* The two uses of the store that void its promises: of a handle after its file
\* was removed, and a new file that is too large.
Lose ==
  /\ \/ \E h \in Handle : opened[h] = Gone
     \/ \E n \in Name \ Listed, size \in Size : size > MaxFileSize
  /\ ~ lost /\ lost' = TRUE
  /\ UNCHANGED <<files, opened, pos, call, result>>

Next == \/ \E n \in Name : \/ \E size \in Size : Create(n, size)
                           \/ \E h \in Handle : Open(n, h)
                           \/ Remove(n)
        \/ \E h \in Handle : \/ Close(h)
                             \/ \E k \in Count :
                                  Read(h, k) \/ \E b \in Byte : Write(h, k, b)
        \/ OpenFails \/ Lose

Spec == Init /\ [][Next]_vars
=============================================================================
