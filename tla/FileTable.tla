------------------------------ MODULE FileTable ------------------------------
(***************************************************************************)
(* Files of user programs: the handlers of CreateF, OpenF, ReadF, WriteF   *)
(* and CloseF (userprog/exception.cc) over the stub file system and its    *)
(* open files (filesys/filesys.h and openfile.h under FILESYS_STUB), which *)
(* turn into calls of the host (machine/sysdep.cc).                        *)
(*                                                                         *)
(* There is one table for all processes and no handler looks at who calls: *)
(* an id can be used and closed by any process, and calls have no caller   *)
(* here.  A handler runs from its trap to its return without giving up the *)
(* processor, so each call is one action.                                  *)
(* ReadF of the keyboard and WriteF to the display leave the table alone;  *)
(* they are the subject of SynchConsole.                                   *)
(***************************************************************************)
EXTENDS Integers, Sequences, FiniteSets

CONSTANTS Name,              \* names of ordinary files
          Writable,          \* the names the host lets the simulator read and write
          Preexisting,       \* texts of the host's files before the simulator starts
          N_FILES_IN_TABLE,  \* 100
          Fd,                \* descriptors the host has for the simulator
          Char,              \* characters programs write
          Data,              \* the buffers they pass to WriteF
          ReadSize,          \* the counts they pass to ReadF, negative ones aside and
                             \* none larger than the handler's buffer
          MaxLen,            \* bound on the length of a file
          NUL,               \* the character 0
          NULL

ASSUME FileTableAssumption ==
  /\ Writable \subseteq Name
  /\ {"stdin", "stdout"} \cap Name = {}
  /\ N_FILES_IN_TABLE \in Nat /\ N_FILES_IN_TABLE >= 2
  /\ Fd \subseteq Nat /\ {0, 1} \subseteq Fd
  /\ ReadSize \subseteq Nat
  /\ MaxLen \in Nat
  /\ Data \subseteq Seq(Char)
  /\ NUL \notin Char
  /\ NULL \notin Name

Slot == 0 .. N_FILES_IN_TABLE - 1
File == Name \cup {"stdin", "stdout"}

VARIABLES
  file_table,  \* FileSystem::file_table: the OpenFile in each slot, or NULL
  content,     \* the host's files, NULL for one that does not exist
  fds,         \* the host's descriptors in use
  seen,        \* history: what was read through each slot since position 0
  steady,      \* history: slots whose file did not change since position 0
  zeros,       \* history: files that may hold a character 0, because they did at
               \* the start or were emptied under a position behind the beginning
  last         \* history: the last call and its result

vars == <<file_table, content, fds, seen, steady, zeros, last>>

OpenFile == [name : File, type : 0 .. 3, currentOffset : -1 .. MaxLen, file : Fd]

Text == Seq(Char \cup {NUL})
Op == {"none", "CreateF", "OpenF", "ReadF", "WriteF", "CloseF"}
Result == [op : Op, ret : Int \cup {NULL}, copied : Nat, own : BOOLEAN, all : BOOLEAN]

\* The null pointer is neither an open file, nor a file's text, nor a result.
ASSUME NULLAssumption == NULL \notin OpenFile \cup Text \cup Int

ASSUME PreexistingAssumption == \A t \in Preexisting : t \in Text /\ Len(t) <= MaxLen

TypeOK ==
  /\ file_table \in [Slot -> OpenFile \cup {NULL}]
  /\ content \in [File -> Text \cup {NULL}]
  /\ \A f \in File : content[f] # NULL => Len(content[f]) <= MaxLen
  /\ fds \subseteq Fd
  /\ seen \in [Slot -> Text]
  /\ steady \subseteq Slot
  /\ zeros \subseteq Name
  /\ last \in Result

Opened == {s \in Slot : file_table[s] # NULL}
NewFile(f, type, fd) == [name |-> f, type |-> type, currentOffset |-> 0, file |-> fd]

\* The last call: what it was, the value in register 2 (NULL if the simulator
\* aborted) and, for a ReadF, the number of characters put into the buffer,
\* whether the text is the programs' own, without characters 0, and whether the
\* reader has now read everything.
Called(op, ret) ==
  last' = [op |-> op, ret |-> ret, copied |-> 0, own |-> TRUE, all |-> TRUE]
CalledReadF(ret, copied, own, all) ==
  last' = [op |-> "ReadF", ret |-> ret, copied |-> copied, own |-> own, all |-> all]
Running == last.ret # NULL
Refused(op) == /\ Called(op, -1)
               /\ UNCHANGED <<file_table, content, fds, seen, steady, zeros>>

\* The text holds a character 0.
HasZero(c) == \E i \in DOMAIN c : c[i] = NUL

\* FileSystem::FileSystem.  The host's files are there already, whatever they hold.
Init ==
  /\ file_table = [s \in Slot |-> IF s = 0 THEN NewFile("stdin", 2, 0)
                                  ELSE IF s = 1 THEN NewFile("stdout", 3, 1)
                                  ELSE NULL]
  /\ \E host \in [Name -> Preexisting \cup {NULL}] :
       /\ content = [f \in File |-> IF f \in Name THEN host[f] ELSE << >>]
       /\ zeros = {f \in Name : host[f] # NULL /\ HasZero(host[f])}
  /\ fds = {0, 1}
  /\ seen = [s \in Slot |-> << >>]
  /\ steady = Slot
  /\ last = [op |-> "none", ret |-> 0, copied |-> 0, own |-> TRUE, all |-> TRUE]

\* The host gives out its lowest free descriptor.
LowestFree(fd) == fd \in Fd \ fds /\ \A g \in Fd \ fds : fd <= g

\* Slots through which file f is open.
On(f) == {s \in Opened : file_table[s].name = f}
-----------------------------------------------------------------------------
\* CreateF(f): creates the file, or cuts it to nothing if it exists, whoever
\* has it open.
CreateF(f) ==
  /\ Running
  /\ f \in Writable
  /\ Fd \ fds # {}
  /\ content' = [content EXCEPT ![f] = << >>]
  /\ steady' = steady \ On(f)
  /\ zeros' = IF \E s \in On(f) : file_table[s].currentOffset > 0
            THEN zeros \cup {f} ELSE zeros \ {f}
  /\ Called("CreateF", 0)
  /\ UNCHANGED <<file_table, fds, seen>>

\* OpenForWrite asserts that the host opens the file: the simulator aborts.
CreateAborts(f) ==
  /\ Running
  /\ f \notin Writable \/ Fd \ fds = {}
  /\ Called("CreateF", NULL)
  /\ UNCHANGED <<file_table, content, fds, seen, steady, zeros>>

\* CreateF of an empty name returns -1.
CreateRefused == Running /\ Refused("CreateF")

\* FileSystem::getIdxFreeSlot.
getIdxFreeSlot == {s \in Slot \ Opened : s >= 2 /\ \A r \in Slot \ Opened : r >= 2 => s <= r}

\* Mutant: the host opens the file before a slot is looked for.
OpenLeaks(f, type) ==
  /\ Running
  /\ type \in {0, 1} /\ f \in Writable
  /\ content[f] # NULL
  /\ \E fd \in Fd :
       /\ LowestFree(fd)
       /\ fds' = fds \cup {fd}
       /\ file_table' = [s \in Slot |-> IF s \in getIdxFreeSlot THEN NewFile(f, type, fd)
                                                                ELSE file_table[s]]
  /\ Called("OpenF", 0)
  /\ UNCHANGED <<content, seen, steady, zeros>>

\* OpenF(f, type) of a file that exists, when there is room for it.  The host
\* opens it for reading and writing whatever the type.
OpenF(f, type) ==
  /\ Running
  /\ type \in {0, 1} /\ f \in Writable
  /\ content[f] # NULL
  /\ \E s \in getIdxFreeSlot, fd \in Fd :
       /\ LowestFree(fd)
       /\ fds' = fds \cup {fd}
       /\ file_table' = [file_table EXCEPT ![s] = NewFile(f, type, fd)]
       /\ seen' = [seen EXCEPT ![s] = << >>]
       /\ steady' = steady \cup {s}
       /\ Called("OpenF", s)
  /\ UNCHANGED <<content, zeros>>

\* OpenF of the console returns its id; the table has it from the start.
OpenConsole(f, type) ==
  /\ Running
  /\ <<f, type>> \in {<<"stdin", 2>>, <<"stdout", 3>>}
  /\ Called("OpenF", type - 2)
  /\ UNCHANGED <<file_table, content, fds, seen, steady, zeros>>

\* OpenF that returns -1: a type that does not go with the name, a file that
\* is not there or not to be written, a full table, or no descriptor left.
OpenRefused(f, type) ==
  /\ Running
  /\ \/ type \notin 0 .. 3
     \/ (f = "stdin") # (type = 2)
     \/ (f = "stdout") # (type = 3)
     \/ /\ f \in Name
        /\ \/ content[f] = NULL \/ f \notin Writable
           \/ getIdxFreeSlot = {} \/ Fd \ fds = {}
  /\ Refused("OpenF")

\* An id that names a file other than the console's.
IsOpen(id) == id \in Opened \ {0, 1}
TypeOf(id) == IF id \in Opened THEN file_table[id].type ELSE NULL

\* OpenFile::ReadAt: what the host returns for n characters from the position.
ReadAt(id, n) ==
  LET c == content[file_table[id].name]
      k == file_table[id].currentOffset
  IN  SubSeq(c, k + 1, IF k + n < Len(c) THEN k + n ELSE Len(c))

\* Machine::System2User copies up to and including a character 0.
System2User(d) == IF HasZero(d)
                  THEN CHOOSE i \in DOMAIN d :
                         d[i] = NUL /\ \A j \in 1 .. i - 1 : d[j] # NUL
                  ELSE Len(d)

\* Mutant: a short read is taken for the end of the file.
ReadShort(id, n) ==
  /\ Running
  /\ IsOpen(id) /\ TypeOf(id) = 0 /\ file_table[id].currentOffset >= 0
  /\ LET d == ReadAt(id, n)
         eof == Len(d) < n
     IN  /\ file_table' = [file_table EXCEPT ![id].currentOffset = IF eof THEN 0 ELSE @ + Len(d)]
         /\ seen' = [seen EXCEPT ![id] = IF eof \/ id \notin steady THEN << >> ELSE @ \o d]
         /\ steady' = IF eof THEN steady \cup {id} ELSE steady
         /\ CalledReadF(IF eof THEN -2 ELSE Len(d), System2User(d),
                        file_table[id].name \notin zeros,
                        id \in steady => seen[id] = content[file_table[id].name])
  /\ UNCHANGED <<content, fds, zeros>>

\* ReadF of n characters.  When there are none it returns -2 and goes back to
\* the beginning of the file.
ReadF(id, n) ==
  /\ Running
  /\ IsOpen(id) /\ TypeOf(id) = 0 /\ file_table[id].currentOffset >= 0
  /\ LET d == ReadAt(id, n)
         eof == d = << >>
     IN  /\ file_table' = [file_table EXCEPT ![id].currentOffset = IF eof THEN 0 ELSE @ + Len(d)]
         /\ seen' = [seen EXCEPT ![id] = IF eof \/ id \notin steady THEN << >> ELSE @ \o d]
         /\ steady' = IF eof THEN steady \cup {id} ELSE steady
         /\ CalledReadF(IF eof THEN -2 ELSE Len(d), System2User(d),
                        file_table[id].name \notin zeros,
                        id \in steady => seen[id] = content[file_table[id].name])
  /\ UNCHANGED <<content, fds, zeros>>

\* ReadF of a negative number of characters: the host's read returns -1, which
\* OpenFile::Read adds to the position all the same.
ReadNegative(id) ==
  /\ Running
  /\ IsOpen(id) /\ TypeOf(id) = 0 /\ file_table[id].currentOffset >= 0
  /\ file_table' = [file_table EXCEPT ![id].currentOffset = @ - 1]
  /\ seen' = [seen EXCEPT ![id] = << >>]
  /\ steady' = steady \ {id}
  /\ Called("ReadF", -1)
  /\ UNCHANGED <<content, fds, zeros>>

\* ReadF or WriteF at a position that has so become negative: Lseek asserts
\* that the host goes there, and the simulator aborts.
SeekAborts(id) ==
  /\ Running
  /\ IsOpen(id) /\ file_table[id].currentOffset < 0
  /\ \E op \in {"ReadF", "WriteF"} : Called(op, NULL)
  /\ UNCHANGED <<file_table, content, fds, seen, steady, zeros>>

\* ReadF that returns -1: the display, an id that is not open or out of
\* range, or a file opened with another type than 0.
ReadRefused(id) ==
  /\ Running
  /\ id # 0
  /\ ~ (IsOpen(id) /\ TypeOf(id) = 0)
  /\ Refused("ReadF")

\* The host's write of d at position k: a gap after the end reads as 0.
WriteAt(c, d, k) ==
  [i \in 1 .. (IF d # << >> /\ k + Len(d) > Len(c) THEN k + Len(d) ELSE Len(c)) |->
     IF i \in k + 1 .. k + Len(d) THEN d[i - k] ELSE IF i <= Len(c) THEN c[i] ELSE NUL]

\* Mutant: the terminating character 0 of the buffer is written too.
WriteTerminated(id, d) ==
  /\ Running
  /\ IsOpen(id) /\ file_table[id].currentOffset >= 0
  /\ file_table[id].currentOffset + Len(d) < MaxLen
  /\ LET f == file_table[id]
     IN  /\ content' = [content EXCEPT ![f.name] =
                          WriteAt(@, Append(d, NUL), f.currentOffset)]
         /\ file_table' = [file_table EXCEPT ![id].currentOffset = @ + Len(d) + 1]
         /\ steady' = steady \ On(f.name)
         /\ Called("WriteF", Len(d) + 1)
  /\ UNCHANGED <<fds, seen, zeros>>

\* WriteF of the characters d, whatever the type the file was opened with.
WriteF(id, d) ==
  /\ Running
  /\ IsOpen(id) /\ file_table[id].currentOffset >= 0
  /\ file_table[id].currentOffset + Len(d) <= MaxLen
  /\ LET f == file_table[id]
     IN  /\ content' = [content EXCEPT ![f.name] = WriteAt(@, d, f.currentOffset)]
         /\ file_table' = [file_table EXCEPT ![id].currentOffset =
                             IF d = << >> THEN 0 ELSE @ + Len(d)]
         /\ seen' = [seen EXCEPT ![id] = << >>]
         /\ steady' = IF d = << >> THEN steady \cup {id} ELSE steady \ On(f.name)
         /\ Called("WriteF", IF d = << >> THEN -2 ELSE Len(d))
  /\ UNCHANGED <<fds, zeros>>

\* WriteF that returns -1: the keyboard, or an id not open or out of range.
WriteRefused(id) ==
  /\ Running
  /\ id # 1
  /\ ~ IsOpen(id)
  /\ Refused("WriteF")

\* CloseF(id), by any process.
CloseF(id) ==
  /\ Running
  /\ IsOpen(id)
  /\ fds' = fds \ {file_table[id].file}
  /\ file_table' = [file_table EXCEPT ![id] = NULL]
  /\ Called("CloseF", 0)
  /\ UNCHANGED <<content, seen, steady, zeros>>

\* CloseF that returns -1.
CloseRefused(id) ==
  /\ Running
  /\ ~ IsOpen(id)
  /\ Refused("CloseF")
-----------------------------------------------------------------------------
Id == -1 .. N_FILES_IN_TABLE

Next ==
  \/ CreateRefused
  \/ \E f \in Name : CreateF(f) \/ CreateAborts(f)
  \/ \E f \in File, type \in 0 .. 4 :
       OpenF(f, type) \/ OpenConsole(f, type) \/ OpenRefused(f, type)
  \/ \E id \in Id :
       \/ \E n \in ReadSize : ReadF(id, n)
       \/ \E d \in Data : WriteF(id, d)
       \/ ReadNegative(id) \/ SeekAborts(id) \/ CloseF(id)
       \/ ReadRefused(id) \/ WriteRefused(id) \/ CloseRefused(id)

Spec == Init /\ [][Next]_vars
-----------------------------------------------------------------------------
(* Correctness *)

\* The simulator has exactly the descriptors of the files in the table, one
\* each, and the console has its two entries, which nothing else looks like
\* (notes.os.txt:28): no order of calls, failing ones included, loses or
\* shares a descriptor, or closes or replaces the console.
HandlesMatchTable ==
  /\ fds = {file_table[s].file : s \in Opened}
  /\ Cardinality(fds) = Cardinality(Opened)
  /\ \A s \in Slot : \A t \in {2, 3} :
       (file_table[s] # NULL /\ file_table[s].type = t) <=> s = t - 2

\* A reader that reads until ReadF returns -2 (as the test programs do, at
\* least one character at a time) has then read the whole file, if nobody
\* changed it meanwhile and it asked for no negative number of characters:
\* neither the rewinding at the end nor other readers of the file take anything
\* from it.
EofMeansAllRead == last.op = "ReadF" /\ last.ret = -2 => last.all

\* syscall.h:124-125 says that ReadF returns the number of characters read.
\* The copy to the program stops at a character 0 (machine.cc:89) and the result
\* does not tell (exception.cc:572), so this is not so for a file of the host
\* that holds one.  It is for the programs' own texts: WriteF writes no such
\* character and leaves no gap, except in a file that was emptied under a
\* process in the middle of it.
CopiesOwnText ==
  Running /\ last.op = "ReadF" /\ last.own /\ last.ret > 0 => last.copied = last.ret
=============================================================================
