--------------------------- MODULE FileTableProofs ---------------------------
(***************************************************************************)
(* Proofs about FileTable, for a table of any size, any number of files    *)
(* and descriptors, and any order of calls.                                *)
(***************************************************************************)
EXTENDS FileTable, SequenceTheorems, FiniteSetTheorems, WellFoundedInduction,
        TLAPS

USE FileTableAssumption, NULLAssumption

\* The first two entries are the console's and no other entry is of its types;
\* the others are ordinary files, which exist.
Console == \A s \in Opened :
             /\ file_table[s].type = 2 <=> s = 0
             /\ file_table[s].type = 3 <=> s = 1
             /\ s \notin {0, 1} => /\ file_table[s].name \in Name
                                   /\ content[file_table[s].name] # NULL

Present == {0, 1} \subseteq Opened

\* A descriptor for each entry, and no other.
Handles == /\ fds = {file_table[s].file : s \in Opened}
           /\ \A r, s \in Opened : file_table[r].file = file_table[s].file => r = s

Table == TypeOK /\ Console /\ Present /\ Handles

\* What a reader has seen of a file that nobody changes.
Reads == \A s \in Opened \ {0, 1} : s \in steady =>
           /\ file_table[s].currentOffset <= Len(content[file_table[s].name])
           /\ seen[s] = SubSeq(content[file_table[s].name], 1,
                               file_table[s].currentOffset)

\* A file that neither held a character 0 at the start nor was emptied under an
\* open position holds none, and nothing is written behind its end.
NoGaps == \A f \in Name \ zeros : content[f] # NULL =>
            /\ content[f] \in Seq(Char)
            /\ \A s \in On(f) : file_table[s].currentOffset <= Len(content[f])

Whole == Table /\ Reads /\ EofMeansAllRead
Dense == Table /\ NoGaps /\ CopiesOwnText
-----------------------------------------------------------------------------
(* The operators of the model *)

LEMMA Slots == /\ Slot \subseteq Nat /\ IsFiniteSet(Slot) /\ {0, 1} \subseteq Slot
               /\ Name \subseteq File /\ {"stdin", "stdout"} \subseteq File
               /\ 0 .. MaxLen \subseteq -1 .. MaxLen
<1>1. IsFiniteSet(Slot)
  BY FS_Interval DEF Slot
<1> QED BY <1>1 DEF Slot, File

LEMMA Entry ==
  ASSUME TypeOK, NEW s \in Opened
  PROVE  /\ s \in Slot /\ file_table[s] # NULL /\ file_table[s] \in OpenFile
         /\ file_table[s].name \in File /\ file_table[s].type \in 0 .. 3
         /\ file_table[s].currentOffset \in -1 .. MaxLen
         /\ file_table[s].file \in Fd
BY DEF TypeOK, Opened, OpenFile

LEMMA Fresh ==
  ASSUME NEW f \in File, NEW type \in 0 .. 3, NEW fd \in Fd
  PROVE  /\ NewFile(f, type, fd) \in OpenFile /\ NewFile(f, type, fd) # NULL
         /\ NewFile(f, type, fd).name = f /\ NewFile(f, type, fd).type = type
         /\ NewFile(f, type, fd).currentOffset = 0
         /\ NewFile(f, type, fd).file = fd
<1>1. NewFile(f, type, fd) \in OpenFile
  BY DEF NewFile, OpenFile
<1> QED BY <1>1 DEF NewFile

\* A position moves and nothing else of the table does.
LEMMA Moved ==
  ASSUME TypeOK, NEW id \in Opened, NEW k \in -1 .. MaxLen,
         file_table' = [file_table EXCEPT ![id].currentOffset = k]
  PROVE  /\ file_table' \in [Slot -> OpenFile \cup {NULL}]
         /\ Opened' = Opened
         /\ \A s \in Opened \ {id} : file_table'[s] = file_table[s]
         /\ \A s \in Opened : /\ file_table'[s].name = file_table[s].name
                              /\ file_table'[s].type = file_table[s].type
                              /\ file_table'[s].file = file_table[s].file
         /\ file_table'[id].currentOffset = k
<1> DEFINE new == [file_table[id] EXCEPT !.currentOffset = k]
<1>1. file_table[id] \in OpenFile /\ id \in Slot
  BY Entry
<1>2. /\ new \in OpenFile /\ new.currentOffset = k
      /\ new.name = file_table[id].name /\ new.type = file_table[id].type
      /\ new.file = file_table[id].file
  BY <1>1 DEF OpenFile
<1>3. file_table' = [file_table EXCEPT ![id] = new]
  OBVIOUS
<1> HIDE DEF new
<1>4. /\ file_table' \in [Slot -> OpenFile \cup {NULL}]
      /\ file_table'[id] = new
      /\ \A s \in Slot \ {id} : file_table'[s] = file_table[s]
  BY <1>1, <1>2, <1>3 DEF TypeOK
<1>5. new # NULL
  BY <1>2
<1>6. Opened' = Opened
  BY <1>4, <1>5 DEF Opened
<1>7. Opened \subseteq Slot
  BY DEF Opened
<1> QED BY <1>2, <1>4, <1>6, <1>7

\* What ReadAt returns: the part of the file from the position on, which is
\* empty only at or behind the end of the file, or for a count of 0.
LEMMA ReadAtPart ==
  ASSUME Table, NEW id \in Opened \ {0, 1}, NEW n \in Nat,
         file_table[id].currentOffset >= 0
  PROVE  LET c == content[file_table[id].name]
             k == file_table[id].currentOffset
             d == ReadAt(id, n)
         IN  /\ c \in Text /\ Len(c) \in 0 .. MaxLen /\ k \in 0 .. MaxLen
             /\ d \in Text /\ Len(d) \in Nat
             /\ \/ d = << >> /\ (n > 0 => Len(c) <= k)
                \/ /\ d # << >> /\ k + Len(d) <= Len(c)
                   /\ d = SubSeq(c, k + 1, k + Len(d))
<1> DEFINE c == content[file_table[id].name]
           k == file_table[id].currentOffset
           m == IF k + n < Len(c) THEN k + n ELSE Len(c)
<1>1. file_table[id].name \in File /\ c # NULL /\ k \in 0 .. MaxLen
  BY Entry DEF Table, Console, File
<1>2. c \in Text /\ Len(c) <= MaxLen
  BY <1>1 DEF Table, TypeOK
<1>3. Len(c) \in 0 .. MaxLen
  BY <1>2, LenProperties DEF Text
<1>4. ReadAt(id, n) = SubSeq(c, k + 1, m)
  BY DEF ReadAt
<1> HIDE DEF c, k
<1>5. CASE m <= k
  <2>1. ReadAt(id, n) = << >>
    BY <1>1, <1>3, <1>4, <1>5, SubSeqEmpty
  <2>2. n > 0 => Len(c) <= k
    BY <1>1, <1>3, <1>5
  <2>3. << >> \in Text /\ Len(<< >>) = 0
    BY EmptySeq DEF Text
  <2> QED BY <1>1, <1>2, <1>3, <2>1, <2>2, <2>3 DEF c, k
<1>6. CASE m > k
  <2>1. k + 1 \in 1 .. Len(c) /\ m \in 1 .. Len(c) /\ m <= Len(c) /\ m \in Nat /\ k \in Nat
    BY <1>1, <1>3, <1>6
  <2> HIDE DEF m
  <2>2. SubSeq(c, k + 1, m) \in Text /\ Len(SubSeq(c, k + 1, m)) = m - k
    BY <1>1, <1>2, <1>6, <2>1, SubSeqProperties DEF Text
  <2>3. SubSeq(c, k + 1, m) # << >>
    BY <1>6, <2>1, <2>2, EmptySeq
  <2>4. k + Len(ReadAt(id, n)) = m
    BY <1>4, <2>1, <2>2
  <2>5. /\ ReadAt(id, n) \in Text /\ Len(ReadAt(id, n)) \in Nat
        /\ ReadAt(id, n) # << >> /\ k + Len(ReadAt(id, n)) <= Len(c)
        /\ ReadAt(id, n) = SubSeq(c, k + 1, k + Len(ReadAt(id, n)))
    BY <1>1, <1>4, <1>6, <2>1, <2>2, <2>3, <2>4
  <2> QED BY <1>1, <1>2, <1>3, <2>5 DEF c, k
<1> QED BY <1>1, <1>3, <1>5, <1>6

\* What WriteAt makes of a file.
LEMMA WriteAtText ==
  ASSUME NEW c \in Text, NEW d \in Seq(Char), NEW k \in 0 .. MaxLen,
         k + Len(d) <= MaxLen, Len(c) <= MaxLen
  PROVE  /\ WriteAt(c, d, k) \in Text /\ Len(WriteAt(c, d, k)) <= MaxLen
         /\ d = << >> => WriteAt(c, d, k) = c
         /\ c \in Seq(Char) /\ k <= Len(c) =>
              /\ WriteAt(c, d, k) \in Seq(Char)
              /\ Len(c) <= Len(WriteAt(c, d, k))
              /\ k + Len(d) <= Len(WriteAt(c, d, k))
<1> DEFINE m == IF d # << >> /\ k + Len(d) > Len(c) THEN k + Len(d) ELSE Len(c)
           w == WriteAt(c, d, k)
<1>1. Len(c) \in Nat /\ Len(d) \in Nat /\ (d = << >> => Len(d) = 0)
  BY LenProperties, EmptySeq DEF Text
<1>2. m \in Nat /\ m <= MaxLen /\ Len(c) <= m /\ (d # << >> => k + Len(d) <= m)
  BY <1>1
<1>3. w = [i \in 1 .. m |-> IF i \in k + 1 .. k + Len(d) THEN d[i - k]
                            ELSE IF i <= Len(c) THEN c[i] ELSE NUL]
  BY DEF WriteAt
<1>4. \A i \in k + 1 .. k + Len(d) : d[i - k] \in Char
  <2> TAKE i \in k + 1 .. k + Len(d)
  <2>1. i - k \in 1 .. Len(d)
    BY <1>1
  <2> QED BY <2>1, ElementOfSeq
<1>5. \A i \in 1 .. Len(c) : c[i] \in Char \cup {NUL}
  BY ElementOfSeq DEF Text
<1> HIDE DEF m
<1>6. w \in [1 .. m -> Char \cup {NUL}]
  BY <1>1, <1>2, <1>3, <1>4, <1>5
<1>7. w \in Text /\ Len(w) = m
  BY <1>2, <1>6 DEF Text
<1>8. ASSUME d = << >> PROVE w = c
  <2>1. m = Len(c)
    BY <1>8 DEF m
  <2>2. \A i \in 1 .. Len(c) : w[i] = c[i]
    BY <1>1, <1>3, <1>8, <2>1
  <2> QED BY <1>7, <2>1, <2>2, SeqEqual DEF Text
<1>9. ASSUME c \in Seq(Char), k <= Len(c)
      PROVE  w \in Seq(Char) /\ k + Len(d) <= Len(w)
  <2>1. k + Len(d) <= m
    BY <1>1, <1>2, <1>9
  <2>2. \A i \in 1 .. m : i \in k + 1 .. k + Len(d) \/ i <= Len(c)
    BY <1>1, <1>2, <1>9 DEF m
  <2>3. \A i \in 1 .. Len(c) : c[i] \in Char
    BY <1>9, ElementOfSeq
  <2>4. w \in [1 .. m -> Char]
    BY <1>1, <1>2, <1>3, <1>4, <2>2, <2>3
  <2>5. w \in Seq(Char)
    BY <1>2, <2>4
  <2> QED BY <1>7, <2>1, <2>5
<1> QED BY <1>2, <1>7, <1>8, <1>9
\* System2User copies some number of characters, all of them when none is 0.
LEMMA System2UserCount ==
  ASSUME NEW d \in Text
  PROVE  /\ System2User(d) \in Nat
         /\ d \in Seq(Char) => System2User(d) = Len(d)
<1>1. Len(d) \in Nat /\ DOMAIN d = 1 .. Len(d)
  BY LenProperties DEF Text
<1>2. ASSUME d \in Seq(Char) PROVE System2User(d) = Len(d)
  <2>1. \A j \in DOMAIN d : d[j] # NUL
    BY <1>1, <1>2, ElementOfSeq
  <2> QED BY <2>1 DEF System2User, HasZero
<1>3. ASSUME \E j \in DOMAIN d : d[j] = NUL PROVE System2User(d) \in Nat
  <2> DEFINE nuls == {j \in DOMAIN d : d[j] = NUL}
  <2>1. nuls \subseteq Nat /\ nuls # {}
    BY <1>1, <1>3
  <2> HIDE DEF nuls
  <2>2. PICK x \in nuls : \A y \in nuls : ~ (<<y, x>> \in OpToRel(<, Nat))
    BY <2>1, NatLessThanWellFounded, WFMin
  <2>3. \A y \in nuls : ~ (y < x)
    BY <2>1, <2>2 DEF OpToRel
  <2>4. x \in DOMAIN d /\ d[x] = NUL /\ \A j \in 1 .. x - 1 : d[j] # NUL
    BY <1>1, <2>1, <2>3 DEF nuls
  <2> DEFINE P(j) == d[j] = NUL /\ \A l \in 1 .. j - 1 : d[l] # NUL
  <2>5. \E j \in DOMAIN d : P(j)
    BY <2>4
  <2>6. System2User(d) = CHOOSE j \in DOMAIN d : P(j)
    BY <1>3 DEF System2User, HasZero
  <2> HIDE DEF P
  <2>7. System2User(d) \in DOMAIN d
    BY <2>5, <2>6
  <2> QED BY <1>1, <2>7
<1>4. ASSUME ~ \E j \in DOMAIN d : d[j] = NUL PROVE System2User(d) \in Nat
  BY <1>1, <1>4 DEF System2User, HasZero
<1> QED BY <1>2, <1>3, <1>4
-----------------------------------------------------------------------------
(* The table and the descriptors *)

LEMMA ResultTyped ==
  ASSUME NEW op \in Op, NEW ret \in Int \cup {NULL}, NEW copied \in Nat,
         NEW own \in BOOLEAN, NEW all \in BOOLEAN
  PROVE  [op |-> op, ret |-> ret, copied |-> copied, own |-> own, all |-> all] \in Result
BY DEF Result

LEMMA CallTyped ==
  ASSUME NEW op \in Op, NEW ret \in Int \cup {NULL}, Called(op, ret)
  PROVE  last' \in Result /\ last'.op = op /\ last'.ret = ret
<1>1. [op |-> op, ret |-> ret, copied |-> 0, own |-> TRUE, all |-> TRUE] \in Result
  BY ResultTyped
<1> QED BY <1>1 DEF Called

LEMMA TableInit == Init => Table
<1> SUFFICES ASSUME Init PROVE Table
  OBVIOUS
<1>1. /\ NewFile("stdin", 2, 0) \in OpenFile /\ NewFile("stdin", 2, 0) # NULL
      /\ NewFile("stdin", 2, 0).type = 2 /\ NewFile("stdin", 2, 0).file = 0
      /\ NewFile("stdout", 3, 1) \in OpenFile /\ NewFile("stdout", 3, 1) # NULL
      /\ NewFile("stdout", 3, 1).type = 3 /\ NewFile("stdout", 3, 1).file = 1
  BY Slots, Fresh
<1>2. /\ file_table[0] = NewFile("stdin", 2, 0)
      /\ file_table[1] = NewFile("stdout", 3, 1)
      /\ \A s \in Slot \ {0, 1} : file_table[s] = NULL
  BY Slots DEF Init
<1>3. Opened = {0, 1}
  BY <1>1, <1>2, Slots DEF Opened
<1>4. Console /\ Present
  BY <1>1, <1>2, <1>3 DEF Console, Present
<1>5. Handles
  BY <1>1, <1>2, <1>3 DEF Handles, Init
<1>6. file_table \in [Slot -> OpenFile \cup {NULL}]
  BY <1>1 DEF Init
<1>7. << >> \in Text /\ Len(<< >>) = 0
  BY EmptySeq DEF Text
<1>8. seen \in [Slot -> Text]
  BY <1>7 DEF Init
<1>9. /\ content \in [File -> Text \cup {NULL}] /\ zeros \subseteq Name
      /\ \A f \in File : content[f] # NULL => Len(content[f]) <= MaxLen
  <2>1. PICK host \in [Name -> Preexisting \cup {NULL}] :
          /\ content = [f \in File |-> IF f \in Name THEN host[f] ELSE << >>]
          /\ zeros = {f \in Name : host[f] # NULL /\ HasZero(host[f])}
    BY DEF Init
  <2>2. \A f \in Name : /\ host[f] \in Text \cup {NULL}
                        /\ host[f] # NULL => Len(host[f]) <= MaxLen
    BY PreexistingAssumption
  <2> QED BY <1>7, <2>1, <2>2
<1>10. last \in Result
  <2>1. "none" \in Op /\ 0 \in Int \cup {NULL}
    BY DEF Op
  <2>2. [op |-> "none", ret |-> 0, copied |-> 0, own |-> TRUE, all |-> TRUE] \in Result
    BY <2>1, ResultTyped
  <2> QED BY <2>2 DEF Init
<1>11. TypeOK
  BY <1>6, <1>8, <1>9, <1>10 DEF Init, TypeOK
<1> QED BY <1>4, <1>5, <1>11 DEF Table

\* The calls that change nothing: the refused ones, OpenF of the console, and
\* those that abort.
Idles == \/ CreateRefused
         \/ \E f \in Name : CreateAborts(f)
         \/ \E f \in File, type \in 0 .. 4 : OpenConsole(f, type) \/ OpenRefused(f, type)
         \/ \E id \in Id : SeekAborts(id)
         \/ \E id \in Id : ReadRefused(id) \/ WriteRefused(id) \/ CloseRefused(id)

LEMMA IdleStep ==
  ASSUME Idles
  PROVE  /\ UNCHANGED <<file_table, content, fds, seen, steady, zeros>>
         /\ last' \in Result
         /\ last'.op = "ReadF" => last'.ret \in {-1, NULL}
<1>1. CASE CreateRefused
  BY <1>1, CallTyped DEF Op, CreateRefused, Refused
<1>2. CASE \E f \in Name : CreateAborts(f)
  BY <1>2, CallTyped DEF Op, CreateAborts
<1>3. ASSUME NEW f \in File, NEW type \in 0 .. 4, OpenConsole(f, type)
      PROVE  /\ UNCHANGED <<file_table, content, fds, seen, steady, zeros>>
             /\ last' \in Result /\ last'.op = "OpenF"
  <2>1. type - 2 \in Int \cup {NULL}
    OBVIOUS
  <2> QED BY <1>3, <2>1, CallTyped DEF Op, OpenConsole
<1>4. CASE \E f \in File, type \in 0 .. 4 : OpenRefused(f, type)
  BY <1>4, CallTyped DEF Op, OpenRefused, Refused
<1>5. CASE \E id \in Id : ReadRefused(id) \/ WriteRefused(id) \/ CloseRefused(id)
  BY <1>5, CallTyped DEF Op, ReadRefused, WriteRefused, CloseRefused, Refused
<1>6. CASE \E id \in Id : SeekAborts(id)
  BY <1>6, CallTyped DEF Op, SeekAborts
<1> QED BY <1>1, <1>2, <1>3, <1>4, <1>5, <1>6 DEF Idles
\* What ReadF does, besides returning a count.
LEMMA ReadFStep ==
  ASSUME Table, NEW id \in Id, NEW n \in ReadSize, ReadF(id, n)
  PROVE  LET d == ReadAt(id, n)
             f == file_table[id]
             k == IF d = << >> THEN 0 ELSE f.currentOffset + Len(d)
         IN  /\ id \in Opened \ {0, 1} /\ n \in Nat /\ k \in 0 .. MaxLen
             /\ f.currentOffset >= 0
             /\ file_table' = [file_table EXCEPT ![id].currentOffset = k]
             /\ seen' = [seen EXCEPT ![id] = IF d = << >> \/ id \notin steady THEN << >>
                                           ELSE seen[id] \o d]
             /\ steady' = IF d = << >> THEN steady \cup {id} ELSE steady
             /\ CalledReadF(IF d = << >> THEN -2 ELSE Len(d), System2User(d),
                            file_table[id].name \notin zeros,
                            id \in steady => seen[id] = content[f.name])
             /\ UNCHANGED <<content, fds, zeros>>
<1> DEFINE d == ReadAt(id, n)
           k == IF d = << >> THEN 0 ELSE file_table[id].currentOffset + Len(d)
<1>1. id \in Opened \ {0, 1} /\ n \in Nat /\ file_table[id].currentOffset >= 0
  BY DEF ReadF, IsOpen
<1>2. /\ Len(d) \in Nat /\ file_table[id].currentOffset \in 0 .. MaxLen
      /\ Len(content[file_table[id].name]) \in 0 .. MaxLen
      /\ \/ d = << >>
         \/ file_table[id].currentOffset + Len(d) <= Len(content[file_table[id].name])
  BY <1>1, ReadAtPart
<1>3. k \in 0 .. MaxLen
  BY <1>2
<1> QED BY <1>1, <1>3 DEF ReadF

\* What ReadF of a negative number of characters does.
LEMMA ReadNegativeStep ==
  ASSUME Table, NEW id \in Id, ReadNegative(id)
  PROVE  LET k == file_table[id].currentOffset - 1
         IN  /\ id \in Opened \ {0, 1} /\ k \in -1 .. MaxLen
             /\ k < file_table[id].currentOffset
             /\ file_table' = [file_table EXCEPT ![id].currentOffset = k]
             /\ seen' = [seen EXCEPT ![id] = << >>]
             /\ steady' = steady \ {id}
             /\ last' \in Result /\ last'.op = "ReadF" /\ last'.ret = -1
             /\ UNCHANGED <<content, fds, zeros>>
<1>1. id \in Opened \ {0, 1} /\ file_table[id].currentOffset >= 0
  BY DEF ReadNegative, IsOpen
<1>2. file_table[id].currentOffset \in -1 .. MaxLen
  BY <1>1, Entry DEF Table
<1>3. last' \in Result /\ last'.op = "ReadF" /\ last'.ret = -1
  BY CallTyped DEF ReadNegative, Op
<1> QED BY <1>1, <1>2, <1>3 DEF ReadNegative

\* What WriteF does, besides returning a count.
LEMMA WriteFStep ==
  ASSUME Table, NEW id \in Id, NEW d \in Data, WriteF(id, d)
  PROVE  LET f == file_table[id]
             c == content[f.name]
             k == IF d = << >> THEN 0 ELSE f.currentOffset + Len(d)
         IN  /\ id \in Opened \ {0, 1} /\ d \in Seq(Char) /\ k \in 0 .. MaxLen
             /\ f.name \in Name /\ c \in Text /\ Len(c) <= MaxLen
             /\ f.currentOffset \in 0 .. MaxLen
             /\ f.currentOffset + Len(d) <= MaxLen
             /\ content' = [content EXCEPT ![f.name] = WriteAt(c, d, f.currentOffset)]
             /\ file_table' = [file_table EXCEPT ![id].currentOffset = k]
             /\ seen' = [seen EXCEPT ![id] = << >>]
             /\ steady' = IF d = << >> THEN steady \cup {id} ELSE steady \ On(f.name)
             /\ Called("WriteF", IF d = << >> THEN -2 ELSE Len(d))
             /\ UNCHANGED <<fds, zeros>>
<1> DEFINE k == IF d = << >> THEN 0 ELSE file_table[id].currentOffset + Len(d)
<1>1. id \in Opened \ {0, 1} /\ d \in Seq(Char)
  BY DEF WriteF, IsOpen
<1>2. /\ file_table[id].name \in Name /\ content[file_table[id].name] # NULL
      /\ file_table[id].currentOffset \in 0 .. MaxLen
  <2>1. file_table[id].currentOffset >= 0 /\ file_table[id].currentOffset \in -1 .. MaxLen
    BY <1>1, Entry DEF Table, WriteF
  <2> QED BY <1>1, <2>1, Entry DEF Table, Console
<1>3. /\ content[file_table[id].name] \in Text
      /\ Len(content[file_table[id].name]) <= MaxLen
  BY <1>2, Slots DEF Table, TypeOK
<1>4. /\ file_table[id].currentOffset + Len(d) <= MaxLen /\ Len(d) \in Nat
      /\ k \in 0 .. MaxLen
  BY <1>1, <1>2, LenProperties DEF WriteF
<1> QED BY <1>1, <1>2, <1>3, <1>4 DEF WriteF

LEMMA TableNext == Table /\ [Next]_vars => Table'
<1> SUFFICES ASSUME Table, [Next]_vars PROVE Table'
  OBVIOUS
<1> USE DEF Table
<1>1. CASE Idles
  <2>1. UNCHANGED <<file_table, content, fds, seen, steady, zeros>> /\ last' \in Result
    BY <1>1, IdleStep
  <2>2. Opened' = Opened
    BY <2>1 DEF Opened
  <2> QED BY <2>1, <2>2 DEF TypeOK, Console, Present, Handles
<1>2. CASE UNCHANGED vars
  BY <1>2 DEF vars, TypeOK, Console, Present, Handles, Opened
<1>3. ASSUME NEW f \in Name, CreateF(f) PROVE Table'
  <2>1. /\ content' = [content EXCEPT ![f] = << >>]
        /\ steady' \subseteq steady /\ zeros' \subseteq Name
        /\ UNCHANGED <<file_table, fds, seen>>
    BY <1>3 DEF CreateF, TypeOK
  <2>2. last' \in Result
    BY <1>3, CallTyped DEF CreateF, Op
  <2>3. << >> \in Text /\ Len(<< >>) = 0 /\ << >> # NULL
    BY EmptySeq DEF Text
  <2>4. /\ content' \in [File -> Text \cup {NULL}]
        /\ \A g \in File : content'[g] # NULL => Len(content'[g]) <= MaxLen
        /\ \A g \in File : content[g] # NULL => content'[g] # NULL
    BY <2>1, <2>3, Slots DEF TypeOK
  <2>5. TypeOK'
    BY <2>1, <2>2, <2>4 DEF TypeOK
  <2>6. Opened' = Opened
    BY <2>1 DEF Opened
  <2>7. Console' /\ Present' /\ Handles'
    BY <2>1, <2>4, <2>6, Slots DEF Console, Present, Handles
  <2> QED BY <2>5, <2>7
<1>4. ASSUME NEW f \in File, NEW type \in 0 .. 4, OpenF(f, type) PROVE Table'
  <2>1. PICK s \in getIdxFreeSlot, fd \in Fd :
          /\ LowestFree(fd)
          /\ fds' = fds \cup {fd}
          /\ file_table' = [file_table EXCEPT ![s] = NewFile(f, type, fd)]
          /\ seen' = [seen EXCEPT ![s] = << >>]
          /\ steady' = steady \cup {s}
          /\ Called("OpenF", s)
    BY <1>4 DEF OpenF
  <2>2. /\ type \in {0, 1} /\ f \in Name /\ content[f] # NULL
        /\ UNCHANGED <<content, zeros>>
    BY <1>4 DEF OpenF
  <2>3. s \in Slot \ Opened /\ s \notin {0, 1} /\ s \in Int /\ fd \notin fds
    BY <2>1, Slots DEF getIdxFreeSlot, LowestFree
  <2>4. /\ NewFile(f, type, fd) \in OpenFile /\ NewFile(f, type, fd) # NULL
        /\ NewFile(f, type, fd).name = f /\ NewFile(f, type, fd).type = type
        /\ NewFile(f, type, fd).file = fd
    BY <2>2, Slots, Fresh
  <2>5. /\ file_table' \in [Slot -> OpenFile \cup {NULL}]
        /\ file_table'[s] = NewFile(f, type, fd)
        /\ \A r \in Slot \ {s} : file_table'[r] = file_table[r]
    BY <2>1, <2>3, <2>4 DEF TypeOK
  <2>6. Opened' = Opened \cup {s}
    BY <2>3, <2>4, <2>5 DEF Opened
  <2>7. last' \in Result
    BY <2>1, <2>3, CallTyped DEF Op
  <2>8. seen' \in [Slot -> Text]
    BY <2>1, <2>3, EmptySeq DEF TypeOK, Text
  <2>9. TypeOK'
    BY <2>1, <2>2, <2>3, <2>5, <2>7, <2>8 DEF TypeOK
  <2>10. \A r \in Opened : r # s /\ file_table'[r] = file_table[r]
    BY <2>3, <2>5 DEF Opened
  <2>11. Console' /\ Present'
    BY <2>2, <2>3, <2>4, <2>5, <2>6, <2>10 DEF Console, Present
  <2>12. fds' = {file_table'[r].file : r \in Opened'}
    BY <2>1, <2>4, <2>5, <2>6, <2>10 DEF Handles
  <2>13. \A q, r \in Opened' : file_table'[q].file = file_table'[r].file => q = r
    BY <2>3, <2>4, <2>5, <2>6, <2>10 DEF Handles
  <2> QED BY <2>9, <2>11, <2>12, <2>13 DEF Handles
<1>5. ASSUME NEW id \in Id, NEW n \in ReadSize, ReadF(id, n) PROVE Table'
  <2> DEFINE d == ReadAt(id, n)
             k == IF d = << >> THEN 0 ELSE file_table[id].currentOffset + Len(d)
  <2>1. /\ id \in Opened \ {0, 1} /\ n \in Nat /\ k \in 0 .. MaxLen
        /\ file_table[id].currentOffset >= 0
        /\ file_table' = [file_table EXCEPT ![id].currentOffset = k]
        /\ seen' = [seen EXCEPT ![id] = IF d = << >> \/ id \notin steady THEN << >>
                                           ELSE seen[id] \o d]
        /\ steady' = IF d = << >> THEN steady \cup {id} ELSE steady
        /\ CalledReadF(IF d = << >> THEN -2 ELSE Len(d), System2User(d),
                       file_table[id].name \notin zeros,
                       id \in steady => seen[id] = content[file_table[id].name])
        /\ UNCHANGED <<content, fds, zeros>>
    BY <1>5, ReadFStep
  <2>2. d \in Text /\ Len(d) \in Nat
    BY <2>1, ReadAtPart
  <2>3. System2User(d) \in Nat
    BY <2>2, System2UserCount
  <2> HIDE DEF d, k
  <2>4. /\ file_table' \in [Slot -> OpenFile \cup {NULL}] /\ Opened' = Opened
        /\ \A s \in Opened : /\ file_table'[s].name = file_table[s].name
                             /\ file_table'[s].type = file_table[s].type
                             /\ file_table'[s].file = file_table[s].file
    BY <2>1, Slots, Moved
  <2>5. seen' \in [Slot -> Text]
    <3>1. seen[id] \o d \in Text /\ << >> \in Text
      BY <2>1, <2>2, ConcatProperties, EmptySeq DEF TypeOK, Text, Opened
    <3> QED BY <2>1, <3>1 DEF TypeOK
  <2>6. last' \in Result
    <3> DEFINE ret == IF d = << >> THEN -2 ELSE Len(d)
               own == file_table[id].name \notin zeros
               all == id \in steady => seen[id] = content[file_table[id].name]
    <3>1. ret \in Int \cup {NULL} /\ "ReadF" \in Op
      BY <2>2 DEF Op
    <3>2. own \in BOOLEAN /\ all \in BOOLEAN
      OBVIOUS
    <3> HIDE DEF ret, own, all
    <3>3. [op |-> "ReadF", ret |-> ret, copied |-> System2User(d), own |-> own,
           all |-> all] \in Result
      BY <2>3, <3>1, <3>2, ResultTyped
    <3> QED BY <2>1, <3>3 DEF CalledReadF, ret, own, all
  <2>7. steady' \subseteq Slot
    BY <2>1 DEF TypeOK, Opened
  <2>8. TypeOK'
    BY <2>1, <2>4, <2>5, <2>6, <2>7 DEF TypeOK
  <2>9. Console' /\ Present' /\ Handles'
    BY <2>1, <2>4 DEF Console, Present, Handles
  <2> QED BY <2>8, <2>9
<1>6. ASSUME NEW id \in Id, NEW d \in Data, WriteF(id, d) PROVE Table'
  <2> DEFINE f == file_table[id]
             c == content[f.name]
             k == IF d = << >> THEN 0 ELSE f.currentOffset + Len(d)
             w == WriteAt(c, d, f.currentOffset)
  <2>1. /\ id \in Opened \ {0, 1} /\ d \in Seq(Char) /\ k \in 0 .. MaxLen
        /\ f.name \in Name /\ c \in Text /\ Len(c) <= MaxLen
        /\ f.currentOffset \in 0 .. MaxLen
        /\ f.currentOffset + Len(d) <= MaxLen
        /\ content' = [content EXCEPT ![f.name] = w]
        /\ file_table' = [file_table EXCEPT ![id].currentOffset = k]
        /\ seen' = [seen EXCEPT ![id] = << >>]
        /\ steady' = IF d = << >> THEN steady \cup {id} ELSE steady \ On(f.name)
        /\ Called("WriteF", IF d = << >> THEN -2 ELSE Len(d))
        /\ UNCHANGED <<fds, zeros>>
    BY <1>6, WriteFStep
  <2>2. w \in Text /\ Len(w) <= MaxLen
    BY <2>1, WriteAtText
  <2>3. last' \in Result
    <3>1. (IF d = << >> THEN -2 ELSE Len(d)) \in Int \cup {NULL} /\ "WriteF" \in Op
      BY <2>1, LenProperties DEF Op
    <3> QED BY <2>1, <3>1, CallTyped
  <2> HIDE DEF k, w
  <2>4. /\ file_table' \in [Slot -> OpenFile \cup {NULL}] /\ Opened' = Opened
        /\ \A s \in Opened : /\ file_table'[s].name = file_table[s].name
                             /\ file_table'[s].type = file_table[s].type
                             /\ file_table'[s].file = file_table[s].file
    BY <2>1, Slots, Moved
  <2>5. /\ content' \in [File -> Text \cup {NULL}]
        /\ \A g \in File : content'[g] # NULL => Len(content'[g]) <= MaxLen
        /\ \A g \in File : content[g] # NULL => content'[g] # NULL
    BY <2>1, <2>2, Slots DEF TypeOK
  <2>6. seen' \in [Slot -> Text] /\ steady' \subseteq Slot
    BY <2>1, EmptySeq DEF TypeOK, Text, Opened
  <2>7. TypeOK'
    BY <2>1, <2>3, <2>4, <2>5, <2>6 DEF TypeOK
  <2>8. Console' /\ Present' /\ Handles'
    BY <2>1, <2>4, <2>5, Slots DEF Console, Present, Handles
  <2> QED BY <2>7, <2>8
<1>7. ASSUME NEW id \in Id, CloseF(id) PROVE Table'
  <2>1. /\ id \in Opened \ {0, 1} /\ fds' = fds \ {file_table[id].file}
        /\ file_table' = [file_table EXCEPT ![id] = NULL]
        /\ UNCHANGED <<content, seen, steady, zeros>>
    BY <1>7 DEF CloseF, IsOpen
  <2>2. last' \in Result
    BY <1>7, CallTyped DEF CloseF, Op
  <2>3. /\ file_table' \in [Slot -> OpenFile \cup {NULL}]
        /\ file_table'[id] = NULL
        /\ \A r \in Slot \ {id} : file_table'[r] = file_table[r]
    BY <2>1 DEF TypeOK, Opened
  <2>4. Opened' = Opened \ {id} /\ \A r \in Opened' : file_table'[r] = file_table[r]
    BY <2>3 DEF Opened
  <2>5. TypeOK'
    BY <2>1, <2>2, <2>3 DEF TypeOK
  <2>6. Console' /\ Present'
    BY <2>1, <2>4 DEF Console, Present
  <2>7. fds' = {file_table'[r].file : r \in Opened'}
    BY <2>1, <2>4 DEF Handles
  <2>8. \A q, r \in Opened' : file_table'[q].file = file_table'[r].file => q = r
    BY <2>4 DEF Handles
  <2> QED BY <2>5, <2>6, <2>7, <2>8 DEF Handles
<1>8. ASSUME NEW id \in Id, ReadNegative(id) PROVE Table'
  <2> DEFINE k == file_table[id].currentOffset - 1
  <2>1. /\ id \in Opened \ {0, 1} /\ k \in -1 .. MaxLen
        /\ file_table' = [file_table EXCEPT ![id].currentOffset = k]
        /\ seen' = [seen EXCEPT ![id] = << >>]
        /\ steady' = steady \ {id} /\ last' \in Result
        /\ UNCHANGED <<content, fds, zeros>>
    BY <1>8, ReadNegativeStep
  <2> HIDE DEF k
  <2>2. /\ file_table' \in [Slot -> OpenFile \cup {NULL}] /\ Opened' = Opened
        /\ \A s \in Opened : /\ file_table'[s].name = file_table[s].name
                             /\ file_table'[s].type = file_table[s].type
                             /\ file_table'[s].file = file_table[s].file
    BY <2>1, Slots, Moved
  <2>3. seen' \in [Slot -> Text]
    BY <2>1, EmptySeq DEF TypeOK, Text, Opened
  <2>4. TypeOK'
    BY <2>1, <2>2, <2>3 DEF TypeOK
  <2>5. Console' /\ Present' /\ Handles'
    BY <2>1, <2>2 DEF Console, Present, Handles
  <2> QED BY <2>4, <2>5
<1> QED BY <1>1, <1>2, <1>3, <1>4, <1>5, <1>6, <1>7, <1>8 DEF Next, Idles
-----------------------------------------------------------------------------
(* Reading to the end *)

LEMMA WholeInit == Init => Whole
<1> SUFFICES ASSUME Init PROVE Whole
  OBVIOUS
<1>1. Table
  BY TableInit
<1>2. \A s \in Slot \ {0, 1} : file_table[s] = NULL
  BY Slots DEF Init
<1>3. Reads
  BY <1>2 DEF Reads, Opened
<1>4. EofMeansAllRead
  BY DEF Init, EofMeansAllRead
<1> QED BY <1>1, <1>3, <1>4 DEF Whole

LEMMA WholeNext ==
  ASSUME 0 \notin ReadSize
  PROVE  Whole /\ [Next]_vars => Whole'
<1> SUFFICES ASSUME Whole, [Next]_vars PROVE Reads' /\ EofMeansAllRead'
  BY TableNext DEF Whole
<1> USE DEF Whole
<1>1. TypeOK /\ Opened \subseteq Slot
  BY DEF Table, Opened
<1>2. CASE Idles
  <2>1. /\ UNCHANGED <<file_table, content, seen, steady>>
        /\ last'.op = "ReadF" => last'.ret \in {-1, NULL}
    BY <1>2, IdleStep
  <2> QED BY <2>1 DEF Reads, Opened, EofMeansAllRead
<1>3. CASE UNCHANGED vars
  BY <1>3 DEF vars, Reads, Opened, EofMeansAllRead
<1>4. ASSUME NEW f \in Name, CreateF(f) PROVE Reads' /\ EofMeansAllRead'
  <2>1. /\ content' = [content EXCEPT ![f] = << >>] /\ steady' = steady \ On(f)
        /\ UNCHANGED <<file_table, seen>> /\ last'.op = "CreateF"
    BY <1>4 DEF CreateF, Called
  <2>2. Opened' = Opened
    BY <2>1 DEF Opened
  <2>3. ASSUME NEW s \in Opened \ {0, 1}, s \in steady'
        PROVE  content'[file_table[s].name] = content[file_table[s].name]
    <3>1. file_table[s].name # f /\ file_table[s].name \in File
      BY <1>1, <2>1, <2>3, Entry DEF On
    <3> QED BY <1>1, <2>1, <3>1 DEF TypeOK
  <2>4. Reads'
    BY <2>1, <2>2, <2>3 DEF Reads
  <2> QED BY <2>1, <2>4 DEF EofMeansAllRead
<1>5. ASSUME NEW f \in File, NEW type \in 0 .. 4, OpenF(f, type)
      PROVE  Reads' /\ EofMeansAllRead'
  <2>1. PICK s \in getIdxFreeSlot, fd \in Fd :
          /\ file_table' = [file_table EXCEPT ![s] = NewFile(f, type, fd)]
          /\ seen' = [seen EXCEPT ![s] = << >>]
          /\ steady' = steady \cup {s}
          /\ Called("OpenF", s)
    BY <1>5 DEF OpenF
  <2>2. type \in {0, 1} /\ f \in Name /\ content[f] # NULL /\ content' = content
    BY <1>5 DEF OpenF
  <2>3. s \in Slot \ Opened
    BY <2>1 DEF getIdxFreeSlot
  <2>4. /\ NewFile(f, type, fd) # NULL /\ NewFile(f, type, fd).name = f
        /\ NewFile(f, type, fd).currentOffset = 0
    BY <2>2, Slots, Fresh
  <2>5. /\ file_table'[s] = NewFile(f, type, fd) /\ seen'[s] = << >>
        /\ \A r \in Slot \ {s} : file_table'[r] = file_table[r] /\ seen'[r] = seen[r]
    BY <1>1, <2>1, <2>3 DEF TypeOK
  <2>6. Opened' = Opened \cup {s}
    BY <2>3, <2>4, <2>5 DEF Opened
  <2>7. Len(content[f]) \in Nat /\ SubSeq(content[f], 1, 0) = << >>
    BY <1>1, <2>2, Slots, LenProperties, SubSeqEmpty DEF TypeOK, Text
  <2>8. ASSUME NEW r \in Opened' \ {0, 1}, r \in steady', r # s
        PROVE  /\ file_table'[r].currentOffset <= Len(content'[file_table'[r].name])
               /\ seen'[r] = SubSeq(content'[file_table'[r].name], 1,
                                    file_table'[r].currentOffset)
    BY <1>1, <2>1, <2>2, <2>5, <2>6, <2>8 DEF Reads
  <2>9. /\ file_table'[s].currentOffset <= Len(content'[file_table'[s].name])
        /\ seen'[s] = SubSeq(content'[file_table'[s].name], 1,
                             file_table'[s].currentOffset)
    BY <2>2, <2>4, <2>5, <2>7
  <2>10. Reads'
    BY <2>8, <2>9 DEF Reads
  <2>11. last'.op = "OpenF"
    BY <2>1 DEF Called
  <2> QED BY <2>10, <2>11 DEF EofMeansAllRead
<1>6. ASSUME NEW id \in Id, NEW n \in ReadSize, ReadF(id, n)
      PROVE  Reads' /\ EofMeansAllRead'
  <2> DEFINE d == ReadAt(id, n)
             c == content[file_table[id].name]
             o == file_table[id].currentOffset
             k == IF d = << >> THEN 0 ELSE o + Len(d)
  <2>1. /\ id \in Opened \ {0, 1} /\ n \in Nat /\ k \in 0 .. MaxLen
        /\ file_table[id].currentOffset >= 0
        /\ file_table' = [file_table EXCEPT ![id].currentOffset = k]
        /\ seen' = [seen EXCEPT ![id] = IF d = << >> \/ id \notin steady THEN << >>
                                           ELSE seen[id] \o d]
        /\ steady' = IF d = << >> THEN steady \cup {id} ELSE steady
        /\ CalledReadF(IF d = << >> THEN -2 ELSE Len(d), System2User(d),
                       file_table[id].name \notin zeros,
                       id \in steady => seen[id] = c)
        /\ UNCHANGED content
    BY <1>6, ReadFStep
  <2>2. /\ c \in Text /\ Len(c) \in 0 .. MaxLen /\ o \in 0 .. MaxLen
        /\ Len(d) \in Nat
        /\ \/ d = << >> /\ (n > 0 => Len(c) <= o)
           \/ d # << >> /\ o + Len(d) <= Len(c) /\ d = SubSeq(c, o + 1, o + Len(d))
    BY <2>1, ReadAtPart
  <2>3. n > 0
    BY <2>1
  <2>4. id \in steady => o <= Len(c) /\ seen[id] = SubSeq(c, 1, o)
    BY <2>1 DEF Reads
  <2> HIDE DEF k
  <2>5. /\ Opened' = Opened
        /\ \A s \in Opened \ {id} : file_table'[s] = file_table[s]
        /\ file_table'[id].name = file_table[id].name
        /\ file_table'[id].currentOffset = k
    BY <1>1, <2>1, Slots, Moved
  <2>6. ASSUME d = << >>, id \in steady PROVE seen[id] = c
    <3>1. o = Len(c)
      BY <2>2, <2>3, <2>4, <2>6
    <3> QED BY <2>2, <2>4, <2>6, <3>1, SubSeqFull DEF Text
  <2>7. EofMeansAllRead'
    <3>1. d # << >> => Len(d) # -2
      BY <2>2
    <3>2. last'.ret = (IF d = << >> THEN -2 ELSE Len(d))
          /\ last'.all = (id \in steady => seen[id] = c)
      BY <2>1 DEF CalledReadF
    <3> QED BY <2>6, <3>1, <3>2 DEF EofMeansAllRead
  <2>8. CASE d = << >>
    <3>1. k = 0 /\ seen'[id] = << >>
      BY <1>1, <2>1, <2>8 DEF k, TypeOK
    <3>2. SubSeq(c, 1, 0) = << >>
      BY SubSeqEmpty
    <3>3. \A s \in Slot \ {id} : seen'[s] = seen[s] /\ (s \in steady' <=> s \in steady)
      BY <1>1, <2>1, <2>8 DEF TypeOK
    <3>4. /\ file_table'[id].currentOffset <= Len(content'[file_table'[id].name])
          /\ seen'[id] = SubSeq(content'[file_table'[id].name], 1,
                                file_table'[id].currentOffset)
      <4>1. 0 <= Len(c)
        BY <2>2
      <4>2. content'[file_table'[id].name] = c
        BY <2>1, <2>5
      <4> HIDE DEF c
      <4> QED BY <2>5, <3>1, <3>2, <4>1, <4>2
    <3>5. Reads'
      BY <1>1, <2>1, <2>5, <3>3, <3>4 DEF Reads
    <3> QED BY <2>7, <3>5
  <2>9. CASE d # << >>
    <3>1. k = o + Len(d) /\ (id \in steady => seen'[id] = seen[id] \o d)
      BY <1>1, <2>1, <2>9 DEF k, TypeOK
    <3>2. ASSUME id \in steady PROVE seen'[id] = SubSeq(c, 1, k)
      <4>1. /\ o \in Nat /\ Len(d) \in Nat /\ Len(c) \in Nat
            /\ o + Len(d) <= Len(c) /\ k = o + Len(d)
        BY <2>2, <2>9, <3>1
      <4>2. 1 \in 1 .. Len(c) + 1 /\ o \in 1 - 1 .. Len(c) /\ k \in o .. Len(c)
        <5> HIDE DEF o, c, d
        <5> QED BY <4>1
      <4>3. SubSeq(c, 1, o) \o SubSeq(c, o + 1, k) = SubSeq(c, 1, k)
        BY <2>2, <4>2, ConcatAdjacentSubSeq DEF Text
      <4>4. seen[id] = SubSeq(c, 1, o) /\ d = SubSeq(c, o + 1, k)
        BY <2>2, <2>4, <2>9, <3>1, <3>2
      <4> QED BY <3>1, <3>2, <4>3, <4>4
    <3>3. \A s \in Slot \ {id} : seen'[s] = seen[s] /\ (s \in steady' <=> s \in steady)
      BY <1>1, <2>1, <2>9 DEF TypeOK
    <3>4. k <= Len(c) /\ steady' = steady
      BY <2>1, <2>2, <2>9, <3>1
    <3>5. Reads'
      BY <1>1, <2>1, <2>5, <3>2, <3>3, <3>4 DEF Reads
    <3> QED BY <2>7, <3>5
  <2> QED BY <2>8, <2>9
<1>7. ASSUME NEW id \in Id, NEW d \in Data, WriteF(id, d)
      PROVE  Reads' /\ EofMeansAllRead'
  <2> DEFINE f == file_table[id]
             c == content[f.name]
             k == IF d = << >> THEN 0 ELSE f.currentOffset + Len(d)
             w == WriteAt(c, d, f.currentOffset)
  <2>1. /\ id \in Opened \ {0, 1} /\ d \in Seq(Char) /\ k \in 0 .. MaxLen
        /\ f.name \in Name /\ c \in Text /\ Len(c) <= MaxLen
        /\ f.currentOffset \in 0 .. MaxLen
        /\ f.currentOffset + Len(d) <= MaxLen
        /\ content' = [content EXCEPT ![f.name] = w]
        /\ file_table' = [file_table EXCEPT ![id].currentOffset = k]
        /\ seen' = [seen EXCEPT ![id] = << >>]
        /\ steady' = IF d = << >> THEN steady \cup {id} ELSE steady \ On(f.name)
        /\ Called("WriteF", IF d = << >> THEN -2 ELSE Len(d))
    BY <1>7, WriteFStep
  <2>2. d = << >> => w = c
    BY <2>1, WriteAtText
  <2>3. last'.op = "WriteF"
    BY <2>1 DEF Called
  <2> HIDE DEF k, w
  <2>4. /\ Opened' = Opened
        /\ \A s \in Opened \ {id} : file_table'[s] = file_table[s]
        /\ file_table'[id].name = file_table[id].name
        /\ file_table'[id].currentOffset = k
    BY <1>1, <2>1, Slots, Moved
  <2>5. /\ seen'[id] = << >>
        /\ \A s \in Slot \ {id} : seen'[s] = seen[s]
    BY <1>1, <2>1 DEF TypeOK
  <2>6. CASE d = << >>
    <3>1. content' = content /\ k = 0
      <4>1. k = 0
        BY <2>6 DEF k
      <4>2. content[f.name] = c /\ content' = [content EXCEPT ![f.name] = c]
        BY <2>1, <2>2, <2>6
      <4> QED BY <1>1, <4>1, <4>2 DEF TypeOK
    <3>2. SubSeq(c, 1, 0) = << >> /\ Len(c) \in Nat
      BY <2>1, SubSeqEmpty, LenProperties DEF Text
    <3>3. Reads'
      BY <1>1, <2>1, <2>4, <2>5, <2>6, <3>1, <3>2 DEF Reads
    <3> QED BY <2>3, <3>3 DEF EofMeansAllRead
  <2>7. CASE d # << >>
    <3>1. \A s \in Opened : s \in steady' => s \in steady /\ file_table[s].name # f.name
      BY <2>1, <2>7 DEF On
    <3>2. \A s \in Opened : s \in steady' =>
            content'[file_table[s].name] = content[file_table[s].name]
      BY <1>1, <2>1, <3>1, Entry DEF TypeOK
    <3>3. id \notin steady'
      BY <2>1, <3>1
    <3>4. Reads'
      BY <1>1, <2>4, <2>5, <3>1, <3>2, <3>3 DEF Reads
    <3> QED BY <2>3, <3>4 DEF EofMeansAllRead
  <2> QED BY <2>6, <2>7
<1>8. ASSUME NEW id \in Id, CloseF(id) PROVE Reads' /\ EofMeansAllRead'
  <2>1. /\ id \in Slot /\ file_table' = [file_table EXCEPT ![id] = NULL]
        /\ UNCHANGED <<content, seen, steady>> /\ last'.op = "CloseF"
    BY <1>1, <1>8 DEF CloseF, IsOpen, Called
  <2>2. file_table'[id] = NULL /\ \A r \in Slot \ {id} : file_table'[r] = file_table[r]
    BY <1>1, <2>1 DEF TypeOK
  <2>3. Opened' = Opened \ {id} /\ \A r \in Opened' : file_table'[r] = file_table[r]
    BY <2>2 DEF Opened
  <2>4. Reads'
    BY <2>1, <2>3 DEF Reads
  <2> QED BY <2>1, <2>4 DEF EofMeansAllRead
<1>9. ASSUME NEW id \in Id, ReadNegative(id) PROVE Reads' /\ EofMeansAllRead'
  <2> DEFINE k == file_table[id].currentOffset - 1
  <2>1. /\ id \in Opened \ {0, 1} /\ k \in -1 .. MaxLen
        /\ file_table' = [file_table EXCEPT ![id].currentOffset = k]
        /\ seen' = [seen EXCEPT ![id] = << >>]
        /\ steady' = steady \ {id} /\ last'.ret = -1
        /\ UNCHANGED content
    BY <1>9, ReadNegativeStep
  <2> HIDE DEF k
  <2>2. Opened' = Opened /\ \A s \in Opened \ {id} : file_table'[s] = file_table[s]
    BY <1>1, <2>1, Slots, Moved
  <2>3. \A s \in Slot \ {id} : seen'[s] = seen[s]
    BY <1>1, <2>1 DEF TypeOK
  <2>4. Reads'
    BY <1>1, <2>1, <2>2, <2>3 DEF Reads
  <2>5. EofMeansAllRead'
    BY <2>1 DEF EofMeansAllRead
  <2> QED BY <2>4, <2>5
<1> QED BY <1>2, <1>3, <1>4, <1>5, <1>6, <1>7, <1>8, <1>9 DEF Next, Idles
-----------------------------------------------------------------------------
(* No gaps *)

LEMMA DenseInit == Init => Dense
<1> SUFFICES ASSUME Init PROVE Dense
  OBVIOUS
<1>1. Table
  BY TableInit
<1>2. NoGaps
  <2> SUFFICES ASSUME NEW f \in Name \ zeros, content[f] # NULL
               PROVE  content[f] \in Seq(Char) /\ On(f) = {}
    BY DEF NoGaps
  <2>1. \A s \in Opened : s \in {0, 1} /\ file_table[s].name \in {"stdin", "stdout"}
    <3>1. /\ file_table[0] = NewFile("stdin", 2, 0)
          /\ file_table[1] = NewFile("stdout", 3, 1)
          /\ \A s \in Slot \ {0, 1} : file_table[s] = NULL
      BY Slots DEF Init
    <3> QED BY <3>1, Slots, Fresh DEF Opened
  <2>2. On(f) = {}
    BY <2>1 DEF On
  <2>3. PICK host \in [Name -> Preexisting \cup {NULL}] :
          /\ content = [g \in File |-> IF g \in Name THEN host[g] ELSE << >>]
          /\ zeros = {g \in Name : host[g] # NULL /\ HasZero(host[g])}
    BY DEF Init
  <2>4. content[f] = host[f] /\ host[f] \in Text /\ ~ HasZero(host[f])
    BY <2>3, Slots, PreexistingAssumption
  <2>5. content[f] \in Seq(Char)
    <3>1. /\ Len(host[f]) \in Nat /\ DOMAIN host[f] = 1 .. Len(host[f])
          /\ host[f] \in [1 .. Len(host[f]) -> Char \cup {NUL}]
      BY <2>4, LenProperties DEF Text
    <3>2. \A i \in 1 .. Len(host[f]) : host[f][i] \in Char
      BY <2>4, <3>1 DEF HasZero
    <3>3. host[f] \in [1 .. Len(host[f]) -> Char]
      BY <3>1, <3>2
    <3> QED BY <2>4, <3>1, <3>3
  <2> QED BY <2>2, <2>5
<1>3. CopiesOwnText
  BY DEF Init, CopiesOwnText
<1> QED BY <1>1, <1>2, <1>3 DEF Dense

LEMMA DenseNext == Dense /\ [Next]_vars => Dense'
<1> SUFFICES ASSUME Dense, [Next]_vars PROVE NoGaps' /\ CopiesOwnText'
  BY TableNext DEF Dense
<1> USE DEF Dense
<1>1. TypeOK /\ Opened \subseteq Slot
  BY DEF Table, Opened
<1>2. CASE Idles
  <2>1. /\ UNCHANGED <<file_table, content, zeros>>
        /\ last'.op = "ReadF" => last'.ret \in {-1, NULL}
    BY <1>2, IdleStep
  <2> QED BY <2>1 DEF NoGaps, On, Opened, Running, CopiesOwnText
<1>3. CASE UNCHANGED vars
  BY <1>3 DEF vars, NoGaps, On, Opened, Running, CopiesOwnText
<1>4. ASSUME NEW f \in Name, CreateF(f) PROVE NoGaps' /\ CopiesOwnText'
  <2>1. /\ content' = [content EXCEPT ![f] = << >>]
        /\ zeros' = (IF \E s \in On(f) : file_table[s].currentOffset > 0
                   THEN zeros \cup {f} ELSE zeros \ {f})
        /\ UNCHANGED file_table /\ last'.op = "CreateF"
    BY <1>4 DEF CreateF, Called
  <2>2. Opened' = Opened /\ \A g \in Name : On(g)' = On(g)
    BY <2>1 DEF Opened, On
  <2>3. content'[f] = << >> /\ \A g \in Name \ {f} : content'[g] = content[g]
    BY <1>1, <2>1, Slots DEF TypeOK
  <2>4. \A g \in Name \ {f} : g \in zeros' <=> g \in zeros
    BY <2>1
  <2>5. ASSUME f \notin zeros'
        PROVE  \A s \in On(f) : file_table[s].currentOffset <= Len(<< >>)
    <3> TAKE s \in On(f)
    <3>1. file_table[s].currentOffset \in -1 .. MaxLen
      BY <1>1, Entry DEF On
    <3>2. ~ (file_table[s].currentOffset > 0)
      BY <2>1, <2>5
    <3>3. Len(<< >>) = 0
      BY EmptySeq
    <3> QED BY <3>1, <3>2, <3>3
  <2>6. << >> \in Seq(Char)
    BY EmptySeq
  <2>7. NoGaps'
    <3> SUFFICES ASSUME NEW g \in Name \ zeros', content'[g] # NULL
                 PROVE  /\ content'[g] \in Seq(Char)
                        /\ \A s \in On(g) : file_table[s].currentOffset <= Len(content'[g])
      BY <2>1, <2>2 DEF NoGaps
    <3>1. CASE g = f
      BY <2>3, <2>5, <2>6, <3>1
    <3>2. CASE g # f
      BY <2>3, <2>4, <3>2 DEF NoGaps
    <3> QED BY <3>1, <3>2
  <2> QED BY <2>1, <2>7 DEF CopiesOwnText
<1>5. ASSUME NEW f \in File, NEW type \in 0 .. 4, OpenF(f, type)
      PROVE  NoGaps' /\ CopiesOwnText'
  <2>1. PICK s \in getIdxFreeSlot, fd \in Fd :
          /\ file_table' = [file_table EXCEPT ![s] = NewFile(f, type, fd)]
          /\ Called("OpenF", s)
    BY <1>5 DEF OpenF
  <2>2. type \in {0, 1} /\ f \in Name /\ UNCHANGED <<content, zeros>>
    BY <1>5 DEF OpenF
  <2>3. s \in Slot \ Opened
    BY <2>1 DEF getIdxFreeSlot
  <2>4. /\ NewFile(f, type, fd) # NULL /\ NewFile(f, type, fd).name = f
        /\ NewFile(f, type, fd).currentOffset = 0
    BY <2>2, Slots, Fresh
  <2>5. /\ file_table'[s] = NewFile(f, type, fd)
        /\ \A r \in Slot \ {s} : file_table'[r] = file_table[r]
    BY <1>1, <2>1, <2>3 DEF TypeOK
  <2>6. Opened' = Opened \cup {s}
    BY <2>3, <2>4, <2>5 DEF Opened
  <2>7. \A g \in Name : \A r \in On(g)' :
          r = s \/ (r \in On(g) /\ file_table'[r] = file_table[r])
    BY <1>1, <2>5, <2>6 DEF On
  <2>8. \A g \in Name : content[g] # NULL => Len(content[g]) \in Nat
    BY <1>1, Slots, LenProperties DEF TypeOK, Text
  <2>9. ASSUME NEW g \in Name \ zeros, content[g] # NULL, NEW r \in On(g)'
        PROVE  file_table'[r].currentOffset <= Len(content[g])
    <3>1. CASE r = s
      BY <2>4, <2>5, <2>8, <2>9, <3>1
    <3>2. CASE r \in On(g) /\ file_table'[r] = file_table[r]
      BY <2>9, <3>2 DEF NoGaps
    <3> QED BY <2>7, <3>1, <3>2
  <2>10. NoGaps'
    BY <2>2, <2>9 DEF NoGaps
  <2>11. last'.op = "OpenF"
    BY <2>1 DEF Called
  <2> QED BY <2>10, <2>11 DEF CopiesOwnText
<1>6. ASSUME NEW id \in Id, NEW n \in ReadSize, ReadF(id, n)
      PROVE  NoGaps' /\ CopiesOwnText'
  <2> DEFINE d == ReadAt(id, n)
             f == file_table[id].name
             c == content[f]
             o == file_table[id].currentOffset
             k == IF d = << >> THEN 0 ELSE o + Len(d)
  <2>1. /\ id \in Opened \ {0, 1} /\ n \in Nat /\ k \in 0 .. MaxLen
        /\ file_table[id].currentOffset >= 0
        /\ file_table' = [file_table EXCEPT ![id].currentOffset = k]
        /\ CalledReadF(IF d = << >> THEN -2 ELSE Len(d), System2User(d),
                       file_table[id].name \notin zeros,
                       id \in steady => seen[id] = c)
        /\ UNCHANGED <<content, zeros>>
    BY <1>6, ReadFStep
  <2>2. /\ c \in Text /\ Len(c) \in 0 .. MaxLen /\ o \in 0 .. MaxLen
        /\ d \in Text /\ Len(d) \in Nat
        /\ \/ d = << >>
           \/ d # << >> /\ o + Len(d) <= Len(c) /\ d = SubSeq(c, o + 1, o + Len(d))
    BY <2>1, ReadAtPart
  <2>3. f \in Name /\ c # NULL /\ id \in On(f)
    BY <2>1 DEF Table, Console, On
  <2>4. k <= Len(c)
    BY <2>2
  <2> HIDE DEF k
  <2>5. /\ Opened' = Opened
        /\ \A s \in Opened \ {id} : file_table'[s] = file_table[s]
        /\ \A s \in Opened : file_table'[s].name = file_table[s].name
        /\ file_table'[id].currentOffset = k
    BY <1>1, <2>1, Slots, Moved
  <2>6. \A g \in Name : On(g)' = On(g)
    BY <2>5 DEF On
  <2>7. ASSUME NEW g \in Name \ zeros, content[g] # NULL, NEW s \in On(g)
        PROVE  file_table'[s].currentOffset <= Len(content[g])
    <3>1. CASE s = id
      BY <2>4, <2>5, <2>7, <3>1 DEF On
    <3>2. CASE s # id
      BY <2>5, <2>7, <3>2 DEF NoGaps, On
    <3> QED BY <3>1, <3>2
  <2>8. NoGaps'
    BY <2>1, <2>6, <2>7 DEF NoGaps
  <2>9. ASSUME f \notin zeros, d # << >> PROVE System2User(d) = Len(d)
    <3>1. c \in Seq(Char)
      BY <2>3, <2>9 DEF NoGaps
    <3>2. o + 1 \in 1 .. Len(c) /\ o + Len(d) \in 1 .. Len(c)
      <4>1. Len(d) # 0
        BY <2>2, <2>9, EmptySeq DEF Text
      <4>2. /\ o \in Nat /\ Len(d) \in Nat /\ Len(c) \in Nat
            /\ o + Len(d) <= Len(c)
        BY <2>2, <2>9
      <4> HIDE DEF o, c, d
      <4> QED BY <4>1, <4>2
    <3>3. SubSeq(c, o + 1, o + Len(d)) \in Seq(Char)
      BY <3>1, <3>2, SubSeqProperties
    <3> QED BY <2>2, <2>9, <3>3, System2UserCount
  <2>10. CopiesOwnText'
    <3>1. /\ last'.ret = (IF d = << >> THEN -2 ELSE Len(d))
          /\ last'.copied = System2User(d) /\ last'.own = (f \notin zeros)
      BY <2>1 DEF CalledReadF
    <3>2. CASE d = << >>
      BY <3>1, <3>2 DEF CopiesOwnText
    <3>3. CASE d # << >>
      BY <2>9, <3>1, <3>3 DEF CopiesOwnText
    <3> QED BY <3>2, <3>3
  <2> QED BY <2>8, <2>10
<1>7. ASSUME NEW id \in Id, NEW d \in Data, WriteF(id, d)
      PROVE  NoGaps' /\ CopiesOwnText'
  <2> DEFINE f == file_table[id].name
             c == content[f]
             o == file_table[id].currentOffset
             k == IF d = << >> THEN 0 ELSE o + Len(d)
             w == WriteAt(c, d, o)
  <2>1. /\ id \in Opened \ {0, 1} /\ d \in Seq(Char) /\ k \in 0 .. MaxLen
        /\ f \in Name /\ c \in Text /\ Len(c) <= MaxLen
        /\ o \in 0 .. MaxLen /\ o + Len(d) <= MaxLen
        /\ content' = [content EXCEPT ![f] = w]
        /\ file_table' = [file_table EXCEPT ![id].currentOffset = k]
        /\ Called("WriteF", IF d = << >> THEN -2 ELSE Len(d))
        /\ UNCHANGED zeros
    BY <1>7, WriteFStep
  <2>2. last'.op = "WriteF" /\ c # NULL /\ id \in On(f)
    BY <2>1 DEF Called, Table, Console, On
  <2>3. c \in Seq(Char) /\ o <= Len(c) =>
          w \in Seq(Char) /\ Len(c) <= Len(w) /\ o + Len(d) <= Len(w)
    BY <2>1, WriteAtText
  <2>4. w \in Text /\ Len(w) \in Nat /\ Len(c) \in Nat /\ Len(d) \in Nat
    BY <2>1, WriteAtText, LenProperties DEF Text
  <2>5. f \notin zeros =>
          w \in Seq(Char) /\ Len(c) <= Len(w) /\ k <= Len(w)
    <3>1. ASSUME f \notin zeros PROVE c \in Seq(Char) /\ o <= Len(c)
      BY <2>1, <2>2, <3>1 DEF NoGaps
    <3> QED BY <2>3, <2>4, <3>1
  <2> HIDE DEF k, w
  <2>6. /\ Opened' = Opened
        /\ \A s \in Opened \ {id} : file_table'[s] = file_table[s]
        /\ \A s \in Opened : file_table'[s].name = file_table[s].name
        /\ file_table'[id].currentOffset = k
    BY <1>1, <2>1, Slots, Moved
  <2>7. \A g \in Name : On(g)' = On(g)
    BY <2>6 DEF On
  <2>8. content'[f] = w /\ \A g \in Name \ {f} : content'[g] = content[g]
    BY <1>1, <2>1, Slots DEF TypeOK
  <2>9. ASSUME f \notin zeros, NEW s \in On(f)
        PROVE  file_table'[s].currentOffset <= Len(w)
    <3>1. CASE s = id
      BY <2>5, <2>6, <2>9, <3>1
    <3>2. CASE s # id
      <4>1. file_table'[s] = file_table[s] /\ file_table[s].currentOffset \in -1 .. MaxLen
        BY <1>1, <2>6, <3>2, Entry DEF On
      <4>2. file_table[s].currentOffset <= Len(c)
        BY <2>1, <2>2, <2>9 DEF NoGaps
      <4> QED BY <2>4, <2>5, <2>9, <4>1, <4>2
    <3> QED BY <3>1, <3>2
  <2>10. ASSUME NEW g \in Name \ zeros, g # f, NEW s \in On(g)
         PROVE  file_table'[s] = file_table[s]
    BY <2>6, <2>10 DEF On
  <2>11. ASSUME NEW g \in Name \ zeros, content'[g] # NULL
         PROVE  /\ content'[g] \in Seq(Char)
                /\ \A s \in On(g) : file_table'[s].currentOffset <= Len(content'[g])
    <3>1. CASE g = f
      BY <2>5, <2>8, <2>9, <2>11, <3>1
    <3>2. CASE g # f
      BY <2>8, <2>10, <2>11, <3>2 DEF NoGaps
    <3> QED BY <3>1, <3>2
  <2>12. NoGaps'
    BY <2>1, <2>7, <2>11 DEF NoGaps
  <2> QED BY <2>2, <2>12 DEF CopiesOwnText
<1>8. ASSUME NEW id \in Id, CloseF(id) PROVE NoGaps' /\ CopiesOwnText'
  <2>1. /\ id \in Slot /\ file_table' = [file_table EXCEPT ![id] = NULL]
        /\ UNCHANGED <<content, zeros>> /\ last'.op = "CloseF"
    BY <1>1, <1>8 DEF CloseF, IsOpen, Called
  <2>2. file_table'[id] = NULL /\ \A r \in Slot \ {id} : file_table'[r] = file_table[r]
    BY <1>1, <2>1 DEF TypeOK
  <2>3. \A g \in Name : \A r \in On(g)' : r \in On(g) /\ file_table'[r] = file_table[r]
    BY <2>2 DEF Opened, On
  <2>4. NoGaps'
    BY <2>1, <2>3 DEF NoGaps
  <2> QED BY <2>1, <2>4 DEF CopiesOwnText
<1>9. ASSUME NEW id \in Id, ReadNegative(id) PROVE NoGaps' /\ CopiesOwnText'
  <2> DEFINE k == file_table[id].currentOffset - 1
  <2>1. /\ id \in Opened \ {0, 1} /\ k \in -1 .. MaxLen
        /\ k < file_table[id].currentOffset
        /\ file_table' = [file_table EXCEPT ![id].currentOffset = k]
        /\ last'.ret = -1 /\ UNCHANGED <<content, zeros>>
    BY <1>9, ReadNegativeStep
  <2>2. file_table[id].currentOffset \in -1 .. MaxLen
    BY <1>1, <2>1, Entry
  <2> HIDE DEF k
  <2>3. /\ Opened' = Opened
        /\ \A s \in Opened \ {id} : file_table'[s] = file_table[s]
        /\ \A s \in Opened : file_table'[s].name = file_table[s].name
        /\ file_table'[id].currentOffset = k
    BY <1>1, <2>1, Slots, Moved
  <2>4. \A g \in Name : On(g)' = On(g)
    BY <2>3 DEF On
  <2>5. ASSUME NEW g \in Name \ zeros, content[g] # NULL, NEW s \in On(g)
        PROVE  file_table'[s].currentOffset <= Len(content[g])
    <3>1. file_table[s].currentOffset <= Len(content[g]) /\ Len(content[g]) \in Nat
      BY <1>1, <2>5, Slots, LenProperties DEF NoGaps, TypeOK, Text
    <3>2. CASE s = id
      BY <2>1, <2>2, <2>3, <3>1, <3>2
    <3>3. CASE s # id
      BY <2>3, <3>1, <3>3, <2>5 DEF On
    <3> QED BY <3>2, <3>3
  <2>6. NoGaps'
    BY <2>1, <2>4, <2>5 DEF NoGaps
  <2>7. CopiesOwnText'
    BY <2>1 DEF CopiesOwnText
  <2> QED BY <2>6, <2>7
<1> QED BY <1>2, <1>3, <1>4, <1>5, <1>6, <1>7, <1>8, <1>9 DEF Next, Idles
-----------------------------------------------------------------------------
(* Theorems *)

\* The variables of the table and of the host's files keep their types.
THEOREM TypeCorrect == Spec => []TypeOK
<1>1. Init => Table
  BY TableInit
<1>2. Table /\ [Next]_vars => Table'
  BY TableNext
<1>3. Table => TypeOK
  BY DEF Table
<1> QED BY <1>1, <1>2, <1>3, PTL DEF Spec

\* No order of CreateF, OpenF, ReadF, WriteF and CloseF, refused ones included,
\* loses or shares a descriptor of the host or touches the console's entries.
THEOREM HandlesMatchTableHolds == Spec => []HandlesMatchTable
<1>1. Init => Table
  BY TableInit
<1>2. Table /\ [Next]_vars => Table'
  BY TableNext
<1>3. Table => HandlesMatchTable
  <2> SUFFICES ASSUME Table PROVE HandlesMatchTable
    OBVIOUS
  <2> DEFINE h == [s \in Opened |-> file_table[s].file]
  <2>1. fds = {file_table[s].file : s \in Opened}
    BY DEF Table, Handles
  <2>2. h \in [Opened -> fds]
    BY <2>1
  <2>3. \A r, s \in Opened : h[r] = h[s] => r = s
    BY DEF Table, Handles
  <2>4. \A fd \in fds : \E s \in Opened : h[s] = fd
    BY <2>1
  <2> HIDE DEF h
  <2>5. ExistsBijection(Opened, fds)
    BY <2>2, <2>3, <2>4
    DEF ExistsBijection, Bijection, Injection, Surjection, IsInjective
  <2>6. IsFiniteSet(Opened)
    <3>1. Opened \in SUBSET Slot
      BY DEF Opened
    <3> QED BY <3>1, Slots, FS_Subset
  <2>7. Cardinality(fds) = Cardinality(Opened)
    BY <2>5, <2>6, FS_Bijection
  <2>8. \A s \in Slot : \A t \in {2, 3} :
          (file_table[s] # NULL /\ file_table[s].type = t) <=> s = t - 2
    BY Slots DEF Table, Console, Present, Opened
  <2> QED BY <2>1, <2>7, <2>8 DEF HandlesMatchTable
<1> QED BY <1>1, <1>2, <1>3, PTL DEF Spec

\* A reader that asks for at least one character at a time and meets -2 has
\* read the whole file, if nobody changed it: neither the rewinding of ReadF at
\* the end nor other readers take anything from it.  (ReadF for no characters
\* returns -2 anywhere in the file.)
THEOREM EofMeansAllReadHolds ==
  ASSUME 0 \notin ReadSize
  PROVE  Spec => []EofMeansAllRead
<1>1. Init => Whole
  BY WholeInit
<1>2. Whole /\ [Next]_vars => Whole'
  BY WholeNext
<1>3. Whole => EofMeansAllRead
  BY DEF Whole
<1> QED BY <1>1, <1>2, <1>3, PTL DEF Spec

\* For a text that the programs wrote themselves, in a file never emptied under
\* a process in the middle of it, ReadF puts as many characters into the buffer
\* as it says, System2User's stop at a character 0 notwithstanding, whatever the
\* host's other files hold.
THEOREM CopiesOwnTextHolds == Spec => []CopiesOwnText
<1>1. Init => Dense
  BY DenseInit
<1>2. Dense /\ [Next]_vars => Dense'
  BY DenseNext
<1>3. Dense => CopiesOwnText
  BY DEF Dense
<1> QED BY <1>1, <1>2, <1>3, PTL DEF Spec
=============================================================================
