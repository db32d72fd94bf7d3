------------------------- MODULE SynchConsoleProofs -------------------------
(***************************************************************************)
(* Proofs about SynchConsole, for any number of threads and calls, any     *)
(* texts and any input; and, in the second part, about SemTable, for any   *)
(* processes, names, initial values and size of the table.                 *)
(***************************************************************************)
EXTENDS SynchConsole, SemTable, SequenceTheorems, TLAPS

USE ConsoleAssumption

\* The threads between P and V of WLineBlock, and of RLineBlock.
Writers == {t \in Thread : pc[t] \in {"write", "writeP"}}
Readers == {t \in Thread : pc[t] \in {"readP", "getChar"}}

\* A semaphore of value 0 or 1 that keeps all but one thread out.
Excludes(lock, inside) == /\ lock = IF inside = {} THEN 1 ELSE 0
                          /\ \A t, u \in inside : t = u

LineLocks == Excludes(WLineBlock, Writers) /\ Excludes(RLineBlock, Readers)

Typing == TypeOK /\ LineLocks

\* Somebody waits for the device to finish just when it is busy or has
\* signalled that it is not.
Waits == \E t \in Thread : pc[t] = "writeP"
Device == /\ ~aborted
          /\ Waits => \/ putBusy /\ synchWriteAvail = 0
                      \/ ~putBusy /\ synchWriteAvail = 1
          /\ ~Waits => ~putBusy /\ synchWriteAvail = 0

\* How far Write is.
Progress == \A t \in Thread :
              /\ pc[t] = "write" => loop[t] <= Len(Text[t])
              /\ pc[t] = "writeP" => loop[t] < Len(Text[t])

Lines == /\ Writers = {} => display = lines
         /\ \A t \in Writers : display = lines \o Shown(t)

Writing == Typing /\ Device /\ Progress /\ Lines

\* How far Read is: it has counted the characters it has taken.
Counts == \A t \in Thread :
            /\ pc[t] \notin {"readP", "getChar"} => eaten[t] = <<>>
            /\ pc[t] = "RLineP" => loop[t] = 0
            /\ pc[t] = "readP" => loop[t] <= length[t]
            /\ pc[t] = "readP" /\ length[t] > 0 => loop[t] < length[t]
            /\ pc[t] = "getChar" => loop[t] < length[t]
            /\ pc[t] \in {"readP", "getChar"} => loop[t] = Len(eaten[t])

Buffered == IF incoming = EOF THEN <<>> ELSE <<incoming>>
Input == /\ Readers = {} => arrived = consumed \o Buffered
         /\ \A t \in Readers : arrived = consumed \o eaten[t] \o Buffered

Reading == Typing /\ Counts /\ Input
-----------------------------------------------------------------------------
(* The line locks *)

\* Where a step of t takes it, and whom the locks then hold.
LEMMA Moves ==
  ASSUME TypeOK, NEW t \in Thread, NEW to \in PC, pc' = [pc EXCEPT ![t] = to]
  PROVE  /\ pc' \in [Thread -> PC]
         /\ pc'[t] = to
         /\ \A u \in Thread \ {t} : pc'[u] = pc[u]
         /\ Writers' = IF to \in {"write", "writeP"} THEN Writers \cup {t}
                                                     ELSE Writers \ {t}
         /\ Readers' = IF to \in {"readP", "getChar"} THEN Readers \cup {t}
                                                      ELSE Readers \ {t}
BY DEF TypeOK, Writers, Readers

LEMMA TypingInit == Init => Typing
<1> SUFFICES ASSUME Init PROVE Typing
  OBVIOUS
<1>1. Writers = {} /\ Readers = {}
  BY DEF Init, Writers, Readers
<1>2. LineLocks
  BY <1>1 DEF Init, LineLocks, Excludes
<1>3. display \in Seq(Char) /\ lines \in Seq(Char) /\ arrived \in Seq(Char)
      /\ consumed \in Seq(Char) /\ eaten \in [Thread -> Seq(Char)]
  BY EmptySeq DEF Init
<1>4. putBusy \in BOOLEAN /\ aborted \in BOOLEAN
  BY DEF Init
<1>5. TypeOK
  BY <1>3, <1>4 DEF Init, TypeOK, PC
<1> QED BY <1>2, <1>5 DEF Typing

LEMMA TypingNext == Typing /\ [Next]_vars => Typing'
<1> SUFFICES ASSUME Typing, [Next]_vars PROVE Typing'
  OBVIOUS
<1> USE DEF Typing
<1>1. ASSUME NEW t \in Thread, Write(t) PROVE Typing'
  <2>1. pc[t] = "user" /\ pc' = [pc EXCEPT ![t] = "WLineP"]
    BY <1>1 DEF Write, Goto
  <2>2. pc' \in [Thread -> PC]
    BY <2>1, Moves DEF PC
  <2>3. Writers' = Writers /\ Readers' = Readers
    BY <2>1, Moves DEF PC, Writers, Readers
  <2>4. LineLocks'
    BY <1>1, <2>3 DEF LineLocks, Excludes, Write, semaphores
  <2>5. calls' \in [Thread -> 0 .. MaxCalls]
    BY <1>1 DEF TypeOK, Write, Call
  <2>6. TypeOK'
    BY <2>5, <1>1, <2>1, <2>2 DEF TypeOK, PC, Write, semaphores, writing, reading
  <2> QED BY <2>4, <2>6
<1>2. ASSUME NEW t \in Thread, WriteLock(t) PROVE Typing'
  <2>1. pc[t] = "WLineP" /\ pc' = [pc EXCEPT ![t] = "write"] /\ WLineBlock = 1
    BY <1>2 DEF WriteLock, Goto, TypeOK
  <2>2. pc' \in [Thread -> PC]
    BY <2>1, Moves DEF PC
  <2>3. Writers = {}
    BY <2>1 DEF LineLocks, Excludes
  <2>4. Writers' = {t} /\ Readers' = Readers
    BY <2>1, <2>3, Moves DEF PC, Readers
  <2>5. LineLocks'
    BY <1>2, <2>1, <2>4 DEF LineLocks, Excludes, WriteLock
  <2>6. TypeOK'
    BY <1>2, <2>1, <2>2 DEF TypeOK, PC, WriteLock, writing, reading
  <2> QED BY <2>5, <2>6
<1>3. ASSUME NEW t \in Thread, PutChar(t) PROVE Typing'
  <2>1. pc[t] = "write" /\ pc' = [pc EXCEPT ![t] = "writeP"]
    BY <1>3 DEF PutChar, Goto
  <2>2. pc' \in [Thread -> PC]
    BY <2>1, Moves DEF PC
  <2>3. Writers' = Writers /\ Readers' = Readers
    BY <2>1, Moves DEF PC, Writers, Readers
  <2>4. LineLocks'
    BY <1>3, <2>3 DEF LineLocks, Excludes, PutChar, semaphores
  <2>5. Text[t] \in Seq(Char) /\ loop[t] + 1 \in 1 .. Len(Text[t])
    BY <1>3 DEF TypeOK, PutChar
  <2>6. Text[t][loop[t] + 1] \in Char
    BY <2>5, ElementOfSeq
  <2>7. Append(display, Text[t][loop[t] + 1]) \in Seq(Char)
    BY <2>6, AppendProperties DEF TypeOK
  <2>8. display' \in Seq(Char)
    BY <1>3, <2>7 DEF TypeOK, PutChar
  <2>9. putBusy' \in BOOLEAN /\ aborted' \in BOOLEAN
    BY <1>3 DEF TypeOK, PutChar
  <2>10. TypeOK'
    BY <1>3, <2>1, <2>8, <2>9, <2>2 DEF TypeOK, PC, PutChar, semaphores, reading
  <2> QED BY <2>4, <2>10
<1>4. ASSUME NEW t \in Thread, WriteWait(t) PROVE Typing'
  <2>1. pc[t] = "writeP" /\ pc' = [pc EXCEPT ![t] = "write"]
    BY <1>4 DEF WriteWait, Goto
  <2>2. pc' \in [Thread -> PC]
    BY <2>1, Moves DEF PC
  <2>3. Writers' = Writers /\ Readers' = Readers
    BY <2>1, Moves DEF PC, Writers, Readers
  <2>4. LineLocks'
    BY <1>4, <2>3 DEF LineLocks, Excludes, WriteWait
  <2>5. synchWriteAvail' \in Nat /\ loop' \in [Thread -> Nat]
    BY <1>4 DEF TypeOK, WriteWait
  <2>6. TypeOK'
    BY <1>4, <2>2, <2>5 DEF TypeOK, WriteWait, writing, reading
  <2> QED BY <2>4, <2>6
<1>5. ASSUME NEW t \in Thread, WriteReturn(t) PROVE Typing'
  <2>1. pc[t] = "write" /\ pc' = [pc EXCEPT ![t] = "user"]
    BY <1>5 DEF WriteReturn, Goto
  <2>2. pc' \in [Thread -> PC]
    BY <2>1, Moves DEF PC
  <2>3. Writers' = Writers \ {t} /\ Readers' = Readers /\ t \in Writers
    BY <2>1, Moves DEF PC, Writers, Readers
  <2>4. WLineBlock = 0 /\ WLineBlock' = 1 /\ Writers' = {}
    BY <1>5, <2>3 DEF LineLocks, Excludes, WriteReturn
  <2>5. LineLocks'
    BY <1>5, <2>3, <2>4 DEF LineLocks, Excludes, WriteReturn
  <2>6. lines' \in Seq(Char)
    BY <1>5, ConcatProperties DEF TypeOK, WriteReturn
  <2>7. TypeOK'
    BY <1>5, <2>1, <2>4, <2>6, <2>2 DEF TypeOK, PC, WriteReturn, reading
  <2> QED BY <2>5, <2>7
<1>6. ASSUME WriteDone PROVE Typing'
  <2>1. Writers' = Writers /\ Readers' = Readers
    BY <1>6 DEF Writers, Readers, WriteDone
  <2>2. LineLocks'
    BY <1>6, <2>1 DEF LineLocks, Excludes, WriteDone
  <2>3. putBusy' \in BOOLEAN /\ aborted' \in BOOLEAN
    BY <1>6 DEF TypeOK, WriteDone
  <2>4. TypeOK'
    BY <1>6, <2>3 DEF TypeOK, WriteDone, reading
  <2> QED BY <2>2, <2>4
<1>7. ASSUME NEW t \in Thread, NEW n \in NumBytes, Read(t, n) PROVE Typing'
  <2>1. pc[t] = "user" /\ pc' = [pc EXCEPT ![t] = "RLineP"]
    BY <1>7 DEF Read, Goto
  <2>2. pc' \in [Thread -> PC]
    BY <2>1, Moves DEF PC
  <2>3. Writers' = Writers /\ Readers' = Readers
    BY <2>1, Moves DEF PC, Writers, Readers
  <2>4. LineLocks'
    BY <1>7, <2>3 DEF LineLocks, Excludes, Read, semaphores
  <2>5. calls' \in [Thread -> 0 .. MaxCalls]
    BY <1>7 DEF TypeOK, Read, Call
  <2>6. TypeOK'
    BY <2>5, <1>7, <2>1, <2>2 DEF TypeOK, PC, Read, semaphores, writing, reading
  <2> QED BY <2>4, <2>6
<1>8. ASSUME NEW t \in Thread, ReadLock(t) PROVE Typing'
  <2>1. pc[t] = "RLineP" /\ pc' = [pc EXCEPT ![t] = "readP"] /\ RLineBlock = 1
    BY <1>8 DEF ReadLock, TypeOK
  <2>2. pc' \in [Thread -> PC]
    BY <2>1, Moves DEF PC
  <2>3. Readers = {}
    BY <2>1 DEF LineLocks, Excludes
  <2>4. Readers' = {t} /\ Writers' = Writers
    BY <2>1, <2>3, Moves DEF PC, Writers
  <2>5. LineLocks'
    BY <1>8, <2>1, <2>4 DEF LineLocks, Excludes, ReadLock
  <2>6. TypeOK'
    BY <1>8, <2>1, <2>2 DEF TypeOK, PC, ReadLock, writing, reading
  <2> QED BY <2>5, <2>6
<1>9. ASSUME NEW t \in Thread, ReadNothing(t) PROVE Typing'
  <2>1. pc[t] = "readP" /\ pc' = [pc EXCEPT ![t] = "user"]
    BY <1>9 DEF ReadNothing, Goto
  <2>2. pc' \in [Thread -> PC]
    BY <2>1, Moves DEF PC
  <2>3. Readers' = Readers \ {t} /\ Writers' = Writers /\ t \in Readers
    BY <2>1, Moves DEF PC, Writers, Readers
  <2>4. PICK ch \in Char : Returns(t, 0, ch)
    BY <1>9 DEF ReadNothing
  <2>5. RLineBlock = 0 /\ RLineBlock' = 1 /\ Readers' = {}
    BY <2>3, <2>4 DEF LineLocks, Excludes, Returns
  <2>6. LineLocks'
    BY <1>9, <2>3, <2>5 DEF LineLocks, Excludes, ReadNothing
  <2>7. result' \in [Thread -> Nat \cup {-1}]
    BY <2>4 DEF TypeOK, Returns
  <2>8. TypeOK'
    BY <1>9, <2>1, <2>5, <2>7, <2>2 DEF TypeOK, PC, ReadNothing, writing
  <2> QED BY <2>6, <2>8
<1>10. ASSUME NEW t \in Thread, ReadWait(t) PROVE Typing'
  <2>1. pc[t] = "readP" /\ pc' = [pc EXCEPT ![t] = "getChar"]
    BY <1>10 DEF ReadWait, Goto
  <2>2. pc' \in [Thread -> PC]
    BY <2>1, Moves DEF PC
  <2>3. Writers' = Writers /\ Readers' = Readers
    BY <2>1, Moves DEF PC, Writers, Readers
  <2>4. LineLocks'
    BY <1>10, <2>3 DEF LineLocks, Excludes, ReadWait
  <2>5. TypeOK'
    BY <1>10, <2>1, <2>2 DEF TypeOK, PC, ReadWait, writing, reading
  <2> QED BY <2>4, <2>5
<1>11. ASSUME NEW t \in Thread, GetChar(t) PROVE Typing'
  <2> DEFINE ch  == incoming
             eat == IF ch = EOF THEN eaten[t] ELSE Append(eaten[t], ch)
             n   == IF ch \in {EOF, Newline, CtrlA} THEN loop[t] ELSE loop[t] + 1
             end == ch \in {Newline, CtrlA} \/ n = length[t]
  <2>1. /\ pc[t] = "getChar"
        /\ pc' = [pc EXCEPT ![t] = IF end THEN "user" ELSE "readP"]
        /\ eat \in Seq(Char) /\ n \in Nat
    BY <1>11, AppendProperties DEF GetChar, TypeOK
  <2>2. pc' \in [Thread -> PC]
    BY <2>1, Moves DEF PC
  <2>3. t \in Readers /\ RLineBlock = 0 /\ Writers' = Writers
    BY <2>1, Moves DEF PC, Writers, Readers, LineLocks, Excludes
  <2>4. consumed' \in Seq(Char)
    BY <1>11, <2>1, ConcatProperties DEF GetChar, TypeOK
  <2>5. eaten' \in [Thread -> Seq(Char)]
    BY <1>11, <2>1, EmptySeq DEF GetChar, TypeOK
  <2>6. CASE end
    <3>1. Returns(t, n, ch) /\ pc' = [pc EXCEPT ![t] = "user"]
      BY <1>11, <2>1, <2>6 DEF GetChar
    <3>2. Readers' = Readers \ {t}
      BY <3>1, Moves DEF PC
    <3>3. Readers' = {} /\ RLineBlock' = 1
      BY <2>3, <3>1, <3>2 DEF Returns, LineLocks, Excludes
    <3>4. LineLocks'
      BY <1>11, <2>3, <3>3 DEF GetChar, LineLocks, Excludes
    <3>5. result' \in [Thread -> Nat \cup {-1}]
      BY <2>1, <3>1 DEF Returns, TypeOK
    <3>6. TypeOK'
      BY <1>11, <2>1, <2>4, <2>5, <3>1, <3>3, <3>5, <2>2
      DEF GetChar, TakeChar, TypeOK, PC, writing
    <3> QED BY <3>4, <3>6
  <2>7. CASE ~end
    <3>1. UNCHANGED <<result, RLineBlock>> /\ pc' = [pc EXCEPT ![t] = "readP"]
      BY <1>11, <2>1, <2>7 DEF GetChar
    <3>2. Readers' = Readers \cup {t}
      BY <3>1, Moves DEF PC
    <3>3. Readers' = Readers
      BY <2>3, <3>2
    <3>4. LineLocks'
      BY <1>11, <2>3, <3>1, <3>3 DEF GetChar, LineLocks, Excludes
    <3>5. TypeOK'
      BY <1>11, <2>1, <2>4, <2>5, <3>1, <2>2
      DEF GetChar, TakeChar, TypeOK, PC, writing
    <3> QED BY <3>4, <3>5
  <2> QED BY <2>6, <2>7
<1>12. ASSUME CheckCharAvail PROVE Typing'
  <2>1. Writers' = Writers /\ Readers' = Readers
    BY <1>12 DEF Writers, Readers, CheckCharAvail
  <2>2. LineLocks'
    BY <1>12, <2>1 DEF LineLocks, Excludes, CheckCharAvail
  <2>3. incoming' \in Char /\ keyboard' \in Seq(Char)
    BY <1>12, HeadTailProperties DEF CheckCharAvail, TypeOK
  <2>4. arrived' \in Seq(Char)
    BY <1>12, <2>3, AppendProperties DEF CheckCharAvail, TypeOK
  <2>5. TypeOK'
    BY <1>12, <2>3, <2>4 DEF CheckCharAvail, TypeOK, writing
  <2> QED BY <2>2, <2>5
<1>13. CASE UNCHANGED vars
  BY <1>13 DEF vars, semaphores, writing, reading, TypeOK, LineLocks, Excludes, Writers, Readers
<1> QED BY <1>1, <1>2, <1>3, <1>4, <1>5, <1>6, <1>7, <1>8, <1>9, <1>10, <1>11,
           <1>12, <1>13 DEF Next, WriteStep, ReadStep
-----------------------------------------------------------------------------
(* Writing *)

\* A step that leaves Write alone: the device and whoever is inside.
LEMMA WritingKept ==
  ASSUME Device /\ Progress /\ Lines,
         UNCHANGED <<putBusy, display, lines, synchWriteAvail, aborted>>,
         \A u \in Thread : \/ pc'[u] = pc[u] /\ loop'[u] = loop[u]
                           \/ /\ pc[u] \notin {"write", "writeP"}
                              /\ pc'[u] \notin {"write", "writeP"}
  PROVE  (Device /\ Progress /\ Lines)'
<1>1. Writers' = Writers /\ Waits' = Waits
  BY DEF Writers, Waits
<1>2. Device'
  BY <1>1 DEF Device
<1>3. Progress'
  BY DEF Progress
<1>4. \A u \in Writers : Shown(u)' = Shown(u)
  BY DEF Writers, Shown
<1>5. Lines'
  BY <1>1, <1>4 DEF Lines
<1> QED BY <1>2, <1>3, <1>5

\* One more character of a line.
LEMMA OneMore ==
  ASSUME NEW shown \in Seq(Char), NEW text \in Seq(Char), NEW n \in Nat,
         n < Len(text)
  PROVE  Append(shown \o SubSeq(text, 1, n), text[n + 1])
           = shown \o SubSeq(text, 1, n + 1)
<1>1. n + 1 \in 1 .. Len(text) /\ 1 \in 1 .. Len(text) /\ (n + 1) - 1 = n
  BY LenProperties
<1>2. SubSeq(text, 1, n + 1) = SubSeq(text, 1, n) \o <<text[n + 1]>>
  BY <1>1, SubSeqRecursiveSecond
<1>3. text[n + 1] \in Char
  BY <1>1, ElementOfSeq
<1>4. SubSeq(text, 1, n) \in Seq(Char) /\ <<text[n + 1]>> \in Seq(Char)
  BY <1>1, <1>3, SubSeqProperties, IsASeq
<1>5. shown \o SubSeq(text, 1, n) \in Seq(Char)
  BY <1>4, ConcatProperties
<1>6. Append(shown \o SubSeq(text, 1, n), text[n + 1])
        = (shown \o SubSeq(text, 1, n)) \o <<text[n + 1]>>
  BY <1>3, <1>5, AppendIsConcat
<1>7. (shown \o SubSeq(text, 1, n)) \o <<text[n + 1]>>
        = shown \o (SubSeq(text, 1, n) \o <<text[n + 1]>>)
  <2> DEFINE a == SubSeq(text, 1, n)
             b == <<text[n + 1]>>
  <2>1. a \in Seq(Char) /\ b \in Seq(Char)
    BY <1>4
  <2> HIDE DEF a, b
  <2>2. (shown \o a) \o b = shown \o (a \o b)
    BY <2>1, ConcatAssociative
  <2> QED BY <2>2 DEF a, b
<1> QED BY <1>2, <1>6, <1>7

LEMMA WritingInit == Init => Writing
<1> SUFFICES ASSUME Init PROVE Writing
  OBVIOUS
<1>1. Typing
  BY TypingInit
<1>2. Device /\ Progress
  BY DEF Init, Device, Progress, Waits
<1>3. Lines
  BY DEF Init, Lines, Writers
<1> QED BY <1>1, <1>2, <1>3 DEF Writing

LEMMA WritingNext == Writing /\ [Next]_vars => Writing'
<1> SUFFICES ASSUME Writing, [Next]_vars PROVE (Device /\ Progress /\ Lines)'
  BY TypingNext DEF Writing
<1> USE DEF Writing
<1>1. TypeOK /\ Typing'
  BY TypingNext DEF Typing
<1>2. ASSUME NEW t \in Thread,
             \/ Write(t) \/ ReadLock(t) \/ ReadNothing(t) \/ ReadWait(t)
             \/ GetChar(t) \/ \E n \in NumBytes : Read(t, n)
      PROVE  (Device /\ Progress /\ Lines)'
  <2>1. UNCHANGED <<putBusy, display, lines, synchWriteAvail, aborted>>
    BY <1>2 DEF Write, ReadLock, ReadNothing, ReadWait, GetChar, Read,
                writing, semaphores
  <2>2. /\ pc[t] \notin {"write", "writeP"} /\ pc'[t] \notin {"write", "writeP"}
        /\ \A u \in Thread \ {t} : pc'[u] = pc[u] /\ loop'[u] = loop[u]
    BY <1>1, <1>2 DEF TypeOK, Goto, Write, ReadLock, ReadNothing, ReadWait,
                      GetChar, Read
  <2> QED BY <2>1, <2>2, WritingKept
<1>3. ASSUME NEW t \in Thread, WriteLock(t) PROVE (Device /\ Progress /\ Lines)'
  <2>1. /\ pc[t] = "WLineP" /\ pc' = [pc EXCEPT ![t] = "write"] /\ WLineBlock = 1
        /\ loop' = [loop EXCEPT ![t] = 0]
        /\ UNCHANGED <<putBusy, display, lines, synchWriteAvail, aborted>>
    BY <1>1, <1>3 DEF WriteLock, Goto, TypeOK, writing
  <2>2. Writers = {}
    BY <2>1 DEF Typing, LineLocks, Excludes
  <2>3. pc'[t] = "write" /\ loop'[t] = 0 /\ Writers' = {t}
    BY <1>1, <2>1, <2>2, Moves DEF TypeOK, PC
  <2>4. ~Waits /\ ~Waits'
    BY <2>2, <2>3 DEF Waits, Writers
  <2>5. Device'
    BY <2>1, <2>4 DEF Device
  <2>6. Progress'
    BY <2>3, LenProperties DEF Progress, Writers
  <2>7. Shown(t)' = <<>>
    BY <2>3, SubSeqEmpty DEF Shown
  <2>8. Lines'
    BY <1>1, <2>1, <2>2, <2>3, <2>7, ConcatEmptySeq DEF Lines, TypeOK
  <2> QED BY <2>5, <2>6, <2>8
<1>4. ASSUME NEW t \in Thread, PutChar(t) PROVE (Device /\ Progress /\ Lines)'
  <2>1. /\ pc[t] = "write" /\ pc' = [pc EXCEPT ![t] = "writeP"]
        /\ loop[t] < Len(Text[t]) /\ loop' = loop
        /\ UNCHANGED <<lines, synchWriteAvail>>
    BY <1>4 DEF PutChar, Goto, semaphores
  <2>2. t \in Writers /\ pc'[t] = "writeP" /\ Writers' = Writers
    BY <1>1, <2>1, Moves DEF Writers, PC
  <2>3. Writers = {t}
    BY <2>2 DEF Typing, LineLocks, Excludes
  <2>4. ~Waits /\ Waits'
    BY <2>1, <2>2, <2>3 DEF Waits, Writers
  <2>5. ~putBusy /\ synchWriteAvail = 0 /\ ~aborted
    BY <2>4 DEF Device
  <2>6. display' = Append(display, Text[t][loop[t] + 1]) /\ putBusy' /\ ~aborted'
    BY <1>4, <2>5 DEF PutChar
  <2>7. Device'
    BY <2>1, <2>4, <2>5, <2>6 DEF Device
  <2>8. Progress'
    BY <2>1, <2>2, <2>3 DEF Progress, Writers
  <2>9. display = lines \o SubSeq(Text[t], 1, loop[t])
    BY <2>1, <2>2 DEF Lines, Shown
  <2>10. lines \in Seq(Char) /\ Text[t] \in Seq(Char) /\ loop[t] \in Nat
    BY <1>1 DEF TypeOK
  <2>11. display' = lines \o SubSeq(Text[t], 1, loop[t] + 1)
    BY <2>1, <2>6, <2>9, <2>10, OneMore
  <2>12. Shown(t)' = SubSeq(Text[t], 1, loop[t] + 1)
    BY <2>1, <2>2 DEF Shown
  <2>13. Lines'
    BY <2>1, <2>2, <2>3, <2>11, <2>12 DEF Lines
  <2> QED BY <2>7, <2>8, <2>13
<1>5. ASSUME NEW t \in Thread, WriteWait(t) PROVE (Device /\ Progress /\ Lines)'
  <2>1. /\ pc[t] = "writeP" /\ pc' = [pc EXCEPT ![t] = "write"]
        /\ loop' = [loop EXCEPT ![t] = @ + 1]
        /\ synchWriteAvail > 0 /\ synchWriteAvail' = synchWriteAvail - 1
        /\ UNCHANGED <<putBusy, display, lines, aborted>>
    BY <1>5 DEF WriteWait, Goto, writing
  <2>2. t \in Writers /\ pc'[t] = "write" /\ Writers' = Writers
    BY <1>1, <2>1, Moves DEF Writers, PC
  <2>3. Writers = {t}
    BY <2>2 DEF Typing, LineLocks, Excludes
  <2>4. loop'[t] = loop[t] + 1
    BY <1>1, <2>1 DEF TypeOK
  <2>5. Writers = {t} /\ loop'[t] = loop[t] + 1
    BY <2>3, <2>4
  <2>6. Waits /\ ~Waits'
    BY <2>1, <2>2, <2>5 DEF Waits, Writers
  <2>7. Device'
    BY <2>1, <2>6 DEF Device
  <2>8. loop[t] \in Nat /\ Len(Text[t]) \in Nat /\ loop[t] < Len(Text[t])
    BY <1>1, <2>1, LenProperties DEF Progress, TypeOK
  <2>9. Progress'
    BY <2>2, <2>5, <2>8 DEF Progress, Writers
  <2>10. Shown(t)' = SubSeq(Text[t], 1, loop'[t])
    BY <2>2 DEF Shown
  <2>11. Shown(t) = SubSeq(Text[t], 1, loop[t] + 1)
    BY <2>1 DEF Shown
  <2>12. Shown(t)' = Shown(t)
    BY <2>4, <2>10, <2>11
  <2>13. Lines'
    BY <2>1, <2>2, <2>5, <2>12 DEF Lines
  <2> QED BY <2>7, <2>9, <2>13
<1>6. ASSUME NEW t \in Thread, WriteReturn(t) PROVE (Device /\ Progress /\ Lines)'
  <2>1. /\ pc[t] = "write" /\ pc' = [pc EXCEPT ![t] = "user"]
        /\ loop[t] = Len(Text[t]) /\ lines' = lines \o Text[t]
        /\ UNCHANGED <<loop, putBusy, display, synchWriteAvail, aborted>>
    BY <1>6 DEF WriteReturn, Goto
  <2>2. t \in Writers /\ Writers' = Writers \ {t}
    BY <1>1, <2>1, Moves DEF Writers, PC
  <2>3. Writers = {t} /\ Writers' = {}
    BY <2>2 DEF Typing, LineLocks, Excludes
  <2>4. ~Waits /\ ~Waits'
    BY <2>1, <2>3 DEF Waits, Writers
  <2>5. Device'
    BY <2>1, <2>4 DEF Device
  <2>6. Progress'
    BY <2>3 DEF Progress, Writers
  <2>7. display = lines \o Text[t]
    BY <2>1, <2>2, SubSeqFull DEF Lines, Shown
  <2>8. Lines'
    BY <2>1, <2>3, <2>7 DEF Lines
  <2> QED BY <2>5, <2>6, <2>8
<1>7. ASSUME WriteDone PROVE (Device /\ Progress /\ Lines)'
  <2>1. /\ putBusy /\ ~putBusy' /\ synchWriteAvail' = synchWriteAvail + 1
        /\ UNCHANGED <<pc, loop, display, lines, aborted>>
    BY <1>7 DEF WriteDone
  <2>2. Writers' = Writers /\ Waits' = Waits /\ \A u \in Thread : Shown(u)' = Shown(u)
    BY <2>1 DEF Writers, Waits, Shown
  <2>3. Device'
    BY <2>1, <2>2 DEF Device
  <2>4. Progress' /\ Lines'
    BY <2>1, <2>2 DEF Progress, Lines, Writers
  <2> QED BY <2>3, <2>4
<1>8. ASSUME CheckCharAvail \/ UNCHANGED vars PROVE (Device /\ Progress /\ Lines)'
  <2>1. UNCHANGED <<pc, loop, putBusy, display, lines, synchWriteAvail, aborted>>
    BY <1>8 DEF CheckCharAvail, vars, writing, semaphores
  <2> QED BY <2>1, WritingKept
<1> QED BY <1>2, <1>3, <1>4, <1>5, <1>6, <1>7, <1>8 DEF Next, WriteStep, ReadStep
-----------------------------------------------------------------------------
(* Reading *)

\* A step that leaves Read alone: the buffer and whoever is inside.
LEMMA ReadingKept ==
  ASSUME Counts /\ Input,
         UNCHANGED <<length, incoming, arrived, consumed, eaten>>,
         \A u \in Thread : \/ pc'[u] = pc[u] /\ loop'[u] = loop[u]
                           \/ /\ pc[u] \notin {"RLineP", "readP", "getChar"}
                              /\ pc'[u] \notin {"RLineP", "readP", "getChar"}
  PROVE  (Counts /\ Input)'
<1>1. Readers' = Readers
  BY DEF Readers
<1>2. Counts'
  BY DEF Counts
<1>3. Input'
  BY <1>1 DEF Input, Buffered
<1> QED BY <1>2, <1>3

\* A character that follows what was consumed before it.
LEMMA Follows ==
  ASSUME NEW s \in Seq(Char), NEW e \in Seq(Char), NEW c \in Char
  PROVE  s \o Append(e, c) = (s \o e) \o <<c>>
<1> DEFINE one == <<c>>
<1>1. one \in Seq(Char)
  BY IsASeq
<1>2. Append(e, c) = e \o one
  BY AppendIsConcat
<1> HIDE DEF one
<1>3. (s \o e) \o one = s \o (e \o one)
  BY <1>1, ConcatAssociative
<1> QED BY <1>2, <1>3 DEF one

LEMMA ReadingInit == Init => Reading
<1> SUFFICES ASSUME Init PROVE Reading
  OBVIOUS
<1>1. Typing
  BY TypingInit
<1>2. Counts
  BY DEF Init, Counts
<1>3. Readers = {} /\ Buffered = <<>> /\ arrived = consumed \o Buffered
  BY ConcatEmptySeq, EmptySeq DEF Init, Readers, Buffered
<1> QED BY <1>1, <1>2, <1>3 DEF Reading, Input

\* The loop of Read that GetChar models, its local values named.
Ate(t) == IF incoming = EOF THEN eaten[t] ELSE Append(eaten[t], incoming)
Counted(t) == IF incoming \in {EOF, Newline, CtrlA} THEN loop[t] ELSE loop[t] + 1
Ends(t) == incoming \in {Newline, CtrlA} \/ Counted(t) = length[t]

LEMMA GetCharStep ==
  ASSUME NEW t \in Thread, GetChar(t)
  PROVE  /\ pc[t] = "getChar" /\ incoming' = EOF
         /\ UNCHANGED <<length, arrived>>
         /\ loop' = [loop EXCEPT ![t] = Counted(t)]
         /\ pc' = [pc EXCEPT ![t] = IF Ends(t) THEN "user" ELSE "readP"]
         /\ eaten' = [eaten EXCEPT ![t] = IF Ends(t) THEN <<>> ELSE Ate(t)]
         /\ consumed' = IF Ends(t) THEN consumed \o Ate(t) ELSE consumed
         /\ Ends(t) => Returns(t, Counted(t), incoming)
BY DEF GetChar, TakeChar, Ate, Counted, Ends

\* A character that is not EOF is taken and the count follows.
LEMMA Takes ==
  ASSUME Reading, NEW t \in Thread, GetChar(t), incoming # EOF
  PROVE  /\ Ate(t) \in Seq(Char) /\ Len(Ate(t)) = Len(eaten[t]) + 1
         /\ Ate(t)[Len(Ate(t))] = incoming
         /\ Counted(t) \in Nat /\ Counted(t) <= length[t]
         /\ Counted(t) = IF incoming \in {Newline, CtrlA} THEN loop[t] ELSE loop[t] + 1
         /\ arrived = consumed \o Ate(t)
<1>1. /\ pc[t] = "getChar" /\ loop[t] < length[t] /\ loop[t] \in Nat
      /\ length[t] \in Nat /\ eaten[t] \in Seq(Char) /\ incoming \in Char
      /\ consumed \in Seq(Char) /\ t \in Readers
  BY DEF GetChar, Reading, Typing, TypeOK, Counts, Readers
<1>2. Ate(t) = Append(eaten[t], incoming)
  BY DEF Ate
<1>3. /\ Ate(t) \in Seq(Char) /\ Len(Ate(t)) = Len(eaten[t]) + 1
      /\ Ate(t)[Len(Ate(t))] = incoming
  BY <1>1, <1>2, AppendProperties
<1>4. Buffered = <<incoming>>
  BY DEF Buffered
<1>5. arrived = (consumed \o eaten[t]) \o <<incoming>>
  BY <1>1, <1>4 DEF Reading, Input
<1>6. arrived = consumed \o Ate(t)
  <2>1. consumed \o Append(eaten[t], incoming) = (consumed \o eaten[t]) \o <<incoming>>
    BY <1>1, Follows
  <2> QED BY <1>2, <1>5, <2>1
<1>7. /\ Counted(t) \in Nat /\ Counted(t) <= length[t]
      /\ Counted(t) = IF incoming \in {Newline, CtrlA} THEN loop[t] ELSE loop[t] + 1
  BY <1>1 DEF Counted
<1> QED BY <1>3, <1>6, <1>7

LEMMA ReadingNext == Reading /\ [Next]_vars => Reading'
<1> SUFFICES ASSUME Reading, [Next]_vars PROVE (Counts /\ Input)'
  BY TypingNext DEF Reading
<1> USE DEF Reading
<1>1. TypeOK /\ Typing'
  BY TypingNext DEF Typing
<1>2. ASSUME NEW t \in Thread,
             Write(t) \/ WriteLock(t) \/ PutChar(t) \/ WriteWait(t) \/ WriteReturn(t)
      PROVE  (Counts /\ Input)'
  <2>1. UNCHANGED <<length, incoming, arrived, consumed, eaten>>
    BY <1>2 DEF Write, WriteLock, PutChar, WriteWait, WriteReturn, reading
  <2>2. /\ pc[t] \notin {"RLineP", "readP", "getChar"}
        /\ pc'[t] \notin {"RLineP", "readP", "getChar"}
        /\ \A u \in Thread \ {t} : pc'[u] = pc[u] /\ loop'[u] = loop[u]
    BY <1>1, <1>2 DEF TypeOK, Goto, Write, WriteLock, PutChar, WriteWait, WriteReturn
  <2> QED BY <2>1, <2>2, ReadingKept
<1>3. ASSUME WriteDone \/ UNCHANGED vars PROVE (Counts /\ Input)'
  <2>1. UNCHANGED <<pc, loop, length, incoming, arrived, consumed, eaten>>
    BY <1>3 DEF WriteDone, vars, reading
  <2> QED BY <2>1, ReadingKept
<1>4. ASSUME NEW t \in Thread, NEW n \in NumBytes, Read(t, n) PROVE (Counts /\ Input)'
  <2>1. /\ pc[t] = "user" /\ pc' = [pc EXCEPT ![t] = "RLineP"]
        /\ loop' = [loop EXCEPT ![t] = 0]
        /\ length' = [length EXCEPT ![t] = n]
        /\ UNCHANGED <<incoming, arrived, consumed, eaten>>
    BY <1>4 DEF Read, Goto, reading
  <2>2. Readers' = Readers
    BY <1>1, <2>1, Moves DEF PC, Readers
  <2>3. Counts'
    BY <1>1, <2>1 DEF Counts, TypeOK
  <2>4. Input'
    BY <2>1, <2>2 DEF Input, Buffered
  <2> QED BY <2>3, <2>4
<1>5. ASSUME NEW t \in Thread, ReadLock(t) PROVE (Counts /\ Input)'
  <2>1. /\ pc[t] = "RLineP" /\ pc' = [pc EXCEPT ![t] = "readP"] /\ RLineBlock = 1
        /\ UNCHANGED <<loop, length, incoming, arrived, consumed, eaten>>
    BY <1>1, <1>5 DEF ReadLock, TypeOK, reading
  <2>2. Readers = {}
    BY <2>1 DEF Typing, LineLocks, Excludes
  <2>3. Readers' = {t}
    BY <1>1, <2>1, <2>2, Moves DEF PC
  <2>4. eaten[t] = <<>> /\ loop[t] = 0 /\ length[t] \in Nat
    BY <1>1, <2>1 DEF Counts, TypeOK
  <2>5. Counts'
    <3>1. pc'[t] = "readP" /\ \A u \in Thread \ {t} : pc'[u] = pc[u]
      BY <1>1, <2>1 DEF TypeOK
    <3>2. Len(eaten[t]) = 0
      BY <2>4, EmptySeq
    <3> QED BY <2>1, <2>4, <3>1, <3>2 DEF Counts
  <2>6. consumed \o <<>> = consumed
    BY <1>1, ConcatEmptySeq DEF TypeOK
  <2>7. Input'
    BY <2>1, <2>2, <2>3, <2>4, <2>6 DEF Input, Buffered
  <2> QED BY <2>5, <2>7
<1>6. ASSUME NEW t \in Thread, ReadNothing(t) PROVE (Counts /\ Input)'
  <2>1. /\ pc[t] = "readP" /\ pc' = [pc EXCEPT ![t] = "user"] /\ length[t] = 0
        /\ UNCHANGED <<loop, length, incoming, arrived, consumed, eaten>>
    BY <1>6 DEF ReadNothing, Goto
  <2>2. t \in Readers /\ Readers' = Readers \ {t}
    BY <1>1, <2>1, Moves DEF PC, Readers
  <2>3. Readers = {t} /\ Readers' = {}
    BY <2>2 DEF Typing, LineLocks, Excludes
  <2>4. eaten[t] \in Seq(Char) /\ loop[t] \in Nat /\ loop[t] <= 0 /\ loop[t] = Len(eaten[t])
    BY <1>1, <2>1 DEF Counts, TypeOK
  <2>5. eaten[t] = <<>>
    BY <2>4, EmptySeq
  <2>6. Counts'
    BY <1>1, <2>1, <2>5 DEF Counts, TypeOK
  <2>7. consumed \o <<>> = consumed
    BY <1>1, ConcatEmptySeq DEF TypeOK
  <2>8. Input'
    BY <2>1, <2>2, <2>3, <2>5, <2>7 DEF Input, Buffered
  <2> QED BY <2>6, <2>8
<1>7. ASSUME NEW t \in Thread, ReadWait(t) PROVE (Counts /\ Input)'
  <2>1. /\ pc[t] = "readP" /\ pc' = [pc EXCEPT ![t] = "getChar"]
        /\ loop[t] < length[t]
        /\ UNCHANGED <<loop, length, incoming, arrived, consumed, eaten>>
    BY <1>7 DEF ReadWait, Goto, reading
  <2>2. Readers' = Readers
    BY <1>1, <2>1, Moves DEF PC, Readers
  <2>3. Counts'
    BY <1>1, <2>1 DEF Counts, TypeOK
  <2>4. Input'
    BY <2>1, <2>2 DEF Input, Buffered
  <2> QED BY <2>3, <2>4
<1>8. ASSUME NEW t \in Thread, GetChar(t) PROVE (Counts /\ Input)'
  <2>1. /\ pc[t] = "getChar" /\ t \in Readers /\ loop[t] < length[t]
        /\ incoming' = EOF /\ UNCHANGED <<length, arrived>>
        /\ loop[t] \in Nat /\ length[t] \in Nat /\ loop[t] = Len(eaten[t])
    BY <1>1, <1>8 DEF GetChar, TakeChar, Readers, Counts, TypeOK
  <2>2. Readers = {t} /\ Buffered' = <<>>
    BY <2>1 DEF Typing, LineLocks, Excludes, Buffered
  <2>3. CASE incoming = EOF
    <3>1. /\ loop' = [loop EXCEPT ![t] = loop[t]]
          /\ pc' = [pc EXCEPT ![t] = "readP"]
          /\ eaten' = [eaten EXCEPT ![t] = eaten[t]]
          /\ consumed' = consumed
      BY <1>8, <2>1, <2>3, GetCharStep DEF Ate, Counted, Ends
    <3>2. loop' = loop /\ eaten' = eaten
      BY <1>1, <3>1 DEF TypeOK
    <3>3. Readers' = Readers \cup {t}
      BY <1>1, <3>1, Moves DEF PC
    <3>4. Counts'
      <4>1. pc'[t] = "readP" /\ \A u \in Thread \ {t} : pc'[u] = pc[u]
        BY <1>1, <3>1 DEF TypeOK
      <4> QED BY <2>1, <3>1, <3>2, <4>1 DEF Counts
    <3>5. Input'
      BY <2>1, <2>2, <2>3, <3>1, <3>2, <3>3 DEF Input, Buffered
    <3> QED BY <3>4, <3>5
  <2>4. CASE incoming # EOF
    <3>1. /\ Ate(t) \in Seq(Char) /\ Len(Ate(t)) = Len(eaten[t]) + 1
          /\ Counted(t) \in Nat /\ Counted(t) <= length[t]
          /\ loop' = [loop EXCEPT ![t] = Counted(t)]
          /\ pc' = [pc EXCEPT ![t] = IF Ends(t) THEN "user" ELSE "readP"]
          /\ eaten' = [eaten EXCEPT ![t] = IF Ends(t) THEN <<>> ELSE Ate(t)]
          /\ consumed' = IF Ends(t) THEN consumed \o Ate(t) ELSE consumed
          /\ arrived = consumed \o Ate(t)
      BY <1>8, <2>4, Takes, GetCharStep
    <3>2. ~Ends(t) => Counted(t) = loop[t] + 1 /\ Counted(t) < length[t]
      BY <1>8, <2>1, <2>4, <3>1, Takes DEF Ends
    <3>3. CASE Ends(t)
      <4>1. Readers' = Readers \ {t}
        BY <1>1, <3>1, <3>3, Moves DEF PC
      <4>2. pc' = [pc EXCEPT ![t] = "user"] /\ eaten' = [eaten EXCEPT ![t] = <<>>]
            /\ consumed' = arrived
        BY <3>1, <3>3
      <4>3. Counts'
        BY <1>1, <2>1, <3>1, <4>2 DEF Counts, TypeOK
      <4>4. arrived' = consumed' \o Buffered'
        BY <1>1, <2>1, <2>2, <4>2, ConcatEmptySeq DEF TypeOK
      <4>5. Input'
        BY <2>2, <4>1, <4>4 DEF Input
      <4> QED BY <4>3, <4>5
    <3>4. CASE ~Ends(t)
      <4>1. pc' = [pc EXCEPT ![t] = "readP"] /\ eaten' = [eaten EXCEPT ![t] = Ate(t)]
            /\ consumed' = consumed
        BY <3>1, <3>4
      <4>2. Readers' = Readers \cup {t} /\ eaten'[t] = Ate(t)
        BY <1>1, <4>1, Moves DEF PC, TypeOK
      <4>3. Counts'
        BY <1>1, <2>1, <3>1, <3>2, <3>4, <4>1 DEF Counts, TypeOK
      <4>4. arrived' = (consumed' \o eaten'[t]) \o Buffered'
        BY <1>1, <2>1, <2>2, <3>1, <4>1, <4>2, ConcatEmptySeq DEF TypeOK
      <4>5. Input'
        BY <2>2, <4>2, <4>4 DEF Input
      <4> QED BY <4>3, <4>5
    <3> QED BY <3>3, <3>4
  <2> QED BY <2>3, <2>4
<1>9. ASSUME CheckCharAvail PROVE (Counts /\ Input)'
  <2>1. /\ incoming = EOF /\ incoming' \in Char
        /\ arrived' = IF incoming' = EOF THEN arrived ELSE Append(arrived, incoming')
        /\ UNCHANGED <<pc, loop, length, consumed, eaten>>
    BY <1>1, <1>9 DEF CheckCharAvail, Typing, TypeOK
  <2>2. Counts' /\ Readers' = Readers
    BY <2>1 DEF Counts, Readers
  <2>3. ASSUME NEW s \in Seq(Char), arrived = s \o Buffered
        PROVE  arrived' = s \o Buffered'
    <3>1. arrived = s
      BY <2>1, <2>3, ConcatEmptySeq DEF Buffered
    <3>2. Buffered' = IF incoming' = EOF THEN <<>> ELSE <<incoming'>>
      BY DEF Buffered
    <3>3. Append(s, incoming') = s \o <<incoming'>> /\ s \o <<>> = s
      BY <2>1, AppendIsConcat, ConcatEmptySeq
    <3> QED BY <2>1, <3>1, <3>2, <3>3
  <2>4. consumed \in Seq(Char) /\ \A t \in Thread : consumed \o eaten[t] \in Seq(Char)
    BY <1>1, ConcatProperties DEF TypeOK
  <2>5. Readers = {} => arrived' = consumed \o Buffered'
    BY <2>3, <2>4 DEF Input
  <2>6. \A t \in Readers : arrived' = (consumed \o eaten[t]) \o Buffered'
    BY <2>3, <2>4 DEF Input, Readers
  <2>7. Input'
    BY <2>1, <2>2, <2>5, <2>6 DEF Input
  <2> QED BY <2>2, <2>7
<1> QED BY <1>2, <1>3, <1>4, <1>5, <1>6, <1>7, <1>8, <1>9
        DEF Next, WriteStep, ReadStep
-----------------------------------------------------------------------------
(* Theorems *)

\* The variables of the console keep their types; in particular the values of
\* the two line locks never leave {0, 1}, whatever V calls the threads make.
THEOREM TypeCorrect == Spec => []TypeOK
<1>1. Init => Typing
  BY TypingInit
<1>2. Typing /\ [Next]_vars => Typing'
  BY TypingNext
<1>3. Typing => TypeOK
  BY DEF Typing
<1> QED BY <1>1, <1>2, <1>3, PTL DEF Spec

\* SynchConsole::Write puts lines on the display whole, however many threads
\* write and wherever they are preempted, and Console::PutChar's ASSERT
\* (putBusy == FALSE) never fails.
THEOREM WholeLinesHolds == Spec => []WholeLines
<1>1. Init => Writing
  BY WritingInit
<1>2. Writing /\ [Next]_vars => Writing'
  BY WritingNext
<1>3. Writing => WholeLines
  <2> SUFFICES ASSUME Writing PROVE WholeLines
    OBVIOUS
  <2>1. ~aborted
    BY DEF Writing, Device
  <2>2. display = lines \/ \E t \in Thread : display = lines \o Shown(t)
    BY DEF Writing, Lines, Writers
  <2> QED BY <2>1, <2>2 DEF WholeLines
<1> QED BY <1>1, <1>2, <1>3, PTL DEF Spec

\* SynchConsole::Read delivers every character that Console::CheckCharAvail
\* buffers once and in order, to one reader at a time.
THEOREM InputInOrderHolds == Spec => []InputInOrder
<1>1. Init => Reading
  BY ReadingInit
<1>2. Reading /\ [Next]_vars => Reading'
  BY ReadingNext
<1>3. Reading => InputInOrder
  <2> SUFFICES ASSUME Reading PROVE InputInOrder
    OBVIOUS
  <2>1. \/ arrived = consumed \o Buffered
        \/ \E t \in Thread : arrived = (consumed \o eaten[t]) \o Buffered
    BY DEF Reading, Input, Readers
  <2> QED BY <2>1 DEF InputInOrder, Buffered
<1> QED BY <1>1, <1>2, <1>3, PTL DEF Spec

\* Only the end of Read's loop takes a thread from it to its caller.
LEMMA LeavesByGetChar ==
  ASSUME Reading, Next, NEW t \in Thread, pc[t] = "getChar", pc'[t] = "user"
  PROVE  GetChar(t)
<1>1. pc \in [Thread -> PC]
  BY DEF Reading, Typing, TypeOK
<1>2. ASSUME NEW u \in Thread, \E n \in NumBytes : Read(u, n) PROVE FALSE
  BY <1>1, <1>2 DEF Read, Goto
<1>3. ASSUME NEW u \in Thread, Write(u) \/ WriteStep(u) PROVE FALSE
  BY <1>1, <1>3 DEF Write, WriteStep, WriteLock, PutChar, WriteWait, WriteReturn, Goto
<1>4. ASSUME WriteDone \/ CheckCharAvail PROVE FALSE
  BY <1>4 DEF WriteDone, CheckCharAvail
<1>5. ASSUME NEW u \in Thread, ReadLock(u) \/ ReadNothing(u) \/ ReadWait(u)
      PROVE  FALSE
  BY <1>1, <1>5 DEF ReadLock, ReadNothing, ReadWait, Goto
<1>6. ASSUME NEW u \in Thread, GetChar(u) PROVE u = t
  BY <1>1, <1>6, GetCharStep
<1> QED BY <1>2, <1>3, <1>4, <1>5, <1>6 DEF Next, ReadStep

\* The last part of a sequence, cut out by its indices.
LEMMA Rest ==
  ASSUME NEW s \in Seq(Char), NEW e \in Seq(Char), Len(e) > 0
  PROVE  SubSeq(s \o e, Len(s) + 1, Len(s \o e)) = e
<1>1. Len(s) \in Nat /\ Len(e) \in Nat /\ Len(s \o e) = Len(s) + Len(e)
  BY LenProperties, ConcatProperties
<1>2. /\ Len(s) + 1 \in Len(s) + 1 .. Len(s) + Len(e)
      /\ Len(s) + Len(e) \in Len(s) + 1 .. Len(s) + Len(e)
  BY <1>1
<1>3. SubSeq(s \o e, Len(s) + 1, Len(s) + Len(e))
        = SubSeq(e, (Len(s) + 1) - Len(s), (Len(s) + Len(e)) - Len(s))
  BY <1>2, SubSeqOfConcat2
<1>4. (Len(s) + 1) - Len(s) = 1 /\ (Len(s) + Len(e)) - Len(s) = Len(e)
  BY <1>1
<1> QED BY <1>1, <1>3, <1>4, SubSeqFull

\* The number SynchConsole::Read returns is the number of characters it took
\* for its caller, the newline that ended it not counted, and -1 after ^A.
THEOREM ReturnsCountHolds == Spec => ReturnsCount
<1> DEFINE Right(t) ==
             pc[t] = "getChar" /\ pc'[t] = "user" =>
               LET got == SubSeq(consumed', Len(consumed) + 1, Len(consumed'))
               IN result'[t] = IF got[Len(got)] = CtrlA THEN -1
                               ELSE Len(got) - (IF got[Len(got)] = Newline THEN 1 ELSE 0)
<1>1. ASSUME Reading, [Next]_vars PROVE [\A t \in Thread : Right(t)]_vars
  <2> SUFFICES ASSUME Next, NEW t \in Thread, pc[t] = "getChar", pc'[t] = "user"
               PROVE  Right(t)
    BY <1>1
  <2>1. GetChar(t)
    BY <1>1, LeavesByGetChar
  <2>2. /\ loop[t] = Len(eaten[t]) /\ loop[t] < length[t] /\ loop[t] \in Nat
        /\ length[t] \in Nat /\ pc \in [Thread -> PC] /\ consumed \in Seq(Char)
        /\ result \in [Thread -> Nat \cup {-1}]
    BY <1>1 DEF Reading, Counts, Typing, TypeOK
  <2>3. Ends(t)
    BY <2>1, <2>2, GetCharStep
  <2>4. incoming # EOF
    BY <2>2, <2>3 DEF Ends, Counted
  <2>5. /\ Ate(t) \in Seq(Char) /\ Len(Ate(t)) = Len(eaten[t]) + 1
        /\ Ate(t)[Len(Ate(t))] = incoming
        /\ Counted(t) = IF incoming \in {Newline, CtrlA} THEN loop[t] ELSE loop[t] + 1
    BY <1>1, <2>1, <2>4, Takes
  <2>6. consumed' = consumed \o Ate(t) /\ Returns(t, Counted(t), incoming)
    BY <2>1, <2>3, GetCharStep
  <2>7. SubSeq(consumed', Len(consumed) + 1, Len(consumed')) = Ate(t)
    BY <2>2, <2>5, <2>6, Rest
  <2>8. result'[t] = IF incoming = CtrlA THEN -1 ELSE Counted(t)
    BY <2>2, <2>6 DEF Returns
  <2>9. result'[t] = IF Ate(t)[Len(Ate(t))] = CtrlA THEN -1
                     ELSE Len(Ate(t)) - (IF Ate(t)[Len(Ate(t))] = Newline THEN 1 ELSE 0)
    <3>1. Len(Ate(t)) - 1 = loop[t] /\ Len(Ate(t)) - 0 = loop[t] + 1
      BY <2>2, <2>5
    <3>2. CASE incoming = CtrlA
      BY <2>5, <2>8, <3>2
    <3>3. CASE incoming = Newline
      BY <2>5, <2>8, <3>1, <3>3
    <3>4. CASE incoming \notin {CtrlA, Newline}
      BY <2>5, <2>8, <3>1, <3>4
    <3> QED BY <3>2, <3>3, <3>4
  <2> QED BY <2>7, <2>9
<1>2. Init => Reading
  BY ReadingInit
<1>3. Reading /\ [Next]_vars => Reading'
  BY ReadingNext
<1> HIDE DEF Right
<1>4. Spec => [][\A t \in Thread : Right(t)]_vars
  BY <1>1, <1>2, <1>3, PTL DEF Spec
<1> QED BY <1>4 DEF ReturnsCount, Right
-----------------------------------------------------------------------------
(***************************************************************************)
(* The semaphores of user programs, for any number of processes, names,    *)
(* slots and values (module SemTable).                                     *)
(***************************************************************************)
USE SemTableAssumption

\* STable::STable establishes the invariant.
LEMMA SemInit == STInit => STInv
  BY DEF STInit, STInv, STTypeOK, Slot, Marked, InsideP, BalanceCounted, NamesUnique,
         NonNegative, UnitsAccounted

\* CreateSemaphore adds one name, which is in no other slot and for which
\* nothing has been counted.
LEMMA CreateInv ==
  ASSUME STInv, NEW p \in Proc, NEW n \in Name, NEW v \in InitialValue,
         Create(p, n, v)
  PROVE  STInv'
<1>1. PICK k \in Slot : /\ FindFreeSlot(k)
                        /\ semTab' = [semTab EXCEPT ![k] = n]
                        /\ value' = [value EXCEPT ![k] = v]
  BY DEF Create
<1>2. /\ initial' = [initial EXCEPT ![n] = v]
      /\ UNCHANGED <<semPc, on, asked, balance>>
      /\ \A i \in Marked : semTab[i] # n
      /\ v \in -MaxValue .. MaxValue
  BY DEF Create
<1>3. k \notin Marked /\ semTab[k] = NULL
  BY <1>1 DEF FindFreeSlot, Marked
<1>4. Marked' = Marked \cup {k}
  BY <1>1, <1>3 DEF STInv, STTypeOK, Marked
<1>5. /\ semTab'[k] = n /\ value'[k] = v /\ initial'[n] = v
      /\ \A i \in Marked : /\ semTab'[i] = semTab[i] /\ value'[i] = value[i]
                           /\ initial'[semTab[i]] = initial[semTab[i]]
  BY <1>1, <1>2, <1>3 DEF STInv, STTypeOK, Marked
<1>6. STTypeOK'
  BY <1>1, <1>2 DEF STInv, STTypeOK
<1>7. InsideP' /\ BalanceCounted'
  BY <1>2, <1>4, <1>5 DEF STInv, InsideP, BalanceCounted, User2System
<1>8. NamesUnique'
  BY <1>2, <1>4, <1>5 DEF STInv, NamesUnique
<1>9. NonNegative'
  BY <1>2, <1>4, <1>5 DEF STInv, NonNegative
<1>10. UnitsAccounted'
  <2> SUFFICES ASSUME NEW i \in Marked', NEW m \in Name \ {semTab'[i]},
                      \A q \in Name : User2System(q) = semTab'[i] => q \in {semTab'[i], m}
               PROVE  value'[i] = initial'[semTab'[i]] + Part(semTab[i], semTab[i])'
                                    + Part(semTab[i], m)'
    BY DEF UnitsAccounted
  <2>1. CASE i = k
    <3>1. \A q \in Name : User2System(q) = n => balance'[q] = 0
      BY <1>2 DEF STInv, BalanceCounted
    <3>2. Part(semTab[i], semTab[i])' = 0 /\ Part(semTab[i], m)' = 0
      BY <1>5, <2>1, <3>1 DEF Part
    <3> QED BY <1>2, <1>5, <2>1, <3>2
  <2>2. CASE i \in Marked
    <3>1. Part(semTab[i], semTab[i])' = Part(semTab[i], semTab[i]) /\ Part(semTab[i], m)' = Part(semTab[i], m)
      BY <1>2, <1>5, <2>2 DEF Part
    <3>2. value[i] = initial[semTab[i]] + Part(semTab[i], semTab[i]) + Part(semTab[i], m)
      BY <1>5, <2>2 DEF STInv, UnitsAccounted
    <3> QED BY <1>5, <2>2, <3>1, <3>2
  <2> QED BY <1>4, <2>1, <2>2
<1> QED BY <1>6, <1>7, <1>8, <1>9, <1>10 DEF STInv

\* A unit that goes to, or comes from, the semaphore that the name n reaches is
\* counted there and nowhere else.
LEMMA CountStep ==
  ASSUME STInv, NEW i \in Marked, NEW n \in Name, semTab[i] = User2System(n),
         NEW d \in {-1, 1},
         value' = [value EXCEPT ![i] = value[i] + d],
         balance' = [balance EXCEPT ![n] = balance[n] + d],
         UNCHANGED <<semTab, initial>>
  PROVE  Marked' = Marked /\ UnitsAccounted' /\ BalanceCounted' /\ NamesUnique'
<1>1. Marked' = Marked /\ NamesUnique'
  BY DEF STInv, Marked, NamesUnique
<1>2. BalanceCounted'
  BY <1>1 DEF STInv, STTypeOK, BalanceCounted, User2System
<1>3. UnitsAccounted'
  <2> SUFFICES ASSUME NEW j \in Marked, NEW m \in Name \ {semTab[j]},
                      \A k \in Name : User2System(k) = semTab[j] => k \in {semTab[j], m}
               PROVE  value'[j] = initial[semTab[j]] + Part(semTab[j], semTab[j])'
                                    + Part(semTab[j], m)'
    BY <1>1 DEF UnitsAccounted, User2System
  <2> DEFINE c == semTab[j]
  <2>1. value[j] = initial[c] + Part(c, c) + Part(c, m)
    BY DEF STInv, UnitsAccounted
  <2>2. /\ \A k \in Name : balance[k] \in Int
        /\ \A k \in Name : balance'[k] = IF k = n THEN balance[k] + d ELSE balance[k]
        /\ value'[i] = value[i] + d /\ \A k \in Slot \ {i} : value'[k] = value[k]
        /\ c \in Name /\ initial[c] \in Int /\ value[j] \in Int
    BY DEF STInv, STTypeOK, Marked
  <2>3. CASE j = i
    <3>1. n \in {c, m} /\ User2System(n) = c
      BY <2>3
    <3>2. CASE n = c
      <4>1. Part(c, c)' = Part(c, c) + d /\ Part(c, m)' = Part(c, m)
        BY <2>2, <3>1, <3>2 DEF Part, User2System
      <4>2. Part(c, c) \in Int /\ Part(c, m) \in Int
        BY <2>2 DEF Part
      <4> QED BY <2>1, <2>2, <2>3, <4>1, <4>2
    <3>3. CASE n = m
      <4>1. Part(c, c)' = Part(c, c) /\ Part(c, m)' = Part(c, m) + d
        BY <2>2, <3>1, <3>3 DEF Part, User2System
      <4>2. Part(c, c) \in Int /\ Part(c, m) \in Int
        BY <2>2 DEF Part
      <4> QED BY <2>1, <2>2, <2>3, <4>1, <4>2
    <3> QED BY <3>1, <3>2, <3>3
  <2>4. CASE j # i
    <3>1. User2System(n) # c
      BY <2>4 DEF STInv, NamesUnique
    <3>2. Part(c, c)' = Part(c, c) /\ Part(c, m)' = Part(c, m)
      BY <2>2, <3>1 DEF Part, User2System
    <3> QED BY <2>1, <2>2, <2>4, <3>2 DEF Marked
  <2> QED BY <2>3, <2>4
<1> QED BY <1>1, <1>2, <1>3

LEMMA DownInv ==
  ASSUME STInv, NEW p \in Proc, NEW n \in Name, Down(p, n)
  PROVE  STInv'
<1>1. PICK i \in Slot : /\ semPc[p] = "user"
                        /\ Finds(n, i)
                        /\ semPc' = [semPc EXCEPT ![p] = "P"]
                        /\ on' = [on EXCEPT ![p] = i]
                        /\ asked' = [asked EXCEPT ![p] = n]
                        /\ UNCHANGED <<semTab, value, initial, balance>>
  BY DEF Down
<1>2. STTypeOK'
  BY <1>1 DEF STInv, STTypeOK
<1>3. Marked' = Marked
  BY <1>1 DEF Marked
<1>4. InsideP'
  BY <1>1, <1>3 DEF STInv, STTypeOK, InsideP, Finds, User2System
<1>5. BalanceCounted' /\ NamesUnique' /\ NonNegative' /\ UnitsAccounted'
  BY <1>1, <1>3 DEF STInv, BalanceCounted, NamesUnique, NonNegative, UnitsAccounted, Part, User2System
<1> QED BY <1>2, <1>4, <1>5 DEF STInv

\* P takes a unit: the value was not 0, so it does not fall below 0 unless it
\* was below 0 before.
LEMMA DownPassesInv ==
  ASSUME STInv, NEW p \in Proc, DownPasses(p)
  PROVE  STInv'
<1> DEFINE i == on[p]
           n == asked[p]
<1>1. i \in Marked /\ i \in Slot /\ n \in Name /\ semTab[i] = User2System(n)
  BY DEF DownPasses, STInv, InsideP, Marked
<1>2. /\ value[i] \in -MaxValue .. MaxValue /\ value[i] # 0 /\ value[i] > -MaxValue
      /\ balance[n] \in -MaxValue .. MaxValue /\ balance[n] > -MaxValue
      /\ value' = [value EXCEPT ![i] = value[i] + (-1)]
      /\ balance' = [balance EXCEPT ![n] = balance[n] + (-1)]
      /\ UNCHANGED <<semTab, initial>>
      /\ semPc' = [semPc EXCEPT ![p] = "user"]
      /\ on' = [on EXCEPT ![p] = NULL] /\ asked' = [asked EXCEPT ![p] = NULL]
  BY <1>1 DEF DownPasses, STInv, STTypeOK
<1>3. Marked' = Marked /\ UnitsAccounted' /\ BalanceCounted' /\ NamesUnique'
  BY <1>1, <1>2, CountStep
<1>4. STTypeOK'
  BY <1>1, <1>2 DEF STInv, STTypeOK
<1>5. NonNegative'
  BY <1>1, <1>2, <1>3 DEF STInv, STTypeOK, NonNegative, Marked
<1>6. InsideP'
  BY <1>2, <1>3 DEF STInv, STTypeOK, InsideP, User2System
<1> QED BY <1>3, <1>4, <1>5, <1>6 DEF STInv

LEMMA UpInv ==
  ASSUME STInv, NEW p \in Proc, NEW n \in Name, Up(p, n)
  PROVE  STInv'
<1>1. PICK i \in Slot : /\ Finds(n, i)
                        /\ value[i] < MaxValue /\ balance[n] < MaxValue
                        /\ value' = [value EXCEPT ![i] = value[i] + 1]
                        /\ balance' = [balance EXCEPT ![n] = balance[n] + 1]
                        /\ UNCHANGED <<semPc, on, asked, semTab, initial>>
  BY DEF Up
<1>2. i \in Marked /\ semTab[i] = User2System(n)
  BY <1>1 DEF Finds
<1>3. Marked' = Marked /\ UnitsAccounted' /\ BalanceCounted' /\ NamesUnique'
  BY <1>1, <1>2, CountStep
<1>4. STTypeOK'
  BY <1>1 DEF STInv, STTypeOK
<1>5. NonNegative'
  BY <1>1, <1>3 DEF STInv, STTypeOK, NonNegative, Marked
<1>6. InsideP'
  BY <1>1, <1>3 DEF STInv, InsideP, User2System
<1> QED BY <1>3, <1>4, <1>5, <1>6 DEF STInv

\* Every step of every process preserves the invariant.
LEMMA SemNext == STInv /\ [STNext]_stVars => STInv'
<1> SUFFICES ASSUME STInv, [STNext]_stVars PROVE STInv'
  OBVIOUS
<1>1. CASE UNCHANGED stVars
  BY <1>1 DEF stVars, STInv, STTypeOK, Marked, InsideP, BalanceCounted, NamesUnique,
              NonNegative, UnitsAccounted, Part, User2System
<1>2. CASE STNext
  <2>1. PICK p \in Proc :
          \/ DownPasses(p)
          \/ \E n \in Name : \/ Down(p, n) \/ Up(p, n) \/ NotFound(p, n)
                             \/ \E v \in InitialValue : Create(p, n, v)
    BY <1>2 DEF STNext
  <2> QED
    BY <1>1, <2>1, CreateInv, DownInv, DownPassesInv, UpInv DEF NotFound
<1> QED
  BY <1>1, <1>2

\* The invariant holds in every reachable state, for any table size.
THEOREM SemTableInvariant == STSpec => []STInv
  BY SemInit, SemNext, PTL DEF STSpec

\* Type correctness of the table (stable.cc).
THEOREM SemTableTypes == STSpec => []STTypeOK
<1>1. STInv => STTypeOK
  BY DEF STInv
<1> QED
  BY <1>1, SemTableInvariant, PTL

\* No two slots of STable have the same name, however CreateSemaphore calls of
\* several processes interleave.
THEOREM OneSemaphorePerName == STSpec => []NamesUnique
<1>1. STInv => NamesUnique
  BY DEF STInv
<1> QED
  BY <1>1, SemTableInvariant, PTL

\* A semaphore created with a value that is not negative never has one.
THEOREM ValuesStayNonNegative == STSpec => []NonNegative
<1>1. STInv => NonNegative
  BY DEF STInv
<1> QED
  BY <1>1, SemTableInvariant, PTL

\* The value of a semaphore is what it was created with, plus the Ups and less
\* the Downs of the names that reach it, cut off where Up and Down cut them.
THEOREM UnitsAreAccountedFor == STSpec => []UnitsAccounted
<1>1. STInv => UnitsAccounted
  BY DEF STInv
<1> QED
  BY <1>1, SemTableInvariant, PTL
=============================================================================
