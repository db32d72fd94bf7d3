---------------------------- MODULE SynchConsole ----------------------------
(***************************************************************************)
(* The console: SynchConsole (threads/synchcons.cc) on top of the device   *)
(* Console (machine/console.cc), used by several threads at once.          *)
(*                                                                         *)
(* Semaphores are the abstract ones of SemaphoreSpec.  A thread can lose   *)
(* the processor in and after each P and V; the code from one to the next  *)
(* is one step.  Interrupt handlers run between steps.                     *)
(***************************************************************************)
EXTENDS Naturals, Integers, Sequences

CONSTANTS Thread,
          Char,       \* characters, the following three among them
          Newline, CtrlA,
          EOF,        \* what incoming holds when empty; also character 0xFF
          Text,       \* Text[t]: what t writes
          NumBytes,   \* lengths that Read may be called with
          Typed,      \* what is typed at the keyboard, in order
          MaxCalls    \* bound: calls of Write and Read by each thread

ASSUME ConsoleAssumption == /\ {Newline, CtrlA, EOF} \subseteq Char
                            /\ EOF \notin {Newline, CtrlA}
                            /\ Newline # CtrlA
                            /\ Text \in [Thread -> Seq(Char)]
                            /\ NumBytes \subseteq Nat
                            /\ Typed \in Seq(Char)
                            /\ MaxCalls \in Nat

VARIABLES
  pc,                       \* where each thread is
  loop,                     \* Write's and Read's local variable
  length,                   \* Read's argument numBytes
  synchReadAvail, synchWriteAvail, RLineBlock, WLineBlock,  \* semaphores
  incoming, putBusy,        \* Console's fields
  keyboard,                 \* characters not yet read from the keyboard
  display,                  \* characters written to the display
  lines,                    \* history: the text of all finished Writes
  arrived,                  \* history: characters the device has buffered
  consumed,                 \* history: characters of all finished Reads
  eaten,                    \* history: characters of each Read under way
  result,                   \* what each thread's last Read returned
  calls,                    \* calls so far (bound)
  aborted                   \* an ASSERT has failed

semaphores == <<synchReadAvail, synchWriteAvail, RLineBlock, WLineBlock>>
writing == <<putBusy, display, lines>>
reading == <<incoming, keyboard, arrived, consumed, eaten, result>>
vars == <<pc, loop, length, semaphores, writing, reading, calls, aborted>>

PC == {"user", "WLineP", "write", "writeP", "RLineP", "readP", "getChar"}

TypeOK ==
  /\ pc \in [Thread -> PC]
  /\ loop \in [Thread -> Nat]
  /\ length \in [Thread -> Nat]
  /\ synchReadAvail \in Nat /\ synchWriteAvail \in Nat
  /\ RLineBlock \in {0, 1} /\ WLineBlock \in {0, 1}
  /\ incoming \in Char
  /\ putBusy \in BOOLEAN
  /\ keyboard \in Seq(Char) /\ display \in Seq(Char)
  /\ lines \in Seq(Char) /\ arrived \in Seq(Char) /\ consumed \in Seq(Char)
  /\ eaten \in [Thread -> Seq(Char)]
  /\ result \in [Thread -> Nat \cup {-1}]
  /\ calls \in [Thread -> 0 .. MaxCalls]
  /\ aborted \in BOOLEAN

\* SynchConsole::SynchConsole and Console::Console.
Init ==
  /\ pc = [t \in Thread |-> "user"]
  /\ loop = [t \in Thread |-> 0]
  /\ length = [t \in Thread |-> 0]
  /\ synchReadAvail = 0 /\ synchWriteAvail = 0
  /\ RLineBlock = 1 /\ WLineBlock = 1
  /\ incoming = EOF
  /\ putBusy = FALSE
  /\ keyboard = Typed
  /\ display = <<>> /\ lines = <<>> /\ arrived = <<>> /\ consumed = <<>>
  /\ eaten = [t \in Thread |-> <<>>]
  /\ result = [t \in Thread |-> 0]
  /\ calls = [t \in Thread |-> 0]
  /\ aborted = FALSE

Goto(t, from, to) == /\ ~aborted
                     /\ pc[t] = from
                     /\ pc' = [pc EXCEPT ![t] = to]

\* A system call of t begins.
Call(t) == calls[t] < MaxCalls /\ calls' = [calls EXCEPT ![t] = @ + 1]
-----------------------------------------------------------------------------
(* SynchConsole::Write *)

Write(t) ==
  /\ Goto(t, "user", "WLineP")
  /\ Call(t)
  /\ UNCHANGED <<loop, length, semaphores, writing, reading, aborted>>

\* Mutant: no line lock.
WriteNoLock(t) ==
  /\ Goto(t, "WLineP", "write")
  /\ WLineBlock' = 0
  /\ loop' = [loop EXCEPT ![t] = 0]
  /\ UNCHANGED <<length, synchReadAvail, synchWriteAvail, RLineBlock, writing,
                 reading, calls, aborted>>

WriteLock(t) ==
  /\ Goto(t, "WLineP", "write")
  /\ WLineBlock > 0
  /\ WLineBlock' = WLineBlock - 1
  /\ loop' = [loop EXCEPT ![t] = 0]
  /\ UNCHANGED <<length, synchReadAvail, synchWriteAvail, RLineBlock, writing,
                 reading, calls, aborted>>

\* Console::PutChar of the next character, up to synchWriteAvail->P().
PutChar(t) ==
  /\ loop[t] < Len(Text[t])
  /\ Goto(t, "write", "writeP")
  /\ IF putBusy THEN aborted' = TRUE /\ UNCHANGED <<display, putBusy>>
                ELSE /\ display' = Append(display, Text[t][loop[t] + 1])
                     /\ putBusy' = TRUE
                     /\ UNCHANGED aborted
  /\ UNCHANGED <<loop, length, semaphores, lines, reading, calls>>

WriteWait(t) ==
  /\ Goto(t, "writeP", "write")
  /\ synchWriteAvail > 0
  /\ synchWriteAvail' = synchWriteAvail - 1
  /\ loop' = [loop EXCEPT ![t] = @ + 1]
  /\ UNCHANGED <<length, synchReadAvail, RLineBlock, WLineBlock, writing,
                 reading, calls, aborted>>

WriteReturn(t) ==
  /\ loop[t] = Len(Text[t])
  /\ Goto(t, "write", "user")
  /\ WLineBlock' = WLineBlock + 1
  /\ lines' = lines \o Text[t]
  /\ UNCHANGED <<loop, length, synchReadAvail, synchWriteAvail, RLineBlock,
                 putBusy, display, reading, calls, aborted>>

\* Console::WriteDone and SynchWriteFunct.
WriteDone ==
  /\ ~aborted
  /\ putBusy
  /\ putBusy' = FALSE
  /\ synchWriteAvail' = synchWriteAvail + 1
  /\ UNCHANGED <<pc, loop, length, synchReadAvail, RLineBlock, WLineBlock,
                 display, lines, reading, calls, aborted>>
-----------------------------------------------------------------------------
(* SynchConsole::Read *)

\* The buffer is cleared; RLineBlock->P() is called.
Read(t, n) ==
  /\ Goto(t, "user", "RLineP")
  /\ Call(t)
  /\ loop' = [loop EXCEPT ![t] = 0]
  /\ length' = [length EXCEPT ![t] = n]
  /\ UNCHANGED <<semaphores, writing, reading, aborted>>

\* Mutant: the newline is counted.
ReturnsLine(t, n, ch) ==
  /\ result' = [result EXCEPT ![t] = IF ch = CtrlA THEN -1
                                    ELSE IF ch = Newline THEN n + 1 ELSE n]
  /\ RLineBlock' = RLineBlock + 1

\* What Read returns after the loop, the last character read being ch.
Returns(t, n, ch) ==
  /\ result' = [result EXCEPT ![t] = IF ch = CtrlA THEN -1 ELSE n]
  /\ RLineBlock' = RLineBlock + 1

\* The line lock is taken.  A call for no bytes leaves the loop at once and
\* then looks at ch, which has no value yet.
ReadLock(t) ==
  /\ ~aborted
  /\ pc[t] = "RLineP"
  /\ RLineBlock > 0
  /\ RLineBlock' = RLineBlock - 1
  /\ pc' = [pc EXCEPT ![t] = "readP"]
  /\ UNCHANGED <<loop, length, synchReadAvail, synchWriteAvail, WLineBlock,
                 writing, reading, calls, aborted>>

ReadNothing(t) ==
  /\ Goto(t, "readP", "user")
  /\ length[t] = 0
  /\ \E ch \in Char : Returns(t, 0, ch)
  /\ UNCHANGED <<loop, length, synchReadAvail, synchWriteAvail, WLineBlock,
                 writing, incoming, keyboard, arrived, consumed, eaten, calls,
                 aborted>>

ReadWait(t) ==
  /\ Goto(t, "readP", "getChar")
  /\ loop[t] < length[t]
  /\ synchReadAvail > 0
  /\ synchReadAvail' = synchReadAvail - 1
  /\ UNCHANGED <<loop, length, synchWriteAvail, RLineBlock, WLineBlock,
                 writing, reading, calls, aborted>>

\* Console::GetChar.
TakeChar == incoming' = EOF

\* The body of the loop after the P: EOF is skipped, a
\* newline or ^A ends the line, anything else goes into the buffer, which
\* may then be full.
GetChar(t) ==
  /\ ~aborted
  /\ pc[t] = "getChar"
  /\ TakeChar
  /\ LET ch  == incoming
         eat == IF ch = EOF THEN eaten[t] ELSE Append(eaten[t], ch)
         n   == IF ch \in {EOF, Newline, CtrlA} THEN loop[t] ELSE loop[t] + 1
         end == ch \in {Newline, CtrlA} \/ n = length[t]
     IN /\ loop' = [loop EXCEPT ![t] = n]
        /\ pc' = [pc EXCEPT ![t] = IF end THEN "user" ELSE "readP"]
        /\ eaten' = [eaten EXCEPT ![t] = IF end THEN <<>> ELSE eat]
        /\ consumed' = IF end THEN consumed \o eat ELSE consumed
        /\ IF end THEN Returns(t, n, ch) ELSE UNCHANGED <<result, RLineBlock>>
  /\ UNCHANGED <<length, synchReadAvail, synchWriteAvail, WLineBlock, writing,
                 keyboard, arrived, calls, aborted>>

\* Mutant: a character is read although one is buffered.
CheckCharOverwrites ==
  /\ ~aborted /\ keyboard # <<>>
  /\ incoming' = Head(keyboard)
  /\ keyboard' = Tail(keyboard)
  /\ arrived' = IF incoming' = EOF THEN arrived ELSE Append(arrived, incoming')
  /\ synchReadAvail' = synchReadAvail + 1
  /\ UNCHANGED <<pc, loop, length, synchWriteAvail, RLineBlock, WLineBlock,
                 writing, consumed, eaten, result, calls, aborted>>

\* Mutant: the read handler is not called.
CheckCharSilent ==
  /\ ~aborted /\ incoming = EOF /\ keyboard # <<>>
  /\ incoming' = Head(keyboard)
  /\ keyboard' = Tail(keyboard)
  /\ arrived' = IF incoming' = EOF THEN arrived ELSE Append(arrived, incoming')
  /\ UNCHANGED <<pc, loop, length, semaphores, writing, consumed, eaten, result,
                 calls, aborted>>

\* Console::CheckCharAvail and SynchReadFunct.
CheckCharAvail ==
  /\ ~aborted
  /\ incoming = EOF
  /\ keyboard # <<>>
  /\ incoming' = Head(keyboard)
  /\ keyboard' = Tail(keyboard)
  /\ arrived' = IF incoming' = EOF THEN arrived ELSE Append(arrived, incoming')
  /\ synchReadAvail' = synchReadAvail + 1
  /\ UNCHANGED <<pc, loop, length, synchWriteAvail, RLineBlock, WLineBlock,
                 writing, consumed, eaten, result, calls, aborted>>
-----------------------------------------------------------------------------
WriteStep(t) == WriteLock(t) \/ PutChar(t) \/ WriteWait(t) \/ WriteReturn(t)
ReadStep(t) == ReadLock(t) \/ ReadNothing(t) \/ ReadWait(t) \/ GetChar(t)

Next == \/ \E t \in Thread : \/ Write(t) \/ WriteStep(t) \/ ReadStep(t)
                             \/ \E n \in NumBytes : Read(t, n)
        \/ WriteDone
        \/ CheckCharAvail

Spec == Init /\ [][Next]_vars

(***************************************************************************)
(* Fairness: the processor is shared out (Threads!ReadyRuns), so a thread  *)
(* inside a call goes on; the console's interrupts occur.  Calls being     *)
(* finitely many here, weak fairness is enough for the line locks; under   *)
(* endless calls a thread could be overtaken for ever, since a semaphore   *)
(* does not reserve its unit for the thread it wakes.                      *)
(***************************************************************************)
Fairness == /\ \A t \in Thread : WF_vars(WriteStep(t)) /\ WF_vars(ReadStep(t))
            /\ WF_vars(WriteDone)
            /\ WF_vars(CheckCharAvail)

FairSpec == Spec /\ Fairness
-----------------------------------------------------------------------------
(* Correctness *)

\* What thread t has put on the display of the line it is writing.
Shown(t) == IF pc[t] = "write" THEN SubSeq(Text[t], 1, loop[t])
            ELSE IF pc[t] = "writeP" THEN SubSeq(Text[t], 1, loop[t] + 1)
            ELSE <<>>

\* Lines come out whole: the display shows the lines of the finished Writes
\* one after the other, followed by the beginning of at most one line; and no
\* character is sent to the device before it has finished with the one before
\* (PutChar's ASSERT), whichever threads they are of.
WholeLines ==
  /\ display = lines \/ \E t \in Thread : display = lines \o Shown(t)
  /\ ~ aborted

\* Every character that arrives is delivered once and in order, to one Read
\* at a time: the characters of the finished Reads, then those of the one
\* under way, then the one that is buffered.
InputInOrder ==
  LET buffered == IF incoming = EOF THEN <<>> ELSE <<incoming>>
  IN \/ arrived = consumed \o buffered
     \/ \E t \in Thread : arrived = consumed \o eaten[t] \o buffered

\* Calls finish: a line being written is completed, and a Read goes on as long
\* as characters are typed: in the end it returns or everything typed has been
\* taken by it or others.
CallsFinish ==
  \A t \in Thread :
    /\ pc[t] = "WLineP" ~> pc[t] = "user"
    /\ pc[t] = "RLineP" ~> pc[t] = "user" \/ (keyboard = <<>> /\ incoming = EOF)

\* A Read returns the number of characters it took for its caller: those it
\* has consumed, without the newline that ended it, or -1 when it met ^A (so
\* handle_SC_Read can tell the end of the stream from an empty line).  A call
\* for no bytes is left out: it looks at a character it never read.
ReturnsCount ==
  [][\A t \in Thread : pc[t] = "getChar" /\ pc'[t] = "user" =>
       LET got == SubSeq(consumed', Len(consumed) + 1, Len(consumed'))
       IN result'[t] = IF got[Len(got)] = CtrlA THEN -1
                       ELSE Len(got) - (IF got[Len(got)] = Newline THEN 1 ELSE 0)]_vars
=============================================================================
