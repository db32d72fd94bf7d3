----------------------------- MODULE AddrSpace -----------------------------
(***************************************************************************)
(* Address spaces: AddrSpace (userprog/addrspace.cc), the frame bitmap,    *)
(* Machine::Translate (machine/translate.cc), and the part of a context    *)
(* switch that installs a page table (threads/scheduler.cc).               *)
(*                                                                         *)
(* Memory is modelled by pages: a program is so many pages of code, of     *)
(* initialised data, of uninitialised data and of stack, each segment      *)
(* starting on a page.  In the NOFF file initialised data follows code.    *)
(* A process can lose the processor where it waits for or has just passed  *)
(* P or V of addrLock, and anywhere in user mode.                          *)
(***************************************************************************)
EXTENDS Integers, Sequences, FiniteSets, Functions

CONSTANTS Proc, Main,
          Code, Data, Bss, Stack,  \* the pages of each process's segments
          NumPhysPages,            \* frames that the machine has (128)
          NumBits,                 \* bits of gPhysPageBitMap (256)
          NULL

Pages(p) == Code[p] + Data[p] + Bss[p] + Stack[p]

ASSUME SpaceAssumption ==
  /\ Main \in Proc
  /\ NULL \notin Proc
  /\ Code \in [Proc -> Nat \ {0}] /\ Data \in [Proc -> Nat]
  /\ Bss \in [Proc -> Nat] /\ Stack \in [Proc -> Nat]
  /\ NumPhysPages \in Nat /\ NumBits \in Nat

Frame == 0 .. NumBits - 1
Memory == 0 .. NumPhysPages - 1

VARIABLES
  pc,          \* where each process is
  cur,         \* currentThread
  installed,   \* the process whose table is machine->pageTable
  bitmap,      \* gPhysPageBitMap: the marked frames
  pageTable,   \* each process's page table: the frames of its pages
  addrLock,    \* value of the semaphore
  mem,         \* what each frame of mainMemory holds
  mine,        \* history: what each process last put in its pages
  wild,        \* history: a load has written outside mainMemory
  machine      \* "up", "halted" or "crashed"

vars == <<pc, cur, installed, bitmap, pageTable, addrLock, mem, mine, wild,
          machine>>

\* "locked": past addrLock->P(); "unlock": past the V of the out-of-memory
\* branch; "load": past the V that follows the page table.
PC == {"absent", "new", "addrLockP", "locked", "unlock", "load", "user",
       "gone"}

\* What a page holds: page v of the file of p, or what p stored into its page
\* v, or the zeros that the machine starts with.
Put(p, v, how) == [by |-> p, page |-> v, as |-> how]
Zero == Put(NULL, 0, "zero")
Content == {Zero} \cup [by : Proc, page : Nat, as : {"file", "stored"}]

TypeOK ==
  /\ pc \in [Proc -> PC]
  /\ cur \in Proc
  /\ installed \in Proc \cup {NULL}
  /\ bitmap \in SUBSET Frame
  /\ pageTable \in [Proc -> Seq(Frame)]
  /\ addrLock \in Nat
  /\ mem \in [Memory -> Content]
  /\ mine \in [Proc -> Seq(Content)]
  /\ wild \in BOOLEAN
  /\ machine \in {"up", "halted", "crashed"}

\* Initialize and Machine::Machine: StartProcess is about to load Main.
Init ==
  /\ pc = [p \in Proc |-> IF p = Main THEN "new" ELSE "absent"]
  /\ cur = Main
  /\ installed = NULL
  /\ bitmap = {}
  /\ pageTable = [p \in Proc |-> <<>>]
  /\ addrLock = 1
  /\ mem = [f \in Memory |-> Zero]
  /\ mine = [p \in Proc |-> <<>>]
  /\ wild = FALSE
  /\ machine = "up"

Goto(p, from, to) == /\ machine = "up"
                     /\ cur = p
                     /\ pc[p] = from
                     /\ pc' = [pc EXCEPT ![p] = to]
\* Machine::Translate of an address in virtual page v.
Translate(v) ==
  LET table == pageTable[installed] IN
  IF v >= Len(table) THEN "AddressErrorException"
  ELSE IF table[v + 1] \notin Memory THEN "BusErrorException"
  ELSE "NoException"

\* p executes an instruction: it has fetched its first one, from page 0.
Executes(p) == /\ machine = "up"
               /\ cur = p
               /\ pc[p] = "user"
               /\ Translate(0) = "NoException"

-----------------------------------------------------------------------------
(* Threads *)

\* The current process Execs q, whose thread starts in MyStartProcess.
Create(q) ==
  /\ Executes(cur)
  /\ pc[q] = "absent"
  /\ pc' = [pc EXCEPT ![q] = "new"]
  /\ UNCHANGED <<cur, installed, bitmap, pageTable, addrLock, mem, mine, wild,
                 machine>>

\* Mutant: the switch leaves the page table of the old process in place.
SwitchKeepsTable(q) ==
  /\ machine = "up"
  /\ q # cur
  /\ pc[q] \notin {"absent", "gone"}
  /\ cur' = q
  /\ UNCHANGED <<pc, installed, bitmap, pageTable, addrLock, mem, mine, wild,
                 machine>>

\* Scheduler::Run(q): a thread that has an address space restores it.
Switch(q) ==
  /\ machine = "up"
  /\ q # cur
  /\ pc[q] \notin {"absent", "gone"}
  /\ cur' = q
  /\ installed' = IF pc[q] = "user" THEN q ELSE installed
  /\ UNCHANGED <<pc, bitmap, pageTable, addrLock, mem, mine, wild, machine>>
-----------------------------------------------------------------------------
(* AddrSpace::AddrSpace(char* filename) *)

\* Open the file, read its header, call addrLock->P().
Enter(p) ==
  /\ Goto(p, "new", "addrLockP")
  /\ UNCHANGED <<cur, installed, bitmap, pageTable, addrLock, mem, mine, wild,
                 machine>>

\* The file is not an executable: the assertion on its magic number fails.
EnterAborts(p) ==
  /\ machine = "up"
  /\ cur = p
  /\ pc[p] = "new"
  /\ machine' = "crashed"
  /\ UNCHANGED <<pc, cur, installed, bitmap, pageTable, addrLock, mem, mine,
                 wild>>

Lock(p) ==
  /\ Goto(p, "addrLockP", "locked")
  /\ addrLock > 0
  /\ addrLock' = addrLock - 1
  /\ UNCHANGED <<cur, installed, bitmap, pageTable, mem, mine, wild, machine>>

\* n calls of FindFreeSlot: the n lowest clear bits, in order.
LowestFree(t, n) ==
  /\ t \in [1 .. n -> Frame \ bitmap]
  /\ \A i, j \in 1 .. n : i < j => t[i] < t[j]
  /\ \A i \in 1 .. n : \A f \in Frame \ bitmap :
       f < t[i] => \E j \in 1 .. n : t[j] = f

\* Mutant: FindFreeSlot does not mark the bits it finds.
AllocateUnmarked(p) ==
  /\ Goto(p, "locked", "load")
  /\ Pages(p) <= Cardinality(Frame \ bitmap)
  /\ \E t \in [1 .. Pages(p) -> Frame \ bitmap] :
       /\ LowestFree(t, Pages(p))
       /\ pageTable' = [pageTable EXCEPT ![p] = t]
  /\ addrLock' = addrLock + 1
  /\ UNCHANGED <<cur, installed, bitmap, mem, mine, wild, machine>>

\* Enough frames are clear: set up the page table and release the lock.
Allocate(p) ==
  /\ Goto(p, "locked", "load")
  /\ Pages(p) <= Cardinality(Frame \ bitmap)
  /\ \E t \in [1 .. Pages(p) -> Frame \ bitmap] :
       /\ LowestFree(t, Pages(p))
       /\ pageTable' = [pageTable EXCEPT ![p] = t]
       /\ bitmap' = bitmap \cup Range(t)
  /\ addrLock' = addrLock + 1
  /\ UNCHANGED <<cur, installed, mem, mine, wild, machine>>

\* "Not enough memory for new process": the file is deleted, the lock
\* released, and (the return being commented out) the constructor goes on
\* with a page table of no pages, releases the lock again ...
OutOfMemory(p) ==
  /\ Goto(p, "locked", "unlock")
  /\ Pages(p) > Cardinality(Frame \ bitmap)
  /\ addrLock' = addrLock + 1
  /\ UNCHANGED <<cur, installed, bitmap, pageTable, mem, mine, wild, machine>>

UnlockAgain(p) ==
  /\ Goto(p, "unlock", "load")
  /\ addrLock' = addrLock + 1
  /\ UNCHANGED <<cur, installed, bitmap, pageTable, mem, mine, wild, machine>>

\* The pages of p's file, the last Data[p] of them initialised data.  Nothing
\* is read for a process of no pages.
FilePages(p) == IF pageTable[p] = <<>> THEN {} ELSE 0 .. Code[p] + Data[p] - 1
DataPages(p) == {i \in FilePages(p) : i >= Code[p]}

\* Where the first loop reads page i of the file to: the frame of page i.
Target(p, i) == pageTable[p][i + 1]

\* Where the second loop reads page i, of the initialised data, to: as far
\* behind the frame of the page's number in the segment as the segment is
\* behind page 0.
DataTarget(p, i) == pageTable[p][i - Code[p] + 1] + Code[p]

\* Memory after the two loops.
Loaded(p) ==
  [f \in Memory |->
     IF \E i \in DataPages(p) : DataTarget(p, i) = f
       THEN Put(p, CHOOSE i \in DataPages(p) : DataTarget(p, i) = f, "file")
     ELSE IF \E i \in FilePages(p) : Target(p, i) = f
       THEN Put(p, CHOOSE i \in FilePages(p) : Target(p, i) = f, "file")
     ELSE mem[f]]

\* A loop writes behind the end of mainMemory.
WritesWild(p) == \/ \E i \in FilePages(p) : Target(p, i) \notin Memory
                 \/ \E i \in DataPages(p) : DataTarget(p, i) \notin Memory

\* Copy the segments in, delete the file, and start the program: set the
\* registers and install the page table.  After OutOfMemory the file is
\* deleted a second time; that, like a wild write, may crash the simulator.
Load(p) ==
  /\ Goto(p, "load", "user")
  /\ mem' = Loaded(p)
  /\ mine' = [mine EXCEPT ![p] =
                [v \in 1 .. Len(pageTable[p]) |->
                   IF v - 1 \in FilePages(p) THEN Put(p, v - 1, "file")
                   ELSE IF pageTable[p][v] \in Memory
                          THEN Loaded(p)[pageTable[p][v]] ELSE Zero]]
  /\ wild' = (wild \/ WritesWild(p))
  /\ installed' = p
  /\ machine' \in IF WritesWild(p) \/ pageTable[p] = <<>>
                    THEN {"up", "crashed"} ELSE {"up"}
  /\ UNCHANGED <<cur, bitmap, pageTable, addrLock>>
-----------------------------------------------------------------------------
(* User mode *)

\* An instruction stores into virtual page v (Machine::WriteMem).
Store(p, v) ==
  /\ Executes(p)
  /\ Translate(v) = "NoException"
  /\ mem' = [mem EXCEPT ![pageTable[installed][v + 1]] = Put(p, v, "stored")]
  /\ mine' = [mine EXCEPT ![p][v + 1] = Put(p, v, "stored")]
  /\ UNCHANGED <<pc, cur, installed, bitmap, pageTable, addrLock, wild,
                 machine>>

\* An access that Translate refuses: ExceptionHandler has no case for it, and
\* the instruction is executed again.
Fault(p, v) ==
  /\ machine = "up"
  /\ cur = p
  /\ pc[p] = "user"
  /\ v = 0 \/ Executes(p)
  /\ Translate(v) # "NoException"
  /\ UNCHANGED vars

\* Exit: Thread::FreeSpace deletes the address space.
Exit(p) ==
  /\ Executes(p)
  /\ p # Main
  /\ Goto(p, "user", "gone")
  /\ bitmap' = bitmap \ Range(pageTable[p])
  /\ pageTable' = [pageTable EXCEPT ![p] = <<>>]
  /\ mine' = [mine EXCEPT ![p] = <<>>]
  /\ UNCHANGED <<cur, installed, addrLock, mem, wild, machine>>

\* SC_Halt, and Exit of process 0.
Halt(p) ==
  /\ Executes(p)
  /\ machine' = "halted"
  /\ UNCHANGED <<pc, cur, installed, bitmap, pageTable, addrLock, mem, mine,
                 wild>>

Stopped == machine # "up" /\ UNCHANGED vars
-----------------------------------------------------------------------------
Step(p) == \/ Enter(p) \/ EnterAborts(p) \/ Lock(p) \/ Allocate(p) \/ OutOfMemory(p)
           \/ UnlockAgain(p) \/ Load(p) \/ Exit(p) \/ Halt(p)
           \/ \E v \in 0 .. Pages(p) : Store(p, v) \/ Fault(p, v)

Next == (\E p \in Proc : Create(p) \/ Switch(p) \/ Step(p)) \/ Stopped

Spec == Init /\ [][Next]_vars
-----------------------------------------------------------------------------
(* Correctness *)

\* No frame is in two page tables or twice in one, and the bitmap marks just
\* the frames in use: none is leaked.  It holds although OutOfMemory releases
\* addrLock twice, because nothing between the P and the V of a successful
\* call can lose the processor.
FramesOwned ==
  /\ \A p \in Proc : IsInjective(pageTable[p])
  /\ \A p, q \in Proc :
       p # q => Range(pageTable[p]) \cap Range(pageTable[q]) = {}
  /\ bitmap = UNION {Range(pageTable[p]) : p \in Proc}

\* Isolation: as long as nothing was written outside mainMemory, each page of
\* a process holds what that process put there, from its load or its stores.
\* (For programs without initialised data.)
Isolation ==
  ~wild => \A p \in Proc : pc[p] = "user" =>
    \A v \in DOMAIN pageTable[p] : pageTable[p][v] \in Memory =>
      mem[pageTable[p][v]] = mine[p][v]

\* addrspace.cc:216: "then, copy in the code and data segments into memory".
SegmentsInPlace ==
  ~wild => \A p \in Proc : pc[p] = "user" =>
    \A v \in DOMAIN pageTable[p] :
      v - 1 \in FilePages(p) /\ pageTable[p][v] \in Memory =>
        mem[pageTable[p][v]] \in {Put(p, v - 1, "file"), Put(p, v - 1, "stored")}
=============================================================================
