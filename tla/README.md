# Verification of the NachOS kernel of this repository

This directory holds TLA+ models of the NachOS 3.4 kernel in
`src/nachos/nachos-3.4/code` (paths below are relative to it), the TLC
configurations that model-check them and TLAPS proofs about them. The kernel is
the teaching kernel extended by a course project: multiprogramming (`PTable`,
`PCB`), user semaphores (`STable`), a shared table of open files, a synchronous
console, and an application of three programs that uses them.

`PROJECT.json` lists, for every definition, the lines of code it models
(`map`), the runs, a plausible bug for each property that makes it fail
(`mutants`), the hazards that the properties are aimed at, and the theorems.

To repeat a check: `tlc -config X.cfg M` for a run, `tlapm M.tla` for proofs.

## 1. The system

NachOS is one host process. It simulates a MIPS processor that runs user
programs, and the kernel proper runs as host code around it. Kernel threads are
coroutines: at any time one thread has the processor, and it loses it only

- when it calls `Thread::Yield`, `Thread::Sleep` (from `Semaphore::P`) or
  `Thread::Finish`, or
- when simulated time advances (`Interrupt::OneTick`: each user instruction,
  and each time interrupts are enabled again) and a pending interrupt that is
  due asks for a yield on return. The timer does so when the simulator is
  started with `-rs`.

So a semaphore operation that re-enables interrupts is a point where the
processor may be lost, and straight code between two such points is atomic. All
modules take their atomic steps from this rule.

| Component | State | Operations | Module |
|---|---|---|---|
| Threads, scheduler, semaphores (`threads/thread.cc`, `scheduler.cc`, `synch.cc`) | status of each thread, ready list, thread to be destroyed, value and queue of each semaphore | Fork, Yield, Sleep, Finish, Run, P, V | `Threads` |
| Interrupts, clock, timer (`machine/interrupt.cc`, `timer.cc`, the sorted lists of `threads/list.cc`) | level, pending list, clock | SetLevel, OneTick, Schedule, CheckIfDue, Idle, Halt | `Interrupt`, joined with a device by `SynchDisk`; `Threads` has their effect on threads |
| Process table (`userprog/ptable.cc`, `pcb.cc`) | slot bitmap, PCB array, `bmsem`; per PCB parent, join status, three semaphores, exit code | Exec, Join, Exit, Halt | `ProcessTable` |
| Address spaces (`userprog/addrspace.cc`, `bitmap.cc`, `machine/translate.cc`) | page tables, frame bitmap, `addrLock`, main memory, installed table | load, context switch, translate, store, exit | `AddrSpace` |
| Console (`threads/synchcons.cc`, `machine/console.cc`) | four semaphores, the device's one-character buffer and busy flag | Write, Read, GetChar, PutChar, two interrupts | `SynchConsole` |
| User semaphores (`userprog/stable.cc`) | ten named semaphores | CreateSemaphore, Up, Down | `SemTable` |
| Files of user programs (`userprog/exception.cc`, `filesys/filesys.h`, `openfile.h`) | one table of open files for all processes, positions, host files and descriptors | CreateF, OpenF, ReadF, WriteF, CloseF | `FileTable` |
| Disk (`machine/disk.cc`, `filesys/synchdisk.cc`) | head position, track buffer, active flag, completion semaphore | ReadSector, WriteSector, interrupt | `SynchDisk` |
| Network and mail (`machine/network.cc`, `network/post.cc`, `threads/synchlist.cc`) | one-packet buffer, mailboxes, two semaphores | Send, Receive, postal worker, two interrupts | `PostOffice` |
| MIPS simulator (`machine/mipssim.cc`, `machine.cc`) | registers, the pending load, data of each process | every instruction, traps, interrupts, context switch | `Machine`, against `MipsISA` |
| Real file system (`filesys/*.cc`, `userprog/bitmap.cc`) | bitmap, directory, headers and data sectors, open files | Create, Open, Close, Remove, Read, Write | `FileSystem`, against `FileStore` |
| Application (`test/scannersmain.c`, `passengers.c`, `scanners.c`) | four named semaphores, three files, entries of the file table | the steps of the three programs | `Scanners` |
| Number and text conversion (`userprog/exception.cc`) | none | ReadInt, PrintInt, ReadFloat, PrintFloat | not modelled |
| Host interface, start-up, tools | | | not modelled, or by their effect |

How they interact: every blocking component uses `Semaphore`. System calls
(`ExceptionHandler`) run in the thread of the calling process and reach the
process table, the semaphore table, the file table and the console. `Exec`
forks a thread that builds an address space. Devices call back from
`CheckIfDue`, in interrupt context, and only call `V`. The modules other than
`Threads` use a semaphore in the abstract form that `SemaphoreSpec` defines, and
`Threads` is shown to implement that form: a unit is taken by some waiting
thread, not necessarily by the first in the queue.

What is hard here: the processor can be lost at places that the code does not
show (the end of a `V`); a thread woken from `P` has to test again; a finished
thread frees itself with the help of the next one; process IDs are slots and are
used again; `Lock` has empty bodies and `Condition::Wait` is an assertion that
fails (`synch.cc:100-112`), so the code that relies on them (disk, network) runs
without mutual exclusion; a load of a user program takes effect one instruction
late, and interrupts, traps and context switches may fall in between; the three
programs of the application keep in step by semaphores and by files;
one-character and one-packet device buffers are emptied some time after their
interrupt.

### Builds

`userprog/Makefile` builds the kernel for user programs with the stub file
system: threads, process table, address spaces, console, semaphores and files
are together there. The disk and the network are in the builds of `filesys/` and
`network/`. Those use the real file system, whose constructor calls `Create` and
`Open` before `directoryFile` and `freeMapFile` are set (`filesys.cc:86-89`);
the network alone builds with the alternative flags in `network/Makefile`
(`-DTHREADS -DNETWORK`). `SynchDisk`, `FileSystem` and `PostOffice` model their
components with arbitrary callers, `FileSystem` from a disk that is formatted
and whose two system files are open.

## 2. The modules

Each module keeps the names of the source. Variables marked "history" are not in
the code: they remember what a property needs. Definitions with the comment
"Mutant" are plausible bugs, used by no specification.

**Threads** has one action per kernel operation. `Run` is the context switch:
it sets the statuses and deletes a carcass, except when the next thread is new,
since that one starts in `ThreadRoot` and not after `SWITCH` (`ReapsCarcass`).
`at` is where a thread continues: in its body, inside the loop of `P`, at its
start, or nowhere. `P` is two steps (test and sleep; resume and test again)
because the thread can lose the processor between them. `Request` and
`Interrupt` are a device request and its completion, which `V`s a semaphore.
`IdleReturn` and `Halt` are the two ends of `Interrupt::Idle`. Preemption is
`Yield` at any point of the body.

**SemaphoreSpec** is the promise: a value that is never negative, `V` adds a
unit, a thread in `P` takes one and goes on.

**ProcessTable** has, for each system call, one action per stretch of code
between two points where the processor can be lost; `PC` lists those points.
Slots, PCBs, the join and exit semaphores and their deletion are there, and a
semaphore of a deleted PCB can still be used (`touched`): the code does so.
`Spin` is the endless loop of a call whose program counter was not advanced.
`ExecRefused` has the four early returns of `ExecUpdate`: no name, the caller's
own program, a file that was there for the system call and is gone
(`Vanishing`), a full table. `bmsem` covers `ExecUpdate` only: a child loads its
program outside it, and several may do so at once. `numwait` is left out, since
nothing reads it.

**AddrSpace** works in pages: `mem` says what each frame holds, `mine` what each
process put there. `Load` copies the segments as the two loops compute their
targets, including targets outside main memory (`wild`). `OutOfMemory` is the
branch that releases `addrLock`, falls through and releases it again, and
`EnterAborts` the assertion that stops the simulator for a file that is no
program.

**SynchConsole** has the steps of `Write` and `Read` per character, the device
with its busy flag and its buffer, where the character `0xFF` is
indistinguishable from "empty" (the comparison with `EOF`).

**SemTable** has the three calls; `User2System` models the cut of a name at the
limit that Up and Down pass to it (33), which is lower than what
CreateSemaphore accepts (49). Values come unchecked from the program. The
histories `initial` and `balance` count what the calls should add up to, by the
name that the program gave.

**FileTable** has every call with every refusal as an action of its own, the
positions, the rewinding of a reader at the end of the file, `CreateF` cutting a
file that is open, and the abort when the host cannot create a file. Files of
the host may be there at the start, with any text of `Preexisting`, zeros
included. `System2User` stops at a zero, which a `ReadF` does not tell; the
history `zeros` has the files that may hold one, and `own` of a result says that
the file was not among them. `ReadNegative` is a `ReadF` of a negative count,
which moves the position back, and `SeekAborts` the next call on a position
below 0.

**Interrupt** is the clock, the sorted list of pending interrupts and the timer,
for a module that adds a device and threads. `OneTick` and `Idle` each take
interrupts in a loop; the loop is the value of `phase`, one interrupt is one
step (`Take` with the handler), and `LoopEnds` puts back the one that is not due.
The timer's intervals are all those that `Random` can give.

**SynchDisk** EXTENDS it with the disk and the threads that use it.
`ComputeLatency` is the code's computation with remainders; the properties
compare it with a definition in terms of which sector passes under the head when.

**PostOffice** has machines with a wire that may drop packets when they are
sent, the polling interrupt, the worker thread and clients.

**FileStore** is what the file system promises: named files of fixed size on a
disk of a given capacity, open under handles that keep a position. It says when
Create must succeed and when it must fail, and that it ends (`lost`) in the two
cases where the code keeps no promise: a handle used after its file was removed,
and a file of more sectors than a header can name. **FileSystem** implements it
with a bitmap, a directory, headers and sectors. `WriteAt` computes the sectors
that are read in before they are rewritten, with bytes of the buffer that nobody
initialised as a choice. `FindFreeSlots` says which sectors repeated calls of
`BitMap::FindFreeSlot` return by the number of clear sectors below each one. An
operation is one step (the code assumes a single caller).

**Scanners** has one step per Up, Down, CreateF or OpenF, or per bag that is read
or written. Every OpenF has its failing branch. passengers leaves its handles of
`passengers.txt` and `lugweight.txt` open at the end of a flight, so `inUse`
grows; `slots` is the size of the table. What `output.txt` should hold is said
without the programs: `Balanced` looks up the scanner of each bag with a weight
(`ScannerOf`) and compares what each scanner has taken of the bags before
(`Taken`, the number of units of weight).

**Machine** has the registers of the running process and the saved ones of the
others. `OneInstruction` executes any instruction of a menu (module `Opcodes`:
what `Instruction::Decode` can make of a word), at any time an interrupt, a
context switch or the rest of a system call may come. Program counters are in
bytes: a jump to an odd address makes the next fetch fail (`FetchFails`). An
exception (overflow, a bad address, no such instruction) goes to
`ExceptionHandler`, which has no case for it and returns (`ExceptionReturns`):
the instruction is executed again, for ever, while other processes go on
(`stuck`). Of the system calls some halt the machine, some end the process, some
write to its memory (`System2User`), and a number that has no case is called
again for ever (`CallUnknown`). Arithmetic is on words of
`W` bits, four bytes of `W/4` bits each (module `Words`), with the shift-and-add
loop of `Mult` and the sign tests of ADD and SUB as they are in the code.
**MipsISA** is what a program may expect: one processor for each process, which
executes an instruction completely and has no pending loads. There an exception
stops the process that caused it (`stopped`) and no other. Its arithmetic is on
integers. `Unpredictable` lists what the architecture leaves open (the target
of a load used in its delay slot, division by zero, a link through the tested
register), `Deviates` where the simulator differs from the processor.

## 3. The runs

| Run | States | Question |
|---|---|---|
| `threads` | 199,807 | Queues and statuses agree (`OnePlace`); a thread is deleted only when finished and from another stack (`NoUseAfterDelete`); no wake-up is lost (`NoLostWakeup`); the machine halts only when stuck (`HaltsOnlyWhenStuck`); refinement of `SemaphoreSpec` (`ImplementsSemaphores`); ready threads run (`ReadyRuns`); units reach sleepers (`UnitsReachSleepers`). No deadlock. |
| `process_table` | 331,398 | Slots are neither shared nor lost (`SlotsOwned`); one process at a time is in `ExecUpdate`, and every return gives `bmsem` back once (`OneInExecUpdate`), which happens in the end (`BmsemComesBack`); a joined process stays until its exit code is read (`JoinSeesExit`); the handshake of Join and Exit ends for both (`ExitCompletes`, `JoinCompletes`). |
| `addr_space` | 182,337 | Frames are neither shared nor leaked (`FramesOwned`); a process finds its own data and no other's (`Isolation`). No deadlock. |
| `addr_space_data` | violated | `SegmentsInPlace`, see section 6. |
| `synch_console` | 29,183 | Lines come out whole and the device is never overrun (`WholeLines`), input is delivered once and in order (`InputInOrder`), calls end (`CallsFinish`), results count what was read (`ReturnsCount`). |
| `sem_table` | 86,513 | No unit taken twice (`NonNegative`); the value of a semaphore is what the calls of the programs for its name add up to, names beyond the limit included (`UnitsAccounted`). |
| `file_table` | 250,600 | Descriptors match the table and the console's entries stay (`HandlesMatchTable`), end of file means all was read (`EofMeansAllRead`), a read of text that programs wrote copies what it reports (`CopiesOwnText`). |
| `disk` | 116,649 | The latency is that of a rotating disk and the track buffer answers exactly the reads it can (`LatencyIsPhysical`), a call returns after its own interrupt unless calls overlap (`ReturnsWhenDone`), no interrupt stays past its time (`NoneOverdue`), the machine halts when only the timer is left, and not before (`HaltsWhenDone`), all requests return (`RequestsReturn`). |
| `post_office` | 42,810 | Packets that are not dropped reach a box once and in order (`DeliveredInOrder`, `BoxInOrder`), mail arrives and sends return (`MailArrives`, `SendsReturn`). |
| `file_system` | 71,618 | Every sector is free or has one owner, whatever is created, removed and refused (`SectorsOwned`); refinement of `FileStore` (`ImplementsFileStore`). |
| `scanners` | 550,395 | The three programs work in turn (`InTurn`), `output.txt` has for each bag the scanner that the rule chooses (`OutputRight`), all flights are handled (`AllHandled`). |
| `machine` | 964,177 | Each process sees a processor of its own, and is stopped by its own exceptions only (`ImplementsISA`); no load is pending while the kernel works for a process (`NoLoadInKernel`). |

### Bounds

- `threads`: main and three forked threads, a mutex and a device's semaphore,
  values up to 2. Three contenders on one semaphore are what a stolen wake-up
  takes (a sleeper, a woken thread, a thief); the fourth thread makes a new
  thread the successor of a finished one, the case without carcass deletion.
- `process_table`: process 0 and three more over three slots, so that the table
  fills up and slots are used again; a program that exists, one that may vanish
  and one that is not there. No symmetry, which is not sound for liveness in
  TLC.
- `addr_space`: programs of two and three pages, six frames and eight bits: the
  bitmap has more bits than frames, as in `system.cc:163`, so memory runs out in
  both ways.
- `synch_console`: two threads, two calls, six typed characters: a line, the
  character `0xFF`, the end mark; buffers of 0 to 2 bytes.
- `sem_table`: three names over two slots, one name longer than the limit and
  with another name as its cut; initial values from -1 to 2.
- `file_table`: four slots of which two are the console's, descriptors that run
  out as the slots do, files of up to three characters, one file that cannot be
  created or written; each may be there at the start, with a zero in its text.
  Any call may come at any time, which is what several processes do to a table
  that does not know its users.
- `disk`: three tracks of three sectors, times 3 and 4, so that seek and rotation
  are out of step; requests start in the first 12 ticks, four rotation periods,
  with timer intervals of one and two ticks and ticks of one and two.
- `file_system`: three names for a directory of two entries, nine sectors of two
  bytes of which the system has four, headers for two sectors; sizes 1, 4 and 5
  (part of a sector, two full sectors, too large), transfers of 1 and 3 bytes:
  directory, headers and data each run out first in some behaviour, and a write
  may start, end, or both, inside a sector. A view leaves out the last result,
  which only the step that returns it is about.
- `scanners`: three inputs of two or three flights, with an empty flight, bags of
  equal weight, a bag without weight and more bags than scanners; file tables from
  3 to 10 entries.
- `machine`: words of four bits and bytes of one: the smallest at which bytes,
  halves and words differ. Two processes, any two instructions of a menu that
  has all operations, from six values of each of the two registers that include
  both ends of the range, of which five are numbers of system calls. Two
  instructions are what a load and its delay slot, or a branch and its delay
  slot, take.
- `post_office`: two clients on one machine, two boxes, three messages: two in
  transit while a third waits.

Permutations of processes, names and bytes are used as symmetry where none is
special and only safety is checked (`file_system`, `sem_table`).
Deadlock is checked in `threads` and `addr_space`; the other systems really may
stop (the cfg says why).

### Fairness

- `Threads`: the current thread goes on in `P` and yields to the timer (the
  kernel is started with `-rs`; without a timer a thread that does not yield
  keeps the processor), pending interrupts come (`CheckIfDue` runs them when
  their time is reached and time goes on), and `Idle` returns.
- `ProcessTable`: weak fairness of the steps of the handshake, and of those of
  Exec once it has `bmsem`, for each process: its thread is on the ready list
  when they are enabled. Nothing is assumed of user code or of getting `bmsem`,
  for which a waiting process may be overtaken without end (weak fairness would
  not be enough).
- `SynchDisk`: in addition the clock goes on while a thread can run, and programs
  that use the disk end (needed for `HaltsWhenDone` only).
- `Scanners`: each of the three processes goes on when it can. A program that
  waits in Down is alone on its semaphore, so nobody can overtake it.
- `SynchConsole`, `SynchDisk`, `PostOffice`: threads that can go on do, and
  interrupts that are scheduled come; the polls schedule themselves again each
  time. The number of console calls is bounded, so nobody is overtaken without
  end.

## 4. Proofs

All theorems hold for every value of the constants that satisfies the named
assumptions of the module. Three proof modules have a second part about another
component: `SynchConsoleProofs` about `SemTable`, `ProcessTableProofs` about
`Machine` and `SynchDiskProofs` about `PostOffice`. The two parts share no
lemma on states. So that both components can be extended there, the
specifications of these three have names with a prefix (`STSpec`, `CPUSpec`,
`POSpec`).

**ThreadsProofs**, for any numbers of threads and semaphores. Assumptions: main
is a thread, initial values are natural numbers within the bound, `NULL` is
neither a thread nor a semaphore. None of `OnePlace`, `NoUseAfterDelete` and
`NoLostWakeup` is inductive alone: that a thread is in one queue depends on its
status fitting the place where it continues (`StatusFits`), so `IInv` is

    TypeOK /\ OnePlace /\ StatusFits /\ NoUseAfterDelete /\ NoLostWakeup
    /\ (mode = "halted" => pending = {} /\ readyList = <<>>)

The last conjunct is what `Idle` saw before it halted. The first four are
proved together, one lemma per action. `NoLostWakeup` compares a value with the
number of woken threads: its lemmas say how each action changes that finite
set. Theorems: `TypeCorrect`, `ThreadsInOnePlace`, `DeleteIsSafe`, `Inductive`,
`WakeupsAreNotLost`, `HaltIsJustified`, and `SemaphoresRefined`: every step of
`Threads` is a step of `SemaphoreSpec` or leaves its variables alone.

**SemTable** (in `SynchConsoleProofs`), for tables of any size and any names.
`STInv` is `STTypeOK`, `NonNegative`, `UnitsAccounted`, one semaphore per name
(`NamesUnique`, without which a call could count for a semaphore that it did
not reach), that a process inside `P` is on the slot of the name it asked for,
cut at the limit (`InsideP`), and that nothing is counted for a name without a
semaphore (`BalanceCounted`). Theorems: `SemTableInvariant`, `SemTableTypes`,
`OneSemaphorePerName`, `ValuesStayNonNegative`, `UnitsAreAccountedFor`.

**PostOffice** (in `SynchDiskProofs`), for any network. `POInv` is `POTypeOK`,
`DeliveredInOrder`, `OneSignalPerPacket` and the bound on sends under way.
`DeliveredInOrder` needs `OneSignalPerPacket`: a packet is taken from the
device only by a worker that was woken for it, and the device takes one in only
when it is empty. `BoxInOrder` is inductive by itself on top of the types: it
says that the messages of a box stand, in order, at positions of what was
delivered (`MailFor`), and a delivery adds one position at the end. Theorems:
`PostOfficeInvariant`, `PostOfficeTypes`, `NetworkIsInOrder`,
`SignalsMatchPackets`, `BoxesAreInOrder`.

**AddrSpaceProofs**, for any programs, frames and bitmap. `Owned` is `TypeOK`,
`FramesOwned` and `TableWhen`: a process has a page table only between a
successful allocation and its exit, so that an allocation adds frames to the
tables in use and replaces none. Nothing is assumed of `addrLock`, which
`OutOfMemory` releases twice: that the proof does not need the lock is the
reason why this does no harm to the frames. `Spaces` adds that the table of a
running program is complete, that what it wrote is as long as the table, and
that the machine uses the table of the running process (`OwnTable`). Theorems:
`TypeCorrect`, `FramesOwnedHolds`, `OwnTableHolds`, and `IsolationHolds` under
the hypothesis that no program has initialised data. That hypothesis is needed:
the loop that loads it may write into another process's frames (section 6).

**ProcessTableProofs**, for any number of processes and slots. In four layers:
`Typed` (types, who holds `bmsem`, the fork under way) gives `OneInExecUpdate`;
`Table` adds which slots are marked for whom and gives `SlotsOwned`; `Waiting`
adds what the pointers of a process that waits in Join point to. `JoinSeesExit`
is about one token for each PCB, which goes from the exiting process through
`joinsem` to its joiner and back through `exitsem` (`Handshake`). It is kept
only until some process uses a semaphore of a deleted PCB (`touched`), as the
code can do. Theorems: `TypeCorrect`, `OneInExecUpdateHolds`, `SlotsOwnedHolds`,
`JoinSeesExitHolds`.

**SynchConsoleProofs**, for any threads, texts and input. Assumptions: the end
of input, the newline and the end mark are three different characters. `Typing`
has the two line locks (at most one thread inside, and the value of the
semaphore says whether there is one). `Writing` adds the device: it is busy, or
has signalled, just while the writer waits for it; with the writer's progress
this is what `WholeLines` needs. `Reading` adds how many characters the reader
has counted and where the others are; it gives `InputInOrder` and the action
property `ReturnsCount`. Theorems: `TypeCorrect`, `WholeLinesHolds`,
`InputInOrderHolds`, `ReturnsCountHolds`.

**FileTableProofs**, for tables and files of any size. Assumptions: `NULL` is no
file, text or number, and the host's texts are no longer than the bound. `Table`
is `TypeOK`, the entries of the console, that an open file exists and that no
descriptor is in two entries; it gives `HandlesMatchTable`. `Whole` adds that a
reader has seen exactly the file up to its position while nobody changes it;
`Dense` says that a file has a zero in it, which is where a read copies less
than it reports, only if it came so from the host or CreateF cut it while it was
open. Theorems: `TypeCorrect`, `HandlesMatchTableHolds`, `CopiesOwnTextHolds`,
and `EofMeansAllReadHolds` under the hypothesis that no read asks for 0
characters (such a read returns -2 at any position).

**SynchDiskProofs**, for any number of threads, every geometry of the disk, all
rotation, seek and tick times. The lemmas on `SortedInsert` and `SortedRemove`
say where an element goes and that order and the single interrupt of each
device are kept. `Interrupts` is `TypeOK`, the sorted list with the disk's
interrupt just while it is active (`Listed`), a clock that has not passed a
pending interrupt but in the loop of `OneTick` (`OnTime`), `NoneOverdue`, what
a halted machine looks like, and that the track buffer began to fill at the
start of a rotation period (`Whole`). `LatencyIsPhysical` follows from the
last: rounding up to a period and `ModuloDiff` give the first pass of a sector
(`Rounded`, `NextPass`). `IInv` adds `Calls`: while calls do not overlap there
is one token, which the disk has until the interrupt and the semaphore after
it. Theorems: `InterruptsInvariant`, `TypeCorrect`, `NoneOverdueHolds`,
`LatencyIsPhysicalHolds`, `CallsInvariant`, `ReturnsWhenDoneHolds`,
`AbortsOnlyOnOverlapHolds`, and `HaltsOnlyWhenDoneHolds`, the safety half of
`HaltsWhenDone`.

**FileSystemProofs**, for any disk, directory, table of open files and sizes.
Assumptions: sizes and counts are natural numbers, the two system files fit on
the disk (the constructor asserts it), and `Absent` and `Gone` are no entry and
no open file. First come lemmas about `FindFreeSlots`: on a map with enough
clear sectors it returns that many different ones, all clear. `IInv` is the
types, what the directory lists (`Listing`: a sector that it names holds a
header, and those that the header names are different and hold data), what the
bitmap marks (`Marks`, with one owner for each sector), `UniqueNames`, and the
headers of open files (`Handles`). Each operation then has a lemma that says
what it does to the sectors of the listed files (`Mine`). The refinement
`FilesAreStored` is the longest argument: the contents of a file are read off
its header and sectors, so that Create and Remove must be shown to leave the
contents of the other files alone, ReadAt to return the bytes between two
positions, and WriteAt, which rewrites whole sectors, to change just those
(`ByteToSector` is injective on the sectors of a file, and `ReadIn` has every
sector that the write does not cover). The free space of `FileStore` is a
number, and counts of finite disjoint sets connect it with the bitmap: Create
succeeds when the abstract one does and fails when it does. Theorems:
`FileSystemTypes`, `SectorsOwnedHolds`, `FilesAreStored`.

**Machine** (in `ProcessTableProofs`), for any processes, menus of instructions,
programs' answers and width of words. `Kernel` is `RegistersOK` (the running and
the saved registers are complete, and r0 is zero) and `NoLoadInKernel`. It needs
one lemma per shape of instruction: what `DelayedLoad` leaves, and that a trap,
by a system call or by an exception, happens only where the pending load has
been applied. Theorems: `RegistersWellFormed`, `NoLoadInKernelHolds`, and
`ProcessorOfItsOwn`: what a process sees of the registers and of its memory, a
pending load taken as done, changes only by its own instructions and by the
returns of its own calls. That is the part of `ImplementsISA` about interrupts,
context switches and other processes.

**ScannersProofs**, for any flights, weights and size of the file table. In two
layers. `Control` is about the three programs while what the application needs
holds (`Provided`): the types, whose turn it is (`Turn`, which is `InTurn` with
the places where passengers and scanners may be between flights), how many
entries of the file table each program has in use (`Entries`: passengers two
for each flight it has finished), and that files that are opened are there
(`Present`). From the counts follows that no OpenF fails (`NeverFull`,
`NeverFails`), so that only the working branches are taken; one lemma for each
of them says what it does. The second layer is about the data: what main has
copied into `passengers.txt` and `output.txt` (`Copying`), what passengers
offers (`Offering`), that `scannerid.txt` is right for the bags scanned so far
and that the loads that scanners has counted are those of these bags
(`Scanning`), and that the flights done are right (`Past`). What makes the
choice right is `BalancedStep`: if the choice for the next bag is the first of
the least loaded scanners, then appending it keeps `Balanced`; `TakenStep` says
what it does to the loads. Theorems: `InTurnHolds`, `OutputRightHolds`.

The inductive invariants of these modules were checked by TLC on the instances
of section 3 before they were proved.

Only model-checked:

- all liveness properties (`ReadyRuns`, `UnitsReachSleepers`, `BmsemComesBack`,
  `ExitCompletes`, `JoinCompletes`, `CallsFinish`, `RequestsReturn`, the first
  half of `HaltsWhenDone`, `MailArrives`, `SendsReturn`, `AllHandled`), since
  the provers do not handle fairness and `ENABLED`;
- the rest of `ImplementsISA`, that each instruction computes what the
  architecture says: it compares loops over the bits of a word with arithmetic,
  which takes induction over data.

## 5. What is not modelled

- Conversions of numbers (`exception.cc:125-442`): functions of their input with
  no state, covered best by tests. Reading them shows that the test of a digit
  in ReadInt (`< '0' && > '9'`) never holds, that PrintInt negates the smallest
  int, and that ReadFloat does not look at the point.
- The file system's constructor (section 1), List and Print, and Seek, which
  nothing calls. Crashes between the writes of an operation: the code says that
  it is not robust to them (`filesys.cc`, head comment).
- Encoding of instructions, the debugger of the simulator, context switch
  assembly and host calls: they appear by their results.
- Command line, self tests, stand-alone tools of the build, debugging output.
- Bytes inside pages and messages; message lengths; running out of kernel
  memory; what lies behind a buffer that is overrun: names of 50 and more
  characters in `Sem::name` (`stable.h:18`), `saveWeight` of
  `scannersmain.c:95`, `dataSectors` of a header (`filehdr.cc:46`; the model
  stops there).
- Deleting user semaphores: `STable` has no such operation, so after ten
  CreateSemaphore calls all later ones fail (`stable.cc:49`).
- Arguments that only break an assertion of the device or of the mail system
  (`disk.cc:121` and `141`, `post.cc:240-241`, `271-272` and `312`): sectors,
  boxes and lengths are legal ones.
- A `ReadF` of more characters than the kernel's buffer (`exception.cc:536`) and
  a `WriteF` of a negative count: they overrun memory of the simulator.
- An executable that Exec could open and the new thread cannot
  (`addrspace.cc:160-164`): the constructor returns with the page table unset.
- What `passengers` takes from its uninitialised buffer when an OpenF fails
  (`passengers.c:18` and `58`): only without `Provided`, where nothing is claimed.
- The TLB (`USE_TLB` is not defined) and `AddrSpace(OpenFile *)`, which is
  unused.

## 6. Where the code and its documents disagree

Shown by a run that finds a property violated:

- **Initialised data is loaded into the wrong frame** (`addr_space_data`). The
  loop for `initData` adds the whole virtual address to the frame of page `i`
  (`addrspace.cc:231`): right only when the frames are consecutive.

Part of the models, without a run of their own:

- After `ExitRelease` the parent can call Join again before the joined process
  has run; it sleeps on `joinsem`, and the PCB with that semaphore is then
  deleted (`ptable.cc:143`), which `synch.cc:45-46` assumes nobody does.
- The table of open files is shared by all processes and ids are not checked
  (`filesys.h:46`), while `src/notes.os.txt:5` calls it the table of the process.
- The carcass of a finished thread stays if the next thread is new, until a
  later switch; if another thread finishes first, its memory is lost
  (`scheduler.cc:122`, `thread.cc:136`).
- Join of a process that has already exited sleeps for ever (`ptable.cc:143`;
  `syscall.h:86` promises its result). `JoinCompletes` is for joins in time.
- `bmsem` does not keep two processes from being loaded at once, as `ptable.h:16`
  and `ptable.cc:39` say: the child loads its program in `MyStartProcess`
  (`pcb.cc:134-137`), after or while `ExecUpdate` returns.
  What it does keep is `OneInExecUpdate`.
- `ExceptionHandler` has cases for system calls and page faults only
  (`exception.cc:887-1024`): after an overflow, a bad address or an illegal
  instruction the instruction is executed again for ever. The switch over system
  calls has no default (`exception.cc:897`): an unknown one is called for ever.
- `parentID` is a slot: a newcomer in the slot of a dead parent passes the check
  of `ptable.cc:135`.
- `PCB::Exec` releases a mutex of the PCB that the new process may have deleted
  (`pcb.cc:128`).
- `Exit` with a code other than 0 returns to the program (`exception.cc:728`;
  `syscall.h:75`).
- The frame bitmap has 256 bits for 128 frames (`system.cc:163`), and a process
  that finds no memory runs all the same (`addrspace.cc:193`, `pcb.cc:140`).
- Frames are not cleared for uninitialised data (`addrspace.cc:201`).
- A console Read of 0 bytes tests a character it never read (`synchcons.cc:132`).
- CreateSemaphore takes negative values (`exception.cc:745`; `synch.h:50` says
  always at least 0), and longer names than Up and Down (`exception.cc:786`):
  a call with such a name acts on the semaphore of the name it is cut down to,
  if there is one, and nothing reaches the semaphore that was created.
- Files opened read-only cannot be read and can be written (`exception.cc:557`
  and `613`; `notes.os.txt:34` and `36`); a CreateF that the host refuses aborts
  the simulator (`exception.cc:514`).
- `ReadF` returns the number of characters it took from the file
  (`exception.cc:572`), and copies to the program those before the first zero
  (`machine.cc:89`): fewer than `syscall.h:124-125` promises. With a negative
  count it moves the position back (`openfile.h:51-55`); below 0 the next call on
  the file stops the simulator (`sysdep.cc:222-227`).
- Without locks, disk requests and sends of two threads overlap: the device's
  assertion stops the simulator (`synchdisk.cc:75`, `disk.h:67`), or a call
  returns on the other's completion; Receive from an empty mailbox stops the
  machine (`synch.cc:110`; `post.cc:114` says it waits).
- The simulator differs from the processor (`Deviates` of `Machine`): OR computes
  `rs | rs` (`mipssim.cc:376`), SRL and SRLV shift in the sign (`mipssim.cc:447`),
  DIV of the most negative word by -1 traps on the host, LWL, LWR, SWL and SWR
  accept aligned addresses only and treat them as a big-endian machine would. The
  run fails when any of these exceptions is dropped from `Deviates`.
- PrintFloat of zero advances the program counter in its handler
  (`exception.cc:341`) and again at the end of `ExceptionHandler`
  (`exception.cc:959`): the instruction after the call is skipped.
- Interrupts of the same time are not taken in the order of scheduling: one that
  was looked at too early is put back behind the others (`interrupt.cc:310`). A
  timer that is due when an idle period ends waits for the next tick
  (`interrupt.cc:315`).
- The application needs `scannerid.txt` of an earlier run: otherwise scanners,
  which does not wait for passengers to create it (`scanners.c:13`), signals
  once too often. It also needs two entries of the file table per flight and four
  more, as passengers leaves two handles open per flight: with 98 entries for
  programs it handles 47 flights. Both conditions are in `Provided`, and the
  properties fail without either.
- Remove takes the sectors of a file that is open (`filesys.cc:345`), and Create
  does not compare a size with what a header can name (`filehdr.cc:46`).

## 7. Plan

Done: `Threads` with its proofs (everything else rests on it), `ProcessTable`,
`AddrSpace`, `SynchConsole`, `SemTable`, `FileTable`, the devices of the other
builds, the clock and the interrupts, the real file system, the application and
the processor.

Every invariant that a passing run checks is proved (`Isolation` and
`EofMeansAllRead` under the hypotheses that section 4 gives), and so are the
action properties and the refinements but `ImplementsISA`, of which
`ProcessorOfItsOwn` is one half.

What could follow:

1. `AddrSpace`: `Isolation` for programs with initialised data whose frames are
   consecutive, the case in which the loop of `addrspace.cc:231` is right.
2. `SynchDisk`: the clock as an action property (it never goes back, and passes a
   pending interrupt only by a tick).
3. `Machine`: `ImplementsISA` for the instructions without arithmetic (moves,
   jumps, loads and stores of words).
