---------------------------- MODULE ProcessTable ----------------------------
(***************************************************************************)
(* Processes: PTable (userprog/ptable.cc), PCB (userprog/pcb.cc) and the   *)
(* system calls Exec, Join, Exit and Halt (userprog/exception.cc).         *)
(*                                                                         *)
(* A process is identified with the PCB and Thread objects made for it, so *)
(* it keeps its identity when its slot in the table is used again.         *)
(* Semaphores are the abstract ones of SemaphoreSpec, which Threads        *)
(* implements; the processor may be taken away wherever the code calls P,  *)
(* V or Fork, and each action runs from one such call to the next.         *)
(* numwait is left out: the code only increments and decrements it.        *)
(***************************************************************************)
EXTENDS Integers, FiniteSets

CONSTANTS Proc,        \* every process the run will create
          Main,        \* process 0, which runs in main()'s thread
          Program,     \* names given to Exec
          Openable,    \* those that the file system can open
          Vanishing,   \* those that it may fail to open again shortly after
          MaxProcess,  \* PTable's size (MAXPROCESS)
          NULL

ASSUME ProcessAssumption == /\ IsFiniteSet(Proc)
                            /\ Main \in Proc
                            /\ Openable \subseteq Program
                            /\ Vanishing \subseteq Openable
                            /\ MaxProcess \in Nat \ {0}
                            /\ NULL \notin Proc \cup Program

Pid == 0 .. MaxProcess - 1

VARIABLES
  pc,          \* where each process is
  prog,        \* the name of its thread: the program it was created to run
  processID,   \* Thread::processID
  bm, pcb,     \* PTable::bm (the marked slots) and PTable::pcb
  bmsem,       \* value of PTable::bmsem
  parentID, JoinStatus, joinsem, exitsem,   \* the PCB of each process
  freed,       \* its PCB's destructor has run
  arg,         \* the program Exec was given, while in Exec
  child,       \* the process Exec is creating
  joinID, joinPcb,  \* Join's argument, and the PCB it waits on
  joinedInTime, \* that process had not called Exit(0) when Join began
  exited,      \* history: PTable::ExitUpdate has recorded the exit code
  touched,     \* history: a semaphore of a deleted PCB has been used
  machine      \* "up", "halted" or "crashed"

pcbVars == <<parentID, JoinStatus, joinsem, exitsem, freed>>
callVars == <<arg, child, joinID, joinPcb, joinedInTime>>
histVars == <<exited, touched>>
vars == <<pc, prog, processID, bm, pcb, bmsem, pcbVars, callVars, histVars,
          machine>>

\* User code, and the points inside the system calls where the processor can
\* be lost: before the P (or after the V, or Fork) that names them.
PC == {"unborn", "loading", "user", "spin", "gone",
       "bmsemP", "execUpdate", "fork", "mutexV", "bmsemV",
       "joinsemP", "joined", "hang", "exitsemP"}

InExec == {"execUpdate", "fork", "mutexV", "bmsemV"}

TypeOK ==
  /\ pc \in [Proc -> PC]
  /\ prog \in [Proc -> Program \cup {NULL}]
  /\ processID \in [Proc -> Pid]
  /\ bm \in SUBSET Pid
  /\ pcb \in [Pid -> Proc \cup {NULL}]
  /\ bmsem \in {0, 1}
  /\ parentID \in [Proc -> Pid \cup {-1}]
  /\ JoinStatus \in [Proc -> Pid \cup {-1}]
  /\ joinsem \in [Proc -> Nat]
  /\ exitsem \in [Proc -> Nat]
  /\ freed \in [Proc -> BOOLEAN]
  /\ arg \in [Proc -> Program \cup {NULL}]
  /\ child \in [Proc -> Proc \cup {NULL}]
  /\ joinID \in [Proc -> Pid \cup {-1}]
  /\ joinPcb \in [Proc -> Proc \cup {NULL}]
  /\ joinedInTime \in [Proc -> BOOLEAN]
  /\ exited \in [Proc -> BOOLEAN]
  /\ touched \in BOOLEAN
  /\ machine \in {"up", "halted", "crashed"}

\* PTable::PTable, with PCB::PCB for process 0, whose program StartProcess
\* has loaded.
Init ==
  /\ pc = [p \in Proc |-> IF p = Main THEN "user" ELSE "unborn"]
  /\ prog = [p \in Proc |-> NULL]
  /\ processID = [p \in Proc |-> 0]
  /\ bm = {0}
  /\ pcb = [i \in Pid |-> IF i = 0 THEN Main ELSE NULL]
  /\ bmsem = 1
  /\ parentID = [p \in Proc |-> -1]
  /\ JoinStatus = [p \in Proc |-> -1]
  /\ joinsem = [p \in Proc |-> 0]
  /\ exitsem = [p \in Proc |-> 0]
  /\ freed = [p \in Proc |-> FALSE]
  /\ arg = [p \in Proc |-> NULL]
  /\ child = [p \in Proc |-> NULL]
  /\ joinID = [p \in Proc |-> -1]
  /\ joinPcb = [p \in Proc |-> NULL]
  /\ joinedInTime = [p \in Proc |-> FALSE]
  /\ exited = [p \in Proc |-> FALSE]
  /\ touched = FALSE
  /\ machine = "up"

\* p leaves the point from for the point to.
Goto(p, from, to) == /\ machine = "up"
                     /\ pc[p] = from
                     /\ pc' = [pc EXCEPT ![p] = to]
\* p calls P or V on a semaphore of the PCB of o.  If that PCB is deleted,
\* the call works on freed memory: p goes on, or the simulator crashes.
UsesPcb(o) ==
  /\ machine' \in IF freed[o] THEN {"up", "crashed"} ELSE {"up"}
  /\ touched' = (touched \/ freed[o])
-----------------------------------------------------------------------------
(* Exec *)

\* Bound: the run creates at most the processes of Proc.
ProcessesLeft ==
  Cardinality({p \in Proc : pc[p] \in {"bmsemP", "execUpdate", "fork"}})
    < Cardinality({p \in Proc : pc[p] = "unborn"})

\* handle_SC_Exec for a file that can be opened; it is refused otherwise,
\* with no effect on the table.
Exec(p, name) ==
  /\ Goto(p, "user", "bmsemP")
  /\ name \in Openable
  /\ ProcessesLeft
  /\ arg' = [arg EXCEPT ![p] = name]
  /\ UNCHANGED <<prog, processID, bm, pcb, bmsem, pcbVars, child, joinID,
                 joinPcb, joinedInTime, histVars, machine>>

\* ExecUpdate's bmsem->P().
ExecP(p) ==
  /\ Goto(p, "bmsemP", "execUpdate")
  /\ bmsem > 0
  /\ bmsem' = bmsem - 1
  /\ UNCHANGED <<prog, processID, bm, pcb, pcbVars, callVars, histVars,
                 machine>>

\* Mutant: the search does not look at the bits.
AnySlot(i) == i \in Pid \ {0} /\ \A j \in Pid \ {0} : i <= j

\* BitMap::FindFreeSlot: the first clear bit.
FreeSlot(i) == i \in Pid \ bm /\ \A j \in Pid \ bm : i <= j

\* Mutant: the early return falls through to the V at the end.
ExecRefusedTwice(p) ==
  /\ Goto(p, "execUpdate", "user")
  /\ arg[p] \in {NULL, prog[p]} \cup Vanishing \/ bm = Pid
  /\ bmsem' = bmsem + 2
  /\ arg' = [arg EXCEPT ![p] = NULL]
  /\ UNCHANGED <<prog, processID, bm, pcb, pcbVars, child, joinID, joinPcb,
                 joinedInTime, histVars, machine>>

\* Mutant: an early return without bmsem->V().
ExecRefusedKeeps(p) ==
  /\ Goto(p, "execUpdate", "user")
  /\ arg[p] \in {NULL, prog[p]} \cup Vanishing \/ bm = Pid
  /\ arg' = [arg EXCEPT ![p] = NULL]
  /\ UNCHANGED <<prog, processID, bm, pcb, bmsem, pcbVars, child, joinID,
                 joinPcb, joinedInTime, histVars, machine>>

\* The four early returns of ExecUpdate: there is no name (which Exec has
\* excluded), it is that of the caller's own program, its file cannot be
\* opened, or the table is full.  Each gives bmsem back and returns -1.
ExecRefused(p) ==
  /\ Goto(p, "execUpdate", "user")
  /\ arg[p] \in {NULL, prog[p]} \cup Vanishing \/ bm = Pid
  /\ bmsem' = bmsem + 1
  /\ arg' = [arg EXCEPT ![p] = NULL]
  /\ UNCHANGED <<prog, processID, bm, pcb, pcbVars, child, joinID, joinPcb,
                 joinedInTime, histVars, machine>>

\* ExecUpdate takes a slot and makes the PCB; PCB::Exec takes its mutex, which
\* nobody else has seen yet.
ExecUpdate(p, q) ==
  /\ Goto(p, "execUpdate", "fork")
  /\ prog[p] # arg[p]
  /\ pc[q] = "unborn"
  /\ \A r \in Proc : child[r] # q
  /\ \E i \in Pid :
       /\ FreeSlot(i)
       /\ bm' = bm \cup {i}
       /\ pcb' = [pcb EXCEPT ![i] = q]
       /\ processID' = [processID EXCEPT ![q] = i]
  /\ parentID' = [parentID EXCEPT ![q] = processID[p]]
  /\ child' = [child EXCEPT ![p] = q]
  /\ UNCHANGED <<prog, bmsem, JoinStatus, joinsem, exitsem, freed, arg,
                 joinID, joinPcb, joinedInTime, histVars, machine>>

\* PCB::Exec creates and forks the thread of the new process.
ExecFork(p) ==
  /\ machine = "up"
  /\ pc[p] = "fork"
  /\ pc' = [pc EXCEPT ![p] = "mutexV", ![child[p]] = "loading"]
  /\ prog' = [prog EXCEPT ![child[p]] = arg[p]]
  /\ UNCHANGED <<processID, bm, pcb, bmsem, pcbVars, callVars, histVars,
                 machine>>

\* PCB::Exec's mutex->V().  The new process may have exited meanwhile.
ExecMutexV(p) ==
  /\ Goto(p, "mutexV", "bmsemV")
  /\ UsesPcb(child[p])
  /\ UNCHANGED <<prog, processID, bm, pcb, bmsem, pcbVars, callVars, exited>>

\* ExecUpdate's bmsem->V(); Exec returns the process ID.
ExecReturn(p) ==
  /\ Goto(p, "bmsemV", "user")
  /\ bmsem' = bmsem + 1
  /\ arg' = [arg EXCEPT ![p] = NULL]
  /\ child' = [child EXCEPT ![p] = NULL]
  /\ UNCHANGED <<prog, processID, bm, pcb, pcbVars, joinID, joinPcb,
                 joinedInTime, histVars, machine>>

\* MyStartProcess: load the program and run it.  Without enough memory
\* (AddrSpace!OutOfMemory) the simulator crashes or the process gets a space
\* of no pages, whose first instruction faults, is ignored by ExceptionHandler
\* and is tried again, for ever.
MyStartProcess(p) ==
  /\ \/ Goto(p, "loading", "user") /\ UNCHANGED machine
     \/ Goto(p, "loading", "spin") /\ machine' \in {"up", "crashed"}
  /\ UNCHANGED <<prog, processID, bm, pcb, bmsem, pcbVars, callVars, histVars>>
-----------------------------------------------------------------------------
(* Join *)

\* The PCB that Join(i) finds, if JoinUpdate lets the caller wait for it.
Joinable(p, i) == /\ i \in Pid
                  /\ pcb[i] # NULL
                  /\ processID[p] = parentID[pcb[i]]

\* Where a process inside joinsem->P() goes when the semaphore of o lets it
\* pass: a deleted semaphore may as well put it to sleep for ever.
PassesJoinsem(p, o) ==
  \E to \in {"joined"} \cup (IF freed[o] THEN {"hang"} ELSE {}) :
    pc' = [pc EXCEPT ![p] = to]

\* JoinUpdate up to joinsem->P() in JoinWait.  A slot's pointer survives the
\* deletion of its PCB.  A call that is refused returns -1 and changes
\* nothing.
JoinUpdate(p, i) ==
  /\ machine = "up"
  /\ pc[p] = "user"
  /\ Joinable(p, i)
  /\ IF freed[pcb[i]] THEN PassesJoinsem(p, pcb[i])
                      ELSE pc' = [pc EXCEPT ![p] = "joinsemP"]
  /\ UsesPcb(pcb[i])
  /\ JoinStatus' = [JoinStatus EXCEPT ![pcb[i]] = parentID[pcb[i]]]
  /\ joinID' = [joinID EXCEPT ![p] = i]
  /\ joinPcb' = [joinPcb EXCEPT ![p] = pcb[i]]
  /\ joinedInTime' = [joinedInTime EXCEPT ![p] = ~exited[pcb[i]]]
  /\ UNCHANGED <<prog, processID, bm, pcb, bmsem, parentID, joinsem, exitsem,
                 freed, arg, child, exited>>

\* The P of JoinWait gets its unit.
JoinP(p) ==
  /\ machine = "up"
  /\ pc[p] = "joinsemP"
  /\ LET o == joinPcb[p] IN
       /\ joinsem[o] > 0
       /\ joinsem' = [joinsem EXCEPT ![o] = @ - 1]
       /\ PassesJoinsem(p, o)
       /\ UsesPcb(o)
  /\ UNCHANGED <<prog, processID, bm, pcb, bmsem, parentID, JoinStatus,
                 exitsem, freed, callVars, exited>>

\* Mutant: the joiner returns without letting the other process go.
JoinKeepsExiter(p) ==
  /\ Goto(p, "joined", "user")
  /\ joinID' = [joinID EXCEPT ![p] = -1]
  /\ joinPcb' = [joinPcb EXCEPT ![p] = NULL]
  /\ joinedInTime' = [joinedInTime EXCEPT ![p] = FALSE]
  /\ UNCHANGED <<prog, processID, bm, pcb, bmsem, pcbVars, arg, child,
                 histVars, machine>>

\* JoinUpdate after JoinWait: it looks its argument up again, finds exit code
\* 0 (handle_SC_Exit passes no other) and calls ExitRelease.
JoinReturn(p) ==
  /\ Goto(p, "joined", "user")
  /\ LET o == pcb[joinID[p]] IN
       /\ exitsem' = IF freed[o] THEN exitsem
                                 ELSE [exitsem EXCEPT ![o] = @ + 1]
       /\ UsesPcb(o)
  /\ joinID' = [joinID EXCEPT ![p] = -1]
  /\ joinPcb' = [joinPcb EXCEPT ![p] = NULL]
  /\ joinedInTime' = [joinedInTime EXCEPT ![p] = FALSE]
  /\ UNCHANGED <<prog, processID, bm, pcb, bmsem, parentID, JoinStatus,
                 joinsem, freed, arg, child, exited>>
-----------------------------------------------------------------------------
(* Exit and Halt *)

\* PTable::Remove of the caller's slot: clear the bit, delete the PCB, whose
\* destructor frees the address space and finishes the thread.  The pointer
\* in pcb is not reset.
Remove(p) ==
  /\ bm' = bm \ {processID[p]}
  /\ freed' = [freed EXCEPT ![pcb[processID[p]]] = TRUE]

\* handle_SC_Exit with a status other than 0 returns to the program.
ExitIgnored(p) == machine = "up" /\ pc[p] = "user" /\ UNCHANGED vars

\* Exit(0) by process 0: Interrupt::Halt.
ExitMain(p) ==
  /\ machine = "up"
  /\ pc[p] = "user"
  /\ processID[p] = 0
  /\ machine' = "halted"
  /\ UNCHANGED <<pc, prog, processID, bm, pcb, bmsem, pcbVars, callVars,
                 histVars>>

\* Mutant: the slot is given back before the handshake with the joiner.
ExitClearsFirst(p) ==
  /\ processID[p] # 0
  /\ Goto(p, "user", "exitsemP")
  /\ bm' = bm \ {processID[p]}
  /\ joinsem' = [joinsem EXCEPT ![p] = @ + 1]
  /\ exited' = [exited EXCEPT ![p] = TRUE]
  /\ UNCHANGED <<prog, processID, pcb, bmsem, parentID, JoinStatus, exitsem,
                 freed, callVars, touched, machine>>
\* Mutant: the exiting process waits for its joiner without waking it.
ExitForgetsJoiner(p) ==
  /\ processID[p] # 0
  /\ \/ /\ JoinStatus[p] # -1
        /\ Goto(p, "user", "exitsemP")
        /\ UNCHANGED <<bm, freed>>
     \/ /\ JoinStatus[p] = -1
        /\ Goto(p, "user", "gone")
        /\ Remove(p)
  /\ exited' = [exited EXCEPT ![p] = TRUE]
  /\ UNCHANGED <<prog, processID, pcb, bmsem, parentID, JoinStatus, joinsem,
                 exitsem, callVars, touched, machine>>

\* Exit(0) by another process: ExitUpdate up to exitsem->P() if a process has
\* joined this one, to its end otherwise.  IsExist holds, since the bit of a
\* process that runs is set (SlotsOwned).
ExitUpdate(p) ==
  /\ processID[p] # 0
  /\ LET o == pcb[processID[p]] IN
       \/ /\ JoinStatus[o] # -1
          /\ Goto(p, "user", "exitsemP")
          /\ joinsem' = [joinsem EXCEPT ![o] = @ + 1]
          /\ UNCHANGED <<bm, freed>>
       \/ /\ JoinStatus[o] = -1
          /\ Goto(p, "user", "gone")
          /\ Remove(p)
          /\ UNCHANGED joinsem
  /\ exited' = [exited EXCEPT ![p] = TRUE]
  /\ UNCHANGED <<prog, processID, pcb, bmsem, parentID, JoinStatus, exitsem,
                 callVars, touched, machine>>

\* The joiner has called ExitRelease.
ExitP(p) ==
  /\ Goto(p, "exitsemP", "gone")
  /\ LET o == pcb[processID[p]] IN
       /\ exitsem[o] > 0
       /\ exitsem' = [exitsem EXCEPT ![o] = @ - 1]
  /\ Remove(p)
  /\ UNCHANGED <<prog, processID, pcb, bmsem, parentID, JoinStatus, joinsem,
                 callVars, histVars, machine>>

\* SC_Halt by any process.
HaltCall(p) ==
  /\ machine = "up"
  /\ pc[p] = "user"
  /\ machine' = "halted"
  /\ UNCHANGED <<pc, prog, processID, bm, pcb, bmsem, pcbVars, callVars,
                 histVars>>

\* A program that no memory was found for faults again and again.
Spin(p) == machine = "up" /\ pc[p] = "spin" /\ UNCHANGED vars

\* The simulator has stopped.
Stopped == machine # "up" /\ UNCHANGED vars
-----------------------------------------------------------------------------
Step(p) ==
  \/ \E name \in Program : Exec(p, name)
  \/ ExecP(p) \/ ExecRefused(p)
  \/ \E q \in Proc : ExecUpdate(p, q)
  \/ ExecFork(p) \/ ExecMutexV(p) \/ ExecReturn(p)
  \/ MyStartProcess(p)
  \/ \E i \in Pid : JoinUpdate(p, i)
  \/ JoinP(p) \/ JoinReturn(p)
  \/ ExitIgnored(p) \/ ExitMain(p) \/ ExitUpdate(p) \/ ExitP(p)
  \/ HaltCall(p) \/ Spin(p)

Next == (\E p \in Proc : Step(p)) \/ Stopped

Spec == Init /\ [][Next]_vars

(***************************************************************************)
(* Fairness.  The processor is shared (Threads!ReadyRuns), so a process    *)
(* inside a system call goes on.  A wait for bmsem can be overtaken by     *)
(* another process each time, so it needs strong fairness, which is more   *)
(* than the code guarantees; the way out of ExecUpdate and the handshake   *)
(* between Join and Exit do not.  What user code does next is up to the    *)
(* program.                                                                *)
(***************************************************************************)
ExecGoesOn(p) == \/ ExecRefused(p) \/ \E q \in Proc : ExecUpdate(p, q)
                 \/ ExecFork(p) \/ ExecMutexV(p) \/ ExecReturn(p)

Fairness == \A p \in Proc : /\ WF_vars(JoinP(p) \/ JoinReturn(p) \/ ExitP(p))
                            /\ WF_vars(ExecGoesOn(p))

FairSpec == Spec /\ Fairness
-----------------------------------------------------------------------------
(* Correctness *)

\* Processes whose thread has been forked and has not finished.
Live(p) == pc[p] \notin {"unborn", "gone"}

\* Each live process owns the slot of its process ID (so that ExitUpdate and
\* the ASSERT in Thread::Finish, reached through pcb[pID], find the caller's
\* own PCB), no two share an ID, and no slot is marked for anybody else:
\* slots are neither given out twice nor lost.
SlotsOwned ==
  /\ \A p \in Proc : Live(p) => pcb[processID[p]] = p /\ ~freed[p]
  /\ bm = {processID[p] : p \in {q \in Proc :
                            Live(q) \/ \E r \in Proc : child[r] = q /\ pc[r] = "fork"}}

\* Slots are searched, marked and filled in by one process at a time: at most
\* one is between the P and the V of ExecUpdate, and bmsem is taken just then,
\* by whichever of the five ways it leaves.  This is less than ptable.h:16 and
\* ptable.cc:39 claim, that bmsem keeps two processes from being loaded at the
\* same time: each is loaded by its own thread, in MyStartProcess, and any
\* number may be at "loading".
OneInExecUpdate == bmsem + Cardinality({p \in Proc : pc[p] \in InExec}) = 1

\* bmsem always comes back: no refusal keeps it, and a child that runs, exits
\* and is deleted before its parent has left PCB::Exec does not hold it up.
BmsemComesBack == (bmsem = 0) ~> (bmsem = 1 \/ machine # "up")

\* Join returns only after the program has finished, and a process that is
\* being joined stays in its slot until its joiner has looked at its exit
\* code: it is not deleted, and the slot is not used again, between JoinWait
\* and ExitRelease.  The second part lasts until some process uses a deleted
\* semaphore, which may release another process's exitsem.
JoinSeesExit ==
  \A p \in Proc : pc[p] = "joined" =>
    /\ exited[joinPcb[p]]
    /\ ~touched => /\ pcb[joinID[p]] = joinPcb[p]
                   /\ pc[joinPcb[p]] = "exitsemP"

\* A process that is joined and exits is let go by its joiner.
ExitCompletes ==
  \A p \in Proc : pc[p] = "exitsemP" ~> (pc[p] = "gone" \/ machine # "up")

\* A process that joins another before that one exits returns after it does.
JoinCompletes ==
  \A p \in Proc : (joinedInTime[p] /\ exited[joinPcb[p]])
                    ~> (pc[p] = "user" \/ machine # "up" \/ touched)
=============================================================================
