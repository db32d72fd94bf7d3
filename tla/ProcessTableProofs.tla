------------------------- MODULE ProcessTableProofs -------------------------
(***************************************************************************)
(* Proofs about ProcessTable, for any finite set of processes, any names   *)
(* of programs and any size of the table; and, in the second part, about   *)
(* Machine, for any programs and any width of words.  Only the names are   *)
(* shared: neither module uses the other's state.                          *)
(***************************************************************************)
EXTENDS ProcessTable, Machine, FiniteSetTheorems, TLAPS

\* bmsem as a lock: it is free and nobody is inside ExecUpdate, or it is taken
\* and just one process is.
Inside == {p \in Proc : pc[p] \in InExec}
Loader == \/ bmsem = 1 /\ Inside = {}
          \/ bmsem = 0 /\ \E p \in Proc : Inside = {p}

\* The process that ExecUpdate is about to fork does not run yet.
Forks == \A r \in Proc : pc[r] = "fork" =>
           child[r] \in Proc /\ pc[child[r]] = "unborn"

\* q has a PCB, and its thread has not been forked yet.
Forking(q) == \E r \in Proc : child[r] = q /\ pc[r] = "fork"
\* q keeps its slot.
Holds(q) == Live(q) \/ Forking(q)
\* q has, or once had, a PCB.
Used(q) == pc[q] # "unborn" \/ Forking(q)

Slots ==
  /\ \A q \in Proc : Holds(q) => pcb[processID[q]] = q /\ ~freed[q]
  /\ bm = {processID[q] : q \in {r \in Proc : Holds(r)}}
  /\ \A q \in Proc : pc[q] = "unborn" => ~freed[q]

\* A pointer in the table, even a stale one, leads to the process that had the
\* slot last.
Pointers ==
  \A i \in Pid, o \in Proc : pcb[i] = o => Used(o) /\ processID[o] = i

\* What is signalled and what is deleted has exited.
Exits ==
  \A o \in Proc :
    /\ freed[o] => exited[o]
    /\ pc[o] = "exitsemP" => exited[o]
    /\ pc[o] = "gone" => freed[o]
    /\ joinsem[o] > 0 => exited[o] /\ pc[o] \in {"exitsemP", "gone"}

\* A process inside JoinUpdate waits on the PCB of its slot, as the process
\* that has the ID of that one's parent.
JoinsAt(p) ==
  pc[p] \in {"joinsemP", "joined"} =>
    /\ joinPcb[p] \in Proc
    /\ Used(joinPcb[p])
    /\ joinID[p] = processID[joinPcb[p]]
    /\ processID[p] = parentID[joinPcb[p]]
    /\ pc[p] = "joined" => exited[joinPcb[p]]
Joins == \A p \in Proc : JoinsAt(p)

\* The handshake of a joiner with the process o that it joins passes one token
\* along: in joinsem, then in the hands of the joiner, then in exitsem.
JoinedOn(o) == \E p \in Proc : pc[p] = "joined" /\ joinPcb[p] = o
HandshakeAt(o) ==
  /\ JoinedOn(o) => pc[o] = "exitsemP" /\ joinsem[o] = 0
  /\ exitsem[o] > 0 => joinsem[o] = 0 /\ ~JoinedOn(o)
  /\ joinsem[o] <= 1
  /\ pc[o] \notin {"exitsemP", "gone"} => exitsem[o] = 0
Handshake == \A o \in Proc : HandshakeAt(o)

Typed == TypeOK /\ Loader /\ Forks
Table == Typed /\ Slots
Waiting == Table /\ Pointers /\ Exits /\ Joins
IInv == Waiting /\ (~touched => Handshake)

USE ProcessAssumption

(***************************************************************************)
(* Type correctness and the lock of ExecUpdate.                            *)
(***************************************************************************)

LEMMA InitTyped == Init => Typed
<1> SUFFICES ASSUME Init PROVE Typed
  OBVIOUS
<1>1. 0 \in Pid
  BY DEF Pid
<1>2. TypeOK
  BY <1>1 DEF Init, TypeOK, PC
<1>3. Loader
  BY DEF Init, Loader, Inside, InExec
<1>4. Forks
  BY DEF Init, Forks
<1> QED BY <1>2, <1>3, <1>4 DEF Typed

\* Going from one point to another outside ExecUpdate, or from one to another
\* inside it, leaves the lock alone.
LEMMA SameLoader ==
  ASSUME Typed, NEW p \in Proc, NEW to, pc' = [pc EXCEPT ![p] = to],
         bmsem' = bmsem, pc[p] \in InExec <=> to \in InExec
  PROVE  Loader'
<1>1. Inside' = Inside
  BY DEF Inside, Typed, TypeOK
<1> QED BY <1>1 DEF Typed, Loader

\* P of bmsem lets one process in; V lets it out.
LEMMA EnterLoader ==
  ASSUME Typed, NEW p \in Proc, Goto(p, "bmsemP", "execUpdate"),
         bmsem > 0, bmsem' = bmsem - 1
  PROVE  Loader' /\ bmsem' \in {0, 1}
<1>1. bmsem = 1 /\ Inside = {}
  BY DEF Typed, Loader
<1>2. Inside' = {p}
  BY <1>1 DEF Inside, Typed, TypeOK, Goto, InExec
<1> QED BY <1>1, <1>2 DEF Loader

LEMMA LeaveLoader ==
  ASSUME Typed, NEW p \in Proc, pc[p] \in InExec,
         pc' = [pc EXCEPT ![p] = "user"], bmsem' = bmsem + 1
  PROVE  Loader' /\ bmsem' \in {0, 1}
<1>1. p \in Inside
  BY DEF Inside
<1>2. bmsem = 0 /\ Inside = {p}
  BY <1>1 DEF Typed, Loader
<1>3. Inside' = {}
  BY <1>2 DEF Inside, Typed, TypeOK, InExec
<1> QED BY <1>2, <1>3 DEF Loader

\* The second process inside ExecUpdate is the first.
LEMMA LoaderUnique ==
  ASSUME Typed, NEW p \in Proc, NEW q \in Proc,
         pc[p] \in InExec, pc[q] \in InExec
  PROVE  p = q
  BY DEF Typed, Loader, Inside

\* The values of a family of semaphores stay numbers in P and V.
LEMMA Counter ==
  ASSUME NEW f \in [Proc -> Nat], NEW o
  PROVE  /\ [f EXCEPT ![o] = f[o] + 1] \in [Proc -> Nat]
         /\ f[o] > 0 => [f EXCEPT ![o] = f[o] - 1] \in [Proc -> Nat]
<1>1. CASE o \in Proc
  BY <1>1
<1>2. CASE o \notin Proc
  BY <1>2
<1> QED BY <1>1, <1>2

LEMMA UsesPcbType ==
  ASSUME TypeOK, NEW o, UsesPcb(o)
  PROVE  /\ machine' \in {"up", "halted", "crashed"}
         /\ touched' \in BOOLEAN
<1>1. machine' \in {"up", "halted", "crashed"}
  BY DEF UsesPcb
<1>2. touched' \in BOOLEAN
  BY DEF UsesPcb
<1> QED BY <1>1, <1>2

\* A step that forks nobody and comes from no unborn process.
LEMMA SameForks ==
  ASSUME Typed, NEW p \in Proc, NEW to, pc' = [pc EXCEPT ![p] = to],
         pc[p] # "unborn", to # "fork",
         \A r \in Proc : r # p => child'[r] = child[r]
  PROVE  Forks'
<1> SUFFICES ASSUME NEW r \in Proc, pc'[r] = "fork"
             PROVE  child'[r] \in Proc /\ pc'[child'[r]] = "unborn"
  BY DEF Forks
<1>1. r # p /\ pc[r] = "fork" /\ child'[r] = child[r]
  BY DEF Typed, TypeOK
<1>2. child[r] \in Proc /\ pc[child[r]] = "unborn"
  BY <1>1 DEF Typed, Forks
<1> QED BY <1>1, <1>2 DEF Typed, TypeOK

\* Steps inside Exec.
LEMMA ExecTyped ==
  ASSUME Typed, NEW p \in Proc,
         \/ \E name \in Program : Exec(p, name)
         \/ ExecP(p) \/ ExecRefused(p)
         \/ \E q \in Proc : ExecUpdate(p, q)
         \/ ExecFork(p) \/ ExecMutexV(p) \/ ExecReturn(p)
  PROVE  Typed'
<1>0. TypeOK
  BY DEF Typed
<1> USE DEF callVars, pcbVars, histVars
<1>1. ASSUME NEW name \in Program, Exec(p, name) PROVE Typed'
  <2>1. TypeOK'
    BY <1>0, <1>1 DEF Exec, Goto, TypeOK, PC
  <2>2. Loader' /\ Forks'
    BY <1>1, SameLoader, SameForks DEF Exec, Goto, InExec
  <2> QED BY <2>1, <2>2 DEF Typed
<1>2. ASSUME ExecP(p) PROVE Typed'
  <2>1. Loader' /\ bmsem' \in {0, 1}
    BY <1>2, EnterLoader DEF ExecP
  <2>2. TypeOK'
    BY <1>0, <1>2, <2>1 DEF ExecP, Goto, TypeOK, PC
  <2>3. Forks'
    BY <1>2, SameForks DEF ExecP, Goto
  <2> QED BY <2>1, <2>2, <2>3 DEF Typed
<1>3. ASSUME ExecRefused(p) PROVE Typed'
  <2>1. Loader' /\ bmsem' \in {0, 1}
    BY <1>3, LeaveLoader DEF ExecRefused, Goto, InExec
  <2>2. TypeOK'
    BY <1>0, <1>3, <2>1 DEF ExecRefused, Goto, TypeOK, PC
  <2>3. Forks'
    BY <1>3, SameForks DEF ExecRefused, Goto
  <2> QED BY <2>1, <2>2, <2>3 DEF Typed
<1>4. ASSUME NEW q \in Proc, ExecUpdate(p, q) PROVE Typed'
  <2>1. Loader'
    BY <1>4, SameLoader DEF ExecUpdate, Goto, InExec
  <2>2. TypeOK'
    BY <1>0, <1>4 DEF ExecUpdate, Goto, TypeOK, PC
  <2>3. ASSUME NEW r \in Proc, pc'[r] = "fork"
        PROVE  child'[r] \in Proc /\ pc'[child'[r]] = "unborn"
    <3>1. pc[p] = "execUpdate" /\ pc[q] = "unborn"
      BY <1>4 DEF ExecUpdate, Goto
    <3>2. r = p
      BY <1>0, <1>4, <2>3, <3>1, LoaderUnique
         DEF ExecUpdate, Goto, InExec, TypeOK
    <3> QED BY <1>0, <1>4, <3>1, <3>2 DEF ExecUpdate, Goto, TypeOK
  <2> QED BY <2>1, <2>2, <2>3 DEF Typed, Forks
<1>5. ASSUME ExecFork(p) PROVE Typed'
  <2>0. child[p] \in Proc /\ pc[child[p]] = "unborn"
    BY <1>5 DEF ExecFork, Typed, Forks
  <2>1. TypeOK'
    BY <1>0, <1>5, <2>0 DEF ExecFork, TypeOK, PC
  <2>2. Inside' = Inside
    BY <1>0, <1>5, <2>0 DEF ExecFork, Inside, TypeOK, InExec
  <2>3. Loader'
    BY <1>5, <2>2 DEF ExecFork, Typed, Loader
  <2>4. \A r \in Proc : pc'[r] # "fork"
    BY <1>0, <1>5, <2>0, LoaderUnique DEF ExecFork, TypeOK, InExec
  <2> QED BY <2>1, <2>3, <2>4 DEF Typed, Forks
<1>6. ASSUME ExecMutexV(p) PROVE Typed'
  <2>1. TypeOK'
    BY <1>0, <1>6, UsesPcbType DEF ExecMutexV, Goto, TypeOK, PC
  <2>2. Loader' /\ Forks'
    BY <1>6, SameLoader, SameForks DEF ExecMutexV, Goto, InExec
  <2> QED BY <2>1, <2>2 DEF Typed
<1>7. ASSUME ExecReturn(p) PROVE Typed'
  <2>1. Loader' /\ bmsem' \in {0, 1}
    BY <1>7, LeaveLoader DEF ExecReturn, Goto, InExec
  <2>2. TypeOK'
    BY <1>0, <1>7, <2>1 DEF ExecReturn, Goto, TypeOK, PC
  <2>3. Forks'
    BY <1>0, <1>7, SameForks DEF ExecReturn, Goto, TypeOK
  <2> QED BY <2>1, <2>2, <2>3 DEF Typed
<1> QED BY <1>1, <1>2, <1>3, <1>4, <1>5, <1>6, <1>7

\* Steps outside Exec.
LEMMA RestTyped ==
  ASSUME Typed, NEW p \in Proc,
         \/ MyStartProcess(p)
         \/ \E i \in Pid : JoinUpdate(p, i)
         \/ JoinP(p) \/ JoinReturn(p) \/ ExitUpdate(p) \/ ExitP(p)
  PROVE  Typed'
<1>0. TypeOK
  BY DEF Typed
<1> USE DEF callVars, pcbVars, histVars
<1>1. PICK to \in PC \ InExec : /\ pc' = [pc EXCEPT ![p] = to]
                                /\ to # "unborn"
  BY DEF MyStartProcess, JoinUpdate, PassesJoinsem, JoinP, JoinReturn,
         ExitUpdate, ExitP, Goto, PC, InExec
<1>2. /\ bmsem' = bmsem /\ child' = child
      /\ pc[p] \notin InExec /\ pc[p] # "unborn"
  BY DEF MyStartProcess, JoinUpdate, JoinP, JoinReturn, ExitUpdate, ExitP,
         Goto, InExec
<1>3. Loader'
  BY <1>1, <1>2, SameLoader
<1>4. Forks'
  BY <1>1, <1>2, SameForks DEF InExec
<1>5. pc' \in [Proc -> PC]
  BY <1>0, <1>1 DEF TypeOK
<1>6. ASSUME MyStartProcess(p) PROVE TypeOK'
  BY <1>0, <1>5, <1>6 DEF MyStartProcess, TypeOK
<1>7. ASSUME NEW i \in Pid, JoinUpdate(p, i) PROVE TypeOK'
  <2>1. parentID[pcb[i]] \in Pid \cup {-1} /\ pcb[i] \in Proc
    BY <1>0, <1>7 DEF JoinUpdate, Joinable, TypeOK
  <2>2. (~exited[pcb[i]]) \in BOOLEAN
    OBVIOUS
  <2>3. joinedInTime' \in [Proc -> BOOLEAN]
    BY <1>0, <1>7, <2>2 DEF JoinUpdate, TypeOK
  <2> QED BY <1>0, <1>5, <1>7, <2>1, <2>3, UsesPcbType DEF JoinUpdate, TypeOK
<1>8. ASSUME JoinP(p) PROVE TypeOK'
  <2>1. joinsem' \in [Proc -> Nat]
    BY <1>0, <1>8, Counter DEF JoinP, TypeOK
  <2>2. machine' \in {"up", "halted", "crashed"} /\ touched' \in BOOLEAN
    BY <1>0, <1>8, UsesPcbType DEF JoinP
  <2> QED BY <1>0, <1>5, <1>8, <2>1, <2>2 DEF JoinP, TypeOK
<1>9. ASSUME JoinReturn(p) PROVE TypeOK'
  <2>1. exitsem' \in [Proc -> Nat]
    BY <1>0, <1>9, Counter DEF JoinReturn, TypeOK
  <2>2. machine' \in {"up", "halted", "crashed"} /\ touched' \in BOOLEAN
    BY <1>0, <1>9, UsesPcbType DEF JoinReturn
  <2> QED BY <1>0, <1>5, <1>9, <2>1, <2>2 DEF JoinReturn, TypeOK
<1>10. ASSUME ExitUpdate(p) PROVE TypeOK'
  <2>1. joinsem' \in [Proc -> Nat]
    BY <1>0, <1>10, Counter DEF ExitUpdate, TypeOK
  <2>2. freed' \in [Proc -> BOOLEAN] /\ bm' \in SUBSET Pid
    BY <1>0, <1>10 DEF ExitUpdate, Remove, TypeOK
  <2>3. exited' \in [Proc -> BOOLEAN]
    BY <1>0, <1>10 DEF ExitUpdate, TypeOK
  <2> QED BY <1>0, <1>5, <1>10, <2>1, <2>2, <2>3 DEF ExitUpdate, TypeOK
<1>11. ASSUME ExitP(p) PROVE TypeOK'
  <2>1. exitsem' \in [Proc -> Nat]
    BY <1>0, <1>11, Counter DEF ExitP, TypeOK
  <2>2. freed' \in [Proc -> BOOLEAN] /\ bm' \in SUBSET Pid
    BY <1>0, <1>11 DEF ExitP, Remove, TypeOK
  <2> QED BY <1>0, <1>5, <1>11, <2>1, <2>2 DEF ExitP, TypeOK
<1> QED BY <1>3, <1>4, <1>6, <1>7, <1>8, <1>9, <1>10, <1>11 DEF Typed

\* Steps that change nothing but the machine.
Halts(p) == ExitIgnored(p) \/ ExitMain(p) \/ HaltCall(p) \/ Spin(p)

LEMMA HaltsSame ==
  ASSUME TypeOK,
         \/ \E p \in Proc : Halts(p)
         \/ Stopped
         \/ UNCHANGED vars
  PROVE  /\ UNCHANGED <<pc, prog, processID, bm, pcb, bmsem, pcbVars, callVars,
                        histVars>>
         /\ machine' \in {"up", "halted", "crashed"}
  BY DEF TypeOK, Halts, ExitIgnored, ExitMain, HaltCall, Spin, Stopped, vars

LEMMA TypedStep == Typed /\ [Next]_vars => Typed'
<1> SUFFICES ASSUME Typed, [Next]_vars PROVE Typed'
  OBVIOUS
<1>1. CASE (\E p \in Proc : Halts(p)) \/ Stopped \/ UNCHANGED vars
  <2>1. /\ UNCHANGED <<pc, prog, processID, bm, pcb, bmsem, pcbVars, callVars,
                       histVars>>
        /\ machine' \in {"up", "halted", "crashed"}
    BY <1>1, HaltsSame DEF Typed
  <2>2. TypeOK'
    BY <2>1 DEF Typed, TypeOK, pcbVars, callVars, histVars
  <2>3. Loader' /\ Forks'
    BY <2>1 DEF Typed, Loader, Inside, Forks, callVars
  <2> QED BY <2>2, <2>3 DEF Typed
<1> QED
  BY <1>1, ExecTyped, RestTyped DEF Next, Step, Halts

\* Type correctness, of the table, the PCBs and the calls under way.
THEOREM TypeCorrect == Spec => []TypeOK
<1>1. Typed => TypeOK
  BY DEF Typed
<1> QED BY <1>1, InitTyped, TypedStep, PTL DEF Spec

\* bmsem keeps all but one process out of ExecUpdate, in every return from it
\* (PTable::ExecUpdate).
THEOREM OneInExecUpdateHolds == Spec => []OneInExecUpdate
<1>1. Typed => OneInExecUpdate
  <2> SUFFICES ASSUME Typed PROVE OneInExecUpdate
    OBVIOUS
  <2>1. CASE bmsem = 1 /\ Inside = {}
    BY <2>1, FS_EmptySet DEF OneInExecUpdate, Inside
  <2>2. CASE bmsem = 0 /\ \E p \in Proc : Inside = {p}
    <3>1. PICK p \in Proc : Inside = {p}
      BY <2>2
    <3>2. Cardinality(Inside) = 1
      BY <3>1, FS_Singleton
    <3> QED BY <2>2, <3>2 DEF OneInExecUpdate, Inside
  <2> QED BY <2>1, <2>2 DEF Typed, Loader
<1> QED BY <1>1, InitTyped, TypedStep, PTL DEF Spec

(***************************************************************************)
(* The slots of the table.                                                 *)
(***************************************************************************)

LEMMA InitSlots == Init => Slots
<1> SUFFICES ASSUME Init PROVE Slots
  OBVIOUS
<1>1. 0 \in Pid
  BY DEF Pid
<1>2. \A q \in Proc : Holds(q) <=> q = Main
  BY DEF Init, Holds, Live, Forking
<1>3. bm = {processID[q] : q \in {r \in Proc : Holds(r)}}
  BY <1>2 DEF Init
<1> QED BY <1>1, <1>2, <1>3 DEF Init, Slots

\* Two processes that keep slots keep different ones.
LEMMA SlotsDiffer ==
  ASSUME Slots, NEW p \in Proc, NEW q \in Proc, Holds(p), Holds(q),
         processID[p] = processID[q]
  PROVE  p = q
  BY DEF Slots

\* The process that is forked keeps the slot that ExecUpdate took for it, and
\* neither it nor anybody else gains or loses one in a step that creates no
\* PCB and deletes none.
LEMMA SameHolders ==
  ASSUME Typed,
         \A q \in Proc : pc'[q] \in {"unborn", "gone"} <=>
                         pc[q] \in {"unborn", "gone"},
         \A r \in Proc : pc'[r] = "fork" <=> pc[r] = "fork",
         \A r \in Proc : pc[r] = "fork" => child'[r] = child[r]
  PROVE  \A q \in Proc : Holds(q)' <=> Holds(q)
  BY DEF Holds, Live, Forking

LEMMA SameSlots ==
  ASSUME Slots, \A q \in Proc : Holds(q)' <=> Holds(q),
         \A q \in Proc : pc'[q] = "unborn" => pc[q] = "unborn",
         UNCHANGED <<processID, bm, pcb, freed>>
  PROVE  Slots'
<1>1. {r \in Proc : Holds(r)}' = {r \in Proc : Holds(r)}
  OBVIOUS
<1> QED BY <1>1 DEF Slots

\* ExecUpdate takes a slot that nobody keeps, for a process that has none.
LEMMA ExecUpdateSlots ==
  ASSUME Typed, Slots, NEW p \in Proc, NEW q \in Proc, ExecUpdate(p, q)
  PROVE  /\ Slots'
         /\ ~Used(q) /\ ~Holds(q)
         /\ \A r \in Proc : Holds(r)' <=> Holds(r) \/ r = q
<1>0. TypeOK
  BY DEF Typed
<1>1. PICK i \in Pid : /\ FreeSlot(i)
                       /\ bm' = bm \cup {i}
                       /\ pcb' = [pcb EXCEPT ![i] = q]
                       /\ processID' = [processID EXCEPT ![q] = i]
  BY DEF ExecUpdate
<1>2. /\ pc[p] = "execUpdate" /\ pc[q] = "unborn"
      /\ \A r \in Proc : child[r] # q
      /\ pc' = [pc EXCEPT ![p] = "fork"]
      /\ child' = [child EXCEPT ![p] = q]
      /\ freed' = freed
  BY DEF ExecUpdate, Goto
<1>3. p # q /\ ~Used(q) /\ ~Holds(q)
  BY <1>2 DEF Used, Holds, Forking, Live
<1>4. \A r \in Proc : Holds(r)' <=> Holds(r) \/ r = q
  <2> SUFFICES ASSUME NEW r \in Proc PROVE Holds(r)' <=> Holds(r) \/ r = q
    OBVIOUS
  <2>1. Live(r)' <=> Live(r)
    BY <1>0, <1>2 DEF Live, TypeOK
  <2>2. Forking(r)' <=> Forking(r) \/ r = q
    <3>1. \A s \in Proc : s # p => /\ child'[s] = child[s]
                                   /\ pc'[s] = pc[s]
      BY <1>0, <1>2 DEF TypeOK
    <3>2. child'[p] = q /\ pc'[p] = "fork"
      BY <1>0, <1>2 DEF TypeOK
    <3> QED BY <1>2, <3>1, <3>2 DEF Forking
  <2> QED BY <2>1, <2>2 DEF Holds
<1>5. i \notin bm
  BY <1>1 DEF FreeSlot
<1>6. \A r \in Proc : Holds(r) => processID[r] \in bm
  BY DEF Slots
<1>7. /\ processID'[q] = i /\ pcb'[i] = q
      /\ \A r \in Proc : r # q => processID'[r] = processID[r]
      /\ \A j \in Pid : j # i => pcb'[j] = pcb[j]
  BY <1>0, <1>1 DEF TypeOK
<1>8. \A r \in Proc : Holds(r)' => pcb'[processID'[r]] = r /\ ~freed'[r]
  <2> SUFFICES ASSUME NEW r \in Proc, Holds(r)'
               PROVE  pcb'[processID'[r]] = r /\ ~freed'[r]
    OBVIOUS
  <2>1. CASE r = q
    BY <1>2, <1>7, <2>1 DEF Slots
  <2>2. CASE r # q
    <3>1. Holds(r) /\ processID[r] \in Pid /\ processID[r] # i
      BY <1>0, <1>4, <1>5, <1>6, <2>2 DEF TypeOK
    <3> QED BY <1>2, <1>7, <2>2, <3>1 DEF Slots
  <2> QED BY <2>1, <2>2
<1>9. bm' = {processID'[r] : r \in {s \in Proc : Holds(s)'}}
  <2>1. bm = {processID[r] : r \in {s \in Proc : Holds(s)}}
    BY DEF Slots
  <2>2. \A r \in Proc : Holds(r) => r # q
    BY <1>3
  <2>3. {processID'[r] : r \in {s \in Proc : Holds(s)'}} =
          {processID[r] : r \in {s \in Proc : Holds(s)}} \cup {i}
    BY <1>4, <1>7, <2>2
  <2> QED BY <1>1, <2>1, <2>3
<1>10. \A r \in Proc : pc'[r] = "unborn" => ~freed'[r]
  BY <1>0, <1>2 DEF Slots, TypeOK
<1> QED BY <1>3, <1>4, <1>8, <1>9, <1>10 DEF Slots

\* PTable::Remove clears the bit and deletes the PCB of its caller, nobody
\* else's.
LEMMA RemoveSlots ==
  ASSUME Typed, Slots, NEW p \in Proc, Live(p), pc[p] # "fork",
         pc' = [pc EXCEPT ![p] = "gone"],
         child' = child, processID' = processID, pcb' = pcb,
         Remove(p)
  PROVE  /\ Slots'
         /\ pcb[processID[p]] = p
         /\ freed' = [freed EXCEPT ![p] = TRUE]
         /\ \A r \in Proc : Holds(r)' <=> Holds(r) /\ r # p
<1>0. TypeOK
  BY DEF Typed
<1>1. Holds(p) /\ pcb[processID[p]] = p
  BY DEF Slots, Holds
<1>2. freed' = [freed EXCEPT ![p] = TRUE] /\ bm' = bm \ {processID[p]}
  BY <1>1 DEF Remove
<1>3. \A r \in Proc : Holds(r)' <=> Holds(r) /\ r # p
  <2>1. \A r \in Proc : Live(r)' <=> Live(r) /\ r # p
    BY <1>0 DEF Live, TypeOK
  <2>2. \A r \in Proc : Forking(r)' <=> Forking(r)
    BY <1>0 DEF Forking, TypeOK
  <2>3. ~Forking(p)
    BY DEF Typed, Forks, Forking, Live
  <2> QED BY <2>1, <2>2, <2>3 DEF Holds
<1>4. \A r \in Proc : Holds(r)' => pcb'[processID'[r]] = r /\ ~freed'[r]
  BY <1>0, <1>2, <1>3 DEF Slots, TypeOK
<1>5. bm' = {processID'[r] : r \in {s \in Proc : Holds(s)'}}
  <2>1. bm = {processID[r] : r \in {s \in Proc : Holds(s)}}
    BY DEF Slots
  <2>2. \A r \in Proc : Holds(r) /\ r # p => processID[r] # processID[p]
    BY <1>1, SlotsDiffer
  <2>3. {processID'[r] : r \in {s \in Proc : Holds(s)'}} =
          {processID[r] : r \in {s \in Proc : Holds(s)}} \ {processID[p]}
    BY <1>3, <2>2
  <2> QED BY <1>2, <2>1, <2>3
<1>6. \A r \in Proc : pc'[r] = "unborn" => ~freed'[r]
  BY <1>0, <1>2 DEF Slots, TypeOK, Live
<1> QED BY <1>1, <1>2, <1>3, <1>4, <1>5, <1>6 DEF Slots

\* Exit of a process that has been joined, which waits, and of one that has
\* not, which is removed.
ExitWaits(p) == ExitUpdate(p) /\ JoinStatus[pcb[processID[p]]] # -1
ExitLeaves(p) == ExitUpdate(p) /\ JoinStatus[pcb[processID[p]]] = -1

LEMMA ExitSplit ==
  ASSUME NEW p \in Proc, ExitUpdate(p)
  PROVE  ExitWaits(p) \/ ExitLeaves(p)
  BY DEF ExitWaits, ExitLeaves

\* Steps that create no PCB, fork no thread and delete no PCB.
Quiet(p) ==
  \/ \E name \in Program : Exec(p, name)
  \/ ExecP(p) \/ ExecRefused(p) \/ ExecMutexV(p) \/ ExecReturn(p)
  \/ MyStartProcess(p)
  \/ \E i \in Pid : JoinUpdate(p, i)
  \/ JoinP(p) \/ JoinReturn(p) \/ ExitWaits(p)

LEMMA QuietStep ==
  ASSUME Typed, NEW p \in Proc, Quiet(p)
  PROVE  /\ UNCHANGED <<processID, bm, pcb, freed, parentID>>
         /\ \A q \in Proc : q # p => pc'[q] = pc[q]
         /\ pc[p] \notin {"unborn", "gone", "fork", "exitsemP"}
         /\ pc'[p] \notin {"unborn", "gone", "fork"}
         /\ \A r \in Proc : pc[r] = "fork" => child'[r] = child[r]
<1>0. TypeOK
  BY DEF Typed
<1>1. UNCHANGED <<processID, bm, pcb, freed, parentID>>
  BY DEF Quiet, Exec, ExecP, ExecRefused, ExecMutexV, ExecReturn,
         MyStartProcess, JoinUpdate, JoinP, JoinReturn, ExitWaits, ExitUpdate,
         pcbVars
<1>2. /\ pc[p] \notin {"unborn", "gone", "fork", "exitsemP"}
      /\ \E to \in PC \ {"unborn", "gone", "fork"} :
           pc' = [pc EXCEPT ![p] = to]
  BY DEF Quiet, Exec, ExecP, ExecRefused, ExecMutexV, ExecReturn,
         MyStartProcess, JoinUpdate, JoinP, JoinReturn, ExitWaits, ExitUpdate,
         Goto, PassesJoinsem, PC
<1>3. child' = child \/ child' = [child EXCEPT ![p] = NULL]
  BY DEF Quiet, Exec, ExecP, ExecRefused, ExecMutexV, ExecReturn,
         MyStartProcess, JoinUpdate, JoinP, JoinReturn, ExitWaits, ExitUpdate,
         callVars
<1> QED BY <1>0, <1>1, <1>2, <1>3 DEF TypeOK

\* The child that is forked: it was not born, and nobody else forks.
LEMMA ForkStep ==
  ASSUME Typed, NEW p \in Proc, ExecFork(p)
  PROVE  /\ UNCHANGED <<processID, bm, pcb, freed, parentID>>
         /\ child[p] \in Proc /\ child[p] # p
         /\ pc[p] = "fork" /\ pc'[p] = "mutexV"
         /\ pc[child[p]] = "unborn" /\ pc'[child[p]] = "loading"
         /\ \A q \in Proc : q \notin {p, child[p]} => pc'[q] = pc[q]
         /\ child' = child
<1>1. child[p] \in Proc /\ pc[child[p]] = "unborn" /\ pc[p] = "fork"
  BY DEF ExecFork, Typed, Forks
<1> QED BY <1>1 DEF ExecFork, Typed, TypeOK, pcbVars, callVars

\* Exit without a joiner, and the end of Exit with one.
LEMMA LeaveStep ==
  ASSUME Typed, Slots, NEW p \in Proc, ExitLeaves(p) \/ ExitP(p)
  PROVE  /\ Slots'
         /\ pcb[processID[p]] = p
         /\ freed' = [freed EXCEPT ![p] = TRUE]
         /\ UNCHANGED <<processID, pcb, parentID, child>>
         /\ pc[p] \in {"user", "exitsemP"}
         /\ pc' = [pc EXCEPT ![p] = "gone"]
         /\ \A r \in Proc : Holds(r)' <=> Holds(r) /\ r # p
<1>1. /\ UNCHANGED <<processID, pcb, parentID, child>>
      /\ pc[p] \in {"user", "exitsemP"}
      /\ pc' = [pc EXCEPT ![p] = "gone"]
      /\ Remove(p)
  BY DEF ExitLeaves, ExitUpdate, ExitP, Goto, callVars
<1>2. Live(p) /\ pc[p] # "fork"
  BY <1>1 DEF Live
<1> QED BY <1>1, <1>2, RemoveSlots

\* Steps of a process, by what they do to the table.
LEMMA StepKinds ==
  ASSUME NEW p \in Proc, Step(p)
  PROVE  \/ Quiet(p) \/ Halts(p) \/ ExecFork(p) \/ ExitLeaves(p) \/ ExitP(p)
         \/ \E q \in Proc : ExecUpdate(p, q)
  BY ExitSplit DEF Step, Quiet, Halts

\* A step that changes nothing of the table or of the calls.
LEMMA HaltsHolds ==
  ASSUME UNCHANGED <<pc, child>>
  PROVE  \A q \in Proc : (Holds(q)' <=> Holds(q)) /\ (Used(q)' <=> Used(q))
  BY DEF Holds, Live, Forking, Used

LEMMA SlotsStep == Typed /\ Slots /\ [Next]_vars => Slots'
<1> SUFFICES ASSUME Typed, Slots, [Next]_vars PROVE Slots'
  OBVIOUS
<1>1. CASE (\E p \in Proc : Halts(p)) \/ Stopped \/ UNCHANGED vars
  BY <1>1, HaltsSame, HaltsHolds, SameSlots DEF Typed, callVars, pcbVars
<1>2. ASSUME NEW p \in Proc, Quiet(p) PROVE Slots'
  <2>1. \A q \in Proc : Holds(q)' <=> Holds(q)
    BY <1>2, QuietStep, SameHolders
  <2> QED BY <1>2, <2>1, QuietStep, SameSlots
<1>3. ASSUME NEW p \in Proc, ExecFork(p) PROVE Slots'
  <2>1. \A q \in Proc : Holds(q)' <=> Holds(q)
    <3>1. ASSUME NEW q \in Proc, q # child[p]
          PROVE  (Live(q)' <=> Live(q)) /\ (Forking(q)' <=> Forking(q))
      BY <1>3, <3>1, ForkStep DEF Live, Forking
    <3>2. ASSUME NEW q \in Proc, q = child[p]
          PROVE  Live(q)' /\ Forking(q)
      BY <1>3, <3>2, ForkStep DEF Live, Forking
    <3> QED BY <3>1, <3>2 DEF Holds
  <2>2. \A q \in Proc : pc'[q] = "unborn" => pc[q] = "unborn"
    BY <1>3, ForkStep
  <2> QED BY <1>3, <2>1, <2>2, ForkStep, SameSlots
<1> QED
  BY <1>1, <1>2, <1>3, StepKinds, LeaveStep, ExecUpdateSlots DEF Next

\* Every live process owns the slot of its ID, no slot is given out twice and
\* none is lost (PTable::ExecUpdate, ExitUpdate, Remove).
THEOREM SlotsOwnedHolds == Spec => []SlotsOwned
<1>1. Slots => SlotsOwned
  BY DEF Slots, SlotsOwned, Holds, Forking
<1>2. Init => Typed /\ Slots
  BY InitTyped, InitSlots
<1>3. (Typed /\ Slots) /\ [Next]_vars => (Typed /\ Slots)'
  BY TypedStep, SlotsStep
<1> QED BY <1>1, <1>2, <1>3, PTL DEF Spec

(***************************************************************************)
(* Join and Exit.                                                          *)
(***************************************************************************)

LEMMA InitIInv == Init => IInv
<1> SUFFICES ASSUME Init PROVE IInv
  OBVIOUS
<1>1. Typed /\ Slots
  BY InitTyped, InitSlots
<1>2. 0 \in Pid
  BY DEF Pid
<1>3. Pointers
  BY <1>2 DEF Init, Pointers, Used
<1>4. Exits
  BY DEF Init, Exits
<1>5. Joins
  BY DEF Init, Joins, JoinsAt
<1>6. Handshake
  BY DEF Init, Handshake, HandshakeAt, JoinedOn
<1> QED BY <1>1, <1>3, <1>4, <1>5, <1>6 DEF IInv, Waiting, Table

\* A process that has had a PCB keeps its ID and its parent's, and the
\* pointers in the table keep what they say.
LEMMA UsedStep ==
  ASSUME Table, Pointers, [Next]_vars
  PROVE  /\ \A o \in Proc : Used(o) => /\ Used(o)'
                                       /\ processID'[o] = processID[o]
                                       /\ parentID'[o] = parentID[o]
         /\ Pointers'
<1>0. TypeOK /\ Typed /\ Slots
  BY DEF Table, Typed
<1>1. ASSUME UNCHANGED <<processID, parentID, pcb>>,
             \A o \in Proc : Used(o) => Used(o)'
      PROVE  /\ \A o \in Proc : Used(o) => /\ Used(o)'
                                           /\ processID'[o] = processID[o]
                                           /\ parentID'[o] = parentID[o]
             /\ Pointers'
  BY <1>0, <1>1 DEF Pointers, TypeOK
<1>2. CASE (\E p \in Proc : Halts(p)) \/ Stopped \/ UNCHANGED vars
  <2>1. UNCHANGED <<processID, parentID, pcb, pc, child>>
    BY <1>0, <1>2, HaltsSame DEF callVars, pcbVars
  <2>2. \A o \in Proc : Used(o) => Used(o)'
    BY <2>1, HaltsHolds
  <2> QED BY <1>1, <2>1, <2>2
<1>3. CASE \E p \in Proc : Quiet(p)
  <2>1. PICK p \in Proc : Quiet(p)
    BY <1>3
  <2>2. \A o \in Proc : Used(o) => Used(o)'
    BY <1>0, <2>1, QuietStep DEF Used, Forking
  <2> QED BY <1>0, <1>1, <2>1, <2>2, QuietStep
<1>4. CASE \E p \in Proc : ExecFork(p)
  <2>1. PICK p \in Proc : ExecFork(p)
    BY <1>4
  <2>2. ASSUME NEW o \in Proc, Used(o) PROVE Used(o)'
    <3>1. CASE pc[o] # "unborn"
      BY <1>0, <2>1, <3>1, ForkStep DEF Used
    <3>2. CASE Forking(o)
      BY <1>0, <2>1, <3>2, ForkStep DEF Used, Forking
    <3> QED BY <2>2, <3>1, <3>2 DEF Used
  <2> QED BY <1>0, <1>1, <2>1, <2>2, ForkStep
<1>5. CASE \E p \in Proc : ExitLeaves(p) \/ ExitP(p)
  <2>1. PICK p \in Proc : ExitLeaves(p) \/ ExitP(p)
    BY <1>5
  <2>2. \A o \in Proc : Used(o) => Used(o)'
    BY <1>0, <2>1, LeaveStep DEF Used, Forking, TypeOK
  <2> QED BY <1>0, <1>1, <2>1, <2>2, LeaveStep
<1>6. CASE \E p, q \in Proc : ExecUpdate(p, q)
  <2>1. PICK p \in Proc, q \in Proc : ExecUpdate(p, q)
    BY <1>6
  <2>2. ~Used(q)
    BY <1>0, <2>1, ExecUpdateSlots
  <2>3. PICK i \in Pid : /\ pcb' = [pcb EXCEPT ![i] = q]
                         /\ processID' = [processID EXCEPT ![q] = i]
    BY <2>1 DEF ExecUpdate
  <2>4. /\ pc[p] = "execUpdate" /\ pc' = [pc EXCEPT ![p] = "fork"]
        /\ child' = [child EXCEPT ![p] = q]
        /\ parentID' = [parentID EXCEPT ![q] = processID[p]]
    BY <2>1 DEF ExecUpdate, Goto
  <2>5. ASSUME NEW o \in Proc, Used(o) PROVE Used(o)'
    <3>1. CASE pc[o] # "unborn"
      BY <1>0, <2>4, <3>1 DEF Used, TypeOK
    <3>2. CASE Forking(o)
      <4>1. PICK r \in Proc : child[r] = o /\ pc[r] = "fork"
        BY <3>2 DEF Forking
      <4>2. r # p /\ child'[r] = o /\ pc'[r] = "fork"
        BY <1>0, <2>4, <4>1 DEF TypeOK
      <4> QED BY <4>2 DEF Used, Forking
    <3> QED BY <2>5, <3>1, <3>2 DEF Used
  <2>6. \A o \in Proc : Used(o) => /\ o # q
                                   /\ processID'[o] = processID[o]
                                   /\ parentID'[o] = parentID[o]
    BY <1>0, <2>2, <2>3, <2>4 DEF TypeOK
  <2>7. child'[p] = q /\ pc'[p] = "fork"
    BY <1>0, <2>4 DEF TypeOK
  <2>8. Used(q)' /\ processID'[q] = i
    BY <1>0, <2>3, <2>7 DEF Used, Forking, TypeOK
  <2>9. ASSUME NEW j \in Pid, NEW o \in Proc, pcb'[j] = o
        PROVE  Used(o)' /\ processID'[o] = j
    <3>1. CASE j = i
      <4>1. o = q
        BY <1>0, <2>3, <2>9, <3>1 DEF TypeOK
      <4> QED BY <2>8, <3>1, <4>1
    <3>2. CASE j # i
      <4>1. pcb[j] = o
        BY <1>0, <2>3, <2>9, <3>2 DEF TypeOK
      <4>2. Used(o) /\ processID[o] = j
        BY <4>1 DEF Pointers
      <4> QED BY <2>5, <2>6, <4>2
    <3> QED BY <3>1, <3>2
  <2> QED BY <2>5, <2>6, <2>9 DEF Pointers
<1> QED
  BY <1>2, <1>3, <1>4, <1>5, <1>6, StepKinds DEF Next

\* What a step has to leave alone for a joiner p ...
LEMMA JoinsFrame ==
  ASSUME Waiting, [Next]_vars, NEW p \in Proc,
         pc'[p] \in {"joinsemP", "joined"} => /\ pc'[p] = pc[p]
                                              /\ joinPcb'[p] = joinPcb[p]
                                              /\ joinID'[p] = joinID[p],
         \A o \in Proc : exited[o] => exited'[o]
  PROVE  JoinsAt(p)'
<1> SUFFICES ASSUME pc'[p] \in {"joinsemP", "joined"}
             PROVE  /\ joinPcb'[p] \in Proc
                    /\ Used(joinPcb[p])'
                    /\ joinID'[p] = processID'[joinPcb'[p]]
                    /\ processID'[p] = parentID'[joinPcb'[p]]
                    /\ pc'[p] = "joined" => exited'[joinPcb'[p]]
  BY DEF JoinsAt
<1> DEFINE o == joinPcb[p]
<1>1. /\ o \in Proc /\ Used(o)
      /\ joinID[p] = processID[o] /\ processID[p] = parentID[o]
      /\ pc[p] = "joined" => exited[o]
  BY DEF Waiting, Joins, JoinsAt
<1>2. Used(p)
  BY DEF Used
<1>3. /\ Used(o)' /\ processID'[o] = processID[o] /\ parentID'[o] = parentID[o]
      /\ processID'[p] = processID[p]
  BY <1>1, <1>2, UsedStep DEF Waiting
<1> QED BY <1>1, <1>3

\* ... and for the handshake over the PCB of o.
LEMMA HandshakeFrame ==
  ASSUME NEW o \in Proc, HandshakeAt(o),
         joinsem'[o] = joinsem[o], exitsem'[o] = exitsem[o],
         pc[o] \in {"exitsemP", "gone"} \/ pc'[o] \in {"exitsemP", "gone"}
           => pc'[o] = pc[o],
         \A p \in Proc : pc'[p] = "joined" /\ joinPcb'[p] = o =>
                         pc[p] = "joined" /\ joinPcb[p] = o
  PROVE  HandshakeAt(o)'
<1>1. JoinedOn(o)' => JoinedOn(o)
  BY DEF JoinedOn
<1> QED BY <1>1 DEF HandshakeAt

\* The part of IInv about Join and Exit.
Calls == Exits /\ Joins /\ (~touched => Handshake)

\* Steps outside Join and Exit.
LEMMA CalmStep ==
  ASSUME IInv, [Next]_vars,
         \A q \in Proc :
           \/ pc[q] \in {"joinsemP", "joined", "exitsemP", "gone"}
           \/ pc'[q] \in {"joinsemP", "joined", "exitsemP", "gone"}
           => pc'[q] = pc[q],
         UNCHANGED <<joinsem, exitsem, exited, joinID, joinPcb, freed>>,
         touched => touched'
  PROVE  Calls'
<1>1. Exits'
  BY DEF IInv, Waiting, Exits
<1>2. Joins'
  BY JoinsFrame DEF IInv, Joins
<1>3. ASSUME ~touched' PROVE Handshake'
  BY <1>3, HandshakeFrame DEF IInv, Handshake
<1> QED BY <1>1, <1>2, <1>3 DEF Calls

LEMMA ExecCalls ==
  ASSUME IInv, [Next]_vars, NEW p \in Proc,
         \/ \E name \in Program : Exec(p, name)
         \/ ExecP(p) \/ ExecRefused(p) \/ ExecMutexV(p) \/ ExecReturn(p)
         \/ MyStartProcess(p)
         \/ \E q \in Proc : ExecUpdate(p, q)
         \/ ExecFork(p)
  PROVE  Calls'
<1>0. TypeOK /\ Typed
  BY DEF IInv, Waiting, Table, Typed
<1>1. UNCHANGED <<joinsem, exitsem, exited, joinID, joinPcb, freed>>
  BY DEF Exec, ExecP, ExecRefused, ExecMutexV, ExecReturn, MyStartProcess,
         ExecUpdate, ExecFork, pcbVars, callVars, histVars
<1>4. touched => touched'
  <2>1. CASE ExecMutexV(p)
    BY <2>1 DEF ExecMutexV, UsesPcb
  <2>2. CASE ~ExecMutexV(p)
    BY <2>2 DEF Exec, ExecP, ExecRefused, ExecReturn, MyStartProcess,
                ExecUpdate, ExecFork, histVars
  <2> QED BY <2>1, <2>2
<1>2. CASE ExecFork(p)
  BY <1>0, <1>1, <1>4, <1>2, ForkStep, CalmStep
<1>3. CASE ~ExecFork(p)
  <2>1. /\ pc[p] \in {"user", "bmsemP", "execUpdate", "mutexV", "bmsemV",
                      "loading"}
        /\ \E to \in {"user", "bmsemP", "execUpdate", "fork", "bmsemV", "spin"} :
             pc' = [pc EXCEPT ![p] = to]
    BY <1>3 DEF Exec, ExecP, ExecRefused, ExecMutexV, ExecReturn,
                MyStartProcess, ExecUpdate, Goto
  <2> QED BY <1>0, <1>1, <1>4, <2>1, CalmStep DEF TypeOK
<1> QED BY <1>2, <1>3

\* JoinUpdate: the slot leads to a process that has the caller's ID as its
\* parent's.  Without a deleted PCB, the caller is not past JoinWait yet.
LEMMA JoinUpdateCalls ==
  ASSUME IInv, [Next]_vars, NEW p \in Proc, NEW i \in Pid, JoinUpdate(p, i)
  PROVE  Calls'
<1> DEFINE o == pcb[i]
<1>0. TypeOK
  BY DEF IInv, Waiting, Table, Typed
<1>1. /\ o \in Proc /\ Used(o) /\ processID[o] = i
      /\ processID[p] = parentID[o]
      /\ pc[p] = "user"
  BY <1>0 DEF JoinUpdate, Joinable, TypeOK, IInv, Waiting, Pointers
<1>2. /\ \A q \in Proc : q # p => pc'[q] = pc[q]
      /\ pc'[p] \in {"joinsemP", "joined", "hang"}
      /\ pc'[p] # "joinsemP" => freed[o]
      /\ \A q \in Proc : q # p => /\ joinPcb'[q] = joinPcb[q]
                                  /\ joinID'[q] = joinID[q]
      /\ joinPcb'[p] = o /\ joinID'[p] = i
      /\ UNCHANGED <<joinsem, exitsem, exited, freed, pcb>>
  BY <1>0 DEF JoinUpdate, PassesJoinsem, TypeOK
<1>3. touched' = (touched \/ freed[o])
  BY DEF JoinUpdate, UsesPcb
<1>4. Exits'
  BY <1>1, <1>2 DEF IInv, Waiting, Exits
<1>5. JoinsAt(p)'
  <2>1. Used(o)' /\ processID'[o] = i /\ processID'[p] = parentID'[o]
    <3>1. Used(p)
      BY <1>1 DEF Used
    <3> QED BY <1>1, <1>2, <3>1, UsedStep DEF IInv, Waiting
  <2>2. pc'[p] = "joined" => exited'[o]
    BY <1>1, <1>2 DEF IInv, Waiting, Exits
  <2> QED BY <1>1, <1>2, <2>1, <2>2 DEF JoinsAt
<1>6. \A q \in Proc : q # p => JoinsAt(q)'
  BY <1>2, JoinsFrame DEF IInv
<1>7. ASSUME ~touched' PROVE Handshake'
  <2>1. pc'[p] = "joinsemP" /\ ~touched
    BY <1>2, <1>3, <1>7
  <2> QED BY <1>1, <1>2, <2>1, HandshakeFrame DEF IInv, Handshake
<1> QED BY <1>4, <1>5, <1>6, <1>7 DEF Calls, Joins

\* JoinWait's P takes the token out of joinsem.
LEMMA JoinPCalls ==
  ASSUME IInv, [Next]_vars, NEW p \in Proc, JoinP(p)
  PROVE  Calls'
<1> DEFINE o == joinPcb[p]
<1>0. TypeOK
  BY DEF IInv, Waiting, Table, Typed
<1>1. /\ o \in Proc /\ Used(o) /\ joinID[p] = processID[o]
      /\ processID[p] = parentID[o]
      /\ pc[p] = "joinsemP"
      /\ joinsem[o] \in Nat /\ joinsem[o] > 0
  BY <1>0 DEF JoinP, TypeOK, IInv, Waiting, Joins, JoinsAt
<1>2. /\ \A q \in Proc : q # p => pc'[q] = pc[q]
      /\ pc'[p] \in {"joined", "hang"}
      /\ pc'[p] # "joined" => freed[o]
      /\ UNCHANGED <<joinPcb, joinID, exitsem, exited, freed>>
      /\ joinsem'[o] = joinsem[o] - 1
      /\ \A q \in Proc : q # o => joinsem'[q] = joinsem[q]
  BY <1>0, <1>1 DEF JoinP, PassesJoinsem, TypeOK, callVars
<1>3. touched' = (touched \/ freed[o])
  BY DEF JoinP, UsesPcb
<1>4. /\ exited[o] /\ pc[o] \in {"exitsemP", "gone"} /\ o # p
      /\ pc[o] = "gone" => freed[o]
  BY <1>1 DEF IInv, Waiting, Exits
<1>5. Exits'
  <2>1. ASSUME NEW q \in Proc, joinsem'[q] > 0 PROVE joinsem[q] > 0
    BY <1>1, <1>2, <2>1
  <2>2. \A q \in Proc : pc'[q] \in {"exitsemP", "gone"} <=>
                        pc[q] \in {"exitsemP", "gone"}
    BY <1>1, <1>2
  <2> QED BY <1>1, <1>2, <2>1, <2>2 DEF IInv, Waiting, Exits
<1>6. JoinsAt(p)'
  <2>1. Used(p)
    BY <1>1 DEF Used
  <2>2. Used(o)' /\ processID'[o] = processID[o] /\ processID'[p] = parentID'[o]
    BY <1>1, <1>2, <2>1, UsedStep DEF IInv, Waiting
  <2> QED BY <1>1, <1>2, <1>4, <2>2 DEF JoinsAt
<1>7. \A q \in Proc : q # p => JoinsAt(q)'
  BY <1>2, JoinsFrame DEF IInv
<1>8. ASSUME ~touched' PROVE Handshake'
  <2>1. pc'[p] = "joined" /\ ~touched /\ ~freed[o] /\ pc[o] = "exitsemP"
    BY <1>2, <1>3, <1>4, <1>8
  <2>2. /\ joinsem[o] = 1
        /\ exitsem[o] \in Nat /\ ~(exitsem[o] > 0)
    BY <1>0, <1>1, <2>1 DEF IInv, Handshake, HandshakeAt, TypeOK
  <2>3. joinsem'[o] = 0 /\ pc'[o] = "exitsemP" /\ exitsem'[o] = exitsem[o]
    BY <1>1, <1>2, <1>4, <2>1, <2>2
  <2>4. HandshakeAt(o)'
    <3>1. /\ JoinedOn(joinPcb[p])' => pc'[o] = "exitsemP" /\ joinsem'[o] = 0
          /\ ~(exitsem'[o] > 0)
          /\ joinsem'[o] <= 1
      BY <2>2, <2>3
    <3> QED BY <1>2, <2>3, <3>1 DEF HandshakeAt
  <2>5. ASSUME NEW q \in Proc, q # o PROVE HandshakeAt(q)'
    <3>1. \A r \in Proc : pc'[r] = "joined" /\ joinPcb'[r] = q =>
                          pc[r] = "joined" /\ joinPcb[r] = q
      BY <1>2, <2>5
    <3>2. HandshakeAt(q)
      BY <2>1 DEF IInv, Handshake
    <3>3. pc[q] \in {"exitsemP", "gone"} \/ pc'[q] \in {"exitsemP", "gone"}
            => pc'[q] = pc[q]
      BY <1>1, <1>2
    <3> QED BY <1>2, <2>5, <3>1, <3>2, <3>3, HandshakeFrame
  <2>6. \A q \in Proc : q = o => HandshakeAt(q)'
    BY <1>2, <2>4
  <2> QED BY <2>5, <2>6 DEF Handshake
<1> QED BY <1>5, <1>6, <1>7, <1>8 DEF Calls, Joins

\* A joiner that nobody has disturbed finds the process it waited for, still
\* in its slot.
LEMMA JoinedFinds ==
  ASSUME Waiting, Handshake, NEW p \in Proc, pc[p] = "joined"
  PROVE  /\ joinPcb[p] \in Proc
         /\ joinID[p] = processID[joinPcb[p]]
         /\ pcb[joinID[p]] = joinPcb[p]
         /\ pc[joinPcb[p]] = "exitsemP"
<1>1. joinPcb[p] \in Proc /\ joinID[p] = processID[joinPcb[p]]
  BY DEF Waiting, Joins, JoinsAt
<1>2. JoinedOn(joinPcb[p])
  BY DEF JoinedOn
<1>3. pc[joinPcb[p]] = "exitsemP"
  BY <1>1, <1>2 DEF Handshake, HandshakeAt
<1>4. Holds(joinPcb[p])
  BY <1>3 DEF Holds, Live
<1> QED BY <1>1, <1>3, <1>4 DEF Waiting, Table, Slots

\* ExitRelease puts the token into exitsem; no other joiner holds one.
LEMMA JoinReturnCalls ==
  ASSUME IInv, [Next]_vars, NEW p \in Proc, JoinReturn(p)
  PROVE  Calls'
<1>0. TypeOK
  BY DEF IInv, Waiting, Table, Typed
<1>1. /\ pc[p] = "joined" /\ pc'[p] = "user"
      /\ \A q \in Proc : q # p => /\ pc'[q] = pc[q]
                                  /\ joinPcb'[q] = joinPcb[q]
                                  /\ joinID'[q] = joinID[q]
      /\ UNCHANGED <<joinsem, exited, freed>>
  BY <1>0 DEF JoinReturn, Goto, TypeOK
<1>2. touched' = (touched \/ freed[pcb[joinID[p]]])
  BY DEF JoinReturn, UsesPcb
<1>3. Exits'
  BY <1>1 DEF IInv, Waiting, Exits
<1>4. Joins'
  BY <1>1, JoinsFrame DEF IInv, Joins
<1>5. ASSUME ~touched' PROVE Handshake'
  <2> DEFINE o == joinPcb[p]
  <2>1. ~touched /\ ~freed[pcb[joinID[p]]] /\ Handshake
    BY <1>2, <1>5 DEF IInv
  <2>2. o \in Proc /\ pcb[joinID[p]] = o /\ pc[o] = "exitsemP"
    BY <1>1, <2>1, JoinedFinds DEF IInv
  <2>3. exitsem' = [exitsem EXCEPT ![o] = @ + 1]
    BY <2>1, <2>2 DEF JoinReturn
  <2>4. ASSUME NEW r \in Proc, r # p, pc[r] = "joined" PROVE joinPcb[r] # o
    <3> SUFFICES ASSUME joinPcb[r] = o PROVE FALSE
      OBVIOUS
    <3>1. processID[r] = parentID[o] /\ processID[p] = parentID[o]
      BY <1>1, <2>4 DEF IInv, Waiting, Joins, JoinsAt
    <3>2. Holds(r) /\ Holds(p)
      BY <1>1, <2>4 DEF Holds, Live
    <3> QED BY <2>4, <3>1, <3>2, SlotsDiffer DEF IInv, Waiting, Table
  <2>5. \A q \in Proc, r \in Proc : pc'[r] = "joined" /\ joinPcb'[r] = q =>
             /\ pc[r] = "joined" /\ joinPcb[r] = q /\ r # p /\ q # o
    BY <1>1, <2>4
  <2>6. \A q \in Proc : pc[q] \in {"exitsemP", "gone"}
                          \/ pc'[q] \in {"exitsemP", "gone"} => pc'[q] = pc[q]
    BY <1>1
  <2>7. ASSUME NEW q \in Proc, q # o PROVE HandshakeAt(q)'
    <3>1. exitsem'[q] = exitsem[q] /\ joinsem'[q] = joinsem[q]
      BY <1>0, <1>1, <2>3, <2>7 DEF TypeOK
    <3> QED BY <2>1, <2>5, <2>6, <3>1, HandshakeFrame DEF Handshake
  <2>8. ASSUME NEW q \in Proc, q = o PROVE HandshakeAt(q)'
    <3>1. JoinedOn(q)
      BY <1>1, <2>8 DEF JoinedOn
    <3>2. joinsem[q] = 0 /\ pc[q] = "exitsemP"
      BY <2>1, <3>1 DEF Handshake, HandshakeAt
    <3>3. joinsem'[q] = 0 /\ pc'[q] = "exitsemP"
      BY <1>1, <3>2
    <3>4. ~JoinedOn(q)'
      BY <2>5, <2>8 DEF JoinedOn
    <3> QED BY <3>3, <3>4 DEF HandshakeAt
  <2> QED BY <2>7, <2>8 DEF Handshake
<1> QED BY <1>3, <1>4, <1>5 DEF Calls

\* ExitUpdate for a process that was joined creates the token.
LEMMA ExitWaitsCalls ==
  ASSUME IInv, [Next]_vars, NEW p \in Proc, ExitWaits(p)
  PROVE  Calls'
<1>0. TypeOK /\ joinsem[p] \in Nat
  BY DEF IInv, Waiting, Table, Typed, TypeOK
<1>1. pc[p] = "user" /\ pc' = [pc EXCEPT ![p] = "exitsemP"]
  BY DEF ExitWaits, ExitUpdate, Goto
<1>2. pcb[processID[p]] = p
  BY <1>1 DEF IInv, Waiting, Table, Slots, Holds, Live
<1>3. /\ joinsem' = [joinsem EXCEPT ![p] = @ + 1]
      /\ exited' = [exited EXCEPT ![p] = TRUE]
      /\ UNCHANGED <<freed, exitsem, joinID, joinPcb, touched>>
  BY <1>2 DEF ExitWaits, ExitUpdate, callVars
<1>4. joinsem[p] = 0
  BY <1>0, <1>1 DEF IInv, Waiting, Exits
<1>5. Exits'
  BY <1>0, <1>1, <1>3 DEF IInv, Waiting, Exits, TypeOK
<1>6. Joins'
  BY <1>0, <1>1, <1>3, JoinsFrame DEF IInv, Joins, TypeOK
<1>7. ASSUME ~touched' PROVE Handshake'
  <2>1. Handshake
    BY <1>3, <1>7 DEF IInv
  <2>2. ASSUME NEW q \in Proc, q # p PROVE HandshakeAt(q)'
    <3>1. /\ exitsem'[q] = exitsem[q] /\ joinsem'[q] = joinsem[q]
          /\ pc'[q] = pc[q]
      BY <1>0, <1>1, <1>3, <2>2 DEF TypeOK
    <3>2. \A r \in Proc : pc'[r] = "joined" /\ joinPcb'[r] = q =>
                          pc[r] = "joined" /\ joinPcb[r] = q
      BY <1>0, <1>1, <1>3 DEF TypeOK
    <3> QED BY <2>1, <3>1, <3>2, HandshakeFrame DEF Handshake
  <2>3. ~JoinedOn(p) /\ exitsem[p] = 0
    BY <1>1, <2>1 DEF Handshake, HandshakeAt
  <2>4. ~JoinedOn(p)'
    BY <1>0, <1>1, <1>3, <2>3 DEF JoinedOn, TypeOK
  <2>5. joinsem'[p] = 1 /\ exitsem'[p] = 0
    BY <1>0, <1>3, <1>4, <2>3 DEF TypeOK
  <2>6. pc'[p] = "exitsemP"
    BY <1>0, <1>1 DEF TypeOK
  <2>7. HandshakeAt(p)'
    BY <2>4, <2>5, <2>6 DEF HandshakeAt
  <2> QED BY <2>2, <2>7 DEF Handshake
<1> QED BY <1>5, <1>6, <1>7 DEF Calls

\* A process leaves when nobody waits on its PCB for the token.
LEMMA LeaveCalls ==
  ASSUME IInv, [Next]_vars, NEW p \in Proc, ExitLeaves(p) \/ ExitP(p)
  PROVE  Calls'
<1>0. TypeOK /\ exitsem[p] \in Nat
  BY DEF IInv, Waiting, Table, Typed, TypeOK
<1>1. /\ pcb[processID[p]] = p
      /\ pc[p] \in {"user", "exitsemP"}
      /\ pc' = [pc EXCEPT ![p] = "gone"]
      /\ freed' = [freed EXCEPT ![p] = TRUE]
  BY LeaveStep DEF IInv, Waiting, Table
<1>2. UNCHANGED <<joinsem, joinID, joinPcb, touched>>
  BY DEF ExitLeaves, ExitUpdate, ExitP, callVars, histVars
<1>3. /\ exited'[p]
      /\ \A q \in Proc : q # p => exited'[q] = exited[q]
  <2>1. CASE ExitLeaves(p)
    BY <1>0, <2>1 DEF ExitLeaves, ExitUpdate, TypeOK
  <2>2. CASE ExitP(p)
    BY <2>2 DEF ExitP, Goto, histVars, IInv, Waiting, Exits
  <2> QED BY <2>1, <2>2
<1>4. Exits'
  BY <1>0, <1>1, <1>2, <1>3 DEF IInv, Waiting, Exits, TypeOK
<1>5. Joins'
  BY <1>0, <1>1, <1>2, <1>3, JoinsFrame DEF IInv, Joins, TypeOK
<1>6. /\ exitsem'[p] <= exitsem[p] /\ exitsem'[p] \in Nat
      /\ \A q \in Proc : q # p => exitsem'[q] = exitsem[q]
      /\ pc[p] = "user" \/ exitsem[p] > 0
  <2>1. CASE ExitLeaves(p)
    BY <1>0, <2>1 DEF ExitLeaves, ExitUpdate, Goto
  <2>2. CASE ExitP(p)
    BY <1>0, <1>1, <2>2 DEF ExitP, TypeOK
  <2> QED BY <2>1, <2>2
<1>7. ASSUME ~touched' PROVE Handshake'
  <2>1. Handshake
    BY <1>2, <1>7 DEF IInv
  <2>2. ~JoinedOn(p)
    BY <1>6, <2>1 DEF Handshake, HandshakeAt
  <2>3. \A r \in Proc, q \in Proc : pc'[r] = "joined" /\ joinPcb'[r] = q =>
                        pc[r] = "joined" /\ joinPcb[r] = q
    BY <1>0, <1>1, <1>2 DEF TypeOK
  <2>4. ASSUME NEW q \in Proc, q # p PROVE HandshakeAt(q)'
    <3>1. /\ exitsem'[q] = exitsem[q] /\ joinsem'[q] = joinsem[q]
          /\ pc'[q] = pc[q]
      BY <1>0, <1>1, <1>2, <1>6, <2>4 DEF TypeOK
    <3> QED BY <2>1, <2>3, <3>1, HandshakeFrame DEF Handshake
  <2>5. ~JoinedOn(p)' /\ pc'[p] = "gone"
    BY <1>0, <1>1, <2>2, <2>3 DEF JoinedOn, TypeOK
  <2>6. joinsem[p] <= 1 /\ (exitsem[p] > 0 => joinsem[p] = 0)
    BY <2>1 DEF Handshake, HandshakeAt
  <2>7. exitsem'[p] > 0 => exitsem[p] > 0
    BY <1>0, <1>6
  <2>8. HandshakeAt(p)'
    BY <1>2, <2>5, <2>6, <2>7 DEF HandshakeAt
  <2> QED BY <2>4, <2>8 DEF Handshake
<1> QED BY <1>4, <1>5, <1>7 DEF Calls

LEMMA IInvStep == IInv /\ [Next]_vars => IInv'
<1> SUFFICES ASSUME IInv, [Next]_vars PROVE IInv'
  OBVIOUS
<1>1. Table' /\ Pointers'
  BY TypedStep, SlotsStep, UsedStep DEF IInv, Waiting, Table
<1>2. CASE (\E p \in Proc : Halts(p)) \/ Stopped \/ UNCHANGED vars
  <2>1. UNCHANGED <<pc, pcbVars, callVars, histVars>>
    BY <1>2, HaltsSame DEF IInv, Waiting, Table, Typed
  <2>2. Calls'
    BY <2>1, CalmStep DEF pcbVars, callVars, histVars
  <2> QED BY <1>1, <2>2 DEF Calls, IInv, Waiting
<1>3. ASSUME NEW p \in Proc, Step(p), ~Halts(p) PROVE Calls'
  BY <1>3, StepKinds, ExecCalls, JoinUpdateCalls, JoinPCalls, JoinReturnCalls,
     ExitWaitsCalls, LeaveCalls DEF Quiet
<1> QED BY <1>1, <1>2, <1>3 DEF Next, Calls, IInv, Waiting

\* Join returns only after the process has exited; and unless somebody has
\* used a deleted semaphore, that process is still in its slot, waiting for
\* ExitRelease, when the joiner reads its exit code (JoinUpdate, JoinWait,
\* ExitWait).
THEOREM JoinSeesExitHolds == Spec => []JoinSeesExit
<1>1. IInv => JoinSeesExit
  <2> SUFFICES ASSUME IInv, NEW p \in Proc, pc[p] = "joined"
               PROVE  /\ exited[joinPcb[p]]
                      /\ ~touched => /\ pcb[joinID[p]] = joinPcb[p]
                                     /\ pc[joinPcb[p]] = "exitsemP"
    BY DEF JoinSeesExit
  <2>1. exited[joinPcb[p]]
    BY DEF IInv, Waiting, Joins, JoinsAt
  <2> QED BY <2>1, JoinedFinds DEF IInv
<1> QED BY <1>1, InitIInv, IInvStep, PTL DEF Spec
-----------------------------------------------------------------------------
(***************************************************************************)
(* The processor, for any processes, programs and width of words (module   *)
(* Machine).                                                               *)
(***************************************************************************)
Fields == Names \cup {"loadReg", "loadValue"}
WellFormed(r) == DOMAIN r = Fields /\ r.r0 = 0

\* What SaveUserState and RestoreUserState move: registers of every process,
\* r0 among them, which is zero.
RegistersOK ==
  /\ steps \in Nat /\ currentThread \in Procs
  /\ trapped \in [Procs -> {"user", "syscall", "exception", "ended"}]
  /\ WellFormed(registers)
  /\ DOMAIN userRegisters = Procs
  /\ \A p \in Procs : WellFormed(userRegisters[p])

Kernel == RegistersOK /\ NoLoadInKernel

\* What process p sees of the processor.
Seen(p) == View(RegistersOf(p))

\* What a process sees changes only by an instruction of its own or the return
\* of its own system call: never by an interrupt, by a context switch, by an
\* exception, or by what another process executes.
OwnProcessor ==
  [][\A p \in Procs :
       \/ Seen(p)' = Seen(p) /\ mem'[p] = mem[p]
       \/ p = currentThread /\ p = currentThread'
            /\ \/ steps' # steps /\ trapped'[p] # "exception"
               \/ trapped[p] = "syscall"]_cpuVars
-----------------------------------------------------------------------------
(* The registers that an instruction leaves *)

\* DelayedLoad puts r0 back to zero and makes the new load the pending one.
LEMMA Delayed ==
  ASSUME NEW r, NEW reg, NEW v, DOMAIN r = Fields
  PROVE  /\ WellFormed(DelayedLoad(r, reg, v))
         /\ DelayedLoad(r, reg, v).loadReg = reg
BY DEF DelayedLoad, WellFormed, Fields, Names, GPR

\* A program does not see whether its pending load was completed.
LEMMA CompletedLoad ==
  ASSUME NEW r, WellFormed(r)
  PROVE  View(DelayedLoad(r, "r0", 0)) = View(r)
<1> DEFINE d == DelayedLoad(r, "r0", 0)
<1>1. d.loadReg = "r0"
  BY Delayed DEF WellFormed
<1>2. \A n \in Names : d[n] = IF n = r.loadReg /\ n # "r0" THEN r.loadValue ELSE r[n]
  BY DEF DelayedLoad, WellFormed, Fields, Names, GPR
<1> QED BY <1>1, <1>2 DEF View

\* Every way in which OneInstruction ends leaves registers of this form.
LEMMA Finished ==
  ASSUME NEW r, NEW reg, NEW v, NEW to, DOMAIN r = Fields, Finish(r, reg, v, to)
  PROVE  WellFormed(registers')
BY Delayed DEF Finish, WellFormed, Fields, Names, GPR

LEMMA Written ==
  ASSUME NEW r, DOMAIN r = Fields, Write(r)
  PROVE  WellFormed(registers') /\ UNCHANGED <<mem, trapped>>
BY Finished DEF Write

\* An instruction that is not a system call.
LEMMA PlainInstruction ==
  ASSUME RegistersOK, NEW i, 
         \/ AddOrSubtract(i) \/ Calculate(i) \/ HiLo(i) \/ Branch(i)
         \/ Load(i) \/ Store(i) \/ PartialLoad(i) \/ PartialStore(i)
         \/ PartialAsserts(i) \/ Fault(i) \/ Raise
  PROVE  /\ WellFormed(registers')
         /\ trapped' = trapped \/ Raise
         /\ \A p \in Procs \ {currentThread} : mem'[p] = mem[p]
<1>0. DOMAIN registers = Fields /\ WellFormed(registers)
  BY DEF RegistersOK, WellFormed
<1>1. CASE Raise
  BY <1>0, <1>1, Delayed DEF Raise
<1>2. CASE AddOrSubtract(i)
  <2>1. CASE Raise
    BY <1>1, <2>1
  <2>2. ASSUME ~ Raise
        PROVE \E d, v : Write([registers EXCEPT ![d] = v])
    BY <1>2, <2>2 DEF AddOrSubtract
  <2> QED BY <1>0, <2>1, <2>2, Written
<1>3. CASE Calculate(i)
  <2>1. \E d, v : Write([registers EXCEPT ![d] = v])
    BY <1>3 DEF Calculate
  <2> QED BY <1>0, <2>1, Written
<1>4. CASE HiLo(i)
  <2>1. CASE HostTraps(i) /\ UNCHANGED <<registers, mem, trapped>>
    BY <1>0, <2>1
  <2>2. CASE ~ HostTraps(i)
    <3>1. PICK r : /\ Write(r)
                   /\ \/ \E v : r = [registers EXCEPT !.hi = v.hi, !.lo = v.lo]
                      \/ \E d, v : r = [registers EXCEPT ![d] = v]
      BY ONLY <1>4, <2>2 DEF HiLo, HiLoOps
    <3>2. DOMAIN r = Fields
      BY <1>0, <3>1
    <3> QED BY <3>1, <3>2, Written
  <2> QED BY <1>4, <2>1, <2>2 DEF HiLo
<1>5. CASE Branch(i)
  <2>1. PICK r, to : /\ r = registers \/ \E d, v : r = [registers EXCEPT ![d] = v]
                     /\ Finish(r, "r0", 0, to)
                     /\ UNCHANGED <<mem, trapped>>
    BY ONLY <1>5 DEF Branch
  <2>2. DOMAIN r = Fields
    BY <1>0, <2>1
  <2> QED BY <2>1, <2>2, Finished
<1>6. CASE Load(i) \/ PartialLoad(i)
  <2>1. /\ \E reg, v, to : Finish(registers, reg, v, to)
        /\ UNCHANGED <<mem, trapped>>
    BY <1>6 DEF Load, PartialLoad
  <2> QED BY <1>0, <2>1, Finished
<1>7. CASE Store(i) \/ PartialStore(i)
  <2>1. /\ \E reg, v, to : Finish(registers, reg, v, to)
        /\ \E m : mem' = [mem EXCEPT ![currentThread] = m]
        /\ UNCHANGED trapped
    BY <1>7 DEF Store, PartialStore, WriteMem
  <2> QED BY <1>0, <2>1, Finished
<1>8. CASE PartialAsserts(i)
  BY <1>0, <1>8 DEF PartialAsserts
<1>9. CASE Fault(i)
  BY <1>1, <1>9 DEF Fault
<1> QED BY <1>1, <1>2, <1>3, <1>4, <1>5, <1>6, <1>7, <1>8, <1>9
-----------------------------------------------------------------------------
LEMMA InitKernel == CPUInit => Kernel
<1> SUFFICES ASSUME CPUInit PROVE Kernel
  OBVIOUS
<1>1. WellFormed(InitRegisters) /\ InitRegisters.loadReg = "r0"
  BY DEF InitRegisters, WellFormed, Fields, Names, GPR
<1>2. WellFormed(registers) /\ registers.loadReg = "r0"
  BY <1>1 DEF CPUInit, WellFormed, Fields, Names, GPR
<1>3. \A p \in Procs : userRegisters[p] = InitRegisters
  BY DEF CPUInit
<1>4. RegistersOK
  BY <1>1, <1>2, <1>3, MachineAssumption DEF CPUInit, RegistersOK
<1> QED BY <1>1, <1>2, <1>3, <1>4 DEF Kernel, NoLoadInKernel, RegistersOf

\* The others keep their saved registers, and so what they see.
LEMMA OthersSee ==
  ASSUME UNCHANGED <<userRegisters, currentThread>>, NEW p \in Procs \ {currentThread}
  PROVE  Seen(p)' = Seen(p)
BY DEF Seen, RegistersOf, View

\* An exception completes the pending load and is invisible to the program.
LEMMA RaiseKernel ==
  ASSUME Kernel, Raise, UNCHANGED <<userRegisters, currentThread>>, steps' \in Nat
  PROVE  /\ Kernel' /\ mem' = mem /\ trapped'[currentThread] = "exception"
         /\ \A p \in Procs : Seen(p)' = Seen(p)
<1>1. /\ currentThread \in Procs /\ mem' = mem
      /\ trapped \in [Procs -> {"user", "syscall", "exception", "ended"}]
      /\ trapped' = [trapped EXCEPT ![currentThread] = "exception"]
  BY DEF Raise, Kernel, RegistersOK
<1>2. WellFormed(registers') /\ registers'.loadReg = "r0" /\ View(registers') = View(registers)
  BY Delayed, CompletedLoad DEF Raise, Kernel, RegistersOK, WellFormed
<1>3. Seen(currentThread)' = Seen(currentThread)
  BY <1>2 DEF Seen, RegistersOf, View
<1> QED BY <1>1, <1>2, <1>3, OthersSee DEF Kernel, RegistersOK, NoLoadInKernel, RegistersOf

LEMMA InstructionKernel ==
  ASSUME Kernel, NEW i, OneInstruction(i)
  PROVE  /\ Kernel'
         /\ \A p \in Procs \ {currentThread} : Seen(p)' = Seen(p) /\ mem'[p] = mem[p]
<1>1. /\ currentThread \in Procs /\ trapped[currentThread] = "user"
      /\ trapped \in [Procs -> {"user", "syscall", "exception", "ended"}]
      /\ UNCHANGED <<userRegisters, currentThread>> /\ steps' \in Nat
  BY DEF OneInstruction, Kernel, RegistersOK
<1>2. CASE Syscall(i)
  <2>1. /\ WellFormed(registers') /\ registers'.loadReg = "r0"
        /\ trapped' = [trapped EXCEPT ![currentThread] = "syscall"] /\ mem' = mem
    BY <1>2, Delayed DEF Syscall, Kernel, RegistersOK, WellFormed
  <2> QED BY <1>1, <2>1, OthersSee DEF Kernel, RegistersOK, NoLoadInKernel, RegistersOf
<1>3. CASE Raise
  BY <1>1, <1>3, RaiseKernel
<1>4. CASE /\ ~ Raise
           /\ \/ AddOrSubtract(i) \/ Calculate(i) \/ HiLo(i) \/ Branch(i)
              \/ Load(i) \/ Store(i) \/ PartialLoad(i) \/ PartialStore(i)
              \/ PartialAsserts(i) \/ Fault(i)
  <2>1. /\ WellFormed(registers') /\ trapped' = trapped
        /\ \A p \in Procs \ {currentThread} : mem'[p] = mem[p]
    BY <1>4, PlainInstruction DEF Kernel
  <2> QED BY <1>1, <2>1, OthersSee DEF Kernel, RegistersOK, NoLoadInKernel, RegistersOf
<1> QED BY <1>2, <1>3, <1>4 DEF OneInstruction

\* An exception that an instruction raises changes nothing of what is seen.
LEMMA RaisingInstruction ==
  ASSUME Kernel, NEW i, OneInstruction(i), trapped'[currentThread] = "exception"
  PROVE  mem' = mem /\ \A p \in Procs : Seen(p)' = Seen(p)
<1>1. /\ currentThread \in Procs /\ trapped[currentThread] = "user"
      /\ trapped \in [Procs -> {"user", "syscall", "exception", "ended"}]
      /\ UNCHANGED <<userRegisters, currentThread>> /\ steps' \in Nat
  BY DEF OneInstruction, Kernel, RegistersOK
<1>2. ~ Syscall(i)
  BY <1>1 DEF Syscall
<1>3. trapped' = trapped \/ Raise
  BY <1>2, PlainInstruction DEF OneInstruction, Kernel
<1> QED BY <1>1, <1>3, RaiseKernel

LEMMA FetchKernel ==
  ASSUME Kernel, FetchFails
  PROVE  Kernel' /\ mem' = mem /\ \A p \in Procs : Seen(p)' = Seen(p)
BY RaiseKernel DEF FetchFails, Kernel, RegistersOK

LEMMA ExceptionKernel ==
  ASSUME Kernel, ExceptionReturns
  PROVE  Kernel' /\ mem' = mem /\ \A p \in Procs : Seen(p)' = Seen(p)
<1>1. /\ currentThread \in Procs
      /\ trapped \in [Procs -> {"user", "syscall", "exception", "ended"}]
      /\ trapped' = [trapped EXCEPT ![currentThread] = "user"]
      /\ UNCHANGED <<registers, userRegisters, currentThread, mem, steps>>
  BY DEF ExceptionReturns, Kernel, RegistersOK
<1> QED BY <1>1 DEF Kernel, RegistersOK, NoLoadInKernel, RegistersOf, Seen, View

LEMMA ReturnKernel ==
  ASSUME Kernel, SyscallReturns
  PROVE  /\ Kernel'
         /\ \A p \in Procs \ {currentThread} : Seen(p)' = Seen(p) /\ mem'[p] = mem[p]
<1>1. /\ currentThread \in Procs
      /\ trapped \in [Procs -> {"user", "syscall", "exception", "ended"}]
      /\ UNCHANGED <<userRegisters, currentThread, steps>>
      /\ WellFormed(registers) /\ registers.loadReg = "r0"
  BY DEF SyscallReturns, Kernel, RegistersOK, NoLoadInKernel, RegistersOf
<1>2. CASE CallHalts(registers) \/ CallEnds(registers) \/ CallUnknown(registers)
  <2>1. /\ UNCHANGED <<registers, mem>>
        /\ \/ trapped' = trapped
           \/ trapped' = [trapped EXCEPT ![currentThread] = "ended"]
           \/ trapped' = [trapped EXCEPT ![currentThread] = "user"]
    BY <1>2 DEF CallHalts, CallEnds, CallUnknown
  <2> QED BY <1>1, <2>1, OthersSee DEF Kernel, RegistersOK, NoLoadInKernel, RegistersOf
<1>3. CASE CallReturns(registers)
  <2>1. trapped' = [trapped EXCEPT ![currentThread] = "user"]
    BY <1>3 DEF CallReturns
  <2>2. \A p \in Procs \ {currentThread} : mem'[p] = mem[p]
    <3>1. CASE mem' = mem
      BY <3>1
    <3>2. CASE mem' # mem
      <4>1. \E m : mem' = [mem EXCEPT ![currentThread] = m]
        BY <1>3, <3>2 DEF CallReturns
      <4> QED BY <4>1
    <3> QED BY <3>1, <3>2
  <2>3. PICK v : LET r == [registers EXCEPT !.r2 = v]
                 IN  registers' = IncrementR(r) \/ registers' = IncrementR(IncrementR(r))
    BY <1>3 DEF CallReturns
  <2>4. WellFormed(registers')
    BY <1>1, <2>3 DEF IncrementR, WellFormed, Fields, Names, GPR
  <2> QED BY <1>1, <2>1, <2>2, <2>4, OthersSee DEF Kernel, RegistersOK, NoLoadInKernel, RegistersOf
<1> QED BY <1>2, <1>3 DEF SyscallReturns

\* Switch, and an interrupt after which the same process goes on.
LEMMA SwitchKernel ==
  ASSUME Kernel, NEW p \in Procs, Switch(p)
  PROVE  Kernel' /\ (\A q \in Procs : Seen(q)' = Seen(q)) /\ mem' = mem
<1> DEFINE r == DelayedLoad(registers, "r0", 0)
<1>1. /\ p # currentThread /\ currentThread \in Procs
      /\ userRegisters' = [userRegisters EXCEPT ![currentThread] = r]
      /\ registers' = userRegisters[p] /\ currentThread' = p
      /\ UNCHANGED <<trapped, mem, steps>> /\ DOMAIN userRegisters = Procs
  BY DEF Switch, Kernel, RegistersOK
<1>2. WellFormed(r) /\ r.loadReg = "r0" /\ View(r) = View(registers)
  BY Delayed, CompletedLoad DEF Kernel, RegistersOK, WellFormed
<1> HIDE DEF r
<1>3. /\ userRegisters'[currentThread] = r
      /\ \A q \in Procs \ {currentThread} : userRegisters'[q] = userRegisters[q]
  BY <1>1
<1>4. RegistersOK'
  BY <1>1, <1>2, <1>3 DEF Kernel, RegistersOK
<1>5. NoLoadInKernel'
  BY <1>1, <1>2, <1>3 DEF Kernel, NoLoadInKernel, RegistersOf
<1>6. \A q \in Procs : Seen(q)' = Seen(q)
  <2> TAKE q \in Procs
  <2>1. CASE q = currentThread
    BY <1>1, <1>2, <1>3, <2>1 DEF Seen, RegistersOf
  <2>2. CASE q # currentThread
    BY <1>1, <1>3, <2>2 DEF Seen, RegistersOf
  <2> QED BY <2>1, <2>2
<1> QED BY <1>1, <1>4, <1>5, <1>6 DEF Kernel

LEMMA InterruptedKernel ==
  ASSUME Kernel, Interrupted
  PROVE  Kernel' /\ (\A q \in Procs : Seen(q)' = Seen(q)) /\ mem' = mem
<1>1. WellFormed(registers') /\ registers'.loadReg = "r0" /\ View(registers') = View(registers)
  BY Delayed, CompletedLoad DEF Interrupted, Kernel, RegistersOK, WellFormed
<1> QED BY <1>1 DEF Interrupted, Kernel, RegistersOK, NoLoadInKernel, RegistersOf, Seen, View

LEMMA NextKernel == Kernel /\ [CPUNext]_cpuVars => Kernel'
<1> SUFFICES ASSUME Kernel, [CPUNext]_cpuVars PROVE Kernel'
  OBVIOUS
<1>1. CASE UNCHANGED cpuVars
  BY <1>1 DEF cpuVars, Kernel, RegistersOK, NoLoadInKernel, RegistersOf
<1> QED BY <1>1, InstructionKernel, FetchKernel, ExceptionKernel, ReturnKernel,
        SwitchKernel, InterruptedKernel DEF CPUNext

\* Registers are saved and restored whole, and r0 is zero whatever a program
\* loads or writes into it.
THEOREM RegistersWellFormed == CPUSpec => []RegistersOK
<1>1. Kernel => RegistersOK
  BY DEF Kernel
<1> QED BY <1>1, InitKernel, NextKernel, PTL DEF CPUSpec

\* mipssim.cc: "any delayed load must get applied before we trap to the kernel".
THEOREM NoLoadInKernelHolds == CPUSpec => []NoLoadInKernel
<1>1. Kernel => NoLoadInKernel
  BY DEF Kernel
<1> QED BY <1>1, InitKernel, NextKernel, PTL DEF CPUSpec

\* Interrupts, context switches, exceptions and the instructions of others are
\* invisible to a process (mipssim.cc, machine.cc: RaiseException, thread.cc:
\* SaveUserState, RestoreUserState).
THEOREM ProcessorOfItsOwn == CPUSpec => OwnProcessor
<1>1. ASSUME Kernel, [CPUNext]_cpuVars
      PROVE  [\A p \in Procs :
                \/ Seen(p)' = Seen(p) /\ mem'[p] = mem[p]
                \/ p = currentThread /\ p = currentThread'
                     /\ \/ steps' # steps /\ trapped'[p] # "exception"
                        \/ trapped[p] = "syscall"]_cpuVars
  <2>1. CASE UNCHANGED cpuVars
    BY <2>1
  <2>2. ASSUME NEW i, OneInstruction(i)
        PROVE  \A p \in Procs : \/ Seen(p)' = Seen(p) /\ mem'[p] = mem[p]
                                \/ /\ p = currentThread /\ p = currentThread'
                                   /\ steps' # steps /\ trapped'[p] # "exception"
    <3>1. currentThread' = currentThread /\ steps' # steps
      BY <1>1, <2>2 DEF OneInstruction, Kernel, RegistersOK
    <3> QED BY <1>1, <2>2, <3>1, InstructionKernel, RaisingInstruction
  <2>3. ASSUME SyscallReturns
        PROVE  currentThread' = currentThread /\ trapped[currentThread] = "syscall"
    BY <2>3 DEF SyscallReturns
  <2> QED BY <1>1, <2>1, <2>2, <2>3, FetchKernel, ExceptionKernel, ReturnKernel, SwitchKernel,
             InterruptedKernel DEF CPUNext
<1> QED BY <1>1, InitKernel, NextKernel, PTL DEF CPUSpec, OwnProcessor
=============================================================================
