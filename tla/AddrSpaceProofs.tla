-------------------------- MODULE AddrSpaceProofs --------------------------
(***************************************************************************)
(* Proofs about AddrSpace, for any number of processes, sizes of their     *)
(* segments, frames and bits.                                              *)
(***************************************************************************)
EXTENDS AddrSpace, SequenceTheorems, TLAPS

\* Only a process past a successful allocation has a page table.
TableWhen ==
  \A p \in Proc : pc[p] \notin {"load", "user"} => pageTable[p] = <<>>

\* A page table has the pages of all the segments, or none.
TableWhole ==
  \A p \in Proc : pageTable[p] = <<>> \/ Len(pageTable[p]) = Pages(p)

\* The history of a running program is as long as its page table.
MineFits ==
  \A p \in Proc : pc[p] = "user" => Len(mine[p]) = Len(pageTable[p])

\* A program runs with its own page table in machine->pageTable.
OwnTable == pc[cur] = "user" => installed = cur

Owned == TypeOK /\ TableWhen /\ FramesOwned
Spaces == Owned /\ TableWhole /\ MineFits /\ OwnTable

(***************************************************************************)
(* Page tables as sequences.                                               *)
(***************************************************************************)

\* A table of no pages uses no frame.
LEMMA NoPages == Range(<<>>) = {} /\ IsInjective(<<>>)
<1>1. DOMAIN <<>> = {}
  BY EmptySeq, LenProperties
<1> QED BY <1>1 DEF Range, IsInjective

\* What the constructor's loop over FindFreeSlot makes: a table of n
\* different frames, none of them marked before.
LEMMA FoundFrames ==
  ASSUME TypeOK, NEW n \in Nat, NEW t \in [1 .. n -> Frame \ bitmap],
         LowestFree(t, n)
  PROVE  /\ t \in Seq(Frame)
         /\ Len(t) = n
         /\ IsInjective(t)
         /\ Range(t) \subseteq Frame \ bitmap
<1>1. t \in Seq(Frame)
  <2>1. t \in [1 .. n -> Frame]
    OBVIOUS
  <2> QED BY <2>1, IsASeq
<1>2. Len(t) = n
  BY <1>1, LenProperties
<1>3. IsInjective(t)
  <2> SUFFICES ASSUME NEW i \in 1 .. n, NEW j \in 1 .. n, i # j
               PROVE  t[i] # t[j]
    BY DEF IsInjective
  <2>1. t[i] \in Int /\ t[j] \in Int
    BY SpaceAssumption DEF Frame
  <2>2. i < j \/ j < i
    OBVIOUS
  <2> QED BY <2>1, <2>2 DEF LowestFree
<1>4. Range(t) \subseteq Frame \ bitmap
  BY DEF Range
<1> QED BY <1>1, <1>2, <1>3, <1>4

\* Assigning to an element of a sequence, or behind its end, leaves a sequence
\* of the same length.
LEMMA UpdateSeq ==
  ASSUME NEW S, NEW s \in Seq(S), NEW i, NEW e \in S
  PROVE  /\ [s EXCEPT ![i] = e] \in Seq(S)
         /\ Len([s EXCEPT ![i] = e]) = Len(s)
<1>1. Len(s) \in Nat /\ s \in [1 .. Len(s) -> S]
  BY LenProperties
<1>2. [s EXCEPT ![i] = e] \in [1 .. Len(s) -> S]
  BY <1>1
<1>3. [s EXCEPT ![i] = e] \in Seq(S)
  BY <1>1, <1>2, IsASeq
<1> QED BY <1>1, <1>2, <1>3, LenProperties

\* The pages of a process are a number, and the file's are among them.
LEMMA PagesNat ==
  ASSUME NEW p \in Proc
  PROVE  /\ Pages(p) \in Nat
         /\ Code[p] \in Nat /\ Data[p] \in Nat
         /\ Code[p] + Data[p] <= Pages(p)
  BY SpaceAssumption DEF Pages

(***************************************************************************)
(* Type correctness.                                                       *)
(***************************************************************************)

LEMMA InitType == Init => TypeOK
<1> SUFFICES ASSUME Init PROVE TypeOK
  OBVIOUS
<1>1. <<>> \in Seq(Frame) /\ <<>> \in Seq(Content)
  BY EmptySeq
<1> QED BY <1>1, SpaceAssumption DEF Init, TypeOK, PC, Content

\* Every page that a load leaves in memory is well formed.
LEMMA LoadedType ==
  ASSUME TypeOK, NEW p \in Proc
  PROVE  Loaded(p) \in [Memory -> Content]
<1>1. FilePages(p) \subseteq Nat
  <2>1. Code[p] \in Nat /\ Data[p] \in Nat
    BY PagesNat
  <2> QED BY <2>1 DEF FilePages
<1>2. DataPages(p) \subseteq Nat
  BY <1>1 DEF DataPages
<1>3. \A v \in Nat : Put(p, v, "file") \in Content
  BY DEF Put, Content
<1> DEFINE inData(f) == \E i \in DataPages(p) : DataTarget(p, i) = f
           inFile(f) == \E i \in FilePages(p) : Target(p, i) = f
<1>4. ASSUME NEW f \in Memory, inData(f)
      PROVE  Put(p, CHOOSE i \in DataPages(p) : DataTarget(p, i) = f, "file")
               \in Content
  <2>1. (CHOOSE i \in DataPages(p) : DataTarget(p, i) = f) \in Nat
    BY <1>2, <1>4
  <2> QED BY <2>1, <1>3
<1>5. ASSUME NEW f \in Memory, inFile(f)
      PROVE  Put(p, CHOOSE i \in FilePages(p) : Target(p, i) = f, "file")
               \in Content
  <2>1. (CHOOSE i \in FilePages(p) : Target(p, i) = f) \in Nat
    BY <1>1, <1>5
  <2> QED BY <2>1, <1>3
<1>6. \A f \in Memory : mem[f] \in Content
  BY DEF TypeOK
<1>7. \A f \in Memory : Loaded(p)[f] \in Content
  <2> SUFFICES ASSUME NEW f \in Memory PROVE Loaded(p)[f] \in Content
    OBVIOUS
  <2>1. CASE inData(f)
    <3>1. Loaded(p)[f] = Put(p, CHOOSE i \in DataPages(p) :
                                  DataTarget(p, i) = f, "file")
      BY <2>1 DEF Loaded
    <3> QED BY <3>1, <2>1, <1>4
  <2>2. CASE ~inData(f) /\ inFile(f)
    <3>1. Loaded(p)[f] = Put(p, CHOOSE i \in FilePages(p) :
                                  Target(p, i) = f, "file")
      BY <2>2 DEF Loaded
    <3> QED BY <3>1, <2>2, <1>5
  <2>3. CASE ~inData(f) /\ ~inFile(f)
    BY <2>3, <1>6 DEF Loaded
  <2> QED BY <2>1, <2>2, <2>3
<1>8. Loaded(p) = [f \in Memory |-> Loaded(p)[f]]
  BY DEF Loaded
<1> QED BY <1>7, <1>8

\* What an action says of the process that goes on.
LEMMA GotoType ==
  ASSUME TypeOK, NEW p \in Proc, NEW from, NEW to \in PC, Goto(p, from, to)
  PROVE  /\ pc' \in [Proc -> PC]
         /\ pc'[p] = to
         /\ \A q \in Proc : q # p => pc'[q] = pc[q]
  BY DEF Goto, TypeOK

LEMMA TypeStep == TypeOK /\ [Next]_vars => TypeOK'
<1> SUFFICES ASSUME TypeOK, [Next]_vars PROVE TypeOK'
  OBVIOUS
<1>1. ASSUME NEW p \in Proc, Create(p) PROVE TypeOK'
  BY <1>1 DEF Create, TypeOK, PC
<1>2. ASSUME NEW p \in Proc, Switch(p) PROVE TypeOK'
  BY <1>2 DEF Switch, TypeOK
<1>3. ASSUME NEW p \in Proc, Enter(p) PROVE TypeOK'
  BY <1>3 DEF Enter, Goto, TypeOK, PC
<1>4. ASSUME NEW p \in Proc, Lock(p) PROVE TypeOK'
  BY <1>4 DEF Lock, Goto, TypeOK, PC
<1>5. ASSUME NEW p \in Proc, Allocate(p) PROVE TypeOK'
  <2>1. PICK t \in [1 .. Pages(p) -> Frame \ bitmap] :
          /\ LowestFree(t, Pages(p))
          /\ pageTable' = [pageTable EXCEPT ![p] = t]
          /\ bitmap' = bitmap \cup Range(t)
    BY <1>5 DEF Allocate
  <2>2. t \in Seq(Frame) /\ Range(t) \subseteq Frame
    BY <2>1, FoundFrames, PagesNat
  <2>3. pc' \in [Proc -> PC]
    BY <1>5, GotoType DEF Allocate, PC
  <2>4. pageTable' \in [Proc -> Seq(Frame)] /\ bitmap' \in SUBSET Frame
    BY <2>1, <2>2 DEF TypeOK
  <2>5. /\ addrLock' = addrLock + 1
        /\ UNCHANGED <<cur, installed, mem, mine, wild, machine>>
    BY <1>5 DEF Allocate
  <2> QED BY <2>3, <2>4, <2>5 DEF TypeOK
<1>6. ASSUME NEW p \in Proc, OutOfMemory(p) PROVE TypeOK'
  BY <1>6 DEF OutOfMemory, Goto, TypeOK, PC
<1>7. ASSUME NEW p \in Proc, UnlockAgain(p) PROVE TypeOK'
  BY <1>7 DEF UnlockAgain, Goto, TypeOK, PC
<1>8. ASSUME NEW p \in Proc, Load(p) PROVE TypeOK'
  <2> DEFINE new == [v \in 1 .. Len(pageTable[p]) |->
                       IF v - 1 \in FilePages(p) THEN Put(p, v - 1, "file")
                       ELSE IF pageTable[p][v] \in Memory
                              THEN Loaded(p)[pageTable[p][v]] ELSE Zero]
  <2>1. mem' \in [Memory -> Content]
    BY <1>8, LoadedType DEF Load
  <2>2. Len(pageTable[p]) \in Nat
    BY LenProperties DEF TypeOK
  <2>3. \A v \in 1 .. Len(pageTable[p]) : Put(p, v - 1, "file") \in Content
    BY <2>2 DEF Put, Content
  <2>4. Zero \in Content /\ \A f \in Memory : Loaded(p)[f] \in Content
    BY LoadedType DEF Content
  <2>5. new \in [1 .. Len(pageTable[p]) -> Content]
    BY <2>3, <2>4
  <2>6. new \in Seq(Content)
    BY <2>2, <2>5, IsASeq
  <2>7. mine' \in [Proc -> Seq(Content)]
    BY <1>8, <2>6 DEF Load, TypeOK
  <2>8. pc' \in [Proc -> PC]
    BY <1>8, GotoType DEF Load, PC
  <2>9. wild' \in BOOLEAN
    BY <1>8 DEF Load, TypeOK, WritesWild
  <2> QED BY <1>8, <2>1, <2>7, <2>8, <2>9 DEF Load, TypeOK
<1>9. ASSUME NEW p \in Proc, Exit(p) PROVE TypeOK'
  <2>1. <<>> \in Seq(Frame) /\ <<>> \in Seq(Content)
    BY EmptySeq
  <2>2. pc' \in [Proc -> PC]
    BY <1>9, GotoType DEF Exit, PC
  <2> QED BY <1>9, <2>1, <2>2 DEF Exit, TypeOK
<1>10. ASSUME NEW p \in Proc, Halt(p) \/ EnterAborts(p) PROVE TypeOK'
  BY <1>10 DEF Halt, EnterAborts, TypeOK
<1>11. ASSUME NEW p \in Proc, NEW v \in 0 .. Pages(p), Store(p, v)
       PROVE  TypeOK'
  <2>1. v \in Nat
    BY PagesNat
  <2>2. Put(p, v, "stored") \in Content
    BY <2>1 DEF Put, Content
  <2>3. mem' \in [Memory -> Content]
    BY <1>11, <2>2 DEF Store, TypeOK
  <2>4. [mine[p] EXCEPT ![v + 1] = Put(p, v, "stored")] \in Seq(Content)
    BY <2>2, UpdateSeq DEF TypeOK
  <2>5. mine' \in [Proc -> Seq(Content)]
    BY <1>11, <2>4 DEF Store, TypeOK
  <2> QED BY <1>11, <2>3, <2>5 DEF Store, TypeOK
<1>12. ASSUME NEW p \in Proc, NEW v \in 0 .. Pages(p), Fault(p, v)
       PROVE  TypeOK'
  BY <1>12 DEF Fault, vars, TypeOK
<1>13. CASE Stopped \/ UNCHANGED vars
  BY <1>13 DEF Stopped, vars, TypeOK
<1> QED
  BY <1>1, <1>2, <1>3, <1>4, <1>5, <1>6, <1>7, <1>8, <1>9, <1>10, <1>11,
     <1>12, <1>13 DEF Next, Step

\* Type correctness: whatever programs run, frames of the page tables are
\* bits of the map and every page holds something a program put there.
THEOREM TypeCorrect == Spec => []TypeOK
  BY InitType, TypeStep, PTL DEF Spec

(***************************************************************************)
(* The frames of the page tables and the bits of the map.                  *)
(***************************************************************************)

LEMMA InitOwned == Init => Owned
<1> SUFFICES ASSUME Init PROVE Owned
  OBVIOUS
<1>1. TypeOK
  BY InitType
<1>2. TableWhen /\ FramesOwned
  BY NoPages DEF Init, TableWhen, FramesOwned
<1> QED BY <1>1, <1>2 DEF Owned

\* Steps that leave the tables and the map alone keep FramesOwned.
LEMMA SameFrames ==
  ASSUME FramesOwned, UNCHANGED <<bitmap, pageTable>>
  PROVE  FramesOwned'
  BY DEF FramesOwned

\* The frames that the constructor takes for p were in no page table, and p
\* had none.
LEMMA AllocateOwned ==
  ASSUME Owned, NEW p \in Proc, Allocate(p)
  PROVE  FramesOwned' /\ TableWhen'
<1>1. PICK t \in [1 .. Pages(p) -> Frame \ bitmap] :
        /\ LowestFree(t, Pages(p))
        /\ pageTable' = [pageTable EXCEPT ![p] = t]
        /\ bitmap' = bitmap \cup Range(t)
  BY DEF Allocate
<1>2. IsInjective(t) /\ Range(t) \cap bitmap = {}
  BY <1>1, FoundFrames, PagesNat DEF Owned
<1>3. Range(pageTable[p]) = {}
  BY NoPages DEF Owned, TableWhen, Allocate, Goto
<1>4. /\ pageTable'[p] = t
      /\ \A q \in Proc : q # p => pageTable'[q] = pageTable[q]
  BY <1>1 DEF Owned, TypeOK
<1>5. \A q \in Proc : Range(pageTable[q]) \subseteq bitmap
  BY DEF Owned, FramesOwned
<1>6. \A q \in Proc : IsInjective(pageTable'[q])
  BY <1>2, <1>4 DEF Owned, FramesOwned
<1>7. \A q, r \in Proc :
        q # r => Range(pageTable'[q]) \cap Range(pageTable'[r]) = {}
  BY <1>2, <1>4, <1>5 DEF Owned, FramesOwned
<1>8. bitmap' = UNION {Range(pageTable'[q]) : q \in Proc}
  <2>1. ASSUME NEW f \in bitmap'
        PROVE  \E q \in Proc : f \in Range(pageTable'[q])
    <3>1. CASE f \in Range(t)
      BY <3>1, <1>4
    <3>2. CASE f \in bitmap
      <4>1. PICK q \in Proc : f \in Range(pageTable[q])
        BY <3>2 DEF Owned, FramesOwned
      <4>2. q # p
        BY <4>1, <1>3
      <4> QED BY <4>1, <4>2, <1>4
    <3> QED BY <2>1, <3>1, <3>2, <1>1
  <2>2. \A q \in Proc : Range(pageTable'[q]) \subseteq bitmap'
    BY <1>1, <1>4, <1>5
  <2> QED BY <2>1, <2>2
<1>9. TableWhen'
  BY <1>4 DEF Allocate, Goto, Owned, TypeOK, TableWhen
<1> QED BY <1>6, <1>7, <1>8, <1>9 DEF FramesOwned

\* ~AddrSpace clears just the bits of its own frames.
LEMMA ExitOwned ==
  ASSUME Owned, NEW p \in Proc, Exit(p)
  PROVE  FramesOwned' /\ TableWhen'
<1>1. /\ pageTable'[p] = <<>>
      /\ \A q \in Proc : q # p => pageTable'[q] = pageTable[q]
      /\ bitmap' = bitmap \ Range(pageTable[p])
  BY DEF Exit, Owned, TypeOK
<1>2. Range(pageTable'[p]) = {} /\ IsInjective(pageTable'[p])
  BY <1>1, NoPages
<1>3. \A q \in Proc : q # p =>
        Range(pageTable[q]) \cap Range(pageTable[p]) = {}
  BY DEF Owned, FramesOwned
<1>4. bitmap' = UNION {Range(pageTable'[q]) : q \in Proc}
  <2>1. \A f \in bitmap : \E q \in Proc : f \in Range(pageTable[q])
    BY DEF Owned, FramesOwned
  <2>2. \A q \in Proc : Range(pageTable[q]) \subseteq bitmap
    BY DEF Owned, FramesOwned
  <2>3. \A f \in bitmap' : \E q \in Proc : f \in Range(pageTable'[q])
    BY <2>1, <1>1
  <2>4. \A q \in Proc : Range(pageTable'[q]) \subseteq bitmap'
    BY <2>2, <1>1, <1>2, <1>3
  <2> QED BY <2>3, <2>4
<1>5. \A q \in Proc : IsInjective(pageTable'[q])
  BY <1>1, <1>2 DEF Owned, FramesOwned
<1>6. \A q, r \in Proc :
        q # r => Range(pageTable'[q]) \cap Range(pageTable'[r]) = {}
  BY <1>1, <1>2 DEF Owned, FramesOwned
<1>7. TableWhen'
  BY <1>1 DEF Exit, Goto, Owned, TypeOK, TableWhen
<1> QED BY <1>4, <1>5, <1>6, <1>7 DEF FramesOwned

LEMMA OwnedStep == Owned /\ [Next]_vars => Owned'
<1> SUFFICES ASSUME Owned, [Next]_vars PROVE Owned'
  OBVIOUS
<1>1. TypeOK'
  BY TypeStep DEF Owned
<1>2. ASSUME UNCHANGED <<bitmap, pageTable>>, UNCHANGED pc PROVE Owned'
  BY <1>1, <1>2, SameFrames DEF Owned, TableWhen
<1>3. ASSUME NEW p \in Proc, Create(p) PROVE Owned'
  BY <1>1, <1>3, SameFrames DEF Create, Owned, TableWhen, TypeOK
<1>4. ASSUME NEW p \in Proc, Enter(p) \/ Lock(p) \/ OutOfMemory(p)
                              \/ UnlockAgain(p) \/ Load(p)
      PROVE  Owned'
  <2>1. FramesOwned'
    BY <1>4, SameFrames
       DEF Owned, Enter, Lock, OutOfMemory, UnlockAgain, Load
  <2>2. /\ pageTable' = pageTable
        /\ pc'[p] \notin {"load", "user"} => pc[p] \notin {"load", "user"}
        /\ \A q \in Proc : q # p => pc'[q] = pc[q]
    BY <1>4 DEF Owned, TypeOK, Enter, Lock, OutOfMemory, UnlockAgain, Load, Goto
  <2>3. TableWhen'
    BY <2>2 DEF Owned, TableWhen
  <2> QED BY <1>1, <2>1, <2>3 DEF Owned
<1>5. ASSUME NEW p \in Proc, Allocate(p) \/ Exit(p) PROVE Owned'
  BY <1>1, <1>5, AllocateOwned, ExitOwned DEF Owned
<1>6. ASSUME NEW p \in Proc,
             \/ Switch(p) \/ Halt(p) \/ EnterAborts(p)
             \/ \E v \in 0 .. Pages(p) : Store(p, v) \/ Fault(p, v)
      PROVE  Owned'
  BY <1>2, <1>6 DEF Switch, Halt, EnterAborts, Store, Fault, vars
<1>7. CASE Stopped \/ UNCHANGED vars
  BY <1>2, <1>7 DEF Stopped, vars
<1> QED
  BY <1>3, <1>4, <1>5, <1>6, <1>7 DEF Next, Step

\* No frame belongs to two pages, of one process or of two, and the map marks
\* just the frames in use, although a process that does not fit gives addrLock
\* one unit too many (AddrSpace::AddrSpace, ~AddrSpace).
THEOREM FramesOwnedHolds == Spec => []FramesOwned
<1>1. Owned => FramesOwned
  BY DEF Owned
<1> QED BY <1>1, InitOwned, OwnedStep, PTL DEF Spec

(***************************************************************************)
(* Isolation.                                                              *)
(***************************************************************************)

LEMMA InitSpaces == Init => Spaces
<1> SUFFICES ASSUME Init PROVE Spaces
  OBVIOUS
<1>1. TableWhole /\ MineFits /\ OwnTable
  BY SpaceAssumption DEF Init, TableWhole, MineFits, OwnTable
<1> QED BY <1>1, InitOwned DEF Spaces

\* Scheduler::Run restores the page table of the thread it switches to, and
\* nothing but a load and a store changes the history.
LEMMA SpacesStep == Spaces /\ [Next]_vars => Spaces'
<1> SUFFICES ASSUME Spaces, [Next]_vars PROVE Spaces'
  OBVIOUS
<1>1. Owned' /\ Owned /\ TypeOK
  BY OwnedStep DEF Spaces, Owned
<1> USE SpaceAssumption
<1>2. ASSUME UNCHANGED <<pc, cur, installed, pageTable, mine>> PROVE Spaces'
  BY <1>1, <1>2 DEF Spaces, TableWhole, MineFits, OwnTable
<1>3. ASSUME NEW p \in Proc, Create(p) PROVE Spaces'
  BY <1>1, <1>3 DEF Create, Spaces, TypeOK, TableWhole, MineFits, OwnTable
<1>4. ASSUME NEW p \in Proc, Switch(p) PROVE Spaces'
  BY <1>1, <1>4 DEF Switch, Spaces, TableWhole, MineFits, OwnTable
<1>5. ASSUME NEW p \in Proc, Enter(p) \/ Lock(p) \/ OutOfMemory(p)
                              \/ UnlockAgain(p)
      PROVE  Spaces'
  <2>1. /\ UNCHANGED <<cur, installed, pageTable, mine>>
        /\ \A q \in Proc : pc'[q] = "user" => pc[q] = "user"
    BY <1>1, <1>5
       DEF Enter, Lock, OutOfMemory, UnlockAgain, Goto, TypeOK
  <2> QED BY <1>1, <2>1 DEF Spaces, TableWhole, MineFits, OwnTable, TypeOK
<1>6. ASSUME NEW p \in Proc, Allocate(p) PROVE Spaces'
  <2>1. PICK t \in [1 .. Pages(p) -> Frame \ bitmap] :
          /\ LowestFree(t, Pages(p))
          /\ pageTable' = [pageTable EXCEPT ![p] = t]
    BY <1>6 DEF Allocate
  <2>2. Len(t) = Pages(p)
    BY <1>1, <2>1, FoundFrames, PagesNat
  <2>3. /\ UNCHANGED <<cur, installed, mine>>
        /\ cur = p
        /\ pc'[p] = "load"
        /\ \A q \in Proc : q # p => pc'[q] = pc[q]
    BY <1>1, <1>6 DEF Allocate, Goto, TypeOK
  <2>4. /\ pageTable'[p] = t
        /\ \A q \in Proc : q # p => pageTable'[q] = pageTable[q]
    BY <1>1, <2>1 DEF TypeOK
  <2>5. TableWhole'
    BY <2>2, <2>4 DEF Spaces, TableWhole
  <2>6. MineFits'
    BY <2>3, <2>4 DEF Spaces, MineFits
  <2>7. OwnTable'
    BY <2>3 DEF OwnTable
  <2> QED BY <1>1, <2>5, <2>6, <2>7 DEF Spaces
<1>7. ASSUME NEW p \in Proc, Load(p) PROVE Spaces'
  <2>1. /\ UNCHANGED <<cur, pageTable>>
        /\ cur = p
        /\ installed' = p
        /\ \A q \in Proc : q # p => pc'[q] = pc[q] /\ mine'[q] = mine[q]
    BY <1>1, <1>7 DEF Load, Goto, TypeOK
  <2>2. DOMAIN mine'[p] = 1 .. Len(pageTable[p])
    BY <1>1, <1>7 DEF Load, TypeOK
  <2>3. Len(mine'[p]) = Len(pageTable[p])
    <3>1. mine'[p] \in Seq(Content) /\ pageTable[p] \in Seq(Frame)
      BY <1>1 DEF Owned, TypeOK
    <3> QED BY <2>2, <3>1, LenProperties
  <2> QED BY <1>1, <2>1, <2>3 DEF Spaces, TableWhole, MineFits, OwnTable
<1>8. ASSUME NEW p \in Proc, Exit(p) PROVE Spaces'
  <2>1. /\ cur' = cur /\ cur = p
        /\ pc'[p] = "gone"
        /\ pageTable'[p] = <<>>
        /\ \A q \in Proc : q # p => /\ pc'[q] = pc[q]
                                    /\ mine'[q] = mine[q]
                                    /\ pageTable'[q] = pageTable[q]
    BY <1>1, <1>8 DEF Exit, Goto, TypeOK
  <2> QED BY <1>1, <2>1 DEF Spaces, TableWhole, MineFits, OwnTable
<1>9. ASSUME NEW p \in Proc, NEW v \in 0 .. Pages(p), Store(p, v)
      PROVE  Spaces'
  <2>1. /\ UNCHANGED <<pc, cur, installed, pageTable>>
        /\ \A q \in Proc : q # p => mine'[q] = mine[q]
        /\ mine'[p] = [mine[p] EXCEPT ![v + 1] = Put(p, v, "stored")]
    BY <1>1, <1>9 DEF Store, TypeOK
  <2>2. Put(p, v, "stored") \in Content
    <3>1. v \in Nat
      BY PagesNat
    <3> QED BY <3>1 DEF Put, Content
  <2>3. Len(mine'[p]) = Len(mine[p])
    BY <1>1, <2>1, <2>2, UpdateSeq DEF TypeOK
  <2> QED BY <1>1, <2>1, <2>3 DEF Spaces, TableWhole, MineFits, OwnTable
<1>10. ASSUME NEW p \in Proc, \/ Halt(p) \/ EnterAborts(p)
                              \/ \E v \in 0 .. Pages(p) : Fault(p, v)
       PROVE  Spaces'
  BY <1>2, <1>10 DEF Halt, EnterAborts, Fault, vars
<1>11. CASE Stopped \/ UNCHANGED vars
  BY <1>2, <1>11 DEF Stopped, vars
<1> QED
  BY <1>3, <1>4, <1>5, <1>6, <1>7, <1>8, <1>9, <1>10, <1>11 DEF Next, Step

\* The program that runs uses its own page table: no switch leaves another
\* program's table in machine->pageTable (Scheduler::Run, RestoreState).
THEOREM OwnTableHolds == Spec => []OwnTable
<1>1. Spaces => OwnTable
  BY DEF Spaces
<1> QED BY <1>1, InitSpaces, SpacesStep, PTL DEF Spec

\* The loads of programs without initialised data write page i of the file
\* into the frame of page i, and no other frame.
LEMMA LoadedPages ==
  ASSUME Spaces, NEW p \in Proc, Data[p] = 0
  PROVE  /\ \A v \in DOMAIN pageTable[p] :
              v - 1 \in FilePages(p) /\ pageTable[p][v] \in Memory =>
                Loaded(p)[pageTable[p][v]] = Put(p, v - 1, "file")
         /\ \A f \in Memory :
              f \notin Range(pageTable[p]) => Loaded(p)[f] = mem[f]
<1>1. /\ pageTable[p] \in Seq(Frame)
      /\ Len(pageTable[p]) \in Nat
      /\ DOMAIN pageTable[p] = 1 .. Len(pageTable[p])
      /\ Code[p] \in Nat
  BY LenProperties, PagesNat DEF Spaces, Owned, TypeOK
<1>2. DataPages(p) = {}
  BY <1>1 DEF DataPages, FilePages
<1>3. \A i \in FilePages(p) : i \in Nat /\ i + 1 \in DOMAIN pageTable[p]
  <2>1. pageTable[p] # <<>> => Code[p] <= Len(pageTable[p])
    BY PagesNat, <1>1 DEF Spaces, TableWhole
  <2> QED BY <1>1, <2>1 DEF FilePages
<1>4. ASSUME NEW v \in DOMAIN pageTable[p], v - 1 \in FilePages(p),
             pageTable[p][v] \in Memory
      PROVE  Loaded(p)[pageTable[p][v]] = Put(p, v - 1, "file")
  <2> DEFINE f == pageTable[p][v]
  <2>1. Target(p, v - 1) = f
    BY <1>1 DEF Target
  <2>2. \A i \in FilePages(p) : Target(p, i) = f => i = v - 1
    <3> SUFFICES ASSUME NEW i \in FilePages(p), Target(p, i) = f
                 PROVE  i = v - 1
      OBVIOUS
    <3>1. pageTable[p][i + 1] = pageTable[p][v]
      BY DEF Target
    <3>2. i + 1 = v
      BY <1>3, <3>1 DEF Spaces, Owned, FramesOwned, IsInjective
    <3> QED BY <1>1, <1>3, <3>2
  <2>3. (CHOOSE i \in FilePages(p) : Target(p, i) = f) = v - 1
    BY <1>4, <2>1, <2>2
  <2>4. \E i \in FilePages(p) : Target(p, i) = f
    BY <1>4, <2>1
  <2>5. Loaded(p)[f] =
          Put(p, CHOOSE i \in FilePages(p) : Target(p, i) = f, "file")
    BY <1>2, <1>4, <2>4 DEF Loaded
  <2> QED BY <2>3, <2>5
<1>5. ASSUME NEW f \in Memory, f \notin Range(pageTable[p])
      PROVE  Loaded(p)[f] = mem[f]
  <2>1. ~ \E i \in FilePages(p) : Target(p, i) = f
    BY <1>3, <1>5 DEF Target, Range
  <2> QED BY <1>2, <2>1 DEF Loaded
<1> QED BY <1>4, <1>5

\* Different pages have different frames, whosever they are.
LEMMA OtherFrame ==
  ASSUME FramesOwned, NEW p \in Proc, NEW q \in Proc,
         NEW v \in DOMAIN pageTable[p], NEW w \in DOMAIN pageTable[q],
         p # q \/ v # w
  PROVE  pageTable[p][v] # pageTable[q][w]
<1>1. pageTable[p][v] \in Range(pageTable[p])
  BY DEF Range
<1>2. pageTable[q][w] \in Range(pageTable[q])
  BY DEF Range
<1>3. CASE p # q
  BY <1>1, <1>2, <1>3 DEF FramesOwned
<1>4. CASE p = q
  BY <1>4 DEF FramesOwned, IsInjective
<1> QED BY <1>3, <1>4

LEMMA IsolationStep ==
  ASSUME \A p \in Proc : Data[p] = 0
  PROVE  Spaces /\ Isolation /\ [Next]_vars => Isolation'
<1> SUFFICES ASSUME Spaces, Isolation, [Next]_vars PROVE Isolation'
  OBVIOUS
<1>1. TypeOK /\ FramesOwned /\ \A q \in Proc :
         DOMAIN pageTable[q] = 1 .. Len(pageTable[q])
  BY LenProperties DEF Spaces, Owned, TypeOK
<1>2. ASSUME UNCHANGED <<pageTable, mem, mine, wild>>,
             \A q \in Proc : pc'[q] = "user" => pc[q] = "user"
      PROVE  Isolation'
  BY <1>2 DEF Isolation
<1>3. ASSUME NEW p \in Proc,
             \/ Create(p) \/ Switch(p) \/ Enter(p) \/ Lock(p)
             \/ OutOfMemory(p) \/ UnlockAgain(p) \/ Halt(p) \/ EnterAborts(p)
             \/ \E v \in 0 .. Pages(p) : Fault(p, v)
      PROVE  Isolation'
  <2>1. UNCHANGED <<pageTable, mem, mine, wild>>
    BY <1>3 DEF Create, Switch, Enter, Lock, OutOfMemory, UnlockAgain, Halt,
                EnterAborts, Fault, vars
  <2>2. \A q \in Proc : pc'[q] = "user" => pc[q] = "user"
    BY <1>1, <1>3 DEF Create, Switch, Enter, Lock, OutOfMemory, UnlockAgain,
                      Halt, EnterAborts, Fault, vars, Goto, TypeOK
  <2> QED BY <1>2, <2>1, <2>2
<1>4. ASSUME NEW p \in Proc, Allocate(p) \/ Exit(p) PROVE Isolation'
  <2>1. /\ UNCHANGED <<mem, wild>>
        /\ pc'[p] # "user"
    BY <1>1, <1>4 DEF Allocate, Exit, Goto, TypeOK
  <2>2. \A q \in Proc : q # p => /\ pc'[q] = pc[q]
                                 /\ pageTable'[q] = pageTable[q]
                                 /\ mine'[q] = mine[q]
    BY <1>1, <1>4 DEF Allocate, Exit, Goto, TypeOK
  <2> QED BY <2>1, <2>2 DEF Isolation
<1>5. ASSUME NEW p \in Proc, Load(p) PROVE Isolation'
  <2>1. /\ mem' = Loaded(p)
        /\ pageTable' = pageTable
        /\ wild \in BOOLEAN /\ (wild => wild')
        /\ \A q \in Proc : q # p => pc'[q] = pc[q] /\ mine'[q] = mine[q]
    BY <1>1, <1>5 DEF Load, Goto, TypeOK
  <2> SUFFICES ASSUME ~wild', NEW q \in Proc, pc'[q] = "user",
                      NEW v \in DOMAIN pageTable[q], pageTable[q][v] \in Memory
               PROVE  Loaded(p)[pageTable[q][v]] = mine'[q][v]
    BY <2>1 DEF Isolation
  <2>2. CASE q = p
    <3>1. mine'[p][v] = IF v - 1 \in FilePages(p) THEN Put(p, v - 1, "file")
                        ELSE IF pageTable[p][v] \in Memory
                               THEN Loaded(p)[pageTable[p][v]] ELSE Zero
      BY <1>1, <1>5, <2>2 DEF Load, TypeOK
    <3> QED BY <3>1, <2>2, LoadedPages
  <2>3. CASE q # p
    <3>1. pageTable[q][v] \notin Range(pageTable[p])
      BY <1>1, <2>3 DEF FramesOwned, Range
    <3>2. Loaded(p)[pageTable[q][v]] = mem[pageTable[q][v]]
      BY <3>1, LoadedPages
    <3> QED BY <3>2, <2>1, <2>3 DEF Isolation
  <2> QED BY <2>2, <2>3
<1>6. ASSUME NEW p \in Proc, NEW v \in 0 .. Pages(p), Store(p, v)
      PROVE  Isolation'
  <2>1. /\ cur = p /\ pc[p] = "user" /\ installed = p
        /\ UNCHANGED <<pc, pageTable, wild>>
    BY <1>6 DEF Store, Executes, Spaces, OwnTable
  <2>2. /\ v \in Nat
        /\ v + 1 \in DOMAIN pageTable[p]
        /\ pageTable[p][v + 1] \in Memory
    <3>1. v \in Nat /\ Len(pageTable[p]) \in Nat
      BY <1>1, PagesNat, LenProperties DEF TypeOK
    <3>2. v < Len(pageTable[p]) /\ pageTable[p][v + 1] \in Memory
      BY <1>6, <2>1, <3>1 DEF Store, Translate
    <3> QED BY <1>1, <3>1, <3>2
  <2>3. DOMAIN mine[p] = DOMAIN pageTable[p]
    BY <1>1, <2>1, LenProperties DEF Spaces, MineFits, TypeOK
  <2>4. /\ mem' = [mem EXCEPT ![pageTable[p][v + 1]] = Put(p, v, "stored")]
        /\ mine'[p] = [mine[p] EXCEPT ![v + 1] = Put(p, v, "stored")]
        /\ \A q \in Proc : q # p => mine'[q] = mine[q]
    BY <1>1, <1>6, <2>1 DEF Store, TypeOK
  <2> SUFFICES ASSUME ~wild, NEW q \in Proc, pc[q] = "user",
                      NEW w \in DOMAIN pageTable[q], pageTable[q][w] \in Memory
               PROVE  mem'[pageTable[q][w]] = mine'[q][w]
    BY <2>1 DEF Isolation
  <2>5. CASE q = p /\ w = v + 1
    BY <1>1, <2>2, <2>3, <2>4, <2>5 DEF TypeOK
  <2>6. CASE q # p \/ w # v + 1
    <3>1. pageTable[q][w] # pageTable[p][v + 1]
      BY <1>1, <2>2, <2>6, OtherFrame
    <3>2. mem'[pageTable[q][w]] = mem[pageTable[q][w]]
      BY <1>1, <2>4, <3>1 DEF TypeOK
    <3>3. mine'[q][w] = mine[q][w]
      BY <2>2, <2>3, <2>4, <2>6
    <3> QED BY <3>2, <3>3 DEF Isolation
  <2> QED BY <2>5, <2>6
<1>7. CASE Stopped \/ UNCHANGED vars
  BY <1>2, <1>7 DEF Stopped, vars
<1> QED
  BY <1>3, <1>4, <1>5, <1>6, <1>7 DEF Next, Step

\* Isolation: if no program has initialised data (whose loop misplaces it),
\* every page of a program holds what that program put there, however loads,
\* stores, switches and exits of the others interleave.
THEOREM IsolationHolds ==
  ASSUME \A p \in Proc : Data[p] = 0
  PROVE  Spec => []Isolation
<1>1. Init => Isolation
  BY SpaceAssumption DEF Init, Isolation
<1>2. Spaces /\ Isolation /\ [Next]_vars => Isolation'
  BY IsolationStep
<1> QED BY <1>1, <1>2, InitSpaces, SpacesStep, PTL DEF Spec
=============================================================================
