--------------------------- MODULE ScannersProofs ---------------------------
(***************************************************************************)
(* Proofs about Scanners, for any flights, bags and size of the file table.*)
(***************************************************************************)
EXTENDS Scanners, FiniteSetTheorems, SequenceTheorems, TLAPS

MainAt == {"create", "open", "copy", "handOver", "wait", "openIds", "copyIds", "handled", "done"}
PassengersAt == {"start", "flight", "createIds", "openBags", "length", "reopen", "openLug",
                 "bag", "offer", "await", "createLug", "over"}
ScannersAt == {"flight", "openIds", "scan", "openLug", "read", "choose", "next", "close", "last"}

\* Passengers between two flights, and whether it has finished the current one.
Between == pc.passengers \in {"start", "flight"}
Finished == Between /\ (sem.main = 1 \/ pc.main \in {"openIds", "copyIds", "handled"})
ScannersIdle == pc.scanners \in {"flight", "openIds", "scan"}

Types ==
  /\ flights \in Seq(Seq(Nat)) /\ slots \in Nat
  /\ pc \in [main : MainAt, passengers : PassengersAt, scanners : ScannersAt]
  /\ sem \in [main : Nat, passengers : Nat, scanners : Nat, maincounter : Nat]
  /\ inUse \in Int
  /\ flight \in 1 .. Len(flights) + 1
  /\ writeScannerId \in Nat \cup {Closed}

\* Whose turn it is.
Turn ==
  /\ 1 = sem.main + sem.passengers + sem.scanners
           + One(pc.main # "wait")
           + One(pc.passengers \notin {"start", "flight", "await"})
           + One(pc.scanners \notin {"flight", "openIds", "scan"})
  /\ Between => sem.scanners = 0 /\ ScannersIdle
  /\ ~ Between => pc.main = "wait" /\ sem.main = 0

\* The entries of the file table that each program has in use; passengers has
\* left two for each flight that it has finished.
MainHolds == IF pc.main = "done" THEN 0 ELSE IF pc.main \in {"copy", "copyIds"} THEN 3 ELSE 2
PassengersHold ==
  2 * (IF Finished THEN flight ELSE flight - 1)
    + (IF pc.passengers \in {"length", "openLug", "offer", "await", "createLug"} THEN 1
       ELSE IF pc.passengers \in {"bag", "over"} THEN 2 ELSE 0)
ScannersHold == One(writeScannerId # Closed) + One(pc.scanners = "read")

Entries ==
  /\ inUse = MainHolds + PassengersHold + ScannersHold
  /\ pc.scanners \in {"flight", "openIds", "last"} <=> writeScannerId = Closed
  /\ pc.passengers \in {"openLug", "bag", "offer", "await", "createLug", "over"} => readPassengers = 0

\* The files that are opened are there.
Present ==
  /\ pc.main \notin {"create", "done"} => flight <= Len(flights) /\ ~ passengersTxt.absent
  /\ ~ scannerIdTxt.absent
  /\ pc.passengers \in {"openLug", "bag", "offer", "await", "createLug", "over"} =>
       ~ lugWeightTxt.absent

Control == Provided => Types /\ Turn /\ Entries /\ Present
-----------------------------------------------------------------------------
LEMMA ControlInit == Init => Control
<1> SUFFICES ASSUME Init, Provided PROVE Types /\ Turn /\ Entries /\ Present
  BY DEF Control
<1>1. flights \in Seq(Seq(Nat)) /\ slots \in Nat
  BY ScannersAssumption DEF Init
<1>2. Len(flights) \in Nat
  BY <1>1
<1>3. Types
  BY <1>1, <1>2 DEF Init, Types, MainAt, PassengersAt, ScannersAt, Closed
<1>4. Turn
  BY DEF Init, Turn, Between, ScannersIdle, One
<1>5. Entries
  BY DEF Init, Entries, MainHolds, PassengersHold, ScannersHold, Finished, Between, One, Closed
<1>6. Present
  BY DEF Init, Present, Provided, File, Absent
<1> QED BY <1>3, <1>4, <1>5, <1>6

\* No OpenF finds the table full.
LEMMA NeverFull ==
  ASSUME Provided, Types, Turn, Entries, Present,
         \/ pc.main \in {"open", "openIds"}
         \/ pc.passengers \in {"openBags", "reopen", "openLug"}
         \/ pc.scanners \in {"openIds", "openLug"}
  PROVE  inUse < slots /\ inUse \in Int
<1>1. slots \in Nat /\ slots >= 2 * Len(flights) + 4 /\ Len(flights) \in Nat
      /\ flight \in 1 .. Len(flights) + 1
  BY DEF Types, Provided
<1>2. pc.main \in MainAt /\ pc.passengers \in PassengersAt /\ pc.scanners \in ScannersAt
      /\ sem.main \in Nat /\ sem.passengers \in Nat /\ sem.scanners \in Nat
  BY DEF Types
<1>3. (pc.main \notin {"create", "done"} => flight <= Len(flights))
  BY DEF Present
<1>4. MainHolds + PassengersHold + ScannersHold < 2 * Len(flights) + 4
  <2>1. pc.main \in {"create", "done"} => Between /\ sem.main = 0
    BY <1>2 DEF Turn, One
  <2>2. MainHolds \in Int /\ PassengersHold \in Int /\ ScannersHold \in Int
    BY <1>1 DEF MainHolds, PassengersHold, ScannersHold, One
  <2>3. One(TRUE) = 1 /\ One(FALSE) = 0 /\ ScannersHold \in 0 .. 2
        /\ (ScannersIdle => ScannersHold <= 1)
        /\ (pc.scanners = "openIds" => ScannersHold = 0)
    BY DEF One, ScannersHold, ScannersIdle, Entries
  <2>4. CASE pc.main \in {"create", "done"}
    <3>1. ~ Finished /\ PassengersHold = 2 * (flight - 1)
      BY <1>1, <2>1, <2>4 DEF Finished, PassengersHold, Between
    <3>2. MainHolds <= 2 /\ ScannersHold <= 1
      BY <2>1, <2>3, <2>4 DEF MainHolds, Turn
    <3> QED BY <1>1, <2>2, <3>1, <3>2
  <2>5. CASE pc.main \notin {"create", "done"} /\ Between
    <3>1. ScannersIdle /\ ScannersHold <= 1 /\ PassengersHold <= 2 * flight
      BY <1>1, <2>3, <2>5 DEF Turn, PassengersHold, Between
    <3>2. CASE pc.main \in {"wait", "openIds"}
      <4>1. MainHolds = 2
        BY <3>2 DEF MainHolds
      <4> QED BY <1>1, <1>3, <2>2, <2>5, <3>1, <4>1
    <3>3. CASE pc.main \in {"copyIds", "handled"}
      <4>1. MainHolds <= 3 /\ ScannersHold = 0
        BY <2>3, <2>5, <3>1, <3>3 DEF MainHolds, ScannersIdle, Between
      <4> QED BY <1>1, <1>3, <2>2, <2>5, <3>1, <4>1
    <3>4. CASE pc.main \in {"open", "copy", "handOver"}
      <4>1. MainHolds <= 3 /\ sem.main = 0
        BY <1>2, <3>4 DEF MainHolds, Turn, One
      <4>2. PassengersHold <= 2 * flight - 2
        BY <1>1, <2>5, <3>4, <4>1 DEF PassengersHold, Finished, Between
      <4> QED BY <1>1, <1>3, <2>2, <2>5, <3>1, <4>1, <4>2
    <3> QED BY <1>2, <2>5, <3>2, <3>3, <3>4 DEF MainAt
  <2>6. CASE pc.main \notin {"create", "done"} /\ ~ Between
    <3>1. MainHolds = 2
      BY <2>6 DEF Turn, MainHolds
    <3>2. CASE pc.passengers = "await"
      <4>1. PassengersHold = 2 * flight - 1
        BY <1>1, <2>6, <3>2 DEF PassengersHold, Finished
      <4> QED BY <1>1, <1>3, <2>2, <2>3, <2>6, <3>1, <4>1
    <3>3. CASE pc.passengers # "await"
      <4>1. PassengersHold <= 2 * flight
        BY <1>1, <2>6 DEF PassengersHold, Finished
      <4>2. ScannersIdle
        BY <1>2, <2>6, <3>3 DEF Turn, One, ScannersIdle, Between
      <4> QED BY <1>1, <1>3, <2>2, <2>3, <2>6, <3>1, <4>1, <4>2
    <3> QED BY <3>2, <3>3
  <2> QED BY <2>4, <2>5, <2>6
<1> QED BY <1>1, <1>4 DEF Entries, Types


\* No step changes the input, the size of the table or the past.
LEMMA FixedNext == [Next]_vars => UNCHANGED fixed
<1> SUFFICES ASSUME [Next]_vars PROVE UNCHANGED fixed
  OBVIOUS
<1>1. CASE main
  BY <1>1 DEF main, mainUnchanged, Ups, Downs, CreatePassengers, OpenPassengers, CopyBag,
     HandOver, AwaitIds, OpenIds, CopyId, Handled
<1>2. CASE passengers
  BY <1>2 DEF passengers, passengersUnchanged, Ups, Downs, Start, AwaitFlight, CreateScannerId,
     OpenBags, GetFileLength, Reopen, OpenLug, NextBag, Offer, AwaitScan, CreateLug,
     FlightOver, GiveUp
<1>3. CASE scanners
  BY <1>3 DEF scanners, scannersUnchanged, Ups, Downs, AwaitMain, OpenScannerId, NoFile,
     AwaitBag, OpenLugWeight, ReadLugWeight, Scan, CloseScannerId, Scanned, LastScanned,
     ScannersFail
<1>4. CASE UNCHANGED vars
  BY <1>4 DEF vars
<1> QED BY <1>1, <1>2, <1>3, <1>4 DEF Next


Programs == [main : MainAt, passengers : PassengersAt, scanners : ScannersAt]
Semaphores == [main : Nat, passengers : Nat, scanners : Nat, maincounter : Nat]

\* One program has moved and the two others have not.
LEMMA MainMoves ==
  ASSUME pc \in Programs, NEW to \in MainAt, pc' = [pc EXCEPT !.main = to]
  PROVE  /\ pc' \in Programs
         /\ pc'.main = to /\ pc'.passengers = pc.passengers /\ pc'.scanners = pc.scanners
BY DEF Programs

LEMMA PassengersMove ==
  ASSUME pc \in Programs, NEW to \in PassengersAt, pc' = [pc EXCEPT !.passengers = to]
  PROVE  /\ pc' \in Programs
         /\ pc'.main = pc.main /\ pc'.passengers = to /\ pc'.scanners = pc.scanners
BY DEF Programs

LEMMA ScannersMove ==
  ASSUME pc \in Programs, NEW to \in ScannersAt, pc' = [pc EXCEPT !.scanners = to]
  PROVE  /\ pc' \in Programs
         /\ pc'.main = pc.main /\ pc'.passengers = pc.passengers /\ pc'.scanners = to
BY DEF Programs

\* One semaphore has changed and the three others have not.
LEMMA MainSem ==
  ASSUME sem \in Semaphores, NEW n \in Nat, sem' = [sem EXCEPT !.main = n]
  PROVE  /\ sem' \in Semaphores
         /\ sem'.main = n /\ sem'.passengers = sem.passengers /\ sem'.scanners = sem.scanners
BY DEF Semaphores

LEMMA PassengersSem ==
  ASSUME sem \in Semaphores, NEW n \in Nat, sem' = [sem EXCEPT !.passengers = n]
  PROVE  /\ sem' \in Semaphores
         /\ sem'.main = sem.main /\ sem'.passengers = n /\ sem'.scanners = sem.scanners
BY DEF Semaphores

LEMMA ScannersSem ==
  ASSUME sem \in Semaphores, NEW n \in Nat, sem' = [sem EXCEPT !.scanners = n]
  PROVE  /\ sem' \in Semaphores
         /\ sem'.main = sem.main /\ sem'.passengers = sem.passengers /\ sem'.scanners = n
BY DEF Semaphores

LEMMA CounterSem ==
  ASSUME sem \in Semaphores, NEW n \in Nat, sem' = [sem EXCEPT !.maincounter = n]
  PROVE  /\ sem' \in Semaphores
         /\ sem'.main = sem.main /\ sem'.passengers = sem.passengers
         /\ sem'.scanners = sem.scanners
BY DEF Semaphores

\* No OpenF fails.
LEMMA NeverFails ==
  ASSUME Provided, Types, Turn, Entries, Present
  PROVE  /\ pc.main = "open" => CanOpen(passengersTxt)
         /\ pc.main = "openIds" => CanOpen(scannerIdTxt)
         /\ pc.passengers \in {"openBags", "reopen"} => CanOpen(passengersTxt)
         /\ pc.passengers = "openLug" => CanOpen(lugWeightTxt)
         /\ pc.scanners = "openIds" => CanOpen(scannerIdTxt)
         /\ pc.scanners = "openLug" => CanOpen(lugWeightTxt)
<1>1. pc.passengers \in {"openBags", "reopen"} => ~ passengersTxt.absent
  BY DEF Turn, Between, Present
<1>2. pc.scanners = "openLug" => pc.passengers = "await"
  BY DEF Types, Turn, One, Between, ScannersIdle, PassengersAt
<1> QED BY <1>1, <1>2, NeverFull DEF CanOpen, Present

\* Whoever is at work is alone.
LEMMA Alone ==
  ASSUME Types, Turn
  PROVE  /\ pc.main # "wait" =>
              sem.main = 0 /\ sem.passengers = 0 /\ sem.scanners = 0 /\ Between /\ ScannersIdle
         /\ pc.passengers \notin {"start", "flight", "await"} =>
              sem.main = 0 /\ sem.passengers = 0 /\ sem.scanners = 0 /\ pc.main = "wait" /\ ScannersIdle
         /\ ~ ScannersIdle =>
              sem.main = 0 /\ sem.passengers = 0 /\ sem.scanners = 0
              /\ pc.main = "wait" /\ pc.passengers = "await"
         /\ sem.main > 0 =>
              sem.main = 1 /\ sem.passengers = 0 /\ sem.scanners = 0
              /\ pc.main = "wait" /\ Between /\ ScannersIdle
         /\ sem.passengers > 0 =>
              sem.main = 0 /\ sem.passengers = 1 /\ sem.scanners = 0
              /\ pc.main = "wait" /\ pc.passengers \in {"start", "flight", "await"}
              /\ ScannersIdle
         /\ sem.scanners > 0 =>
              sem.main = 0 /\ sem.passengers = 0 /\ sem.scanners = 1
              /\ pc.main = "wait" /\ pc.passengers = "await" /\ ScannersIdle
<1> DEFINE a == One(pc.main # "wait")
           b == One(pc.passengers \notin {"start", "flight", "await"})
           c == One(pc.scanners \notin {"flight", "openIds", "scan"})
<1>1. sem.main \in Nat /\ sem.passengers \in Nat /\ sem.scanners \in Nat
  BY DEF Types
<1>2. a \in {0, 1} /\ b \in {0, 1} /\ c \in {0, 1}
      /\ (pc.main # "wait" <=> a = 1)
      /\ (pc.passengers \notin {"start", "flight", "await"} <=> b = 1)
      /\ (~ ScannersIdle <=> c = 1)
  BY DEF One, ScannersIdle
<1>3. 1 = sem.main + sem.passengers + sem.scanners + a + b + c
  BY DEF Turn
<1> HIDE DEF a, b, c
<1>4. /\ a = 1 => sem.main = 0 /\ sem.passengers = 0 /\ sem.scanners = 0 /\ b = 0 /\ c = 0
      /\ b = 1 => sem.main = 0 /\ sem.passengers = 0 /\ sem.scanners = 0 /\ a = 0 /\ c = 0
      /\ c = 1 => sem.main = 0 /\ sem.passengers = 0 /\ sem.scanners = 0 /\ a = 0 /\ b = 0
      /\ sem.main > 0 => sem.main = 1 /\ sem.passengers = 0 /\ sem.scanners = 0 /\ a = 0 /\ b = 0 /\ c = 0
      /\ sem.passengers > 0 => sem.main = 0 /\ sem.passengers = 1 /\ sem.scanners = 0 /\ a = 0 /\ b = 0 /\ c = 0
      /\ sem.scanners > 0 => sem.main = 0 /\ sem.passengers = 0 /\ sem.scanners = 1 /\ a = 0 /\ b = 0 /\ c = 0
  BY <1>1, <1>2, <1>3
<1>5. (Between => ScannersIdle /\ sem.scanners = 0) /\ (~ Between => pc.main = "wait" /\ sem.main = 0)
  BY DEF Turn
<1> QED BY <1>1, <1>2, <1>4, <1>5 DEF Between

Handles == IF pc.passengers \in {"length", "openLug", "offer", "await", "createLug"} THEN 1
           ELSE IF pc.passengers \in {"bag", "over"} THEN 2 ELSE 0

LEMMA Held ==
  Types => /\ PassengersHold \in Int /\ Handles \in Int
           /\ Finished => PassengersHold = 2 * flight
           /\ ~ Finished => PassengersHold = 2 * flight - 2 + Handles
BY DEF Types, PassengersHold, Handles, Finished, Between

LEMMA HeldNext ==
  Types' => (/\ PassengersHold \in Int /\ Handles \in Int
             /\ Finished => PassengersHold = 2 * flight
             /\ ~ Finished => PassengersHold = 2 * flight - 2 + Handles)'
BY Held, PTL

LEMMA FilePresent == \A c : ~ File(c).absent /\ File(c).contents = c
BY DEF File

-----------------------------------------------------------------------------
(* What each step does when nothing fails *)

LEMMA CreatesPassengers ==
  ASSUME Provided, Types, Turn, Entries, Present, CreatePassengers, flight <= Len(flights)
  PROVE  /\ pc.main = "create" /\ pc' \in Programs
         /\ pc'.main = "open" /\ pc'.passengers = pc.passengers /\ pc'.scanners = pc.scanners
         /\ sem' \in Semaphores
         /\ sem'.main = sem.main /\ sem'.passengers = sem.passengers
         /\ sem'.scanners = sem.scanners
         /\ passengersTxt' = File(<<>>)
         /\ UNCHANGED <<scannerIdTxt, lugWeightTxt, inUse, flight, copied, output, length,
                        filePointer, readPassengers, writeScannerId, bag, load>>
<1>1. pc \in Programs /\ sem \in Semaphores
  BY DEF Types, Programs, Semaphores
<1>2. /\ pc.main = "create" /\ pc' = [pc EXCEPT !.main = "open"] /\ sem' = sem
      /\ passengersTxt' = File(<<>>)
      /\ UNCHANGED <<scannerIdTxt, lugWeightTxt, inUse, flight, copied, output, length,
                     filePointer, readPassengers, writeScannerId, bag, load>>
  BY DEF CreatePassengers, mainUnchanged, mainVars, passengersVars, scannersVars, fixed, Types
<1>3. /\ pc' \in Programs /\ pc'.main = "open" /\ pc'.passengers = pc.passengers
      /\ pc'.scanners = pc.scanners
  <2>1. "open" \in MainAt
    BY DEF MainAt
  <2> QED BY <1>1, <1>2, <2>1, MainMoves
<1>4. /\ sem' \in Semaphores /\ sem'.main = sem.main /\ sem'.passengers = sem.passengers
      /\ sem'.scanners = sem.scanners
  BY <1>1, <1>2
<1> QED BY <1>2, <1>3, <1>4

LEMMA EndsMain ==
  ASSUME Provided, Types, Turn, Entries, Present, CreatePassengers, flight > Len(flights)
  PROVE  /\ pc.main = "create" /\ pc' \in Programs
         /\ pc'.main = "done" /\ pc'.passengers = pc.passengers /\ pc'.scanners = pc.scanners
         /\ sem' \in Semaphores
         /\ sem'.main = sem.main /\ sem'.passengers = sem.passengers
         /\ sem'.scanners = sem.scanners
         /\ inUse' = inUse - 2
         /\ UNCHANGED <<passengersTxt, scannerIdTxt, lugWeightTxt, flight, copied, output,
                        length, filePointer, readPassengers, writeScannerId, bag, load>>
<1>1. pc \in Programs /\ sem \in Semaphores
  BY DEF Types, Programs, Semaphores
<1>2. /\ pc.main = "create" /\ pc' = [pc EXCEPT !.main = "done"] /\ sem' = sem
      /\ inUse' = inUse - 2
      /\ UNCHANGED <<passengersTxt, scannerIdTxt, lugWeightTxt, flight, copied, output, length,
                     filePointer, readPassengers, writeScannerId, bag, load>>
  BY DEF CreatePassengers, mainUnchanged, mainVars, passengersVars, scannersVars, fixed, Types
<1>3. /\ pc' \in Programs /\ pc'.main = "done" /\ pc'.passengers = pc.passengers
      /\ pc'.scanners = pc.scanners
  <2>1. "done" \in MainAt
    BY DEF MainAt
  <2> QED BY <1>1, <1>2, <2>1, MainMoves
<1>4. /\ sem' \in Semaphores /\ sem'.main = sem.main /\ sem'.passengers = sem.passengers
      /\ sem'.scanners = sem.scanners
  BY <1>1, <1>2
<1> QED BY <1>2, <1>3, <1>4

LEMMA OpensPassengers ==
  ASSUME Provided, Types, Turn, Entries, Present, OpenPassengers
  PROVE  /\ pc.main = "open" /\ pc' \in Programs
         /\ pc'.main = "copy" /\ pc'.passengers = pc.passengers /\ pc'.scanners = pc.scanners
         /\ sem' \in Semaphores
         /\ sem'.main = sem.main /\ sem'.passengers = sem.passengers
         /\ sem'.scanners = sem.scanners
         /\ inUse' = inUse + 1
         /\ UNCHANGED <<passengersTxt, scannerIdTxt, lugWeightTxt, flight, copied, output,
                        length, filePointer, readPassengers, writeScannerId, bag, load>>
<1>1. pc \in Programs /\ sem \in Semaphores
  BY DEF Types, Programs, Semaphores
<1>2. /\ pc.main = "open" /\ pc' = [pc EXCEPT !.main = "copy"] /\ sem' = sem
      /\ inUse' = inUse + 1
      /\ UNCHANGED <<passengersTxt, scannerIdTxt, lugWeightTxt, flight, copied, output, length,
                     filePointer, readPassengers, writeScannerId, bag, load>>
  BY NeverFails DEF OpenPassengers, OpenF, mainUnchanged, mainVars, passengersVars,
     scannersVars, fixed
<1>3. /\ pc' \in Programs /\ pc'.main = "copy" /\ pc'.passengers = pc.passengers
      /\ pc'.scanners = pc.scanners
  <2>1. "copy" \in MainAt
    BY DEF MainAt
  <2> QED BY <1>1, <1>2, <2>1, MainMoves
<1>4. /\ sem' \in Semaphores /\ sem'.main = sem.main /\ sem'.passengers = sem.passengers
      /\ sem'.scanners = sem.scanners
  BY <1>1, <1>2
<1> QED BY <1>2, <1>3, <1>4

LEMMA CopiesBag ==
  ASSUME Provided, Types, Turn, Entries, Present, CopyBag, copied < Len(flights[flight])
  PROVE  /\ pc.main = "copy" /\ pc' \in Programs
         /\ pc'.main = pc.main /\ pc'.passengers = pc.passengers /\ pc'.scanners = pc.scanners
         /\ sem' \in Semaphores
         /\ sem'.main = sem.main /\ sem'.passengers = sem.passengers
         /\ sem'.scanners = sem.scanners
         /\ passengersTxt' = File(Append(passengersTxt.contents, flights[flight][copied + 1]))
         /\ copied' = copied + 1
         /\ UNCHANGED <<scannerIdTxt, lugWeightTxt, inUse, flight, output, length, filePointer,
                        readPassengers, writeScannerId, bag, load>>
<1>1. pc \in Programs /\ sem \in Semaphores
  BY DEF Types, Programs, Semaphores
<1>2. /\ pc.main = "copy" /\ pc' = pc /\ sem' = sem
      /\ passengersTxt' = File(Append(passengersTxt.contents, flights[flight][copied + 1]))
      /\ copied' = copied + 1
      /\ UNCHANGED <<scannerIdTxt, lugWeightTxt, inUse, flight, output, length, filePointer,
                     readPassengers, writeScannerId, bag, load>>
  BY DEF CopyBag, CloseF, mainUnchanged, passengersVars, scannersVars, fixed
<1>3. /\ pc' \in Programs /\ pc'.main = pc.main /\ pc'.passengers = pc.passengers
      /\ pc'.scanners = pc.scanners
  BY <1>1, <1>2
<1>4. /\ sem' \in Semaphores /\ sem'.main = sem.main /\ sem'.passengers = sem.passengers
      /\ sem'.scanners = sem.scanners
  BY <1>1, <1>2
<1> QED BY <1>2, <1>3, <1>4

LEMMA BagsCopied ==
  ASSUME Provided, Types, Turn, Entries, Present, CopyBag, ~ (copied < Len(flights[flight]))
  PROVE  /\ pc.main = "copy" /\ pc' \in Programs
         /\ pc'.main = "handOver" /\ pc'.passengers = pc.passengers
         /\ pc'.scanners = pc.scanners
         /\ sem' \in Semaphores
         /\ sem'.main = sem.main /\ sem'.passengers = sem.passengers
         /\ sem'.scanners = sem.scanners
         /\ inUse' = inUse - 1
         /\ copied' = 0
         /\ UNCHANGED <<passengersTxt, scannerIdTxt, lugWeightTxt, flight, output, length,
                        filePointer, readPassengers, writeScannerId, bag, load>>
<1>1. pc \in Programs /\ sem \in Semaphores
  BY DEF Types, Programs, Semaphores
<1>2. /\ pc.main = "copy" /\ pc' = [pc EXCEPT !.main = "handOver"] /\ sem' = sem
      /\ inUse' = inUse - 1
      /\ copied' = 0
      /\ UNCHANGED <<passengersTxt, scannerIdTxt, lugWeightTxt, flight, output, length,
                     filePointer, readPassengers, writeScannerId, bag, load>>
  BY DEF CopyBag, CloseF, mainUnchanged, passengersVars, scannersVars, fixed
<1>3. /\ pc' \in Programs /\ pc'.main = "handOver" /\ pc'.passengers = pc.passengers
      /\ pc'.scanners = pc.scanners
  <2>1. "handOver" \in MainAt
    BY DEF MainAt
  <2> QED BY <1>1, <1>2, <2>1, MainMoves
<1>4. /\ sem' \in Semaphores /\ sem'.main = sem.main /\ sem'.passengers = sem.passengers
      /\ sem'.scanners = sem.scanners
  BY <1>1, <1>2
<1> QED BY <1>2, <1>3, <1>4

LEMMA HandsOver ==
  ASSUME Provided, Types, Turn, Entries, Present, HandOver
  PROVE  /\ pc.main = "handOver" /\ pc' \in Programs
         /\ pc'.main = "wait" /\ pc'.passengers = pc.passengers /\ pc'.scanners = pc.scanners
         /\ sem' \in Semaphores
         /\ sem'.main = sem.main /\ sem'.passengers = sem.passengers + 1
         /\ sem'.scanners = sem.scanners
         /\ UNCHANGED <<passengersTxt, scannerIdTxt, lugWeightTxt, inUse, flight, copied,
                        output, length, filePointer, readPassengers, writeScannerId, bag, load>>
<1>1. pc \in Programs /\ sem \in Semaphores
  BY DEF Types, Programs, Semaphores
<1>2. /\ pc.main = "handOver" /\ pc' = [pc EXCEPT !.main = "wait"]
      /\ sem' = [sem EXCEPT !.passengers = sem.passengers + 1]
      /\ UNCHANGED <<passengersTxt, scannerIdTxt, lugWeightTxt, inUse, flight, copied, output,
                     length, filePointer, readPassengers, writeScannerId, bag, load>>
  BY DEF HandOver, Ups, At, Up, files, mainVars, passengersVars, scannersVars, fixed
<1>3. /\ pc' \in Programs /\ pc'.main = "wait" /\ pc'.passengers = pc.passengers
      /\ pc'.scanners = pc.scanners
  <2>1. "wait" \in MainAt
    BY DEF MainAt
  <2> QED BY <1>1, <1>2, <2>1, MainMoves
<1>4. /\ sem' \in Semaphores /\ sem'.main = sem.main /\ sem'.passengers = sem.passengers + 1
      /\ sem'.scanners = sem.scanners
  <2>1. sem.passengers + 1 \in Nat
    BY <1>1, <1>2 DEF Semaphores
  <2> QED BY <1>1, <1>2, <2>1, PassengersSem
<1> QED BY <1>2, <1>3, <1>4

LEMMA GetsIds ==
  ASSUME Provided, Types, Turn, Entries, Present, AwaitIds
  PROVE  /\ pc.main = "wait" /\ pc' \in Programs
         /\ pc'.main = "openIds" /\ pc'.passengers = pc.passengers /\ pc'.scanners = pc.scanners
         /\ sem' \in Semaphores /\ sem.main > 0
         /\ sem'.main = sem.main - 1 /\ sem'.passengers = sem.passengers
         /\ sem'.scanners = sem.scanners
         /\ UNCHANGED <<passengersTxt, scannerIdTxt, lugWeightTxt, inUse, flight, copied,
                        output, length, filePointer, readPassengers, writeScannerId, bag, load>>
<1>1. pc \in Programs /\ sem \in Semaphores
  BY DEF Types, Programs, Semaphores
<1>2. /\ pc.main = "wait" /\ pc' = [pc EXCEPT !.main = "openIds"]
      /\ sem' = [sem EXCEPT !.main = sem.main - 1] /\ sem.main > 0
      /\ UNCHANGED <<passengersTxt, scannerIdTxt, lugWeightTxt, inUse, flight, copied, output,
                     length, filePointer, readPassengers, writeScannerId, bag, load>>
  BY DEF AwaitIds, Downs, At, Down, files, mainVars, passengersVars, scannersVars, fixed
<1>3. /\ pc' \in Programs /\ pc'.main = "openIds" /\ pc'.passengers = pc.passengers
      /\ pc'.scanners = pc.scanners
  <2>1. "openIds" \in MainAt
    BY DEF MainAt
  <2> QED BY <1>1, <1>2, <2>1, MainMoves
<1>4. /\ sem' \in Semaphores /\ sem'.main = sem.main - 1 /\ sem'.passengers = sem.passengers
      /\ sem'.scanners = sem.scanners
  <2>1. sem.main - 1 \in Nat
    BY <1>1, <1>2 DEF Semaphores
  <2> QED BY <1>1, <1>2, <2>1, MainSem
<1> QED BY <1>2, <1>3, <1>4

LEMMA OpensIds ==
  ASSUME Provided, Types, Turn, Entries, Present, OpenIds
  PROVE  /\ pc.main = "openIds" /\ pc' \in Programs
         /\ pc'.main = "copyIds" /\ pc'.passengers = pc.passengers /\ pc'.scanners = pc.scanners
         /\ sem' \in Semaphores
         /\ sem'.main = sem.main /\ sem'.passengers = sem.passengers
         /\ sem'.scanners = sem.scanners
         /\ inUse' = inUse + 1
         /\ output' = Append(output, <<>>)
         /\ UNCHANGED <<passengersTxt, scannerIdTxt, lugWeightTxt, flight, copied, length,
                        filePointer, readPassengers, writeScannerId, bag, load>>
<1>1. pc \in Programs /\ sem \in Semaphores
  BY DEF Types, Programs, Semaphores
<1>2. /\ pc.main = "openIds" /\ pc' = [pc EXCEPT !.main = "copyIds"] /\ sem' = sem
      /\ inUse' = inUse + 1
      /\ output' = Append(output, <<>>)
      /\ UNCHANGED <<passengersTxt, scannerIdTxt, lugWeightTxt, flight, copied, length,
                     filePointer, readPassengers, writeScannerId, bag, load>>
  BY NeverFails DEF OpenIds, OpenF, mainUnchanged, passengersVars, scannersVars, fixed
<1>3. /\ pc' \in Programs /\ pc'.main = "copyIds" /\ pc'.passengers = pc.passengers
      /\ pc'.scanners = pc.scanners
  <2>1. "copyIds" \in MainAt
    BY DEF MainAt
  <2> QED BY <1>1, <1>2, <2>1, MainMoves
<1>4. /\ sem' \in Semaphores /\ sem'.main = sem.main /\ sem'.passengers = sem.passengers
      /\ sem'.scanners = sem.scanners
  BY <1>1, <1>2
<1> QED BY <1>2, <1>3, <1>4

LEMMA CopiesId ==
  ASSUME Provided, Types, Turn, Entries, Present, CopyId, copied < Len(scannerIdTxt.contents)
  PROVE  /\ pc.main = "copyIds" /\ pc' \in Programs
         /\ pc'.main = pc.main /\ pc'.passengers = pc.passengers /\ pc'.scanners = pc.scanners
         /\ sem' \in Semaphores
         /\ sem'.main = sem.main /\ sem'.passengers = sem.passengers
         /\ sem'.scanners = sem.scanners
         /\ copied' = copied + 1
         /\ output' = [output EXCEPT ![flight] = Append(output[flight], scannerIdTxt.contents[copied + 1])]
         /\ UNCHANGED <<passengersTxt, scannerIdTxt, lugWeightTxt, inUse, flight, length,
                        filePointer, readPassengers, writeScannerId, bag, load>>
<1>1. pc \in Programs /\ sem \in Semaphores
  BY DEF Types, Programs, Semaphores
<1>2. /\ pc.main = "copyIds" /\ pc' = pc /\ sem' = sem
      /\ copied' = copied + 1
      /\ output' = [output EXCEPT ![flight] = Append(output[flight], scannerIdTxt.contents[copied + 1])]
      /\ UNCHANGED <<passengersTxt, scannerIdTxt, lugWeightTxt, inUse, flight, length,
                     filePointer, readPassengers, writeScannerId, bag, load>>
  BY DEF CopyId, CloseF, mainUnchanged, passengersVars, scannersVars, fixed
<1>3. /\ pc' \in Programs /\ pc'.main = pc.main /\ pc'.passengers = pc.passengers
      /\ pc'.scanners = pc.scanners
  BY <1>1, <1>2
<1>4. /\ sem' \in Semaphores /\ sem'.main = sem.main /\ sem'.passengers = sem.passengers
      /\ sem'.scanners = sem.scanners
  BY <1>1, <1>2
<1> QED BY <1>2, <1>3, <1>4

LEMMA IdsCopied ==
  ASSUME Provided, Types, Turn, Entries, Present, CopyId, ~ (copied < Len(scannerIdTxt.contents))
  PROVE  /\ pc.main = "copyIds" /\ pc' \in Programs
         /\ pc'.main = "handled" /\ pc'.passengers = pc.passengers /\ pc'.scanners = pc.scanners
         /\ sem' \in Semaphores
         /\ sem'.main = sem.main /\ sem'.passengers = sem.passengers
         /\ sem'.scanners = sem.scanners
         /\ inUse' = inUse - 1
         /\ copied' = 0
         /\ UNCHANGED <<passengersTxt, scannerIdTxt, lugWeightTxt, flight, output, length,
                        filePointer, readPassengers, writeScannerId, bag, load>>
<1>1. pc \in Programs /\ sem \in Semaphores
  BY DEF Types, Programs, Semaphores
<1>2. /\ pc.main = "copyIds" /\ pc' = [pc EXCEPT !.main = "handled"] /\ sem' = sem
      /\ inUse' = inUse - 1
      /\ copied' = 0
      /\ UNCHANGED <<passengersTxt, scannerIdTxt, lugWeightTxt, flight, output, length,
                     filePointer, readPassengers, writeScannerId, bag, load>>
  BY DEF CopyId, CloseF, mainUnchanged, passengersVars, scannersVars, fixed
<1>3. /\ pc' \in Programs /\ pc'.main = "handled" /\ pc'.passengers = pc.passengers
      /\ pc'.scanners = pc.scanners
  <2>1. "handled" \in MainAt
    BY DEF MainAt
  <2> QED BY <1>1, <1>2, <2>1, MainMoves
<1>4. /\ sem' \in Semaphores /\ sem'.main = sem.main /\ sem'.passengers = sem.passengers
      /\ sem'.scanners = sem.scanners
  BY <1>1, <1>2
<1> QED BY <1>2, <1>3, <1>4

LEMMA HandlesFlight ==
  ASSUME Provided, Types, Turn, Entries, Present, Handled
  PROVE  /\ pc.main = "handled" /\ pc' \in Programs
         /\ pc'.main = "create" /\ pc'.passengers = pc.passengers /\ pc'.scanners = pc.scanners
         /\ sem' \in Semaphores
         /\ sem'.main = sem.main /\ sem'.passengers = sem.passengers
         /\ sem'.scanners = sem.scanners
         /\ flight' = flight + 1
         /\ UNCHANGED <<passengersTxt, scannerIdTxt, lugWeightTxt, inUse, copied, output,
                        length, filePointer, readPassengers, writeScannerId, bag, load>>
<1>1. pc \in Programs /\ sem \in Semaphores
  BY DEF Types, Programs, Semaphores
<1>2. /\ pc.main = "handled" /\ pc' = [pc EXCEPT !.main = "create"]
      /\ sem' = [sem EXCEPT !.maincounter = sem.maincounter + 1]
      /\ flight' = flight + 1
      /\ UNCHANGED <<passengersTxt, scannerIdTxt, lugWeightTxt, inUse, copied, output, length,
                     filePointer, readPassengers, writeScannerId, bag, load>>
  BY DEF Handled, At, Up, files, passengersVars, scannersVars, fixed
<1>3. /\ pc' \in Programs /\ pc'.main = "create" /\ pc'.passengers = pc.passengers
      /\ pc'.scanners = pc.scanners
  <2>1. "create" \in MainAt
    BY DEF MainAt
  <2> QED BY <1>1, <1>2, <2>1, MainMoves
<1>4. /\ sem' \in Semaphores /\ sem'.main = sem.main /\ sem'.passengers = sem.passengers
      /\ sem'.scanners = sem.scanners
  <2>1. sem.maincounter + 1 \in Nat
    BY <1>1, <1>2 DEF Semaphores
  <2> QED BY <1>1, <1>2, <2>1, CounterSem
<1> QED BY <1>2, <1>3, <1>4

LEMMA Starts ==
  ASSUME Provided, Types, Turn, Entries, Present, Start
  PROVE  /\ pc.passengers = "start" /\ pc' \in Programs
         /\ pc'.main = pc.main /\ pc'.passengers = "flight" /\ pc'.scanners = pc.scanners
         /\ sem' \in Semaphores
         /\ sem'.main = sem.main /\ sem'.passengers = sem.passengers
         /\ sem'.scanners = sem.scanners
         /\ UNCHANGED <<passengersTxt, scannerIdTxt, lugWeightTxt, inUse, flight, copied,
                        output, length, filePointer, readPassengers, writeScannerId, bag, load>>
<1>1. pc \in Programs /\ sem \in Semaphores
  BY DEF Types, Programs, Semaphores
<1>2. /\ pc.passengers = "start" /\ pc' = [pc EXCEPT !.passengers = "flight"]
      /\ sem' = [sem EXCEPT !.maincounter = sem.maincounter + 1]
      /\ UNCHANGED <<passengersTxt, scannerIdTxt, lugWeightTxt, inUse, flight, copied, output,
                     length, filePointer, readPassengers, writeScannerId, bag, load>>
  BY DEF Start, Ups, At, Up, files, mainVars, passengersVars, scannersVars, fixed
<1>3. /\ pc' \in Programs /\ pc'.main = pc.main /\ pc'.passengers = "flight"
      /\ pc'.scanners = pc.scanners
  <2>1. "flight" \in PassengersAt
    BY DEF PassengersAt
  <2> QED BY <1>1, <1>2, <2>1, PassengersMove
<1>4. /\ sem' \in Semaphores /\ sem'.main = sem.main /\ sem'.passengers = sem.passengers
      /\ sem'.scanners = sem.scanners
  <2>1. sem.maincounter + 1 \in Nat
    BY <1>1, <1>2 DEF Semaphores
  <2> QED BY <1>1, <1>2, <2>1, CounterSem
<1> QED BY <1>2, <1>3, <1>4

LEMMA GetsFlight ==
  ASSUME Provided, Types, Turn, Entries, Present, AwaitFlight
  PROVE  /\ pc.passengers = "flight" /\ pc' \in Programs
         /\ pc'.main = pc.main /\ pc'.passengers = "createIds" /\ pc'.scanners = pc.scanners
         /\ sem' \in Semaphores /\ sem.passengers > 0
         /\ sem'.main = sem.main /\ sem'.passengers = sem.passengers - 1
         /\ sem'.scanners = sem.scanners
         /\ UNCHANGED <<passengersTxt, scannerIdTxt, lugWeightTxt, inUse, flight, copied,
                        output, length, filePointer, readPassengers, writeScannerId, bag, load>>
<1>1. pc \in Programs /\ sem \in Semaphores
  BY DEF Types, Programs, Semaphores
<1>2. /\ pc.passengers = "flight" /\ pc' = [pc EXCEPT !.passengers = "createIds"]
      /\ sem' = [sem EXCEPT !.passengers = sem.passengers - 1] /\ sem.passengers > 0
      /\ UNCHANGED <<passengersTxt, scannerIdTxt, lugWeightTxt, inUse, flight, copied, output,
                     length, filePointer, readPassengers, writeScannerId, bag, load>>
  BY DEF AwaitFlight, Downs, At, Down, files, mainVars, passengersVars, scannersVars, fixed
<1>3. /\ pc' \in Programs /\ pc'.main = pc.main /\ pc'.passengers = "createIds"
      /\ pc'.scanners = pc.scanners
  <2>1. "createIds" \in PassengersAt
    BY DEF PassengersAt
  <2> QED BY <1>1, <1>2, <2>1, PassengersMove
<1>4. /\ sem' \in Semaphores /\ sem'.main = sem.main /\ sem'.passengers = sem.passengers - 1
      /\ sem'.scanners = sem.scanners
  <2>1. sem.passengers - 1 \in Nat
    BY <1>1, <1>2 DEF Semaphores
  <2> QED BY <1>1, <1>2, <2>1, PassengersSem
<1> QED BY <1>2, <1>3, <1>4

LEMMA CreatesIds ==
  ASSUME Provided, Types, Turn, Entries, Present, CreateScannerId
  PROVE  /\ pc.passengers = "createIds" /\ pc' \in Programs
         /\ pc'.main = pc.main /\ pc'.passengers = "openBags" /\ pc'.scanners = pc.scanners
         /\ sem' \in Semaphores
         /\ sem'.main = sem.main /\ sem'.passengers = sem.passengers
         /\ sem'.scanners = sem.scanners
         /\ scannerIdTxt' = File(<<>>)
         /\ UNCHANGED <<passengersTxt, lugWeightTxt, inUse, flight, copied, output, length,
                        filePointer, readPassengers, writeScannerId, bag, load>>
<1>1. pc \in Programs /\ sem \in Semaphores
  BY DEF Types, Programs, Semaphores
<1>2. /\ pc.passengers = "createIds" /\ pc' = [pc EXCEPT !.passengers = "openBags"] /\ sem' = sem
      /\ scannerIdTxt' = File(<<>>)
      /\ UNCHANGED <<passengersTxt, lugWeightTxt, inUse, flight, copied, output, length,
                     filePointer, readPassengers, writeScannerId, bag, load>>
  BY DEF CreateScannerId, At, passengersUnchanged, mainVars, passengersVars, scannersVars, fixed
<1>3. /\ pc' \in Programs /\ pc'.main = pc.main /\ pc'.passengers = "openBags"
      /\ pc'.scanners = pc.scanners
  <2>1. "openBags" \in PassengersAt
    BY DEF PassengersAt
  <2> QED BY <1>1, <1>2, <2>1, PassengersMove
<1>4. /\ sem' \in Semaphores /\ sem'.main = sem.main /\ sem'.passengers = sem.passengers
      /\ sem'.scanners = sem.scanners
  BY <1>1, <1>2
<1> QED BY <1>2, <1>3, <1>4

LEMMA OpensBags ==
  ASSUME Provided, Types, Turn, Entries, Present, OpenBags
  PROVE  /\ pc.passengers = "openBags" /\ pc' \in Programs
         /\ pc'.main = pc.main /\ pc'.passengers = "length" /\ pc'.scanners = pc.scanners
         /\ sem' \in Semaphores
         /\ sem'.main = sem.main /\ sem'.passengers = sem.passengers
         /\ sem'.scanners = sem.scanners
         /\ inUse' = inUse + 1
         /\ UNCHANGED <<passengersTxt, scannerIdTxt, lugWeightTxt, flight, copied, output,
                        length, filePointer, readPassengers, writeScannerId, bag, load>>
<1>1. pc \in Programs /\ sem \in Semaphores
  BY DEF Types, Programs, Semaphores
<1>2. /\ pc.passengers = "openBags" /\ pc' = [pc EXCEPT !.passengers = "length"] /\ sem' = sem
      /\ inUse' = inUse + 1
      /\ UNCHANGED <<passengersTxt, scannerIdTxt, lugWeightTxt, flight, copied, output, length,
                     filePointer, readPassengers, writeScannerId, bag, load>>
  BY NeverFails DEF OpenBags, OpenF, passengersUnchanged, mainVars, passengersVars,
     scannersVars, fixed
<1>3. /\ pc' \in Programs /\ pc'.main = pc.main /\ pc'.passengers = "length"
      /\ pc'.scanners = pc.scanners
  <2>1. "length" \in PassengersAt
    BY DEF PassengersAt
  <2> QED BY <1>1, <1>2, <2>1, PassengersMove
<1>4. /\ sem' \in Semaphores /\ sem'.main = sem.main /\ sem'.passengers = sem.passengers
      /\ sem'.scanners = sem.scanners
  BY <1>1, <1>2
<1> QED BY <1>2, <1>3, <1>4

LEMMA GetsLength ==
  ASSUME Provided, Types, Turn, Entries, Present, GetFileLength
  PROVE  /\ pc.passengers = "length" /\ pc' \in Programs
         /\ pc'.main = pc.main /\ pc'.passengers = "reopen" /\ pc'.scanners = pc.scanners
         /\ sem' \in Semaphores
         /\ sem'.main = sem.main /\ sem'.passengers = sem.passengers
         /\ sem'.scanners = sem.scanners
         /\ inUse' = inUse - 1
         /\ length' = Len(passengersTxt.contents)
         /\ UNCHANGED <<passengersTxt, scannerIdTxt, lugWeightTxt, flight, copied, output,
                        filePointer, readPassengers, writeScannerId, bag, load>>
<1>1. pc \in Programs /\ sem \in Semaphores
  BY DEF Types, Programs, Semaphores
<1>2. /\ pc.passengers = "length" /\ pc' = [pc EXCEPT !.passengers = "reopen"] /\ sem' = sem
      /\ inUse' = inUse - 1
      /\ length' = Len(passengersTxt.contents)
      /\ UNCHANGED <<passengersTxt, scannerIdTxt, lugWeightTxt, flight, copied, output,
                     filePointer, readPassengers, writeScannerId, bag, load>>
  BY DEF GetFileLength, At, CloseF, passengersUnchanged, mainVars, scannersVars, fixed
<1>3. /\ pc' \in Programs /\ pc'.main = pc.main /\ pc'.passengers = "reopen"
      /\ pc'.scanners = pc.scanners
  <2>1. "reopen" \in PassengersAt
    BY DEF PassengersAt
  <2> QED BY <1>1, <1>2, <2>1, PassengersMove
<1>4. /\ sem' \in Semaphores /\ sem'.main = sem.main /\ sem'.passengers = sem.passengers
      /\ sem'.scanners = sem.scanners
  BY <1>1, <1>2
<1> QED BY <1>2, <1>3, <1>4

LEMMA Reopens ==
  ASSUME Provided, Types, Turn, Entries, Present, Reopen
  PROVE  /\ pc.passengers = "reopen" /\ pc' \in Programs
         /\ pc'.main = pc.main /\ pc'.passengers = "openLug" /\ pc'.scanners = pc.scanners
         /\ sem' \in Semaphores
         /\ sem'.main = sem.main /\ sem'.passengers = sem.passengers
         /\ sem'.scanners = sem.scanners
         /\ inUse' = inUse + 1
         /\ lugWeightTxt' = File(NoBag)
         /\ filePointer' = 0
         /\ readPassengers' = 0
         /\ UNCHANGED <<passengersTxt, scannerIdTxt, flight, copied, output, length,
                        writeScannerId, bag, load>>
<1>1. pc \in Programs /\ sem \in Semaphores
  BY DEF Types, Programs, Semaphores
<1>2. /\ pc.passengers = "reopen" /\ pc' = [pc EXCEPT !.passengers = "openLug"] /\ sem' = sem
      /\ inUse' = inUse + 1
      /\ lugWeightTxt' = File(NoBag)
      /\ filePointer' = 0
      /\ readPassengers' = 0
      /\ UNCHANGED <<passengersTxt, scannerIdTxt, flight, copied, output, length,
                     writeScannerId, bag, load>>
  BY NeverFails DEF Reopen, At, OpenF, passengersUnchanged, mainVars, scannersVars, fixed
<1>3. /\ pc' \in Programs /\ pc'.main = pc.main /\ pc'.passengers = "openLug"
      /\ pc'.scanners = pc.scanners
  <2>1. "openLug" \in PassengersAt
    BY DEF PassengersAt
  <2> QED BY <1>1, <1>2, <2>1, PassengersMove
<1>4. /\ sem' \in Semaphores /\ sem'.main = sem.main /\ sem'.passengers = sem.passengers
      /\ sem'.scanners = sem.scanners
  BY <1>1, <1>2
<1> QED BY <1>2, <1>3, <1>4

LEMMA OpensLug ==
  ASSUME Provided, Types, Turn, Entries, Present, OpenLug
  PROVE  /\ pc.passengers = "openLug" /\ pc' \in Programs
         /\ pc'.main = pc.main /\ pc'.passengers = "bag" /\ pc'.scanners = pc.scanners
         /\ sem' \in Semaphores
         /\ sem'.main = sem.main /\ sem'.passengers = sem.passengers
         /\ sem'.scanners = sem.scanners
         /\ inUse' = inUse + 1
         /\ UNCHANGED <<passengersTxt, scannerIdTxt, lugWeightTxt, flight, copied, output,
                        length, filePointer, readPassengers, writeScannerId, bag, load>>
<1>1. pc \in Programs /\ sem \in Semaphores
  BY DEF Types, Programs, Semaphores
<1>2. /\ pc.passengers = "openLug" /\ pc' = [pc EXCEPT !.passengers = "bag"] /\ sem' = sem
      /\ inUse' = inUse + 1
      /\ UNCHANGED <<passengersTxt, scannerIdTxt, lugWeightTxt, flight, copied, output, length,
                     filePointer, readPassengers, writeScannerId, bag, load>>
  BY NeverFails DEF OpenLug, OpenF, CloseF, passengersUnchanged, mainVars, scannersVars, fixed
<1>3. /\ pc' \in Programs /\ pc'.main = pc.main /\ pc'.passengers = "bag"
      /\ pc'.scanners = pc.scanners
  <2>1. "bag" \in PassengersAt
    BY DEF PassengersAt
  <2> QED BY <1>1, <1>2, <2>1, PassengersMove
<1>4. /\ sem' \in Semaphores /\ sem'.main = sem.main /\ sem'.passengers = sem.passengers
      /\ sem'.scanners = sem.scanners
  BY <1>1, <1>2
<1> QED BY <1>2, <1>3, <1>4

LEMMA WritesBag ==
  ASSUME Provided, Types, Turn, Entries, Present, NextBag, filePointer < length
  PROVE  /\ pc.passengers = "bag" /\ pc' \in Programs
         /\ pc'.main = pc.main /\ pc'.passengers = "offer" /\ pc'.scanners = pc.scanners
         /\ sem' \in Semaphores
         /\ sem'.main = sem.main /\ sem'.passengers = sem.passengers
         /\ sem'.scanners = sem.scanners
         /\ inUse' = inUse - 1
         /\ lugWeightTxt' = File([weight |-> Weight(filePointer + 1), end |-> filePointer + 1 = length])
         /\ filePointer' = filePointer + 1
         /\ UNCHANGED <<passengersTxt, scannerIdTxt, flight, copied, output, length,
                        readPassengers, writeScannerId, bag, load>>
<1>1. pc \in Programs /\ sem \in Semaphores
  BY DEF Types, Programs, Semaphores
<1>2. /\ pc.passengers = "bag" /\ pc' = [pc EXCEPT !.passengers = "offer"] /\ sem' = sem
      /\ inUse' = inUse - 1
      /\ lugWeightTxt' = File([weight |-> Weight(filePointer + 1), end |-> filePointer + 1 = length])
      /\ filePointer' = filePointer + 1
      /\ UNCHANGED <<passengersTxt, scannerIdTxt, flight, copied, output, length,
                     readPassengers, writeScannerId, bag, load>>
  BY DEF NextBag, CloseF, passengersUnchanged, mainVars, scannersVars, fixed, NextRead, Types,
     Entries, Closed
<1>3. /\ pc' \in Programs /\ pc'.main = pc.main /\ pc'.passengers = "offer"
      /\ pc'.scanners = pc.scanners
  <2>1. "offer" \in PassengersAt
    BY DEF PassengersAt
  <2> QED BY <1>1, <1>2, <2>1, PassengersMove
<1>4. /\ sem' \in Semaphores /\ sem'.main = sem.main /\ sem'.passengers = sem.passengers
      /\ sem'.scanners = sem.scanners
  BY <1>1, <1>2
<1> QED BY <1>2, <1>3, <1>4

LEMMA NoMoreBags ==
  ASSUME Provided, Types, Turn, Entries, Present, NextBag, ~ (filePointer < length)
  PROVE  /\ pc.passengers = "bag" /\ pc' \in Programs
         /\ pc'.main = pc.main /\ pc'.passengers = "over" /\ pc'.scanners = pc.scanners
         /\ sem' \in Semaphores
         /\ sem'.main = sem.main /\ sem'.passengers = sem.passengers
         /\ sem'.scanners = sem.scanners
         /\ UNCHANGED <<passengersTxt, scannerIdTxt, lugWeightTxt, inUse, flight, copied,
                        output, length, filePointer, readPassengers, writeScannerId, bag, load>>
<1>1. pc \in Programs /\ sem \in Semaphores
  BY DEF Types, Programs, Semaphores
<1>2. /\ pc.passengers = "bag" /\ pc' = [pc EXCEPT !.passengers = "over"] /\ sem' = sem
      /\ UNCHANGED <<passengersTxt, scannerIdTxt, lugWeightTxt, inUse, flight, copied, output,
                     length, filePointer, readPassengers, writeScannerId, bag, load>>
  BY DEF NextBag, CloseF, passengersUnchanged, mainVars, scannersVars, fixed, NextRead, Types,
     Entries, Closed
<1>3. /\ pc' \in Programs /\ pc'.main = pc.main /\ pc'.passengers = "over"
      /\ pc'.scanners = pc.scanners
  <2>1. "over" \in PassengersAt
    BY DEF PassengersAt
  <2> QED BY <1>1, <1>2, <2>1, PassengersMove
<1>4. /\ sem' \in Semaphores /\ sem'.main = sem.main /\ sem'.passengers = sem.passengers
      /\ sem'.scanners = sem.scanners
  BY <1>1, <1>2
<1> QED BY <1>2, <1>3, <1>4

LEMMA Offers ==
  ASSUME Provided, Types, Turn, Entries, Present, Offer
  PROVE  /\ pc.passengers = "offer" /\ pc' \in Programs
         /\ pc'.main = pc.main /\ pc'.passengers = "await" /\ pc'.scanners = pc.scanners
         /\ sem' \in Semaphores
         /\ sem'.main = sem.main /\ sem'.passengers = sem.passengers
         /\ sem'.scanners = sem.scanners + 1
         /\ UNCHANGED <<passengersTxt, scannerIdTxt, lugWeightTxt, inUse, flight, copied,
                        output, length, filePointer, readPassengers, writeScannerId, bag, load>>
<1>1. pc \in Programs /\ sem \in Semaphores
  BY DEF Types, Programs, Semaphores
<1>2. /\ pc.passengers = "offer" /\ pc' = [pc EXCEPT !.passengers = "await"]
      /\ sem' = [sem EXCEPT !.scanners = sem.scanners + 1]
      /\ UNCHANGED <<passengersTxt, scannerIdTxt, lugWeightTxt, inUse, flight, copied, output,
                     length, filePointer, readPassengers, writeScannerId, bag, load>>
  BY DEF Offer, Ups, At, Up, files, mainVars, passengersVars, scannersVars, fixed
<1>3. /\ pc' \in Programs /\ pc'.main = pc.main /\ pc'.passengers = "await"
      /\ pc'.scanners = pc.scanners
  <2>1. "await" \in PassengersAt
    BY DEF PassengersAt
  <2> QED BY <1>1, <1>2, <2>1, PassengersMove
<1>4. /\ sem' \in Semaphores /\ sem'.main = sem.main /\ sem'.passengers = sem.passengers
      /\ sem'.scanners = sem.scanners + 1
  <2>1. sem.scanners + 1 \in Nat
    BY <1>1, <1>2 DEF Semaphores
  <2> QED BY <1>1, <1>2, <2>1, ScannersSem
<1> QED BY <1>2, <1>3, <1>4

LEMMA GetsScan ==
  ASSUME Provided, Types, Turn, Entries, Present, AwaitScan
  PROVE  /\ pc.passengers = "await" /\ pc' \in Programs
         /\ pc'.main = pc.main /\ pc'.passengers = "createLug" /\ pc'.scanners = pc.scanners
         /\ sem' \in Semaphores /\ sem.passengers > 0
         /\ sem'.main = sem.main /\ sem'.passengers = sem.passengers - 1
         /\ sem'.scanners = sem.scanners
         /\ UNCHANGED <<passengersTxt, scannerIdTxt, lugWeightTxt, inUse, flight, copied,
                        output, length, filePointer, readPassengers, writeScannerId, bag, load>>
<1>1. pc \in Programs /\ sem \in Semaphores
  BY DEF Types, Programs, Semaphores
<1>2. /\ pc.passengers = "await" /\ pc' = [pc EXCEPT !.passengers = "createLug"]
      /\ sem' = [sem EXCEPT !.passengers = sem.passengers - 1] /\ sem.passengers > 0
      /\ UNCHANGED <<passengersTxt, scannerIdTxt, lugWeightTxt, inUse, flight, copied, output,
                     length, filePointer, readPassengers, writeScannerId, bag, load>>
  BY DEF AwaitScan, Downs, At, Down, files, mainVars, passengersVars, scannersVars, fixed
<1>3. /\ pc' \in Programs /\ pc'.main = pc.main /\ pc'.passengers = "createLug"
      /\ pc'.scanners = pc.scanners
  <2>1. "createLug" \in PassengersAt
    BY DEF PassengersAt
  <2> QED BY <1>1, <1>2, <2>1, PassengersMove
<1>4. /\ sem' \in Semaphores /\ sem'.main = sem.main /\ sem'.passengers = sem.passengers - 1
      /\ sem'.scanners = sem.scanners
  <2>1. sem.passengers - 1 \in Nat
    BY <1>1, <1>2 DEF Semaphores
  <2> QED BY <1>1, <1>2, <2>1, PassengersSem
<1> QED BY <1>2, <1>3, <1>4

LEMMA CreatesLug ==
  ASSUME Provided, Types, Turn, Entries, Present, CreateLug
  PROVE  /\ pc.passengers = "createLug" /\ pc' \in Programs
         /\ pc'.main = pc.main /\ pc'.passengers = "openLug" /\ pc'.scanners = pc.scanners
         /\ sem' \in Semaphores
         /\ sem'.main = sem.main /\ sem'.passengers = sem.passengers
         /\ sem'.scanners = sem.scanners
         /\ lugWeightTxt' = File(NoBag)
         /\ UNCHANGED <<passengersTxt, scannerIdTxt, inUse, flight, copied, output, length,
                        filePointer, readPassengers, writeScannerId, bag, load>>
<1>1. pc \in Programs /\ sem \in Semaphores
  BY DEF Types, Programs, Semaphores
<1>2. /\ pc.passengers = "createLug" /\ pc' = [pc EXCEPT !.passengers = "openLug"] /\ sem' = sem
      /\ lugWeightTxt' = File(NoBag)
      /\ UNCHANGED <<passengersTxt, scannerIdTxt, inUse, flight, copied, output, length,
                     filePointer, readPassengers, writeScannerId, bag, load>>
  BY DEF CreateLug, At, passengersUnchanged, mainVars, passengersVars, scannersVars, fixed
<1>3. /\ pc' \in Programs /\ pc'.main = pc.main /\ pc'.passengers = "openLug"
      /\ pc'.scanners = pc.scanners
  <2>1. "openLug" \in PassengersAt
    BY DEF PassengersAt
  <2> QED BY <1>1, <1>2, <2>1, PassengersMove
<1>4. /\ sem' \in Semaphores /\ sem'.main = sem.main /\ sem'.passengers = sem.passengers
      /\ sem'.scanners = sem.scanners
  BY <1>1, <1>2
<1> QED BY <1>2, <1>3, <1>4

LEMMA EndsFlight ==
  ASSUME Provided, Types, Turn, Entries, Present, FlightOver
  PROVE  /\ pc.passengers = "over" /\ pc' \in Programs
         /\ pc'.main = pc.main /\ pc'.passengers = "flight" /\ pc'.scanners = pc.scanners
         /\ sem' \in Semaphores
         /\ sem'.main = sem.main + 1 /\ sem'.passengers = sem.passengers
         /\ sem'.scanners = sem.scanners
         /\ UNCHANGED <<passengersTxt, scannerIdTxt, lugWeightTxt, inUse, flight, copied,
                        output, length, filePointer, readPassengers, writeScannerId, bag, load>>
<1>1. pc \in Programs /\ sem \in Semaphores
  BY DEF Types, Programs, Semaphores
<1>2. /\ pc.passengers = "over" /\ pc' = [pc EXCEPT !.passengers = "flight"]
      /\ sem' = [sem EXCEPT !.main = sem.main + 1]
      /\ UNCHANGED <<passengersTxt, scannerIdTxt, lugWeightTxt, inUse, flight, copied, output,
                     length, filePointer, readPassengers, writeScannerId, bag, load>>
  BY DEF FlightOver, Ups, At, Up, files, mainVars, passengersVars, scannersVars, fixed
<1>3. /\ pc' \in Programs /\ pc'.main = pc.main /\ pc'.passengers = "flight"
      /\ pc'.scanners = pc.scanners
  <2>1. "flight" \in PassengersAt
    BY DEF PassengersAt
  <2> QED BY <1>1, <1>2, <2>1, PassengersMove
<1>4. /\ sem' \in Semaphores /\ sem'.main = sem.main + 1 /\ sem'.passengers = sem.passengers
      /\ sem'.scanners = sem.scanners
  <2>1. sem.main + 1 \in Nat
    BY <1>1, <1>2 DEF Semaphores
  <2> QED BY <1>1, <1>2, <2>1, MainSem
<1> QED BY <1>2, <1>3, <1>4

LEMMA GetsMain ==
  ASSUME Provided, Types, Turn, Entries, Present, AwaitMain
  PROVE  /\ pc.scanners = "flight" /\ pc' \in Programs
         /\ pc'.main = pc.main /\ pc'.passengers = pc.passengers /\ pc'.scanners = "openIds"
         /\ sem' \in Semaphores /\ sem.maincounter > 0
         /\ sem'.main = sem.main /\ sem'.passengers = sem.passengers
         /\ sem'.scanners = sem.scanners
         /\ UNCHANGED <<passengersTxt, scannerIdTxt, lugWeightTxt, inUse, flight, copied,
                        output, length, filePointer, readPassengers, writeScannerId, bag, load>>
<1>1. pc \in Programs /\ sem \in Semaphores
  BY DEF Types, Programs, Semaphores
<1>2. /\ pc.scanners = "flight" /\ pc' = [pc EXCEPT !.scanners = "openIds"]
      /\ sem' = [sem EXCEPT !.maincounter = sem.maincounter - 1] /\ sem.maincounter > 0
      /\ UNCHANGED <<passengersTxt, scannerIdTxt, lugWeightTxt, inUse, flight, copied, output,
                     length, filePointer, readPassengers, writeScannerId, bag, load>>
  BY DEF AwaitMain, Downs, At, Down, files, mainVars, passengersVars, scannersVars, fixed
<1>3. /\ pc' \in Programs /\ pc'.main = pc.main /\ pc'.passengers = pc.passengers
      /\ pc'.scanners = "openIds"
  <2>1. "openIds" \in ScannersAt
    BY DEF ScannersAt
  <2> QED BY <1>1, <1>2, <2>1, ScannersMove
<1>4. /\ sem' \in Semaphores /\ sem'.main = sem.main /\ sem'.passengers = sem.passengers
      /\ sem'.scanners = sem.scanners
  <2>1. sem.maincounter - 1 \in Nat
    BY <1>1, <1>2 DEF Semaphores
  <2> QED BY <1>1, <1>2, <2>1, CounterSem
<1> QED BY <1>2, <1>3, <1>4

LEMMA OpensScannerId ==
  ASSUME Provided, Types, Turn, Entries, Present, OpenScannerId
  PROVE  /\ pc.scanners = "openIds" /\ pc' \in Programs
         /\ pc'.main = pc.main /\ pc'.passengers = pc.passengers /\ pc'.scanners = "scan"
         /\ sem' \in Semaphores
         /\ sem'.main = sem.main /\ sem'.passengers = sem.passengers
         /\ sem'.scanners = sem.scanners
         /\ inUse' = inUse + 1
         /\ writeScannerId' = 0
         /\ UNCHANGED <<passengersTxt, scannerIdTxt, lugWeightTxt, flight, copied, output,
                        length, filePointer, readPassengers, bag, load>>
<1>1. pc \in Programs /\ sem \in Semaphores
  BY DEF Types, Programs, Semaphores
<1>2. /\ pc.scanners = "openIds" /\ pc' = [pc EXCEPT !.scanners = "scan"] /\ sem' = sem
      /\ inUse' = inUse + 1
      /\ writeScannerId' = 0
      /\ UNCHANGED <<passengersTxt, scannerIdTxt, lugWeightTxt, flight, copied, output, length,
                     filePointer, readPassengers, bag, load>>
  BY NeverFails DEF OpenScannerId, OpenF, scannersUnchanged, mainVars, passengersVars, fixed
<1>3. /\ pc' \in Programs /\ pc'.main = pc.main /\ pc'.passengers = pc.passengers
      /\ pc'.scanners = "scan"
  <2>1. "scan" \in ScannersAt
    BY DEF ScannersAt
  <2> QED BY <1>1, <1>2, <2>1, ScannersMove
<1>4. /\ sem' \in Semaphores /\ sem'.main = sem.main /\ sem'.passengers = sem.passengers
      /\ sem'.scanners = sem.scanners
  BY <1>1, <1>2
<1> QED BY <1>2, <1>3, <1>4

LEMMA GetsBag ==
  ASSUME Provided, Types, Turn, Entries, Present, AwaitBag
  PROVE  /\ pc.scanners = "scan" /\ pc' \in Programs
         /\ pc'.main = pc.main /\ pc'.passengers = pc.passengers /\ pc'.scanners = "openLug"
         /\ sem' \in Semaphores /\ sem.scanners > 0
         /\ sem'.main = sem.main /\ sem'.passengers = sem.passengers
         /\ sem'.scanners = sem.scanners - 1
         /\ UNCHANGED <<passengersTxt, scannerIdTxt, lugWeightTxt, inUse, flight, copied,
                        output, length, filePointer, readPassengers, writeScannerId, bag, load>>
<1>1. pc \in Programs /\ sem \in Semaphores
  BY DEF Types, Programs, Semaphores
<1>2. /\ pc.scanners = "scan" /\ pc' = [pc EXCEPT !.scanners = "openLug"]
      /\ sem' = [sem EXCEPT !.scanners = sem.scanners - 1] /\ sem.scanners > 0
      /\ UNCHANGED <<passengersTxt, scannerIdTxt, lugWeightTxt, inUse, flight, copied, output,
                     length, filePointer, readPassengers, writeScannerId, bag, load>>
  BY DEF AwaitBag, Downs, At, Down, files, mainVars, passengersVars, scannersVars, fixed
<1>3. /\ pc' \in Programs /\ pc'.main = pc.main /\ pc'.passengers = pc.passengers
      /\ pc'.scanners = "openLug"
  <2>1. "openLug" \in ScannersAt
    BY DEF ScannersAt
  <2> QED BY <1>1, <1>2, <2>1, ScannersMove
<1>4. /\ sem' \in Semaphores /\ sem'.main = sem.main /\ sem'.passengers = sem.passengers
      /\ sem'.scanners = sem.scanners - 1
  <2>1. sem.scanners - 1 \in Nat
    BY <1>1, <1>2 DEF Semaphores
  <2> QED BY <1>1, <1>2, <2>1, ScannersSem
<1> QED BY <1>2, <1>3, <1>4

LEMMA OpensLugWeight ==
  ASSUME Provided, Types, Turn, Entries, Present, OpenLugWeight
  PROVE  /\ pc.scanners = "openLug" /\ pc' \in Programs
         /\ pc'.main = pc.main /\ pc'.passengers = pc.passengers /\ pc'.scanners = "read"
         /\ sem' \in Semaphores
         /\ sem'.main = sem.main /\ sem'.passengers = sem.passengers
         /\ sem'.scanners = sem.scanners
         /\ inUse' = inUse + 1
         /\ UNCHANGED <<passengersTxt, scannerIdTxt, lugWeightTxt, flight, copied, output,
                        length, filePointer, readPassengers, writeScannerId, bag, load>>
<1>1. pc \in Programs /\ sem \in Semaphores
  BY DEF Types, Programs, Semaphores
<1>2. /\ pc.scanners = "openLug" /\ pc' = [pc EXCEPT !.scanners = "read"] /\ sem' = sem
      /\ inUse' = inUse + 1
      /\ UNCHANGED <<passengersTxt, scannerIdTxt, lugWeightTxt, flight, copied, output, length,
                     filePointer, readPassengers, writeScannerId, bag, load>>
  BY NeverFails DEF OpenLugWeight, OpenF, CloseIds, scannersUnchanged, mainVars,
     passengersVars, scannersVars, fixed
<1>3. /\ pc' \in Programs /\ pc'.main = pc.main /\ pc'.passengers = pc.passengers
      /\ pc'.scanners = "read"
  <2>1. "read" \in ScannersAt
    BY DEF ScannersAt
  <2> QED BY <1>1, <1>2, <2>1, ScannersMove
<1>4. /\ sem' \in Semaphores /\ sem'.main = sem.main /\ sem'.passengers = sem.passengers
      /\ sem'.scanners = sem.scanners
  BY <1>1, <1>2
<1> QED BY <1>2, <1>3, <1>4

LEMMA ReadsBag ==
  ASSUME Provided, Types, Turn, Entries, Present, ReadLugWeight
  PROVE  /\ pc.scanners = "read" /\ pc' \in Programs
         /\ pc'.main = pc.main /\ pc'.passengers = pc.passengers /\ pc'.scanners = "choose"
         /\ sem' \in Semaphores
         /\ sem'.main = sem.main /\ sem'.passengers = sem.passengers
         /\ sem'.scanners = sem.scanners
         /\ inUse' = inUse - 1
         /\ bag' = lugWeightTxt.contents
         /\ UNCHANGED <<passengersTxt, scannerIdTxt, lugWeightTxt, flight, copied, output,
                        length, filePointer, readPassengers, writeScannerId, load>>
<1>1. pc \in Programs /\ sem \in Semaphores
  BY DEF Types, Programs, Semaphores
<1>2. /\ pc.scanners = "read" /\ pc' = [pc EXCEPT !.scanners = "choose"] /\ sem' = sem
      /\ inUse' = inUse - 1
      /\ bag' = lugWeightTxt.contents
      /\ UNCHANGED <<passengersTxt, scannerIdTxt, lugWeightTxt, flight, copied, output, length,
                     filePointer, readPassengers, writeScannerId, load>>
  BY DEF ReadLugWeight, At, CloseF, scannersUnchanged, mainVars, passengersVars, fixed
<1>3. /\ pc' \in Programs /\ pc'.main = pc.main /\ pc'.passengers = pc.passengers
      /\ pc'.scanners = "choose"
  <2>1. "choose" \in ScannersAt
    BY DEF ScannersAt
  <2> QED BY <1>1, <1>2, <2>1, ScannersMove
<1>4. /\ sem' \in Semaphores /\ sem'.main = sem.main /\ sem'.passengers = sem.passengers
      /\ sem'.scanners = sem.scanners
  BY <1>1, <1>2
<1> QED BY <1>2, <1>3, <1>4

LEMMA ScansLast ==
  ASSUME Provided, Types, Turn, Entries, Present, Scan, bag.end
  PROVE  /\ pc.scanners = "choose" /\ pc' \in Programs
         /\ pc'.main = pc.main /\ pc'.passengers = pc.passengers /\ pc'.scanners = "close"
         /\ sem' \in Semaphores
         /\ sem'.main = sem.main /\ sem'.passengers = sem.passengers
         /\ sem'.scanners = sem.scanners
         /\ bag.weight # 0 => /\ scannerIdTxt' = File(WriteF(scannerIdTxt.contents, writeScannerId, Choose))
                            /\ writeScannerId' = writeScannerId + 1
         /\ bag.weight = 0 => scannerIdTxt' = scannerIdTxt /\ writeScannerId' = writeScannerId
         /\ writeScannerId # Closed /\ writeScannerId' \in Nat /\ ~ scannerIdTxt'.absent
         /\ load' = [load EXCEPT ![Choose] = load[Choose] + bag.weight]
         /\ UNCHANGED <<passengersTxt, lugWeightTxt, inUse, flight, copied, output, length,
                        filePointer, readPassengers, bag>>
<1>1. pc \in Programs /\ sem \in Semaphores
  BY DEF Types, Programs, Semaphores
<1>2. pc.scanners = "choose" /\ pc' = [pc EXCEPT !.scanners = "close"] /\ sem' = sem
  BY DEF Scan, At, scannersUnchanged
<1>3. writeScannerId \in Nat /\ writeScannerId # Closed /\ ~ scannerIdTxt.absent
  BY <1>2 DEF Types, Entries, Present, Closed
<1>4. /\ bag.weight # 0 => /\ scannerIdTxt' = File(WriteF(scannerIdTxt.contents, writeScannerId, Choose))
                         /\ writeScannerId' = writeScannerId + 1
      /\ bag.weight = 0 => scannerIdTxt' = scannerIdTxt /\ writeScannerId' = writeScannerId
  BY <1>3 DEF Scan
<1>5. writeScannerId' \in Nat /\ ~ scannerIdTxt'.absent
  BY <1>3, <1>4 DEF File
<1>6. load' = [load EXCEPT ![Choose] = load[Choose] + bag.weight]
      /\ UNCHANGED <<passengersTxt, lugWeightTxt, inUse, flight, copied, output, length,
                     filePointer, readPassengers, bag>>
  BY DEF Scan, scannersUnchanged, files, mainVars, passengersVars, scannersVars, fixed
<1>7. /\ pc' \in Programs /\ pc'.main = pc.main /\ pc'.passengers = pc.passengers
      /\ pc'.scanners = "close"
  <2>1. "close" \in ScannersAt
    BY DEF ScannersAt
  <2> QED BY <1>1, <1>2, <2>1, ScannersMove
<1>8. /\ sem' \in Semaphores /\ sem'.main = sem.main /\ sem'.passengers = sem.passengers
      /\ sem'.scanners = sem.scanners
  BY <1>1, <1>2
<1> QED BY <1>2, <1>3, <1>4, <1>5, <1>6, <1>7, <1>8

LEMMA Scans ==
  ASSUME Provided, Types, Turn, Entries, Present, Scan, ~ bag.end
  PROVE  /\ pc.scanners = "choose" /\ pc' \in Programs
         /\ pc'.main = pc.main /\ pc'.passengers = pc.passengers /\ pc'.scanners = "next"
         /\ sem' \in Semaphores
         /\ sem'.main = sem.main /\ sem'.passengers = sem.passengers
         /\ sem'.scanners = sem.scanners
         /\ bag.weight # 0 => /\ scannerIdTxt' = File(WriteF(scannerIdTxt.contents, writeScannerId, Choose))
                            /\ writeScannerId' = writeScannerId + 1
         /\ bag.weight = 0 => scannerIdTxt' = scannerIdTxt /\ writeScannerId' = writeScannerId
         /\ writeScannerId # Closed /\ writeScannerId' \in Nat /\ ~ scannerIdTxt'.absent
         /\ load' = [load EXCEPT ![Choose] = load[Choose] + bag.weight]
         /\ UNCHANGED <<passengersTxt, lugWeightTxt, inUse, flight, copied, output, length,
                        filePointer, readPassengers, bag>>
<1>1. pc \in Programs /\ sem \in Semaphores
  BY DEF Types, Programs, Semaphores
<1>2. pc.scanners = "choose" /\ pc' = [pc EXCEPT !.scanners = "next"] /\ sem' = sem
  BY DEF Scan, At, scannersUnchanged
<1>3. writeScannerId \in Nat /\ writeScannerId # Closed /\ ~ scannerIdTxt.absent
  BY <1>2 DEF Types, Entries, Present, Closed
<1>4. /\ bag.weight # 0 => /\ scannerIdTxt' = File(WriteF(scannerIdTxt.contents, writeScannerId, Choose))
                         /\ writeScannerId' = writeScannerId + 1
      /\ bag.weight = 0 => scannerIdTxt' = scannerIdTxt /\ writeScannerId' = writeScannerId
  BY <1>3 DEF Scan
<1>5. writeScannerId' \in Nat /\ ~ scannerIdTxt'.absent
  BY <1>3, <1>4 DEF File
<1>6. load' = [load EXCEPT ![Choose] = load[Choose] + bag.weight]
      /\ UNCHANGED <<passengersTxt, lugWeightTxt, inUse, flight, copied, output, length,
                     filePointer, readPassengers, bag>>
  BY DEF Scan, scannersUnchanged, files, mainVars, passengersVars, scannersVars, fixed
<1>7. /\ pc' \in Programs /\ pc'.main = pc.main /\ pc'.passengers = pc.passengers
      /\ pc'.scanners = "next"
  <2>1. "next" \in ScannersAt
    BY DEF ScannersAt
  <2> QED BY <1>1, <1>2, <2>1, ScannersMove
<1>8. /\ sem' \in Semaphores /\ sem'.main = sem.main /\ sem'.passengers = sem.passengers
      /\ sem'.scanners = sem.scanners
  BY <1>1, <1>2
<1> QED BY <1>2, <1>3, <1>4, <1>5, <1>6, <1>7, <1>8

LEMMA ClosesIds ==
  ASSUME Provided, Types, Turn, Entries, Present, CloseScannerId
  PROVE  /\ pc.scanners = "close" /\ pc' \in Programs
         /\ pc'.main = pc.main /\ pc'.passengers = pc.passengers /\ pc'.scanners = "last"
         /\ sem' \in Semaphores
         /\ sem'.main = sem.main /\ sem'.passengers = sem.passengers
         /\ sem'.scanners = sem.scanners
         /\ inUse' = inUse - 1
         /\ writeScannerId' = Closed
         /\ load' = [s \in 1 .. 3 |-> 0]
         /\ UNCHANGED <<passengersTxt, scannerIdTxt, lugWeightTxt, flight, copied, output,
                        length, filePointer, readPassengers, bag>>
<1>1. pc \in Programs /\ sem \in Semaphores
  BY DEF Types, Programs, Semaphores
<1>2. /\ pc.scanners = "close" /\ pc' = [pc EXCEPT !.scanners = "last"] /\ sem' = sem
      /\ inUse' = inUse - 1
      /\ writeScannerId' = Closed
      /\ load' = [s \in 1 .. 3 |-> 0]
      /\ UNCHANGED <<passengersTxt, scannerIdTxt, lugWeightTxt, flight, copied, output, length,
                     filePointer, readPassengers, bag>>
  BY DEF CloseScannerId, At, CloseIds, scannersUnchanged, mainVars, passengersVars, fixed,
     Types, Entries, Closed
<1>3. /\ pc' \in Programs /\ pc'.main = pc.main /\ pc'.passengers = pc.passengers
      /\ pc'.scanners = "last"
  <2>1. "last" \in ScannersAt
    BY DEF ScannersAt
  <2> QED BY <1>1, <1>2, <2>1, ScannersMove
<1>4. /\ sem' \in Semaphores /\ sem'.main = sem.main /\ sem'.passengers = sem.passengers
      /\ sem'.scanners = sem.scanners
  BY <1>1, <1>2
<1> QED BY <1>2, <1>3, <1>4

LEMMA TellsScanned ==
  ASSUME Provided, Types, Turn, Entries, Present, Scanned
  PROVE  /\ pc.scanners = "next" /\ pc' \in Programs
         /\ pc'.main = pc.main /\ pc'.passengers = pc.passengers /\ pc'.scanners = "scan"
         /\ sem' \in Semaphores
         /\ sem'.main = sem.main /\ sem'.passengers = sem.passengers + 1
         /\ sem'.scanners = sem.scanners
         /\ UNCHANGED <<passengersTxt, scannerIdTxt, lugWeightTxt, inUse, flight, copied,
                        output, length, filePointer, readPassengers, writeScannerId, bag, load>>
<1>1. pc \in Programs /\ sem \in Semaphores
  BY DEF Types, Programs, Semaphores
<1>2. /\ pc.scanners = "next" /\ pc' = [pc EXCEPT !.scanners = "scan"]
      /\ sem' = [sem EXCEPT !.passengers = sem.passengers + 1]
      /\ UNCHANGED <<passengersTxt, scannerIdTxt, lugWeightTxt, inUse, flight, copied, output,
                     length, filePointer, readPassengers, writeScannerId, bag, load>>
  BY DEF Scanned, Ups, At, Up, files, mainVars, passengersVars, scannersVars, fixed
<1>3. /\ pc' \in Programs /\ pc'.main = pc.main /\ pc'.passengers = pc.passengers
      /\ pc'.scanners = "scan"
  <2>1. "scan" \in ScannersAt
    BY DEF ScannersAt
  <2> QED BY <1>1, <1>2, <2>1, ScannersMove
<1>4. /\ sem' \in Semaphores /\ sem'.main = sem.main /\ sem'.passengers = sem.passengers + 1
      /\ sem'.scanners = sem.scanners
  <2>1. sem.passengers + 1 \in Nat
    BY <1>1, <1>2 DEF Semaphores
  <2> QED BY <1>1, <1>2, <2>1, PassengersSem
<1> QED BY <1>2, <1>3, <1>4

LEMMA TellsLast ==
  ASSUME Provided, Types, Turn, Entries, Present, LastScanned
  PROVE  /\ pc.scanners = "last" /\ pc' \in Programs
         /\ pc'.main = pc.main /\ pc'.passengers = pc.passengers /\ pc'.scanners = "flight"
         /\ sem' \in Semaphores
         /\ sem'.main = sem.main /\ sem'.passengers = sem.passengers + 1
         /\ sem'.scanners = sem.scanners
         /\ UNCHANGED <<passengersTxt, scannerIdTxt, lugWeightTxt, inUse, flight, copied,
                        output, length, filePointer, readPassengers, writeScannerId, bag, load>>
<1>1. pc \in Programs /\ sem \in Semaphores
  BY DEF Types, Programs, Semaphores
<1>2. /\ pc.scanners = "last" /\ pc' = [pc EXCEPT !.scanners = "flight"]
      /\ sem' = [sem EXCEPT !.passengers = sem.passengers + 1]
      /\ UNCHANGED <<passengersTxt, scannerIdTxt, lugWeightTxt, inUse, flight, copied, output,
                     length, filePointer, readPassengers, writeScannerId, bag, load>>
  BY DEF LastScanned, Ups, At, Up, files, mainVars, passengersVars, scannersVars, fixed
<1>3. /\ pc' \in Programs /\ pc'.main = pc.main /\ pc'.passengers = pc.passengers
      /\ pc'.scanners = "flight"
  <2>1. "flight" \in ScannersAt
    BY DEF ScannersAt
  <2> QED BY <1>1, <1>2, <2>1, ScannersMove
<1>4. /\ sem' \in Semaphores /\ sem'.main = sem.main /\ sem'.passengers = sem.passengers + 1
      /\ sem'.scanners = sem.scanners
  <2>1. sem.passengers + 1 \in Nat
    BY <1>1, <1>2 DEF Semaphores
  <2> QED BY <1>1, <1>2, <2>1, PassengersSem
<1> QED BY <1>2, <1>3, <1>4

-----------------------------------------------------------------------------
\* A step that keeps the flight keeps the types when its new values have them.
LEMMA TypesKept ==
  ASSUME Types, flights' = flights, slots' = slots, flight' = flight,
         pc' \in Programs, sem' \in Semaphores, inUse' \in Int,
         writeScannerId' \in Nat \cup {Closed}
  PROVE  Types'
  BY DEF Types, Programs, Semaphores

LEMMA ControlNext == Control /\ [Next]_vars => Control'
<1> SUFFICES ASSUME Control, [Next]_vars, Provided' PROVE Types' /\ Turn' /\ Entries' /\ Present'
  BY DEF Control
<1>1. UNCHANGED fixed /\ Types /\ Turn /\ Entries /\ Present /\ Provided
  BY FixedNext DEF fixed, Provided, Control
<1>2. flights' = flights /\ slots' = slots /\ Len(flights) \in Nat /\ flight \in Nat /\ flight >= 1
      /\ inUse \in Int /\ pc \in Programs /\ sem \in Semaphores
      /\ writeScannerId \in Nat \cup {Closed}
  BY <1>1 DEF fixed, Types, Programs, Semaphores
<1>3. pc.main \in MainAt /\ pc.passengers \in PassengersAt /\ pc.scanners \in ScannersAt
      /\ sem.main \in Nat /\ sem.passengers \in Nat /\ sem.scanners \in Nat
      /\ sem.maincounter \in Nat
  BY <1>2 DEF Programs, Semaphores
<1> USE <1>2, <1>3
<1>4. CASE CreatePassengers
  <2>1. CASE flight <= Len(flights)
    <3>1. Types'
      BY <1>1, <1>2, <1>4, <2>1, CreatesPassengers, TypesKept
    <3>2. Turn'
      BY <1>1, <1>4, <2>1, CreatesPassengers DEF Turn, Between, ScannersIdle, One
    <3>3. Entries'
      <4>1. MainHolds' = MainHolds /\ MainHolds \in Int
        BY <1>1, <1>4, <2>1, CreatesPassengers DEF MainHolds
      <4>2. PassengersHold' = PassengersHold /\ PassengersHold \in Int
        <5>1. Finished' <=> Finished
          BY <1>1, <1>4, <2>1, CreatesPassengers, Alone DEF Finished, Between
        <5>2. Handles' = Handles
          BY <1>1, <1>4, <2>1, CreatesPassengers DEF Handles
        <5> QED BY <1>1, <1>4, <2>1, CreatesPassengers, <3>1, <5>1, <5>2, Held, HeldNext
      <4>3. ScannersHold' = ScannersHold /\ ScannersHold \in Int
        BY <1>1, <1>4, <2>1, CreatesPassengers DEF ScannersHold, One, Closed, Entries
      <4> QED BY <1>1, <1>4, <2>1, CreatesPassengers, <4>1, <4>2, <4>3 DEF Entries, Closed
    <3>4. Present'
      BY <1>1, <1>4, <2>1, CreatesPassengers, FilePresent DEF Present, Turn, Between,
         ScannersIdle, One
    <3> QED BY <3>1, <3>2, <3>3, <3>4
  <2>2. CASE flight > Len(flights)
    <3>1. Types'
      BY <1>1, <1>2, <1>4, <2>2, EndsMain, TypesKept
    <3>2. Turn'
      BY <1>1, <1>4, <2>2, EndsMain DEF Turn, Between, ScannersIdle, One
    <3>3. Entries'
      <4>1. MainHolds' = MainHolds - 2 /\ MainHolds \in Int
        BY <1>1, <1>4, <2>2, EndsMain DEF MainHolds
      <4>2. PassengersHold' = PassengersHold /\ PassengersHold \in Int
        <5>1. Finished' <=> Finished
          BY <1>1, <1>4, <2>2, EndsMain, Alone DEF Finished, Between
        <5>2. Handles' = Handles
          BY <1>1, <1>4, <2>2, EndsMain DEF Handles
        <5> QED BY <1>1, <1>4, <2>2, EndsMain, <3>1, <5>1, <5>2, Held, HeldNext
      <4>3. ScannersHold' = ScannersHold /\ ScannersHold \in Int
        BY <1>1, <1>4, <2>2, EndsMain DEF ScannersHold, One, Closed, Entries
      <4> QED BY <1>1, <1>4, <2>2, EndsMain, <4>1, <4>2, <4>3 DEF Entries, Closed
    <3>4. Present'
      BY <1>1, <1>4, <2>2, EndsMain, FilePresent DEF Present, Turn, Between, ScannersIdle, One
    <3> QED BY <3>1, <3>2, <3>3, <3>4
  <2> QED BY <2>1, <2>2
<1>5. CASE OpenPassengers
  <2>1. Types'
    BY <1>1, <1>2, <1>5, OpensPassengers, TypesKept
  <2>2. Turn'
    BY <1>1, <1>5, OpensPassengers DEF Turn, Between, ScannersIdle, One
  <2>3. Entries'
    <3>1. MainHolds' = MainHolds + 1 /\ MainHolds \in Int
      BY <1>1, <1>5, OpensPassengers DEF MainHolds
    <3>2. PassengersHold' = PassengersHold /\ PassengersHold \in Int
      <4>1. Finished' <=> Finished
        BY <1>1, <1>5, OpensPassengers, Alone DEF Finished, Between
      <4>2. Handles' = Handles
        BY <1>1, <1>5, OpensPassengers DEF Handles
      <4> QED BY <1>1, <1>5, OpensPassengers, <2>1, <4>1, <4>2, Held, HeldNext
    <3>3. ScannersHold' = ScannersHold /\ ScannersHold \in Int
      BY <1>1, <1>5, OpensPassengers DEF ScannersHold, One, Closed, Entries
    <3> QED BY <1>1, <1>5, OpensPassengers, <3>1, <3>2, <3>3 DEF Entries, Closed
  <2>4. Present'
    BY <1>1, <1>5, OpensPassengers, FilePresent DEF Present, Turn, Between, ScannersIdle, One
  <2> QED BY <2>1, <2>2, <2>3, <2>4
<1>6. CASE CopyBag
  <2>1. CASE copied < Len(flights[flight])
    <3>1. Types'
      BY <1>1, <1>2, <1>6, <2>1, CopiesBag, TypesKept
    <3>2. Turn'
      BY <1>1, <1>6, <2>1, CopiesBag DEF Turn, Between, ScannersIdle, One
    <3>3. Entries'
      <4>1. MainHolds' = MainHolds /\ MainHolds \in Int
        BY <1>1, <1>6, <2>1, CopiesBag DEF MainHolds
      <4>2. PassengersHold' = PassengersHold /\ PassengersHold \in Int
        <5>1. Finished' <=> Finished
          BY <1>1, <1>6, <2>1, CopiesBag, Alone DEF Finished, Between
        <5>2. Handles' = Handles
          BY <1>1, <1>6, <2>1, CopiesBag DEF Handles
        <5> QED BY <1>1, <1>6, <2>1, CopiesBag, <3>1, <5>1, <5>2, Held, HeldNext
      <4>3. ScannersHold' = ScannersHold /\ ScannersHold \in Int
        BY <1>1, <1>6, <2>1, CopiesBag DEF ScannersHold, One, Closed, Entries
      <4> QED BY <1>1, <1>6, <2>1, CopiesBag, <4>1, <4>2, <4>3 DEF Entries, Closed
    <3>4. Present'
      BY <1>1, <1>6, <2>1, CopiesBag, FilePresent DEF Present, Turn, Between, ScannersIdle, One
    <3> QED BY <3>1, <3>2, <3>3, <3>4
  <2>2. CASE ~ (copied < Len(flights[flight]))
    <3>1. Types'
      <4>1. /\ pc' \in Programs /\ sem' \in Semaphores /\ inUse' = inUse - 1 /\ flight' = flight
            /\ writeScannerId' = writeScannerId
        BY <1>1, <1>6, <2>2, BagsCopied
      <4> QED BY <1>1, <4>1 DEF Types, Programs, Semaphores
    <3>2. Turn'
      BY <1>1, <1>6, <2>2, BagsCopied DEF Turn, Between, ScannersIdle, One
    <3>3. Entries'
      <4>1. MainHolds' = MainHolds - 1 /\ MainHolds \in Int
        BY <1>1, <1>6, <2>2, BagsCopied DEF MainHolds
      <4>2. PassengersHold' = PassengersHold /\ PassengersHold \in Int
        <5>1. Finished' <=> Finished
          BY <1>1, <1>6, <2>2, BagsCopied, Alone DEF Finished, Between
        <5>2. Handles' = Handles
          BY <1>1, <1>6, <2>2, BagsCopied DEF Handles
        <5> QED BY <1>1, <1>6, <2>2, BagsCopied, <3>1, <5>1, <5>2, Held, HeldNext
      <4>3. ScannersHold' = ScannersHold /\ ScannersHold \in Int
        BY <1>1, <1>6, <2>2, BagsCopied DEF ScannersHold, One, Closed, Entries
      <4> QED BY <1>1, <1>6, <2>2, BagsCopied, <4>1, <4>2, <4>3 DEF Entries, Closed
    <3>4. Present'
      BY <1>1, <1>6, <2>2, BagsCopied, FilePresent DEF Present, Turn, Between, ScannersIdle, One
    <3> QED BY <3>1, <3>2, <3>3, <3>4
  <2> QED BY <2>1, <2>2
<1>7. CASE HandOver
  <2>1. Types'
    BY <1>1, <1>2, <1>7, HandsOver, TypesKept
  <2>2. Turn'
    <3>1. sem.main = 0 /\ sem.passengers = 0 /\ sem.scanners = 0 /\ Between /\ ScannersIdle
      BY <1>1, <1>7, HandsOver, Alone
    <3>2. /\ pc'.main = "wait" /\ pc'.passengers = pc.passengers /\ pc'.scanners = pc.scanners
          /\ sem'.main = 0 /\ sem'.passengers = 1 /\ sem'.scanners = 0
      BY <1>1, <1>7, <3>1, HandsOver
    <3> QED BY <3>1, <3>2 DEF Turn, Between, ScannersIdle, One
  <2>3. Entries'
    <3>1. MainHolds' = MainHolds /\ MainHolds \in Int
      BY <1>1, <1>7, HandsOver DEF MainHolds
    <3>2. PassengersHold' = PassengersHold /\ PassengersHold \in Int
      <4>1. Finished' <=> Finished
        BY <1>1, <1>7, HandsOver, Alone DEF Finished, Between
      <4>2. Handles' = Handles
        BY <1>1, <1>7, HandsOver DEF Handles
      <4> QED BY <1>1, <1>7, HandsOver, <2>1, <4>1, <4>2, Held, HeldNext
    <3>3. ScannersHold' = ScannersHold /\ ScannersHold \in Int
      BY <1>1, <1>7, HandsOver DEF ScannersHold, One, Closed, Entries
    <3> QED BY <1>1, <1>7, HandsOver, <3>1, <3>2, <3>3 DEF Entries, Closed
  <2>4. Present'
    BY <1>1, <1>7, HandsOver, FilePresent DEF Present, Turn, Between, ScannersIdle, One
  <2> QED BY <2>1, <2>2, <2>3, <2>4
<1>8. CASE AwaitIds
  <2>1. Types'
    BY <1>1, <1>2, <1>8, GetsIds, TypesKept
  <2>2. Turn'
    <3>1. /\ sem.main = 1 /\ sem.passengers = 0 /\ sem.scanners = 0 /\ pc.main = "wait"
          /\ Between /\ ScannersIdle
      BY <1>1, <1>8, GetsIds, Alone DEF ScannersIdle
    <3> QED BY <1>1, <1>8, GetsIds, <3>1 DEF Turn, Between, ScannersIdle, One
  <2>3. Entries'
    <3>1. MainHolds' = MainHolds /\ MainHolds \in Int
      BY <1>1, <1>8, GetsIds DEF MainHolds
    <3>2. PassengersHold' = PassengersHold /\ PassengersHold \in Int
      <4>1. Finished /\ Finished'
        <5>1. Between /\ Between' /\ sem.main = 1 /\ pc'.main = "openIds"
          BY <1>1, <1>8, GetsIds, Alone DEF Between
        <5> QED BY <5>1 DEF Finished
      <4>2. Handles' = Handles
        BY <1>1, <1>8, GetsIds DEF Handles
      <4> QED BY <1>1, <1>8, GetsIds, <2>1, <4>1, <4>2, Held, HeldNext
    <3>3. ScannersHold' = ScannersHold /\ ScannersHold \in Int
      BY <1>1, <1>8, GetsIds DEF ScannersHold, One, Closed, Entries
    <3> QED BY <1>1, <1>8, GetsIds, <3>1, <3>2, <3>3 DEF Entries, Closed
  <2>4. Present'
    BY <1>1, <1>8, GetsIds, FilePresent DEF Present, Turn, Between, ScannersIdle, One
  <2> QED BY <2>1, <2>2, <2>3, <2>4
<1>9. CASE OpenIds
  <2>1. Types'
    BY <1>1, <1>2, <1>9, OpensIds, TypesKept
  <2>2. Turn'
    BY <1>1, <1>9, OpensIds DEF Turn, Between, ScannersIdle, One
  <2>3. Entries'
    <3>1. MainHolds' = MainHolds + 1 /\ MainHolds \in Int
      BY <1>1, <1>9, OpensIds DEF MainHolds
    <3>2. PassengersHold' = PassengersHold /\ PassengersHold \in Int
      <4>1. Finished' <=> Finished
        BY <1>1, <1>9, OpensIds, Alone DEF Finished, Between
      <4>2. Handles' = Handles
        BY <1>1, <1>9, OpensIds DEF Handles
      <4> QED BY <1>1, <1>9, OpensIds, <2>1, <4>1, <4>2, Held, HeldNext
    <3>3. ScannersHold' = ScannersHold /\ ScannersHold \in Int
      BY <1>1, <1>9, OpensIds DEF ScannersHold, One, Closed, Entries
    <3> QED BY <1>1, <1>9, OpensIds, <3>1, <3>2, <3>3 DEF Entries, Closed
  <2>4. Present'
    BY <1>1, <1>9, OpensIds, FilePresent DEF Present, Turn, Between, ScannersIdle, One
  <2> QED BY <2>1, <2>2, <2>3, <2>4
<1>10. CASE CopyId
  <2>1. CASE copied < Len(scannerIdTxt.contents)
    <3>1. Types'
      BY <1>1, <1>2, <1>10, <2>1, CopiesId, TypesKept
    <3>2. Turn'
      BY <1>1, <1>10, <2>1, CopiesId DEF Turn, Between, ScannersIdle, One
    <3>3. Entries'
      <4>1. MainHolds' = MainHolds /\ MainHolds \in Int
        BY <1>1, <1>10, <2>1, CopiesId DEF MainHolds
      <4>2. PassengersHold' = PassengersHold /\ PassengersHold \in Int
        <5>1. Finished' <=> Finished
          BY <1>1, <1>10, <2>1, CopiesId, Alone DEF Finished, Between
        <5>2. Handles' = Handles
          BY <1>1, <1>10, <2>1, CopiesId DEF Handles
        <5> QED BY <1>1, <1>10, <2>1, CopiesId, <3>1, <5>1, <5>2, Held, HeldNext
      <4>3. ScannersHold' = ScannersHold /\ ScannersHold \in Int
        BY <1>1, <1>10, <2>1, CopiesId DEF ScannersHold, One, Closed, Entries
      <4> QED BY <1>1, <1>10, <2>1, CopiesId, <4>1, <4>2, <4>3 DEF Entries, Closed
    <3>4. Present'
      BY <1>1, <1>10, <2>1, CopiesId, FilePresent DEF Present, Turn, Between, ScannersIdle, One
    <3> QED BY <3>1, <3>2, <3>3, <3>4
  <2>2. CASE ~ (copied < Len(scannerIdTxt.contents))
    <3>1. Types'
      BY <1>1, <1>2, <1>10, <2>2, IdsCopied, TypesKept
    <3>2. Turn'
      BY <1>1, <1>10, <2>2, IdsCopied DEF Turn, Between, ScannersIdle, One
    <3>3. Entries'
      <4>1. MainHolds' = MainHolds - 1 /\ MainHolds \in Int
        BY <1>1, <1>10, <2>2, IdsCopied DEF MainHolds
      <4>2. PassengersHold' = PassengersHold /\ PassengersHold \in Int
        <5>1. Finished' <=> Finished
          BY <1>1, <1>10, <2>2, IdsCopied, Alone DEF Finished, Between
        <5>2. Handles' = Handles
          BY <1>1, <1>10, <2>2, IdsCopied DEF Handles
        <5> QED BY <1>1, <1>10, <2>2, IdsCopied, <3>1, <5>1, <5>2, Held, HeldNext
      <4>3. ScannersHold' = ScannersHold /\ ScannersHold \in Int
        BY <1>1, <1>10, <2>2, IdsCopied DEF ScannersHold, One, Closed, Entries
      <4> QED BY <1>1, <1>10, <2>2, IdsCopied, <4>1, <4>2, <4>3 DEF Entries, Closed
    <3>4. Present'
      BY <1>1, <1>10, <2>2, IdsCopied, FilePresent DEF Present, Turn, Between, ScannersIdle, One
    <3> QED BY <3>1, <3>2, <3>3, <3>4
  <2> QED BY <2>1, <2>2
<1>11. CASE Handled
  <2>1. Types'
    <3>1. /\ pc' \in Programs /\ sem' \in Semaphores /\ inUse' = inUse /\ flight' = flight + 1
          /\ writeScannerId' = writeScannerId
      BY <1>1, <1>11, HandlesFlight
    <3>2. flight <= Len(flights)
      BY <1>1, <1>11, HandlesFlight DEF Present
    <3> QED BY <1>1, <3>1, <3>2 DEF Types, Programs, Semaphores
  <2>2. Turn'
    BY <1>1, <1>11, HandlesFlight DEF Turn, Between, ScannersIdle, One
  <2>3. Entries'
    <3>1. MainHolds' = MainHolds /\ MainHolds \in Int
      BY <1>1, <1>11, HandlesFlight DEF MainHolds
    <3>2. PassengersHold' = PassengersHold /\ PassengersHold \in Int
      <4>1. Finished /\ ~ Finished'
        BY <1>1, <1>11, HandlesFlight, Alone DEF Finished, Between
      <4>2. Handles = 0 /\ Handles' = 0
        BY <1>1, <1>11, HandlesFlight, Alone DEF Handles, Between
      <4> QED BY <1>1, <1>11, HandlesFlight, <2>1, <4>1, <4>2, Held, HeldNext
    <3>3. ScannersHold' = ScannersHold /\ ScannersHold \in Int
      BY <1>1, <1>11, HandlesFlight DEF ScannersHold, One, Closed, Entries
    <3> QED BY <1>1, <1>11, HandlesFlight, <3>1, <3>2, <3>3 DEF Entries, Closed
  <2>4. Present'
    BY <1>1, <1>11, HandlesFlight, FilePresent DEF Present, Turn, Between, ScannersIdle, One
  <2> QED BY <2>1, <2>2, <2>3, <2>4
<1>12. CASE Start
  <2>1. Types'
    BY <1>1, <1>2, <1>12, Starts, TypesKept
  <2>2. Turn'
    BY <1>1, <1>12, Starts DEF Turn, Between, ScannersIdle, One
  <2>3. Entries'
    <3>1. MainHolds' = MainHolds /\ MainHolds \in Int
      BY <1>1, <1>12, Starts DEF MainHolds
    <3>2. PassengersHold' = PassengersHold /\ PassengersHold \in Int
      <4>1. Finished' <=> Finished
        BY <1>1, <1>12, Starts, Alone DEF Finished, Between
      <4>2. Handles' = Handles
        BY <1>1, <1>12, Starts DEF Handles
      <4> QED BY <1>1, <1>12, Starts, <2>1, <4>1, <4>2, Held, HeldNext
    <3>3. ScannersHold' = ScannersHold /\ ScannersHold \in Int
      BY <1>1, <1>12, Starts DEF ScannersHold, One, Closed, Entries
    <3> QED BY <1>1, <1>12, Starts, <3>1, <3>2, <3>3 DEF Entries, Closed
  <2>4. Present'
    BY <1>1, <1>12, Starts, FilePresent DEF Present, Turn, Between, ScannersIdle, One
  <2> QED BY <2>1, <2>2, <2>3, <2>4
<1>13. CASE AwaitFlight
  <2>1. Types'
    BY <1>1, <1>2, <1>13, GetsFlight, TypesKept
  <2>2. Turn'
    <3>1. /\ sem.main = 0 /\ sem.passengers = 1 /\ sem.scanners = 0 /\ pc.main = "wait"
          /\ ScannersIdle
      BY <1>1, <1>13, GetsFlight, Alone DEF ScannersIdle
    <3> QED BY <1>1, <1>13, GetsFlight, <3>1 DEF Turn, Between, ScannersIdle, One
  <2>3. Entries'
    <3>1. MainHolds' = MainHolds /\ MainHolds \in Int
      BY <1>1, <1>13, GetsFlight DEF MainHolds
    <3>2. PassengersHold' = PassengersHold /\ PassengersHold \in Int
      <4>1. Finished' <=> Finished
        BY <1>1, <1>13, GetsFlight, Alone DEF Finished, Between
      <4>2. Handles' = Handles
        BY <1>1, <1>13, GetsFlight DEF Handles
      <4>3. ~ Finished
        BY <1>1, <1>13, GetsFlight, Alone DEF Finished, Between
      <4> QED BY <1>1, <1>13, GetsFlight, <2>1, <4>1, <4>2, <4>3, Held, HeldNext
    <3>3. ScannersHold' = ScannersHold /\ ScannersHold \in Int
      BY <1>1, <1>13, GetsFlight DEF ScannersHold, One, Closed, Entries
    <3> QED BY <1>1, <1>13, GetsFlight, <3>1, <3>2, <3>3 DEF Entries, Closed
  <2>4. Present'
    BY <1>1, <1>13, GetsFlight, FilePresent DEF Present, Turn, Between, ScannersIdle, One
  <2> QED BY <2>1, <2>2, <2>3, <2>4
<1>14. CASE CreateScannerId
  <2>1. Types'
    BY <1>1, <1>2, <1>14, CreatesIds, TypesKept
  <2>2. Turn'
    BY <1>1, <1>14, CreatesIds DEF Turn, Between, ScannersIdle, One
  <2>3. Entries'
    <3>1. MainHolds' = MainHolds /\ MainHolds \in Int
      BY <1>1, <1>14, CreatesIds DEF MainHolds
    <3>2. PassengersHold' = PassengersHold /\ PassengersHold \in Int
      <4>1. Finished' <=> Finished
        BY <1>1, <1>14, CreatesIds, Alone DEF Finished, Between
      <4>2. Handles' = Handles
        BY <1>1, <1>14, CreatesIds DEF Handles
      <4>3. ~ Finished
        BY <1>1, <1>14, CreatesIds, Alone DEF Finished, Between
      <4> QED BY <1>1, <1>14, CreatesIds, <2>1, <4>1, <4>2, <4>3, Held, HeldNext
    <3>3. ScannersHold' = ScannersHold /\ ScannersHold \in Int
      BY <1>1, <1>14, CreatesIds DEF ScannersHold, One, Closed, Entries
    <3> QED BY <1>1, <1>14, CreatesIds, <3>1, <3>2, <3>3 DEF Entries, Closed
  <2>4. Present'
    BY <1>1, <1>14, CreatesIds, FilePresent DEF Present, Turn, Between, ScannersIdle, One
  <2> QED BY <2>1, <2>2, <2>3, <2>4
<1>15. CASE OpenBags
  <2>1. Types'
    BY <1>1, <1>2, <1>15, OpensBags, TypesKept
  <2>2. Turn'
    BY <1>1, <1>15, OpensBags DEF Turn, Between, ScannersIdle, One
  <2>3. Entries'
    <3>1. MainHolds' = MainHolds /\ MainHolds \in Int
      BY <1>1, <1>15, OpensBags DEF MainHolds
    <3>2. PassengersHold' = PassengersHold + 1 /\ PassengersHold \in Int
      <4>1. Finished' <=> Finished
        BY <1>1, <1>15, OpensBags, Alone DEF Finished, Between
      <4>2. Handles' = Handles + 1
        BY <1>1, <1>15, OpensBags DEF Handles
      <4>3. ~ Finished
        BY <1>1, <1>15, OpensBags, Alone DEF Finished, Between
      <4> QED BY <1>1, <1>15, OpensBags, <2>1, <4>1, <4>2, <4>3, Held, HeldNext
    <3>3. ScannersHold' = ScannersHold /\ ScannersHold \in Int
      BY <1>1, <1>15, OpensBags DEF ScannersHold, One, Closed, Entries
    <3> QED BY <1>1, <1>15, OpensBags, <3>1, <3>2, <3>3 DEF Entries, Closed
  <2>4. Present'
    BY <1>1, <1>15, OpensBags, FilePresent DEF Present, Turn, Between, ScannersIdle, One
  <2> QED BY <2>1, <2>2, <2>3, <2>4
<1>16. CASE GetFileLength
  <2>1. Types'
    BY <1>1, <1>2, <1>16, GetsLength, TypesKept
  <2>2. Turn'
    BY <1>1, <1>16, GetsLength DEF Turn, Between, ScannersIdle, One
  <2>3. Entries'
    <3>1. MainHolds' = MainHolds /\ MainHolds \in Int
      BY <1>1, <1>16, GetsLength DEF MainHolds
    <3>2. PassengersHold' = PassengersHold - 1 /\ PassengersHold \in Int
      <4>1. Finished' <=> Finished
        BY <1>1, <1>16, GetsLength, Alone DEF Finished, Between
      <4>2. Handles' = Handles - 1
        BY <1>1, <1>16, GetsLength DEF Handles
      <4>3. ~ Finished
        BY <1>1, <1>16, GetsLength, Alone DEF Finished, Between
      <4> QED BY <1>1, <1>16, GetsLength, <2>1, <4>1, <4>2, <4>3, Held, HeldNext
    <3>3. ScannersHold' = ScannersHold /\ ScannersHold \in Int
      BY <1>1, <1>16, GetsLength DEF ScannersHold, One, Closed, Entries
    <3> QED BY <1>1, <1>16, GetsLength, <3>1, <3>2, <3>3 DEF Entries, Closed
  <2>4. Present'
    BY <1>1, <1>16, GetsLength, FilePresent DEF Present, Turn, Between, ScannersIdle, One
  <2> QED BY <2>1, <2>2, <2>3, <2>4
<1>17. CASE Reopen
  <2>1. Types'
    BY <1>1, <1>2, <1>17, Reopens, TypesKept
  <2>2. Turn'
    BY <1>1, <1>17, Reopens DEF Turn, Between, ScannersIdle, One
  <2>3. Entries'
    <3>1. MainHolds' = MainHolds /\ MainHolds \in Int
      BY <1>1, <1>17, Reopens DEF MainHolds
    <3>2. PassengersHold' = PassengersHold + 1 /\ PassengersHold \in Int
      <4>1. Finished' <=> Finished
        BY <1>1, <1>17, Reopens, Alone DEF Finished, Between
      <4>2. Handles' = Handles + 1
        BY <1>1, <1>17, Reopens DEF Handles
      <4>3. ~ Finished
        BY <1>1, <1>17, Reopens, Alone DEF Finished, Between
      <4> QED BY <1>1, <1>17, Reopens, <2>1, <4>1, <4>2, <4>3, Held, HeldNext
    <3>3. ScannersHold' = ScannersHold /\ ScannersHold \in Int
      BY <1>1, <1>17, Reopens DEF ScannersHold, One, Closed, Entries
    <3> QED BY <1>1, <1>17, Reopens, <3>1, <3>2, <3>3 DEF Entries, Closed
  <2>4. Present'
    BY <1>1, <1>17, Reopens, FilePresent DEF Present, Turn, Between, ScannersIdle, One
  <2> QED BY <2>1, <2>2, <2>3, <2>4
<1>18. CASE OpenLug
  <2>1. Types'
    BY <1>1, <1>2, <1>18, OpensLug, TypesKept
  <2>2. Turn'
    BY <1>1, <1>18, OpensLug DEF Turn, Between, ScannersIdle, One
  <2>3. Entries'
    <3>1. MainHolds' = MainHolds /\ MainHolds \in Int
      BY <1>1, <1>18, OpensLug DEF MainHolds
    <3>2. PassengersHold' = PassengersHold + 1 /\ PassengersHold \in Int
      <4>1. Finished' <=> Finished
        BY <1>1, <1>18, OpensLug, Alone DEF Finished, Between
      <4>2. Handles' = Handles + 1
        BY <1>1, <1>18, OpensLug DEF Handles
      <4>3. ~ Finished
        BY <1>1, <1>18, OpensLug, Alone DEF Finished, Between
      <4> QED BY <1>1, <1>18, OpensLug, <2>1, <4>1, <4>2, <4>3, Held, HeldNext
    <3>3. ScannersHold' = ScannersHold /\ ScannersHold \in Int
      BY <1>1, <1>18, OpensLug DEF ScannersHold, One, Closed, Entries
    <3> QED BY <1>1, <1>18, OpensLug, <3>1, <3>2, <3>3 DEF Entries, Closed
  <2>4. Present'
    BY <1>1, <1>18, OpensLug, FilePresent DEF Present, Turn, Between, ScannersIdle, One
  <2> QED BY <2>1, <2>2, <2>3, <2>4
<1>19. CASE NextBag
  <2>1. CASE filePointer < length
    <3>1. Types'
      BY <1>1, <1>2, <1>19, <2>1, WritesBag, TypesKept
    <3>2. Turn'
      BY <1>1, <1>19, <2>1, WritesBag DEF Turn, Between, ScannersIdle, One
    <3>3. Entries'
      <4>1. MainHolds' = MainHolds /\ MainHolds \in Int
        BY <1>1, <1>19, <2>1, WritesBag DEF MainHolds
      <4>2. PassengersHold' = PassengersHold - 1 /\ PassengersHold \in Int
        <5>1. Finished' <=> Finished
          BY <1>1, <1>19, <2>1, WritesBag, Alone DEF Finished, Between
        <5>2. Handles' = Handles - 1
          BY <1>1, <1>19, <2>1, WritesBag DEF Handles
        <5>3. ~ Finished
          BY <1>1, <1>19, <2>1, WritesBag, Alone DEF Finished, Between
        <5> QED BY <1>1, <1>19, <2>1, WritesBag, <3>1, <5>1, <5>2, <5>3, Held, HeldNext
      <4>3. ScannersHold' = ScannersHold /\ ScannersHold \in Int
        BY <1>1, <1>19, <2>1, WritesBag DEF ScannersHold, One, Closed, Entries
      <4> QED BY <1>1, <1>19, <2>1, WritesBag, <4>1, <4>2, <4>3 DEF Entries, Closed
    <3>4. Present'
      BY <1>1, <1>19, <2>1, WritesBag, FilePresent DEF Present, Turn, Between, ScannersIdle, One
    <3> QED BY <3>1, <3>2, <3>3, <3>4
  <2>2. CASE ~ (filePointer < length)
    <3>1. Types'
      BY <1>1, <1>2, <1>19, <2>2, NoMoreBags, TypesKept
    <3>2. Turn'
      BY <1>1, <1>19, <2>2, NoMoreBags DEF Turn, Between, ScannersIdle, One
    <3>3. Entries'
      <4>1. MainHolds' = MainHolds /\ MainHolds \in Int
        BY <1>1, <1>19, <2>2, NoMoreBags DEF MainHolds
      <4>2. PassengersHold' = PassengersHold /\ PassengersHold \in Int
        <5>1. Finished' <=> Finished
          BY <1>1, <1>19, <2>2, NoMoreBags, Alone DEF Finished, Between
        <5>2. Handles' = Handles
          BY <1>1, <1>19, <2>2, NoMoreBags DEF Handles
        <5>3. ~ Finished
          BY <1>1, <1>19, <2>2, NoMoreBags, Alone DEF Finished, Between
        <5> QED BY <1>1, <1>19, <2>2, NoMoreBags, <3>1, <5>1, <5>2, <5>3, Held, HeldNext
      <4>3. ScannersHold' = ScannersHold /\ ScannersHold \in Int
        BY <1>1, <1>19, <2>2, NoMoreBags DEF ScannersHold, One, Closed, Entries
      <4> QED BY <1>1, <1>19, <2>2, NoMoreBags, <4>1, <4>2, <4>3 DEF Entries, Closed
    <3>4. Present'
      BY <1>1, <1>19, <2>2, NoMoreBags, FilePresent DEF Present, Turn, Between, ScannersIdle,
         One
    <3> QED BY <3>1, <3>2, <3>3, <3>4
  <2> QED BY <2>1, <2>2
<1>20. CASE Offer
  <2>1. Types'
    BY <1>1, <1>2, <1>20, Offers, TypesKept
  <2>2. Turn'
    <3>1. /\ sem.main = 0 /\ sem.passengers = 0 /\ sem.scanners = 0 /\ pc.main = "wait"
          /\ ScannersIdle
      BY <1>1, <1>20, Offers, Alone DEF ScannersIdle
    <3> QED BY <1>1, <1>20, Offers, <3>1 DEF Turn, Between, ScannersIdle, One
  <2>3. Entries'
    <3>1. MainHolds' = MainHolds /\ MainHolds \in Int
      BY <1>1, <1>20, Offers DEF MainHolds
    <3>2. PassengersHold' = PassengersHold /\ PassengersHold \in Int
      <4>1. Finished' <=> Finished
        BY <1>1, <1>20, Offers, Alone DEF Finished, Between
      <4>2. Handles' = Handles
        BY <1>1, <1>20, Offers DEF Handles
      <4>3. ~ Finished
        BY <1>1, <1>20, Offers, Alone DEF Finished, Between
      <4> QED BY <1>1, <1>20, Offers, <2>1, <4>1, <4>2, <4>3, Held, HeldNext
    <3>3. ScannersHold' = ScannersHold /\ ScannersHold \in Int
      BY <1>1, <1>20, Offers DEF ScannersHold, One, Closed, Entries
    <3> QED BY <1>1, <1>20, Offers, <3>1, <3>2, <3>3 DEF Entries, Closed
  <2>4. Present'
    BY <1>1, <1>20, Offers, FilePresent DEF Present, Turn, Between, ScannersIdle, One
  <2> QED BY <2>1, <2>2, <2>3, <2>4
<1>21. CASE AwaitScan
  <2>1. Types'
    BY <1>1, <1>2, <1>21, GetsScan, TypesKept
  <2>2. Turn'
    <3>1. /\ sem.main = 0 /\ sem.passengers = 1 /\ sem.scanners = 0 /\ pc.main = "wait"
          /\ ScannersIdle
      BY <1>1, <1>21, GetsScan, Alone DEF ScannersIdle
    <3> QED BY <1>1, <1>21, GetsScan, <3>1 DEF Turn, Between, ScannersIdle, One
  <2>3. Entries'
    <3>1. MainHolds' = MainHolds /\ MainHolds \in Int
      BY <1>1, <1>21, GetsScan DEF MainHolds
    <3>2. PassengersHold' = PassengersHold /\ PassengersHold \in Int
      <4>1. Finished' <=> Finished
        BY <1>1, <1>21, GetsScan, Alone DEF Finished, Between
      <4>2. Handles' = Handles
        BY <1>1, <1>21, GetsScan DEF Handles
      <4>3. ~ Finished
        BY <1>1, <1>21, GetsScan, Alone DEF Finished, Between
      <4> QED BY <1>1, <1>21, GetsScan, <2>1, <4>1, <4>2, <4>3, Held, HeldNext
    <3>3. ScannersHold' = ScannersHold /\ ScannersHold \in Int
      BY <1>1, <1>21, GetsScan DEF ScannersHold, One, Closed, Entries
    <3> QED BY <1>1, <1>21, GetsScan, <3>1, <3>2, <3>3 DEF Entries, Closed
  <2>4. Present'
    BY <1>1, <1>21, GetsScan, FilePresent DEF Present, Turn, Between, ScannersIdle, One
  <2> QED BY <2>1, <2>2, <2>3, <2>4
<1>22. CASE CreateLug
  <2>1. Types'
    BY <1>1, <1>2, <1>22, CreatesLug, TypesKept
  <2>2. Turn'
    BY <1>1, <1>22, CreatesLug DEF Turn, Between, ScannersIdle, One
  <2>3. Entries'
    <3>1. MainHolds' = MainHolds /\ MainHolds \in Int
      BY <1>1, <1>22, CreatesLug DEF MainHolds
    <3>2. PassengersHold' = PassengersHold /\ PassengersHold \in Int
      <4>1. Finished' <=> Finished
        BY <1>1, <1>22, CreatesLug, Alone DEF Finished, Between
      <4>2. Handles' = Handles
        BY <1>1, <1>22, CreatesLug DEF Handles
      <4>3. ~ Finished
        BY <1>1, <1>22, CreatesLug, Alone DEF Finished, Between
      <4> QED BY <1>1, <1>22, CreatesLug, <2>1, <4>1, <4>2, <4>3, Held, HeldNext
    <3>3. ScannersHold' = ScannersHold /\ ScannersHold \in Int
      BY <1>1, <1>22, CreatesLug DEF ScannersHold, One, Closed, Entries
    <3> QED BY <1>1, <1>22, CreatesLug, <3>1, <3>2, <3>3 DEF Entries, Closed
  <2>4. Present'
    BY <1>1, <1>22, CreatesLug, FilePresent DEF Present, Turn, Between, ScannersIdle, One
  <2> QED BY <2>1, <2>2, <2>3, <2>4
<1>23. CASE FlightOver
  <2>1. Types'
    BY <1>1, <1>23, EndsFlight DEF Types, Programs, Semaphores, Closed
  <2>2. Turn'
    <3>1. /\ sem.main = 0 /\ sem.passengers = 0 /\ sem.scanners = 0 /\ pc.main = "wait"
          /\ ScannersIdle
      BY <1>1, <1>23, EndsFlight, Alone DEF ScannersIdle
    <3> QED BY <1>1, <1>23, EndsFlight, <3>1 DEF Turn, Between, ScannersIdle, One
  <2>3. Entries'
    <3>1. MainHolds' = MainHolds /\ MainHolds \in Int
      BY <1>1, <1>23, EndsFlight DEF MainHolds
    <3>2. PassengersHold' = PassengersHold /\ PassengersHold \in Int
      <4>1. ~ Finished /\ Finished'
        BY <1>1, <1>23, EndsFlight, Alone DEF Finished, Between
      <4>2. Handles = 2 /\ Handles' = 0
        BY <1>1, <1>23, EndsFlight, Alone DEF Handles, Between
      <4> QED BY <1>1, <1>23, EndsFlight, <2>1, <4>1, <4>2, Held, HeldNext
    <3>3. ScannersHold' = ScannersHold /\ ScannersHold \in Int
      BY <1>1, <1>23, EndsFlight DEF ScannersHold, One, Closed, Entries
    <3> QED BY <1>1, <1>23, EndsFlight, <3>1, <3>2, <3>3 DEF Entries, Closed
  <2>4. Present'
    BY <1>1, <1>23, EndsFlight, FilePresent DEF Present, Turn, Between, ScannersIdle, One
  <2> QED BY <2>1, <2>2, <2>3, <2>4
<1>24. CASE GiveUp
  BY <1>1, <1>24 DEF GiveUp, Ups, At, PassengersAt, ScannersAt
<1>25. CASE AwaitMain
  <2>1. Types'
    BY <1>1, <1>25, GetsMain DEF Types, Programs, Semaphores, Closed
  <2>2. Turn'
    BY <1>1, <1>25, GetsMain DEF Turn, Between, ScannersIdle, One
  <2>3. Entries'
    <3>1. MainHolds' = MainHolds /\ MainHolds \in Int
      BY <1>1, <1>25, GetsMain DEF MainHolds
    <3>2. PassengersHold' = PassengersHold /\ PassengersHold \in Int
      <4>1. Finished' <=> Finished
        BY <1>1, <1>25, GetsMain, Alone DEF Finished, Between
      <4>2. Handles' = Handles
        BY <1>1, <1>25, GetsMain DEF Handles
      <4> QED BY <1>1, <1>25, GetsMain, <2>1, <4>1, <4>2, Held, HeldNext
    <3>3. ScannersHold' = ScannersHold /\ ScannersHold \in Int
      BY <1>1, <1>25, GetsMain DEF ScannersHold, One, Closed, Entries
    <3> QED BY <1>1, <1>25, GetsMain, <3>1, <3>2, <3>3 DEF Entries, Closed
  <2>4. Present'
    BY <1>1, <1>25, GetsMain, FilePresent DEF Present, Turn, Between, ScannersIdle, One
  <2> QED BY <2>1, <2>2, <2>3, <2>4
<1>26. CASE OpenScannerId
  <2>1. Types'
    BY <1>1, <1>26, OpensScannerId DEF Types, Programs, Semaphores, Closed
  <2>2. Turn'
    BY <1>1, <1>26, OpensScannerId DEF Turn, Between, ScannersIdle, One
  <2>3. Entries'
    <3>1. MainHolds' = MainHolds /\ MainHolds \in Int
      BY <1>1, <1>26, OpensScannerId DEF MainHolds
    <3>2. PassengersHold' = PassengersHold /\ PassengersHold \in Int
      <4>1. Finished' <=> Finished
        BY <1>1, <1>26, OpensScannerId, Alone DEF Finished, Between
      <4>2. Handles' = Handles
        BY <1>1, <1>26, OpensScannerId DEF Handles
      <4> QED BY <1>1, <1>26, OpensScannerId, <2>1, <4>1, <4>2, Held, HeldNext
    <3>3. ScannersHold' = ScannersHold + 1 /\ ScannersHold \in Int
      BY <1>1, <1>26, OpensScannerId DEF ScannersHold, One, Closed, Entries
    <3> QED BY <1>1, <1>26, OpensScannerId, <3>1, <3>2, <3>3 DEF Entries, Closed
  <2>4. Present'
    BY <1>1, <1>26, OpensScannerId, FilePresent DEF Present, Turn, Between, ScannersIdle, One
  <2> QED BY <2>1, <2>2, <2>3, <2>4
<1>27. CASE NoFile
  BY <1>1, <1>27 DEF NoFile, Ups, At, PassengersAt, ScannersAt
<1>28. CASE AwaitBag
  <2>1. Types'
    BY <1>1, <1>28, GetsBag DEF Types, Programs, Semaphores, Closed
  <2>2. Turn'
    <3>1. /\ sem.main = 0 /\ sem.passengers = 0 /\ sem.scanners = 1 /\ pc.main = "wait"
          /\ pc.passengers = "await"
      BY <1>1, <1>28, GetsBag, Alone DEF ScannersIdle
    <3> QED BY <1>1, <1>28, GetsBag, <3>1 DEF Turn, Between, ScannersIdle, One
  <2>3. Entries'
    <3>1. MainHolds' = MainHolds /\ MainHolds \in Int
      BY <1>1, <1>28, GetsBag DEF MainHolds
    <3>2. PassengersHold' = PassengersHold /\ PassengersHold \in Int
      <4>1. Finished' <=> Finished
        BY <1>1, <1>28, GetsBag, Alone DEF Finished, Between
      <4>2. Handles' = Handles
        BY <1>1, <1>28, GetsBag DEF Handles
      <4> QED BY <1>1, <1>28, GetsBag, <2>1, <4>1, <4>2, Held, HeldNext
    <3>3. ScannersHold' = ScannersHold /\ ScannersHold \in Int
      BY <1>1, <1>28, GetsBag DEF ScannersHold, One, Closed, Entries
    <3> QED BY <1>1, <1>28, GetsBag, <3>1, <3>2, <3>3 DEF Entries, Closed
  <2>4. Present'
    BY <1>1, <1>28, GetsBag, FilePresent DEF Present, Turn, Between, ScannersIdle, One
  <2> QED BY <2>1, <2>2, <2>3, <2>4
<1>29. CASE OpenLugWeight
  <2>1. Types'
    BY <1>1, <1>29, OpensLugWeight DEF Types, Programs, Semaphores, Closed
  <2>2. Turn'
    BY <1>1, <1>29, OpensLugWeight DEF Turn, Between, ScannersIdle, One
  <2>3. Entries'
    <3>1. MainHolds' = MainHolds /\ MainHolds \in Int
      BY <1>1, <1>29, OpensLugWeight DEF MainHolds
    <3>2. PassengersHold' = PassengersHold /\ PassengersHold \in Int
      <4>1. Finished' <=> Finished
        BY <1>1, <1>29, OpensLugWeight, Alone DEF Finished, Between
      <4>2. Handles' = Handles
        BY <1>1, <1>29, OpensLugWeight DEF Handles
      <4> QED BY <1>1, <1>29, OpensLugWeight, <2>1, <4>1, <4>2, Held, HeldNext
    <3>3. ScannersHold' = ScannersHold + 1 /\ ScannersHold \in Int
      BY <1>1, <1>29, OpensLugWeight DEF ScannersHold, One, Closed, Entries
    <3> QED BY <1>1, <1>29, OpensLugWeight, <3>1, <3>2, <3>3 DEF Entries, Closed
  <2>4. Present'
    BY <1>1, <1>29, OpensLugWeight, FilePresent DEF Present, Turn, Between, ScannersIdle, One
  <2> QED BY <2>1, <2>2, <2>3, <2>4
<1>30. CASE ReadLugWeight
  <2>1. Types'
    BY <1>1, <1>2, <1>30, ReadsBag, TypesKept
  <2>2. Turn'
    BY <1>1, <1>30, ReadsBag DEF Turn, Between, ScannersIdle, One
  <2>3. Entries'
    <3>1. MainHolds' = MainHolds /\ MainHolds \in Int
      BY <1>1, <1>30, ReadsBag DEF MainHolds
    <3>2. PassengersHold' = PassengersHold /\ PassengersHold \in Int
      <4>1. Finished' <=> Finished
        BY <1>1, <1>30, ReadsBag, Alone DEF Finished, Between
      <4>2. Handles' = Handles
        BY <1>1, <1>30, ReadsBag DEF Handles
      <4> QED BY <1>1, <1>30, ReadsBag, <2>1, <4>1, <4>2, Held, HeldNext
    <3>3. ScannersHold' = ScannersHold - 1 /\ ScannersHold \in Int
      BY <1>1, <1>30, ReadsBag DEF ScannersHold, One, Closed, Entries
    <3> QED BY <1>1, <1>30, ReadsBag, <3>1, <3>2, <3>3 DEF Entries, Closed
  <2>4. Present'
    BY <1>1, <1>30, ReadsBag, FilePresent DEF Present, Turn, Between, ScannersIdle, One
  <2> QED BY <2>1, <2>2, <2>3, <2>4
<1>31. CASE Scan
  <2>1. CASE bag.end
    <3>1. Types'
      BY <1>1, <1>31, <2>1, ScansLast DEF Types, Programs, Semaphores, Closed
    <3>2. Turn'
      BY <1>1, <1>31, <2>1, ScansLast DEF Turn, Between, ScannersIdle, One
    <3>3. Entries'
      <4>1. MainHolds' = MainHolds /\ MainHolds \in Int
        BY <1>1, <1>31, <2>1, ScansLast DEF MainHolds
      <4>2. PassengersHold' = PassengersHold /\ PassengersHold \in Int
        <5>1. Finished' <=> Finished
          BY <1>1, <1>31, <2>1, ScansLast, Alone DEF Finished, Between
        <5>2. Handles' = Handles
          BY <1>1, <1>31, <2>1, ScansLast DEF Handles
        <5> QED BY <1>1, <1>31, <2>1, ScansLast, <3>1, <5>1, <5>2, Held, HeldNext
      <4>3. ScannersHold' = ScannersHold /\ ScannersHold \in Int
        BY <1>1, <1>31, <2>1, ScansLast DEF ScannersHold, One, Closed, Entries
      <4> QED BY <1>1, <1>31, <2>1, ScansLast, <4>1, <4>2, <4>3 DEF Entries, Closed
    <3>4. Present'
      BY <1>1, <1>31, <2>1, ScansLast, FilePresent DEF Present, Turn, Between, ScannersIdle, One
    <3> QED BY <3>1, <3>2, <3>3, <3>4
  <2>2. CASE ~ bag.end
    <3>1. Types'
      BY <1>1, <1>31, <2>2, Scans DEF Types, Programs, Semaphores, Closed
    <3>2. Turn'
      BY <1>1, <1>31, <2>2, Scans DEF Turn, Between, ScannersIdle, One
    <3>3. Entries'
      <4>1. MainHolds' = MainHolds /\ MainHolds \in Int
        BY <1>1, <1>31, <2>2, Scans DEF MainHolds
      <4>2. PassengersHold' = PassengersHold /\ PassengersHold \in Int
        <5>1. Finished' <=> Finished
          BY <1>1, <1>31, <2>2, Scans, Alone DEF Finished, Between
        <5>2. Handles' = Handles
          BY <1>1, <1>31, <2>2, Scans DEF Handles
        <5> QED BY <1>1, <1>31, <2>2, Scans, <3>1, <5>1, <5>2, Held, HeldNext
      <4>3. ScannersHold' = ScannersHold /\ ScannersHold \in Int
        BY <1>1, <1>31, <2>2, Scans DEF ScannersHold, One, Closed, Entries
      <4> QED BY <1>1, <1>31, <2>2, Scans, <4>1, <4>2, <4>3 DEF Entries, Closed
    <3>4. Present'
      BY <1>1, <1>31, <2>2, Scans, FilePresent DEF Present, Turn, Between, ScannersIdle, One
    <3> QED BY <3>1, <3>2, <3>3, <3>4
  <2> QED BY <2>1, <2>2
<1>32. CASE CloseScannerId
  <2>1. Types'
    BY <1>1, <1>32, ClosesIds DEF Types, Programs, Semaphores, Closed
  <2>2. Turn'
    BY <1>1, <1>32, ClosesIds DEF Turn, Between, ScannersIdle, One
  <2>3. Entries'
    <3>1. MainHolds' = MainHolds /\ MainHolds \in Int
      BY <1>1, <1>32, ClosesIds DEF MainHolds
    <3>2. PassengersHold' = PassengersHold /\ PassengersHold \in Int
      <4>1. Finished' <=> Finished
        BY <1>1, <1>32, ClosesIds, Alone DEF Finished, Between
      <4>2. Handles' = Handles
        BY <1>1, <1>32, ClosesIds DEF Handles
      <4> QED BY <1>1, <1>32, ClosesIds, <2>1, <4>1, <4>2, Held, HeldNext
    <3>3. ScannersHold' = ScannersHold - 1 /\ ScannersHold \in Int
      BY <1>1, <1>32, ClosesIds DEF ScannersHold, One, Closed, Entries
    <3> QED BY <1>1, <1>32, ClosesIds, <3>1, <3>2, <3>3 DEF Entries, Closed
  <2>4. Present'
    BY <1>1, <1>32, ClosesIds, FilePresent DEF Present, Turn, Between, ScannersIdle, One
  <2> QED BY <2>1, <2>2, <2>3, <2>4
<1>33. CASE Scanned
  <2>1. Types'
    BY <1>1, <1>33, TellsScanned DEF Types, Programs, Semaphores, Closed
  <2>2. Turn'
    <3>1. /\ sem.main = 0 /\ sem.passengers = 0 /\ sem.scanners = 0 /\ pc.main = "wait"
          /\ pc.passengers = "await"
      BY <1>1, <1>33, TellsScanned, Alone DEF ScannersIdle
    <3> QED BY <1>1, <1>33, TellsScanned, <3>1 DEF Turn, Between, ScannersIdle, One
  <2>3. Entries'
    <3>1. MainHolds' = MainHolds /\ MainHolds \in Int
      BY <1>1, <1>33, TellsScanned DEF MainHolds
    <3>2. PassengersHold' = PassengersHold /\ PassengersHold \in Int
      <4>1. Finished' <=> Finished
        BY <1>1, <1>33, TellsScanned, Alone DEF Finished, Between
      <4>2. Handles' = Handles
        BY <1>1, <1>33, TellsScanned DEF Handles
      <4> QED BY <1>1, <1>33, TellsScanned, <2>1, <4>1, <4>2, Held, HeldNext
    <3>3. ScannersHold' = ScannersHold /\ ScannersHold \in Int
      BY <1>1, <1>33, TellsScanned DEF ScannersHold, One, Closed, Entries
    <3> QED BY <1>1, <1>33, TellsScanned, <3>1, <3>2, <3>3 DEF Entries, Closed
  <2>4. Present'
    BY <1>1, <1>33, TellsScanned, FilePresent DEF Present, Turn, Between, ScannersIdle, One
  <2> QED BY <2>1, <2>2, <2>3, <2>4
<1>34. CASE LastScanned
  <2>1. Types'
    BY <1>1, <1>34, TellsLast DEF Types, Programs, Semaphores, Closed
  <2>2. Turn'
    <3>1. /\ sem.main = 0 /\ sem.passengers = 0 /\ sem.scanners = 0 /\ pc.main = "wait"
          /\ pc.passengers = "await"
      BY <1>1, <1>34, TellsLast, Alone DEF ScannersIdle
    <3> QED BY <1>1, <1>34, TellsLast, <3>1 DEF Turn, Between, ScannersIdle, One
  <2>3. Entries'
    <3>1. MainHolds' = MainHolds /\ MainHolds \in Int
      BY <1>1, <1>34, TellsLast DEF MainHolds
    <3>2. PassengersHold' = PassengersHold /\ PassengersHold \in Int
      <4>1. Finished' <=> Finished
        BY <1>1, <1>34, TellsLast, Alone DEF Finished, Between
      <4>2. Handles' = Handles
        BY <1>1, <1>34, TellsLast DEF Handles
      <4> QED BY <1>1, <1>34, TellsLast, <2>1, <4>1, <4>2, Held, HeldNext
    <3>3. ScannersHold' = ScannersHold /\ ScannersHold \in Int
      BY <1>1, <1>34, TellsLast DEF ScannersHold, One, Closed, Entries
    <3> QED BY <1>1, <1>34, TellsLast, <3>1, <3>2, <3>3 DEF Entries, Closed
  <2>4. Present'
    BY <1>1, <1>34, TellsLast, FilePresent DEF Present, Turn, Between, ScannersIdle, One
  <2> QED BY <2>1, <2>2, <2>3, <2>4
<1>35. CASE ScannersFail
  BY <1>1, <1>35 DEF ScannersFail, Ups, At, PassengersAt, ScannersAt
<1>36. CASE UNCHANGED vars
  BY <1>1, <1>36 DEF vars, files, mainVars, passengersVars, scannersVars, fixed, Types, Turn,
     Entries, Present,
       Between, ScannersIdle, MainHolds, PassengersHold, ScannersHold, Finished
<1> QED BY <1>4, <1>5, <1>6, <1>7, <1>8, <1>9, <1>10, <1>11, <1>12, <1>13, <1>14, <1>15, <1>16,
           <1>17, <1>18, <1>19, <1>20, <1>21, <1>22, <1>23, <1>24, <1>25, <1>26, <1>27, <1>28,
           <1>29, <1>30, <1>31, <1>32, <1>33, <1>34, <1>35, <1>36 DEF Next, main, passengers,
           scanners
-----------------------------------------------------------------------------
(* One more bag *)

Units(ids, bags, s, n) ==
  UNION {{j} \X (1 .. bags[j]) : j \in {i \in Weighed(bags, n) : ScannerOf(ids, bags, i) = s}}

LEMMA WeighedFinite ==
  ASSUME NEW bags \in Seq(Nat), NEW n \in Nat
  PROVE  /\ Weighed(bags, n) \subseteq 1 .. n /\ IsFiniteSet(Weighed(bags, n))
         /\ Cardinality(Weighed(bags, n)) \in Nat
BY FS_Interval, FS_Subset, FS_CardinalityType, IsFiniteSet(1 .. n) DEF Weighed

\* The position of a bag's scanner among the ids.
LEMMA WeighedBefore ==
  ASSUME NEW bags \in Seq(Nat), NEW n \in Nat, NEW j \in Weighed(bags, n)
  PROVE  Cardinality(Weighed(bags, j)) \in 1 .. Cardinality(Weighed(bags, n))
<1>1. j \in 1 .. n /\ bags[j] # 0 /\ j \in Nat
  BY DEF Weighed
<1>2. Weighed(bags, j) \subseteq Weighed(bags, n) /\ j \in Weighed(bags, j)
  BY <1>1 DEF Weighed
<1>3. Cardinality(Weighed(bags, j)) <= Cardinality(Weighed(bags, n))
  BY <1>2, WeighedFinite, FS_Subset
<1>4. Cardinality(Weighed(bags, j)) # 0
  BY <1>1, <1>2, WeighedFinite, FS_EmptySet
<1> QED BY <1>1, <1>3, <1>4, WeighedFinite

LEMMA WeighedStep ==
  ASSUME NEW bags \in Seq(Nat), NEW n \in Nat
  PROVE  /\ bags[n + 1] = 0 => Weighed(bags, n + 1) = Weighed(bags, n)
         /\ bags[n + 1] # 0 =>
              /\ Weighed(bags, n + 1) = Weighed(bags, n) \cup {n + 1}
              /\ Cardinality(Weighed(bags, n + 1)) = Cardinality(Weighed(bags, n)) + 1
<1>1. 1 .. n + 1 = (1 .. n) \cup {n + 1} /\ n + 1 \notin 1 .. n
  OBVIOUS
<1>2. bags[n + 1] # 0 => Weighed(bags, n + 1) = Weighed(bags, n) \cup {n + 1}
  BY <1>1 DEF Weighed
<1>3. n + 1 \notin Weighed(bags, n)
  BY <1>1 DEF Weighed
<1>4. bags[n + 1] # 0 => Cardinality(Weighed(bags, n + 1)) = Cardinality(Weighed(bags, n)) + 1
  <2>1. IsFiniteSet(Weighed(bags, n))
    BY WeighedFinite
  <2> QED BY <1>2, <1>3, <2>1, FS_AddElement
<1>5. bags[n + 1] = 0 => Weighed(bags, n + 1) = Weighed(bags, n)
  BY <1>1 DEF Weighed
<1> QED BY <1>2, <1>4, <1>5

LEMMA UnitsMember ==
  ASSUME NEW ids, NEW bags, NEW s, NEW n, NEW x
  PROVE  x \in Units(ids, bags, s, n) <=>
           \E j \in Weighed(bags, n) : ScannerOf(ids, bags, j) = s /\ x \in {j} \X (1 .. bags[j])
BY DEF Units

LEMMA Interval ==
  ASSUME NEW w \in Nat, NEW j
  PROVE  IsFiniteSet({j} \X (1 .. w)) /\ Cardinality({j} \X (1 .. w)) = w
<1>1. 1 \in Int /\ w \in Int /\ (IF 1 > w THEN 0 ELSE w - 1 + 1) = w
  OBVIOUS
<1>2. IsFiniteSet(1 .. w) /\ Cardinality(1 .. w) = w
  BY <1>1, FS_Interval
<1>3. IsFiniteSet({j}) /\ Cardinality({j}) = 1
  BY FS_Singleton
<1>4. Cardinality({j} \X (1 .. w)) = 1 * w /\ IsFiniteSet({j} \X (1 .. w))
  <2>1. Cardinality({j} \X (1 .. w)) = Cardinality({j}) * Cardinality(1 .. w)
        /\ IsFiniteSet({j} \X (1 .. w))
    BY <1>2, <1>3, FS_Product, Zenon
  <2> QED BY <1>2, <1>3, <2>1
<1> QED BY <1>1, <1>4

LEMMA UnitsFinite ==
  ASSUME NEW bags \in Seq(Nat), NEW n \in Nat, n <= Len(bags), NEW ids, NEW s
  PROVE  IsFiniteSet(Units(ids, bags, s, n)) /\ Taken(ids, bags, s, n) = Cardinality(Units(ids, bags, s, n))
         /\ Taken(ids, bags, s, n) \in Nat
<1> DEFINE J == {i \in Weighed(bags, n) : ScannerOf(ids, bags, i) = s}
           F == [j \in J |-> {j} \X (1 .. bags[j])]
           U == {{j} \X (1 .. bags[j]) : j \in J}
<1>1. IsFiniteSet(J)
  BY WeighedFinite, FS_Subset
<1>2. \A j \in J : IsFiniteSet({j} \X (1 .. bags[j]))
  <2> TAKE j \in J
  <2>1. j \in 1 .. n /\ j \in 1 .. Len(bags)
    BY WeighedFinite
  <2>2. bags[j] \in Nat
    BY <2>1
  <2> QED BY <2>2, Interval
<1>3. U = {F[j] : j \in J}
  OBVIOUS
<1>4. IsFiniteSet(U)
  <2>1. F \in Surjection(J, U)
    BY DEF Surjection
  <2> QED BY <1>1, <2>1, FS_Surjection DEF ExistsSurjection
<1>5. IsFiniteSet(UNION U)
  BY <1>2, <1>4, FS_UNION
<1> QED BY <1>5, FS_CardinalityType DEF Units, Taken

\* The ids of the bags before do not change.
LEMMA ScannersKept ==
  ASSUME NEW bags \in Seq(Nat), NEW n \in Nat, NEW m \in Nat, m <= n,
         NEW ids \in Seq(1 .. 3), NEW c \in 1 .. 3, Len(ids) = Cardinality(Weighed(bags, n)), NEW s
  PROVE  /\ \A j \in Weighed(bags, m) : ScannerOf(Append(ids, c), bags, j) = ScannerOf(ids, bags, j)
         /\ Units(Append(ids, c), bags, s, m) = Units(ids, bags, s, m)
         /\ Taken(Append(ids, c), bags, s, m) = Taken(ids, bags, s, m)
<1>1. \A j \in Weighed(bags, m) : ScannerOf(Append(ids, c), bags, j) = ScannerOf(ids, bags, j)
  <2> TAKE j \in Weighed(bags, m)
  <2>1. j \in Weighed(bags, n)
    BY DEF Weighed
  <2>2. Cardinality(Weighed(bags, j)) \in 1 .. Len(ids)
    BY <2>1, WeighedBefore
  <2> QED BY <2>2, AppendProperties DEF ScannerOf
<1>2. {i \in Weighed(bags, m) : ScannerOf(Append(ids, c), bags, i) = s}
        = {i \in Weighed(bags, m) : ScannerOf(ids, bags, i) = s}
  BY <1>1
<1> QED BY <1>1, <1>2 DEF Units, Taken

\* A bag with a weight goes to scanner c.
LEMMA TakenStep ==
  ASSUME NEW bags \in Seq(Nat), NEW n \in Nat, n < Len(bags), bags[n + 1] # 0,
         NEW ids \in Seq(1 .. 3), NEW c \in 1 .. 3, Len(ids) = Cardinality(Weighed(bags, n)), NEW s
  PROVE  /\ ScannerOf(Append(ids, c), bags, n + 1) = c
         /\ s = c => Taken(Append(ids, c), bags, s, n + 1) = Taken(ids, bags, s, n) + bags[n + 1]
         /\ s # c => Taken(Append(ids, c), bags, s, n + 1) = Taken(ids, bags, s, n)
<1> DEFINE new == Append(ids, c)
           box == {n + 1} \X (1 .. bags[n + 1])
           old == Units(ids, bags, s, n)
<1>1. bags[n + 1] \in Nat /\ n + 1 \in Nat /\ n <= n
  OBVIOUS
<1>2. ScannerOf(new, bags, n + 1) = c
  <2>1. Cardinality(Weighed(bags, n + 1)) = Len(ids) + 1
    BY WeighedStep
  <2> QED BY <2>1, AppendProperties DEF ScannerOf
<1>3. Weighed(bags, n + 1) = Weighed(bags, n) \cup {n + 1} /\ n + 1 \notin Weighed(bags, n)
  <2>1. n + 1 \notin 1 .. n
    OBVIOUS
  <2> QED BY <2>1, WeighedStep, WeighedFinite
<1>4. Units(new, bags, s, n) = old
  BY <1>1, ScannersKept
<1>5. s = c => Units(new, bags, s, n + 1) = old \cup box
  <2> SUFFICES ASSUME s = c, NEW x PROVE x \in Units(new, bags, s, n + 1) <=> x \in old \cup box
    OBVIOUS
  <2> HIDE DEF new
  <2> QED BY <1>2, <1>3, <1>4, UnitsMember
<1>6. s # c => Units(new, bags, s, n + 1) = old
  <2> SUFFICES ASSUME s # c, NEW x PROVE x \in Units(new, bags, s, n + 1) <=> x \in old
    OBVIOUS
  <2> HIDE DEF new
  <2> QED BY <1>2, <1>3, <1>4, UnitsMember
<1>7. IsFiniteSet(box) /\ Cardinality(box) = bags[n + 1]
  BY <1>1, Interval
<1>8. old \cap box = {}
  <2> SUFFICES ASSUME NEW x \in old, x \in box PROVE FALSE
    OBVIOUS
  <2>1. PICK j \in Weighed(bags, n) : x \in {j} \X (1 .. bags[j])
    BY UnitsMember
  <2> QED BY <1>3, <2>1
<1>9. IsFiniteSet(old) /\ Taken(ids, bags, s, n) = Cardinality(old) /\ Cardinality(old) \in Nat
      /\ Taken(new, bags, s, n + 1) = Cardinality(Units(new, bags, s, n + 1))
  BY <1>1, UnitsFinite
<1>10. Cardinality(old \cup box) = Cardinality(old) + bags[n + 1]
  <2> HIDE DEF box, old
  <2>1. Cardinality(old \cup box) = Cardinality(old) + Cardinality(box) - Cardinality(old \cap box)
    BY <1>7, <1>9, FS_Union
  <2>2. Cardinality(old \cap box) = 0
    BY <1>8, FS_EmptySet
  <2> QED BY <1>1, <1>7, <1>9, <2>1, <2>2
<1> QED BY <1>2, <1>5, <1>6, <1>9, <1>10

\* A bag without weight goes to no scanner.
LEMMA BalancedIdle ==
  ASSUME NEW bags \in Seq(Nat), NEW n \in Nat, n < Len(bags), bags[n + 1] = 0,
         NEW ids \in Seq(1 .. 3), Balanced(ids, bags, n)
  PROVE  /\ Balanced(ids, bags, n + 1)
         /\ \A s \in 1 .. 3 : Taken(ids, bags, s, n + 1) = Taken(ids, bags, s, n)
<1>1. Weighed(bags, n + 1) = Weighed(bags, n)
  BY WeighedStep
<1> QED BY <1>1 DEF Balanced, Taken

\* The choice that the comparisons of scanners.c make for the next bag.
LEMMA BalancedStep ==
  ASSUME NEW bags \in Seq(Nat), NEW n \in Nat, n < Len(bags), bags[n + 1] # 0,
         NEW ids \in Seq(1 .. 3), Balanced(ids, bags, n), NEW c \in 1 .. 3,
         \A s \in 1 .. 3 : \/ Taken(ids, bags, c, n) < Taken(ids, bags, s, n)
                           \/ Taken(ids, bags, c, n) = Taken(ids, bags, s, n) /\ c <= s
  PROVE  Balanced(Append(ids, c), bags, n + 1)
<1> DEFINE new == Append(ids, c)
<1>1. Len(ids) = Cardinality(Weighed(bags, n)) /\ Len(new) = Len(ids) + 1
  BY AppendProperties DEF Balanced
<1>2. Len(new) = Cardinality(Weighed(bags, n + 1))
  BY <1>1, WeighedStep
<1>3. ASSUME NEW j \in Weighed(bags, n + 1), NEW s \in 1 .. 3
      PROVE  /\ ScannerOf(new, bags, j) \in 1 .. 3
             /\ \/ Taken(new, bags, ScannerOf(new, bags, j), j - 1) < Taken(new, bags, s, j - 1)
                \/ /\ Taken(new, bags, ScannerOf(new, bags, j), j - 1) = Taken(new, bags, s, j - 1)
                   /\ ScannerOf(new, bags, j) <= s
  <2>1. CASE j = n + 1
    <3>1. ScannerOf(new, bags, j) = c /\ j - 1 = n
      BY <1>1, <2>1, TakenStep
    <3>2. Taken(new, bags, c, n) = Taken(ids, bags, c, n) /\ Taken(new, bags, s, n) = Taken(ids, bags, s, n)
      BY <1>1, ScannersKept
    <3> HIDE DEF new
    <3> QED BY <3>1, <3>2
  <2>2. CASE j # n + 1
    <3>1. j \in Weighed(bags, n) /\ j \in 1 .. n
      <4>1. Weighed(bags, n + 1) = Weighed(bags, n) \cup {n + 1} /\ Weighed(bags, n) \subseteq 1 .. n
        BY WeighedStep, WeighedFinite
      <4> QED BY <1>3, <2>2, <4>1
    <3>2. j - 1 \in Nat /\ j - 1 <= n /\ n <= n
      BY <3>1
    <3>3. ScannerOf(new, bags, j) = ScannerOf(ids, bags, j)
      BY <1>1, <3>1, <3>2, ScannersKept
    <3>4. \A t : Taken(new, bags, t, j - 1) = Taken(ids, bags, t, j - 1)
      BY <1>1, <3>2, ScannersKept
    <3> HIDE DEF new
    <3> QED BY <3>1, <3>3, <3>4 DEF Balanced
  <2> QED BY <2>1, <2>2
<1> HIDE DEF new
<1>4. Balanced(new, bags, n + 1)
  BY <1>2, <1>3 DEF Balanced
<1> QED BY <1>4 DEF new

LEMMA BalancedEmpty ==
  ASSUME NEW bags \in Seq(Nat)
  PROVE  Balanced(<<>>, bags, 0) /\ \A s \in 1 .. 3 : Taken(<<>>, bags, s, 0) = 0
<1>1. Weighed(bags, 0) = {}
  BY DEF Weighed
<1>2. \A s : Units(<<>>, bags, s, 0) = {}
  BY <1>1, UnitsMember
<1>3. \A s : Taken(<<>>, bags, s, 0) = Cardinality(Units(<<>>, bags, s, 0))
  BY DEF Taken, Units
<1> QED BY <1>1, <1>2, <1>3, FS_EmptySet DEF Balanced
-----------------------------------------------------------------------------
(* The data *)

Bags == flights[flight]
Ids == scannerIdTxt.contents
Prefix(s, t, n) == Len(s) = n /\ \A i \in 1 .. n : s[i] = t[i]

\* What main has copied: the bags of the flight to passengers.txt, and the ids
\* to output.txt.
Copying ==
  /\ copied \in Nat
  /\ pc.main \notin {"copy", "copyIds"} => copied = 0
  /\ pc.main = "open" => passengersTxt.contents = <<>>
  /\ pc.main = "copy" => /\ passengersTxt.contents \in Seq(Nat)
                         /\ copied <= Len(Bags) /\ Prefix(passengersTxt.contents, Bags, copied)
  /\ pc.main \in {"handOver", "wait", "openIds", "copyIds", "handled"} => passengersTxt.contents = Bags
  /\ output \in Seq(Seq(1 .. 3))
  /\ Len(output) = IF pc.main \in {"copyIds", "handled"} THEN flight ELSE flight - 1
  /\ pc.main = "copyIds" => copied <= Len(Ids) /\ Prefix(output[flight], Ids, copied)
  /\ pc.main = "handled" => output[flight] = Ids

\* The bag that passengers offers is the one at filePointer.
Offering ==
  /\ pc.passengers \in PassengersAt \ {"start", "flight", "createIds", "openBags", "length"} =>
       length = Len(Bags)
  /\ pc.passengers \in {"openLug", "bag", "offer", "await", "createLug", "over"} =>
       filePointer \in 0 .. Len(Bags)
  /\ pc.passengers \in {"offer", "await"} =>
       /\ filePointer >= 1
       /\ lugWeightTxt.contents = [weight |-> Bags[filePointer], end |-> filePointer = Len(Bags)]
  /\ pc.passengers = "over" => filePointer = Len(Bags)
  /\ pc.scanners = "choose" => bag = lugWeightTxt.contents
  /\ pc.scanners = "next" => filePointer < Len(Bags)
  /\ pc.scanners \in {"close", "last"} => filePointer = Len(Bags)

\* Passengers has not yet emptied scannerid.txt for the flight.
Fresh == (Between /\ ~ Finished) \/ pc.passengers = "createIds"

\* Otherwise, how many bags of the flight have a scanner.
Done ==
  IF pc.passengers \in {"openBags", "length", "reopen"} THEN 0
  ELSE IF Between THEN Len(Bags)
  ELSE IF pc.passengers = "offer"
          \/ (pc.passengers = "await" /\ (sem.scanners = 1 \/ pc.scanners \in {"openLug", "read", "choose"}))
       THEN filePointer - 1
       ELSE filePointer

\* The last bag of the flight has been scanned, and scanners has closed its files.
AtRest == Done = Len(Bags) /\ pc.scanners \in {"flight", "openIds", "scan", "last"}

Reset == load = [s \in 1 .. 3 |-> 0] /\ writeScannerId \in {Closed, 0}

Counting ==
  /\ \A s \in 1 .. 3 : load[s] = Taken(Ids, Bags, s, Done)
  /\ writeScannerId = Len(Ids) \/ (writeScannerId = Closed /\ Len(Ids) = 0)

Scanning ==
  /\ Ids \in Seq(1 .. 3)
  /\ load \in [1 .. 3 -> Nat]
  /\ Fresh => Reset
  /\ ~ Fresh => /\ Balanced(Ids, Bags, Done)
                /\ IF AtRest THEN Reset ELSE Counting

\* What main has handled is right.
Past == \A k \in 1 .. flight - 1 : Balanced(output[k], flights[k], Len(flights[k]))

Data == Provided => Copying /\ Offering /\ Scanning /\ Past

LEMMA DataInit == Init => Data
<1> SUFFICES ASSUME Init, Provided PROVE Copying /\ Offering /\ Scanning /\ Past
  BY DEF Data
<1>1. Copying
  BY DEF Init, Copying
<1>2. Offering
  BY DEF Init, Offering
<1>3. Fresh /\ scannerIdTxt = File(<<3>>)
  BY DEF Init, Fresh, Between, Finished, Provided
<1>4. Scanning
  <2>1. Ids = <<3>> /\ <<3>> \in Seq(1 .. 3)
    BY <1>3 DEF Ids, File
  <2> QED BY <1>3, <2>1 DEF Init, Scanning, Reset
<1>5. Past
  BY DEF Init, Past
<1> QED BY <1>1, <1>2, <1>4, <1>5

LEMMA BagsType ==
  ASSUME Types, flight <= Len(flights)
  PROVE  Bags \in Seq(Nat) /\ Len(Bags) \in Nat /\ flight \in 1 .. Len(flights)
<1>1. flights \in Seq(Seq(Nat)) /\ flight \in 1 .. Len(flights)
  BY DEF Types
<1>2. Bags \in Seq(Nat)
  BY <1>1 DEF Bags
<1> QED BY <1>1, <1>2

\* While passengers and scanners work main is as it was, and waits if the ids change.
LEMMA MainAway ==
  ASSUME Provided, Types, Turn, Entries, Present, passengers \/ scanners
  PROVE  /\ pc'.main = pc.main /\ UNCHANGED <<passengersTxt, flight, copied, output>>
         /\ scannerIdTxt' = scannerIdTxt \/ pc.main = "wait"
<1>1. CASE Start
  BY <1>1, Starts
<1>2. CASE AwaitFlight
  BY <1>2, GetsFlight
<1>3. CASE CreateScannerId
  BY <1>3, CreatesIds, Alone
<1>4. CASE OpenBags
  BY <1>4, OpensBags
<1>5. CASE GetFileLength
  BY <1>5, GetsLength
<1>6. CASE Reopen
  BY <1>6, Reopens
<1>7. CASE OpenLug
  BY <1>7, OpensLug
<1>8. CASE NextBag
  <2>1. CASE filePointer < length
    BY <1>8, <2>1, WritesBag
  <2>2. CASE ~ (filePointer < length)
    BY <1>8, <2>2, NoMoreBags
  <2> QED BY <2>1, <2>2
<1>9. CASE Offer
  BY <1>9, Offers
<1>10. CASE AwaitScan
  BY <1>10, GetsScan
<1>11. CASE CreateLug
  BY <1>11, CreatesLug
<1>12. CASE FlightOver
  BY <1>12, EndsFlight
<1>13. CASE GiveUp
  BY <1>13 DEF GiveUp, Ups, At, Types, PassengersAt, ScannersAt
<1>14. CASE AwaitMain
  BY <1>14, GetsMain
<1>15. CASE OpenScannerId
  BY <1>15, OpensScannerId
<1>16. CASE NoFile
  BY <1>16 DEF NoFile, Ups, At, Types, PassengersAt, ScannersAt
<1>17. CASE AwaitBag
  BY <1>17, GetsBag
<1>18. CASE OpenLugWeight
  BY <1>18, OpensLugWeight
<1>19. CASE ReadLugWeight
  BY <1>19, ReadsBag
<1>20. CASE Scan
  <2>1. CASE bag.end
    BY <1>20, <2>1, ScansLast, Alone DEF ScannersIdle
  <2>2. CASE ~ bag.end
    BY <1>20, <2>2, Scans, Alone DEF ScannersIdle
  <2> QED BY <2>1, <2>2
<1>21. CASE CloseScannerId
  BY <1>21, ClosesIds
<1>22. CASE Scanned
  BY <1>22, TellsScanned
<1>23. CASE LastScanned
  BY <1>23, TellsLast
<1>24. CASE ScannersFail
  BY <1>24 DEF ScannersFail, Ups, At, Types, PassengersAt, ScannersAt
<1> QED BY <1>1, <1>2, <1>3, <1>4, <1>5, <1>6, <1>7, <1>8, <1>9, <1>10, <1>11, <1>12, <1>13,
           <1>14, <1>15, <1>16, <1>17, <1>18, <1>19, <1>20, <1>21, <1>22, <1>23,
           <1>24 DEF passengers, scanners

\* While main works passengers and scanners wait.
LEMMA OthersAway ==
  ASSUME Provided, Types, Turn, Entries, Present, main
  PROVE  /\ pc'.passengers = pc.passengers /\ pc'.scanners = pc.scanners /\ Between /\ ScannersIdle
         /\ sem'.scanners = sem.scanners
         /\ UNCHANGED <<scannerIdTxt, lugWeightTxt, length, filePointer, writeScannerId, bag,
                        load>>
<1>1. CASE CreatePassengers
  <2>1. CASE flight <= Len(flights)
    BY <1>1, <2>1, CreatesPassengers, Alone DEF Between, ScannersIdle
  <2>2. CASE flight > Len(flights)
    BY <1>1, <2>2, EndsMain, Alone DEF Between, ScannersIdle
  <2> QED BY <2>1, <2>2 DEF Types
<1>2. CASE OpenPassengers
  BY <1>2, OpensPassengers, Alone DEF Between, ScannersIdle
<1>3. CASE CopyBag
  <2>1. CASE copied < Len(flights[flight])
    BY <1>3, <2>1, CopiesBag, Alone DEF Between, ScannersIdle
  <2>2. CASE ~ (copied < Len(flights[flight]))
    BY <1>3, <2>2, BagsCopied, Alone DEF Between, ScannersIdle
  <2> QED BY <2>1, <2>2
<1>4. CASE HandOver
  BY <1>4, HandsOver, Alone DEF Between, ScannersIdle
<1>5. CASE AwaitIds
  BY <1>5, GetsIds, Alone DEF Between, ScannersIdle
<1>6. CASE OpenIds
  BY <1>6, OpensIds, Alone DEF Between, ScannersIdle
<1>7. CASE CopyId
  <2>1. CASE copied < Len(scannerIdTxt.contents)
    BY <1>7, <2>1, CopiesId, Alone DEF Between, ScannersIdle
  <2>2. CASE ~ (copied < Len(scannerIdTxt.contents))
    BY <1>7, <2>2, IdsCopied, Alone DEF Between, ScannersIdle
  <2> QED BY <2>1, <2>2
<1>8. CASE Handled
  BY <1>8, HandlesFlight, Alone DEF Between, ScannersIdle
<1> QED BY <1>1, <1>2, <1>3, <1>4, <1>5, <1>6, <1>7, <1>8 DEF main

LEMMA CopyingNext ==
  ASSUME Provided, Types, Turn, Entries, Present, Copying, Scanning, Next, UNCHANGED fixed
  PROVE  Copying'
<1>1. flights' = flights /\ flight \in Nat /\ flight >= 1 /\ copied \in Nat
      /\ Ids \in Seq(1 .. 3) /\ output \in Seq(Seq(1 .. 3))
  BY DEF fixed, Types, Copying, Scanning
<1>2. pc.main \notin {"create", "done"} => Bags \in Seq(Nat) /\ Len(Bags) \in Nat
  BY BagsType DEF Present
<1>3. CASE passengers \/ scanners
  BY <1>1, <1>3, MainAway DEF Copying, Bags, Ids
<1>4. CASE CreatePassengers
  <2>1. CASE flight <= Len(flights)
    BY <1>1, <1>4, <2>1, CreatesPassengers, FilePresent DEF Copying
  <2>2. CASE flight > Len(flights)
    BY <1>1, <1>4, <2>2, EndsMain DEF Copying
  <2> QED BY <2>1, <2>2 DEF Types
<1>5. CASE OpenPassengers
  <2>1. /\ pc.main = "open" /\ pc'.main = "copy" /\ passengersTxt.contents = <<>> /\ copied = 0
        /\ UNCHANGED <<passengersTxt, copied, output, flight>>
    BY <1>5, OpensPassengers DEF Copying
  <2>2. Bags' = Bags /\ Len(Bags) >= 0 /\ <<>> \in Seq(Nat)
    BY <1>1, <1>2, <2>1 DEF Bags
  <2>3. Prefix(<<>>, Bags, 0)
    BY DEF Prefix
  <2> QED BY <1>1, <2>1, <2>2, <2>3 DEF Copying
<1>6. CASE CopyBag
  <2>1. pc.main = "copy" /\ passengersTxt.contents \in Seq(Nat) /\ copied <= Len(Bags)
        /\ Prefix(passengersTxt.contents, Bags, copied) /\ Len(output) = flight - 1
    BY <1>6 DEF CopyBag, Copying
  <2>2. CASE copied < Len(flights[flight])
    <3>1. /\ pc'.main = "copy" /\ copied' = copied + 1 /\ UNCHANGED <<output, flight>>
          /\ passengersTxt'.contents = Append(passengersTxt.contents, Bags[copied + 1])
      BY <1>6, <2>1, <2>2, CopiesBag, FilePresent DEF Bags
    <3>2. Bags[copied + 1] \in Nat /\ copied + 1 <= Len(Bags)
      <4>1. copied < Len(Bags) /\ Bags \in Seq(Nat) /\ Len(Bags) \in Nat
        BY <1>2, <2>1, <2>2 DEF Bags
      <4>2. copied + 1 \in 1 .. Len(Bags)
        BY <1>1, <4>1
      <4> QED BY <4>1, <4>2
    <3>3. passengersTxt'.contents \in Seq(Nat) /\ Prefix(passengersTxt'.contents, Bags, copied + 1)
      BY <1>1, <2>1, <3>1, <3>2, AppendProperties DEF Prefix
    <3>4. Bags' = Bags
      BY <1>1, <3>1 DEF Bags
    <3> QED BY <1>1, <2>1, <3>1, <3>2, <3>3, <3>4 DEF Copying
  <2>3. CASE ~ (copied < Len(flights[flight]))
    <3>1. pc'.main = "handOver" /\ copied' = 0 /\ UNCHANGED <<output, flight, passengersTxt>>
      BY <1>6, <2>3, BagsCopied
    <3>2. copied = Len(Bags)
      BY <1>1, <1>2, <2>1, <2>3 DEF Bags
    <3>3. passengersTxt.contents = Bags
      BY <1>2, <2>1, <3>2, SeqEqual DEF Prefix
    <3>4. Bags' = Bags
      BY <1>1, <3>1 DEF Bags
    <3> QED BY <1>1, <2>1, <3>1, <3>3, <3>4 DEF Copying
  <2> QED BY <2>2, <2>3
<1>7. CASE HandOver
  BY <1>1, <1>7, HandsOver DEF Copying, Bags
<1>8. CASE AwaitIds
  BY <1>1, <1>8, GetsIds DEF Copying, Bags
<1>9. CASE OpenIds
  <2>1. /\ pc.main = "openIds" /\ pc'.main = "copyIds" /\ copied = 0 /\ output' = Append(output, <<>>)
        /\ Len(output) = flight - 1 /\ passengersTxt.contents = Bags
        /\ UNCHANGED <<passengersTxt, scannerIdTxt, copied, flight>>
    BY <1>9, OpensIds DEF Copying
  <2>2. Len(output') = flight /\ output'[flight] = <<>> /\ output' \in Seq(Seq(1 .. 3))
    <3>1. <<>> \in Seq(1 .. 3)
      OBVIOUS
    <3> QED BY <1>1, <2>1, <3>1, AppendProperties
  <2>3. Prefix(<<>>, Ids, 0) /\ Len(Ids) >= 0
    BY <1>1 DEF Prefix
  <2>4. Bags' = Bags /\ Ids' = Ids
    BY <1>1, <2>1 DEF Bags, Ids
  <2> QED BY <1>1, <2>1, <2>2, <2>3, <2>4 DEF Copying
<1>10. CASE CopyId
  <2>1. pc.main = "copyIds" /\ copied <= Len(Ids) /\ Prefix(output[flight], Ids, copied)
        /\ Len(output) = flight /\ passengersTxt.contents = Bags
    BY <1>10 DEF CopyId, Copying
  <2>2. output[flight] \in Seq(1 .. 3)
    BY <1>1, <2>1
  <2>3. CASE copied < Len(scannerIdTxt.contents)
    <3> DEFINE longer == Append(output[flight], Ids[copied + 1])
    <3>1. /\ pc'.main = "copyIds" /\ copied' = copied + 1 /\ output' = [output EXCEPT ![flight] = longer]
          /\ UNCHANGED <<passengersTxt, scannerIdTxt, flight>>
      BY <1>10, <2>1, <2>3, CopiesId DEF Ids
    <3>2. Ids[copied + 1] \in 1 .. 3 /\ copied + 1 <= Len(Ids)
      BY <1>1, <2>1, <2>3 DEF Ids
    <3>3. longer \in Seq(1 .. 3) /\ Prefix(longer, Ids, copied + 1)
      BY <1>1, <2>1, <2>2, <3>2, AppendProperties DEF Prefix
    <3> HIDE DEF longer
    <3>4. output' \in Seq(Seq(1 .. 3)) /\ Len(output') = flight /\ output'[flight] = longer
      BY <1>1, <2>1, <3>1, <3>3, ExceptSeq
    <3>5. Bags' = Bags /\ Ids' = Ids
      BY <1>1, <3>1 DEF Bags, Ids
    <3> QED BY <1>1, <2>1, <3>1, <3>2, <3>3, <3>4, <3>5 DEF Copying
  <2>4. CASE ~ (copied < Len(scannerIdTxt.contents))
    <3>1. pc'.main = "handled" /\ copied' = 0 /\ UNCHANGED <<passengersTxt, scannerIdTxt,
                                                             output, flight>>
      BY <1>10, <2>4, IdsCopied
    <3>2. copied = Len(Ids)
      BY <1>1, <2>1, <2>4 DEF Ids
    <3>3. output[flight] = Ids
      BY <1>1, <2>1, <2>2, <3>2, SeqEqual DEF Prefix
    <3>4. Bags' = Bags /\ Ids' = Ids
      BY <1>1, <3>1 DEF Bags, Ids
    <3> QED BY <1>1, <2>1, <3>1, <3>3, <3>4 DEF Copying
  <2> QED BY <2>3, <2>4
<1>11. CASE Handled
  BY <1>1, <1>11, HandlesFlight DEF Copying
<1> QED
  BY <1>3, <1>4, <1>5, <1>6, <1>7, <1>8, <1>9, <1>10, <1>11 DEF Next, main

LEMMA OfferingNext ==
  ASSUME Provided, Types, Turn, Entries, Present, Copying, Offering, Next, UNCHANGED fixed
  PROVE  Offering'
<1>1. flights' = flights /\ (pc.main \notin {"create", "done"} => Len(Bags) \in Nat /\ Bags \in Seq(Nat))
  BY BagsType DEF fixed, Present
<1>2. ~ Between => pc.main = "wait" /\ passengersTxt.contents = Bags /\ Len(Bags) \in Nat /\ Bags \in Seq(Nat)
  BY <1>1 DEF Turn, Copying
<1>3. CASE main
  BY <1>3, OthersAway DEF Offering, Between, ScannersIdle
<1>4. passengers \/ scanners => Bags' = Bags
  BY <1>1, MainAway DEF Bags
<1>5. CASE Start
  BY <1>5, Starts, Alone DEF Offering, Between, ScannersIdle, Turn
<1>6. CASE AwaitFlight
  BY <1>6, GetsFlight, Alone DEF Offering, ScannersIdle
<1>7. CASE CreateScannerId
  BY <1>7, CreatesIds, Alone DEF Offering, ScannersIdle
<1>8. CASE OpenBags
  BY <1>8, OpensBags, Alone DEF Offering, ScannersIdle
<1>9. CASE GetFileLength
  BY <1>2, <1>4, <1>9, GetsLength, Alone DEF Offering, ScannersIdle, passengers, Between
<1>10. CASE Reopen
  <2>1. pc.passengers = "reopen" /\ length = Len(Bags) /\ Len(Bags) \in Nat
    BY <1>2, <1>10 DEF Offering, Reopen, At, Between, PassengersAt
  <2> QED BY <1>4, <1>10, <2>1, Reopens, Alone DEF Offering, ScannersIdle, passengers
<1>11. CASE OpenLug
  BY <1>4, <1>11, OpensLug, Alone DEF Offering, ScannersIdle, passengers, PassengersAt
<1>12. CASE NextBag
  <2>1. pc.passengers = "bag" /\ length = Len(Bags) /\ Len(Bags) \in Nat /\ filePointer \in 0 .. Len(Bags)
        /\ Bags' = Bags /\ ScannersIdle /\ passengersTxt.contents = Bags /\ Bags \in Seq(Nat)
    BY <1>2, <1>4, <1>12, Alone DEF Offering, NextBag, Between, PassengersAt, passengers
  <2>2. CASE filePointer < length
    <3>1. Weight(filePointer + 1) = Bags[filePointer + 1]
      BY <2>1, <2>2 DEF Weight
    <3> QED BY <1>12, <2>1, <2>2, <3>1, WritesBag, FilePresent DEF Offering, ScannersIdle
  <2>3. CASE ~ (filePointer < length)
    BY <1>12, <2>1, <2>3, NoMoreBags DEF Offering, ScannersIdle
  <2> QED BY <2>2, <2>3
<1>13. CASE Offer
  BY <1>4, <1>13, Offers, Alone DEF Offering, ScannersIdle, passengers, PassengersAt
<1>14. CASE AwaitScan
  BY <1>4, <1>14, GetsScan, Alone DEF Offering, ScannersIdle, passengers, PassengersAt
<1>15. CASE CreateLug
  BY <1>4, <1>15, CreatesLug, Alone DEF Offering, ScannersIdle, passengers, PassengersAt
<1>16. CASE FlightOver
  BY <1>16, EndsFlight, Alone DEF Offering, ScannersIdle
<1>17. CASE GiveUp
  BY <1>17 DEF GiveUp, Ups, At, Types, PassengersAt
<1>18. CASE AwaitMain
  BY <1>4, <1>18, GetsMain DEF Offering, scanners
<1>19. CASE OpenScannerId
  BY <1>4, <1>19, OpensScannerId DEF Offering, scanners
<1>20. CASE NoFile
  BY <1>20 DEF NoFile, Ups, At, Types, ScannersAt
<1>21. CASE AwaitBag
  BY <1>4, <1>21, GetsBag DEF Offering, scanners
<1>22. CASE OpenLugWeight
  BY <1>4, <1>22, OpensLugWeight DEF Offering, scanners
<1>23. CASE ReadLugWeight
  BY <1>4, <1>23, ReadsBag DEF Offering, scanners
<1>24. CASE Scan
  <2>1. pc.scanners = "choose" /\ pc.passengers = "await" /\ Bags' = Bags
    BY <1>4, <1>24, Alone DEF Scan, At, ScannersIdle, scanners
  <2>2. bag.end = (filePointer = Len(Bags)) /\ filePointer \in 0 .. Len(Bags) /\ Len(Bags) \in Nat
    BY <1>2, <2>1 DEF Offering, Between
  <2>3. CASE bag.end
    BY <1>24, <2>1, <2>2, <2>3, ScansLast DEF Offering
  <2>4. CASE ~ bag.end
    <3>1. filePointer < Len(Bags)
      <4>1. filePointer # Len(Bags)
        BY <2>2, <2>4, Zenon
      <4> QED BY <2>2, <4>1
    <3>2. /\ pc'.scanners = "next" /\ pc'.passengers = pc.passengers
          /\ UNCHANGED <<length, filePointer, lugWeightTxt, bag>>
      BY <1>24, <2>4, Scans
    <3> QED BY <2>1, <3>1, <3>2 DEF Offering
  <2> QED BY <2>3, <2>4
<1>25. CASE CloseScannerId
  BY <1>4, <1>25, ClosesIds DEF Offering, scanners
<1>26. CASE Scanned
  BY <1>4, <1>26, TellsScanned DEF Offering, scanners
<1>27. CASE LastScanned
  BY <1>4, <1>27, TellsLast DEF Offering, scanners
<1>28. CASE ScannersFail
  BY <1>28 DEF ScannersFail, Ups, At, Types, ScannersAt
<1> QED
  BY <1>3, <1>5, <1>6, <1>7, <1>8, <1>9, <1>10, <1>11, <1>12, <1>13, <1>14, <1>15, <1>16,
     <1>17, <1>18,
     <1>19, <1>20, <1>21, <1>22, <1>23, <1>24, <1>25, <1>26, <1>27, <1>28 DEF Next, passengers, scanners


\* A step that neither writes ids nor finishes a bag.
LEMMA SameScanning ==
  ASSUME Scanning, UNCHANGED <<scannerIdTxt, load, writeScannerId, flight, flights>>, Fresh' <=> Fresh,
         ~ Fresh => Done' = Done /\ (AtRest' <=> AtRest)
  PROVE  Scanning'
<1>1. Ids' = Ids /\ Bags' = Bags /\ (Reset' <=> Reset)
  BY DEF Ids, Bags, Reset
<1>2. ~ Fresh => (Counting' <=> Counting)
  BY <1>1 DEF Counting
<1> QED BY <1>1, <1>2 DEF Scanning

\* The number of bags that have a scanner is in range.
LEMMA DoneType ==
  ASSUME Types, Turn, Present, Offering, ~ Fresh
  PROVE  Bags \in Seq(Nat) /\ Len(Bags) \in Nat /\ Done \in 0 .. Len(Bags)
<1>1. pc.main \notin {"create", "done"}
  BY Alone DEF Fresh, Finished, Turn, Between
<1>2. Bags \in Seq(Nat) /\ Len(Bags) \in Nat
  BY <1>1, BagsType DEF Present
<1>3. pc.passengers \in PassengersAt
  BY DEF Types
<1> QED BY <1>2, <1>3 DEF Done, Fresh, Between, Offering, PassengersAt

\* The comparisons of scanners.c find the first of the least loaded scanners.
LEMMA ChooseLeast ==
  ASSUME load \in [1 .. 3 -> Nat]
  PROVE  Choose \in 1 .. 3 /\ \A s \in 1 .. 3 : \/ load[Choose] < load[s]
                                                \/ load[Choose] = load[s] /\ Choose <= s
<1>1. load[1] \in Nat /\ load[2] \in Nat /\ load[3] \in Nat /\ \A s \in 1 .. 3 : s = 1 \/ s = 2 \/ s = 3
  OBVIOUS
<1> QED BY <1>1 DEF Choose

\* WriteF at the end of the file appends.
LEMMA WriteAtEnd ==
  ASSUME NEW ids \in Seq(1 .. 3), NEW c \in 1 .. 3
  PROVE  WriteF(ids, Len(ids), c) = Append(ids, c)
<1> DEFINE n == Len(ids)
           out == WriteF(ids, n, c)
<1>1. n \in Nat /\ Max({n, n + 1}) = n + 1
  <2>1. n \in Nat
    OBVIOUS
  <2> HIDE DEF n
  <2> QED BY <2>1 DEF Max
<1>2. out = [i \in 1 .. n + 1 |-> IF i = n + 1 THEN c ELSE IF i <= n THEN ids[i] ELSE 0]
  BY <1>1 DEF WriteF
<1>3. \A i \in 1 .. n + 1 : out[i] \in 1 .. 3
  BY <1>1, <1>2
<1>4. out \in Seq(1 .. 3) /\ Len(out) = n + 1
  <2>1. out \in [1 .. n + 1 -> 1 .. 3]
    BY <1>2, <1>3
  <2> QED BY <1>1, <2>1, IsASeq, LenProperties
<1>5. Append(ids, c) \in Seq(1 .. 3) /\ Len(Append(ids, c)) = n + 1
      /\ \A i \in 1 .. n + 1 : Append(ids, c)[i] = out[i]
  BY <1>1, <1>2, AppendProperties
<1> QED BY <1>4, <1>5, SeqEqual

\* One bag is scanned.
LEMMA ScanScans ==
  ASSUME Provided, Types, Turn, Entries, Present, Copying, Offering, Scanning, Scan, UNCHANGED fixed
  PROVE  Scanning'
<1>1. /\ pc.scanners = "choose" /\ pc'.scanners \in {"next", "close"}
      /\ pc'.passengers = pc.passengers /\ pc'.main = pc.main /\ sem'.scanners = sem.scanners
      /\ sem'.main = sem.main /\ UNCHANGED <<flight, filePointer>>
      /\ load' = [load EXCEPT ![Choose] = load[Choose] + bag.weight]
      /\ bag.weight # 0 => /\ scannerIdTxt' = File(WriteF(scannerIdTxt.contents, writeScannerId, Choose))
                           /\ writeScannerId' = writeScannerId + 1
      /\ bag.weight = 0 => scannerIdTxt' = scannerIdTxt /\ writeScannerId' = writeScannerId
      /\ writeScannerId # Closed
  BY ScansLast, Scans
<1>2. pc.passengers = "await" /\ sem.scanners = 0 /\ ~ Between /\ Bags' = Bags
  BY <1>1, Alone DEF ScannersIdle, Between, Bags, fixed
<1>3. ~ Fresh /\ ~ Fresh' /\ Done = filePointer - 1 /\ Done' = filePointer
  BY <1>1, <1>2 DEF Fresh, Between, Done
<1>4. Bags \in Seq(Nat) /\ Len(Bags) \in Nat /\ Done \in Nat /\ Done < Len(Bags) /\ Done + 1 = filePointer
  BY <1>1, <1>2, <1>3, DoneType DEF Offering
<1>5. bag.weight = Bags[Done + 1] /\ bag.weight \in Nat
  <2>1. bag.weight = Bags[filePointer]
    BY <1>1, <1>2 DEF Offering
  <2> QED BY <1>4, <2>1
<1>6. ~ AtRest /\ ~ AtRest'
  BY <1>1 DEF AtRest
<1>7. Balanced(Ids, Bags, Done) /\ Counting /\ Ids \in Seq(1 .. 3) /\ load \in [1 .. 3 -> Nat]
  BY <1>3, <1>6 DEF Scanning
<1>8. writeScannerId = Len(Ids) /\ \A s \in 1 .. 3 : load[s] = Taken(Ids, Bags, s, Done)
  BY <1>1, <1>7 DEF Counting
<1>9. Choose \in 1 .. 3 /\ \A s \in 1 .. 3 : \/ Taken(Ids, Bags, Choose, Done) < Taken(Ids, Bags, s, Done)
                                             \/ /\ Taken(Ids, Bags, Choose, Done) = Taken(Ids, Bags, s, Done)
                                                /\ Choose <= s
  BY <1>7, <1>8, ChooseLeast
<1>10. Len(Ids) = Cardinality(Weighed(Bags, Done))
  BY <1>7 DEF Balanced
<1>11. load' \in [1 .. 3 -> Nat]
  BY <1>1, <1>5, <1>7, <1>9
<1>12. CASE bag.weight # 0
  <2>1. Ids' = Append(Ids, Choose) /\ writeScannerId' = Len(Ids) + 1
    BY <1>1, <1>7, <1>8, <1>9, <1>12, WriteAtEnd, FilePresent DEF Ids
  <2>2. Ids' \in Seq(1 .. 3) /\ Len(Ids') = Len(Ids) + 1
    BY <1>7, <1>9, <2>1, AppendProperties
  <2>3. Balanced(Ids', Bags, Done + 1)
    <3>1. Bags[Done + 1] # 0
      BY <1>5, <1>12
    <3>2. Balanced(Append(Ids, Choose), Bags, Done + 1)
      BY <1>4, <1>7, <1>9, <3>1, BalancedStep
    <3> QED BY <2>1, <3>2
  <2>4. \A s \in 1 .. 3 : load'[s] = Taken(Ids', Bags, s, Done + 1)
    <3> TAKE s \in 1 .. 3
    <3>1. /\ s = Choose => Taken(Ids', Bags, s, Done + 1) = Taken(Ids, Bags, s, Done) + bag.weight
          /\ s # Choose => Taken(Ids', Bags, s, Done + 1) = Taken(Ids, Bags, s, Done)
      <4>1. Bags[Done + 1] # 0
        BY <1>5, <1>12
      <4>2. /\ s = Choose => Taken(Append(Ids, Choose), Bags, s, Done + 1)
                             = Taken(Ids, Bags, s, Done) + Bags[Done + 1]
            /\ s # Choose => Taken(Append(Ids, Choose), Bags, s, Done + 1)
                             = Taken(Ids, Bags, s, Done)
        <5>1. Bags \in Seq(Nat) /\ Done \in Nat /\ Done < Len(Bags) /\ Choose \in 1 .. 3
          BY <1>4, <1>9
        <5>2. Ids \in Seq(1 .. 3) /\ Len(Ids) = Cardinality(Weighed(Bags, Done))
          BY <1>7, <1>10
        <5> HIDE DEF Ids, Bags, Done
        <5> QED BY ONLY <4>1, <5>1, <5>2, TakenStep
      <4> QED BY <1>5, <2>1, <4>2
    <3> QED BY <1>1, <1>7, <1>8, <3>1
  <2> QED BY <1>2, <1>3, <1>4, <1>6, <1>11, <2>1, <2>2, <2>3, <2>4 DEF Scanning, Counting
<1>13. CASE bag.weight = 0
  <2>1. Ids' = Ids /\ writeScannerId' = writeScannerId
    BY <1>1, <1>13 DEF Ids
  <2>2. /\ Balanced(Ids, Bags, Done + 1)
        /\ \A s \in 1 .. 3 : Taken(Ids, Bags, s, Done + 1) = Taken(Ids, Bags, s, Done)
    <3>1. Bags[Done + 1] = 0
      BY <1>5, <1>13
    <3> QED BY <1>4, <1>7, <3>1, BalancedIdle
  <2>3. load' = load
    BY <1>1, <1>7, <1>9, <1>13
  <2> QED BY <1>2, <1>3, <1>4, <1>6, <1>7, <1>8, <2>1, <2>2, <2>3 DEF Scanning, Counting
<1> QED BY <1>12, <1>13

LEMMA ScanningNext ==
  ASSUME Provided, Types, Turn, Entries, Present, Copying, Offering, Scanning, Next, UNCHANGED fixed
  PROVE  Scanning'
<1>1. flights' = flights /\ (~ Fresh => Bags \in Seq(Nat) /\ Len(Bags) \in Nat /\ Done \in 0 .. Len(Bags))
      /\ sem.main \in Nat /\ sem.passengers \in Nat /\ sem.scanners \in Nat
  BY DoneType DEF fixed, Types
<1>2. pc.passengers \in PassengersAt
  BY DEF Types
<1>3. CASE CreatePassengers
  <2>1. CASE flight <= Len(flights)
    <3>1. Fresh' <=> Fresh
      BY <1>1, <1>3, <2>1, CreatesPassengers, Alone DEF Fresh, Finished, Between
    <3>2. Bags' = Bags /\ (~ Fresh => Done' = Done)
      BY <1>1, <1>2, <1>3, <2>1, CreatesPassengers, Alone DEF Done, Between, Fresh, Finished,
         Bags, ScannersIdle, Offering, PassengersAt
    <3>3. ~ Fresh => (AtRest' <=> AtRest)
      BY <1>1, <1>3, <2>1, CreatesPassengers, <3>2, Alone DEF AtRest, ScannersIdle
    <3> QED BY <1>1, <1>3, <2>1, CreatesPassengers, <3>1, <3>2, <3>3, SameScanning
  <2>2. CASE flight > Len(flights)
    <3>1. Fresh' <=> Fresh
      BY <1>1, <1>3, <2>2, EndsMain, Alone DEF Fresh, Finished, Between
    <3>2. Bags' = Bags /\ (~ Fresh => Done' = Done)
      BY <1>1, <1>2, <1>3, <2>2, EndsMain, Alone DEF Done, Between, Fresh, Finished, Bags,
         ScannersIdle, Offering, PassengersAt
    <3>3. ~ Fresh => (AtRest' <=> AtRest)
      BY <1>1, <1>3, <2>2, EndsMain, <3>2, Alone DEF AtRest, ScannersIdle
    <3> QED BY <1>1, <1>3, <2>2, EndsMain, <3>1, <3>2, <3>3, SameScanning
  <2> QED BY <2>1, <2>2 DEF Types
<1>4. CASE OpenPassengers
  <2>1. Fresh' <=> Fresh
    BY <1>1, <1>4, OpensPassengers, Alone DEF Fresh, Finished, Between
  <2>2. Bags' = Bags /\ (~ Fresh => Done' = Done)
    BY <1>1, <1>2, <1>4, OpensPassengers, Alone DEF Done, Between, Fresh, Finished, Bags,
       ScannersIdle, Offering, PassengersAt
  <2>3. ~ Fresh => (AtRest' <=> AtRest)
    BY <1>1, <1>4, OpensPassengers, <2>2, Alone DEF AtRest, ScannersIdle
  <2> QED BY <1>1, <1>4, OpensPassengers, <2>1, <2>2, <2>3, SameScanning
<1>5. CASE CopyBag
  <2>1. CASE copied < Len(flights[flight])
    <3>1. Fresh' <=> Fresh
      BY <1>1, <1>5, <2>1, CopiesBag, Alone DEF Fresh, Finished, Between
    <3>2. Bags' = Bags /\ (~ Fresh => Done' = Done)
      BY <1>1, <1>2, <1>5, <2>1, CopiesBag, Alone DEF Done, Between, Fresh, Finished, Bags,
         ScannersIdle, Offering, PassengersAt
    <3>3. ~ Fresh => (AtRest' <=> AtRest)
      BY <1>1, <1>5, <2>1, CopiesBag, <3>2, Alone DEF AtRest, ScannersIdle
    <3> QED BY <1>1, <1>5, <2>1, CopiesBag, <3>1, <3>2, <3>3, SameScanning
  <2>2. CASE ~ (copied < Len(flights[flight]))
    <3>1. Fresh' <=> Fresh
      BY <1>1, <1>5, <2>2, BagsCopied, Alone DEF Fresh, Finished, Between
    <3>2. Bags' = Bags /\ (~ Fresh => Done' = Done)
      BY <1>1, <1>2, <1>5, <2>2, BagsCopied, Alone DEF Done, Between, Fresh, Finished, Bags,
         ScannersIdle, Offering, PassengersAt
    <3>3. ~ Fresh => (AtRest' <=> AtRest)
      BY <1>1, <1>5, <2>2, BagsCopied, <3>2, Alone DEF AtRest, ScannersIdle
    <3> QED BY <1>1, <1>5, <2>2, BagsCopied, <3>1, <3>2, <3>3, SameScanning
  <2> QED BY <2>1, <2>2
<1>6. CASE HandOver
  <2>1. Fresh' <=> Fresh
    BY <1>1, <1>6, HandsOver, Alone DEF Fresh, Finished, Between
  <2>2. Bags' = Bags /\ (~ Fresh => Done' = Done)
    BY <1>1, <1>2, <1>6, HandsOver, Alone DEF Done, Between, Fresh, Finished, Bags,
       ScannersIdle, Offering, PassengersAt
  <2>3. ~ Fresh => (AtRest' <=> AtRest)
    BY <1>1, <1>6, HandsOver, <2>2, Alone DEF AtRest, ScannersIdle
  <2> QED BY <1>1, <1>6, HandsOver, <2>1, <2>2, <2>3, SameScanning
<1>7. CASE AwaitIds
  <2>1. Fresh' <=> Fresh
    BY <1>1, <1>7, GetsIds, Alone DEF Fresh, Finished, Between
  <2>2. Bags' = Bags /\ (~ Fresh => Done' = Done)
    BY <1>1, <1>2, <1>7, GetsIds, Alone DEF Done, Between, Fresh, Finished, Bags, ScannersIdle,
       Offering, PassengersAt
  <2>3. ~ Fresh => (AtRest' <=> AtRest)
    BY <1>1, <1>7, GetsIds, <2>2, Alone DEF AtRest, ScannersIdle
  <2> QED BY <1>1, <1>7, GetsIds, <2>1, <2>2, <2>3, SameScanning
<1>8. CASE OpenIds
  <2>1. Fresh' <=> Fresh
    BY <1>1, <1>8, OpensIds, Alone DEF Fresh, Finished, Between
  <2>2. Bags' = Bags /\ (~ Fresh => Done' = Done)
    BY <1>1, <1>2, <1>8, OpensIds, Alone DEF Done, Between, Fresh, Finished, Bags,
       ScannersIdle, Offering, PassengersAt
  <2>3. ~ Fresh => (AtRest' <=> AtRest)
    BY <1>1, <1>8, OpensIds, <2>2, Alone DEF AtRest, ScannersIdle
  <2> QED BY <1>1, <1>8, OpensIds, <2>1, <2>2, <2>3, SameScanning
<1>9. CASE CopyId
  <2>1. CASE copied < Len(scannerIdTxt.contents)
    <3>1. Fresh' <=> Fresh
      BY <1>1, <1>9, <2>1, CopiesId, Alone DEF Fresh, Finished, Between
    <3>2. Bags' = Bags /\ (~ Fresh => Done' = Done)
      BY <1>1, <1>2, <1>9, <2>1, CopiesId, Alone DEF Done, Between, Fresh, Finished, Bags,
         ScannersIdle, Offering, PassengersAt
    <3>3. ~ Fresh => (AtRest' <=> AtRest)
      BY <1>1, <1>9, <2>1, CopiesId, <3>2, Alone DEF AtRest, ScannersIdle
    <3> QED BY <1>1, <1>9, <2>1, CopiesId, <3>1, <3>2, <3>3, SameScanning
  <2>2. CASE ~ (copied < Len(scannerIdTxt.contents))
    <3>1. Fresh' <=> Fresh
      BY <1>1, <1>9, <2>2, IdsCopied, Alone DEF Fresh, Finished, Between
    <3>2. Bags' = Bags /\ (~ Fresh => Done' = Done)
      BY <1>1, <1>2, <1>9, <2>2, IdsCopied, Alone DEF Done, Between, Fresh, Finished, Bags,
         ScannersIdle, Offering, PassengersAt
    <3>3. ~ Fresh => (AtRest' <=> AtRest)
      BY <1>1, <1>9, <2>2, IdsCopied, <3>2, Alone DEF AtRest, ScannersIdle
    <3> QED BY <1>1, <1>9, <2>2, IdsCopied, <3>1, <3>2, <3>3, SameScanning
  <2> QED BY <2>1, <2>2
<1>10. CASE Handled
  <2>1. Finished /\ ~ Fresh /\ Done = Len(Bags) /\ ScannersIdle
    BY <1>10, HandlesFlight, Alone DEF Fresh, Finished, Done, Between
  <2>2. Reset /\ Ids \in Seq(1 .. 3)
    BY <2>1 DEF Scanning, AtRest, ScannersIdle
  <2>3. Fresh'
    BY <1>10, HandlesFlight, Alone DEF Fresh, Finished, Between
  <2>4. Ids' = Ids /\ load' = load /\ writeScannerId' = writeScannerId
    BY <1>10, HandlesFlight DEF Ids
  <2> QED BY <2>2, <2>3, <2>4 DEF Scanning, Reset
<1>11. CASE Start
  <2>1. Fresh' <=> Fresh
    BY <1>1, <1>11, Starts, Alone DEF Fresh, Finished, Between
  <2>2. Bags' = Bags /\ (~ Fresh => Done' = Done)
    BY <1>1, <1>2, <1>11, Starts, Alone DEF Done, Between, Fresh, Finished, Bags, ScannersIdle,
       Offering, PassengersAt
  <2>3. ~ Fresh => (AtRest' <=> AtRest)
    BY <1>1, <1>11, Starts, <2>2, Alone DEF AtRest, ScannersIdle
  <2> QED BY <1>1, <1>11, Starts, <2>1, <2>2, <2>3, SameScanning
<1>12. CASE AwaitFlight
  <2>1. Fresh' <=> Fresh
    BY <1>1, <1>12, GetsFlight, Alone DEF Fresh, Finished, Between
  <2>2. Bags' = Bags /\ (~ Fresh => Done' = Done)
    BY <1>1, <1>2, <1>12, GetsFlight, Alone DEF Done, Between, Fresh, Finished, Bags,
       ScannersIdle, Offering, PassengersAt
  <2>3. ~ Fresh => (AtRest' <=> AtRest)
    BY <1>1, <1>12, GetsFlight, <2>2, Alone DEF AtRest, ScannersIdle
  <2> QED BY <1>1, <1>12, GetsFlight, <2>1, <2>2, <2>3, SameScanning
<1>13. CASE CreateScannerId
  <2>1. /\ pc.passengers = "createIds" /\ pc'.passengers = "openBags" /\ pc.main = "wait"
        /\ pc'.scanners = pc.scanners /\ UNCHANGED <<load, writeScannerId,
                                                     flight>> /\ Ids' = <<>>
    BY <1>13, CreatesIds, Alone, FilePresent DEF Ids
  <2>2. Fresh /\ ~ Fresh' /\ Done' = 0 /\ Reset /\ load \in [1 .. 3 -> Nat]
    BY <2>1 DEF Fresh, Between, Done, Scanning
  <2>3. Bags \in Seq(Nat) /\ Bags' = Bags
    BY <1>1, <2>1, BagsType DEF Present, Bags
  <2>4. Balanced(<<>>, Bags, 0) /\ \A s \in 1 .. 3 : Taken(<<>>, Bags, s, 0) = 0
    BY <2>3, BalancedEmpty
  <2>5. Reset' /\ Counting'
    BY <2>1, <2>2, <2>3, <2>4 DEF Reset, Counting
  <2> QED BY <2>1, <2>2, <2>3, <2>4, <2>5 DEF Scanning
<1>14. CASE OpenBags
  <2>1. Fresh' <=> Fresh
    BY <1>1, <1>14, OpensBags, Alone DEF Fresh, Finished, Between
  <2>2. Bags' = Bags /\ (~ Fresh => Done' = Done)
    BY <1>1, <1>2, <1>14, OpensBags, Alone DEF Done, Between, Fresh, Finished, Bags,
       ScannersIdle, Offering, PassengersAt
  <2>3. ~ Fresh => (AtRest' <=> AtRest)
    BY <1>1, <1>14, OpensBags, <2>2, Alone DEF AtRest, ScannersIdle
  <2> QED BY <1>1, <1>14, OpensBags, <2>1, <2>2, <2>3, SameScanning
<1>15. CASE GetFileLength
  <2>1. Fresh' <=> Fresh
    BY <1>1, <1>15, GetsLength, Alone DEF Fresh, Finished, Between
  <2>2. Bags' = Bags /\ (~ Fresh => Done' = Done)
    BY <1>1, <1>2, <1>15, GetsLength, Alone DEF Done, Between, Fresh, Finished, Bags,
       ScannersIdle, Offering, PassengersAt
  <2>3. ~ Fresh => (AtRest' <=> AtRest)
    BY <1>1, <1>15, GetsLength, <2>2, Alone DEF AtRest, ScannersIdle
  <2> QED BY <1>1, <1>15, GetsLength, <2>1, <2>2, <2>3, SameScanning
<1>16. CASE Reopen
  <2>1. Fresh' <=> Fresh
    BY <1>1, <1>16, Reopens, Alone DEF Fresh, Finished, Between
  <2>2. Bags' = Bags /\ (~ Fresh => Done' = Done)
    BY <1>1, <1>2, <1>16, Reopens, Alone DEF Done, Between, Fresh, Finished, Bags,
       ScannersIdle, Offering, PassengersAt
  <2>3. ~ Fresh => (AtRest' <=> AtRest)
    BY <1>1, <1>16, Reopens, <2>2, Alone DEF AtRest, ScannersIdle
  <2> QED BY <1>1, <1>16, Reopens, <2>1, <2>2, <2>3, SameScanning
<1>17. CASE OpenLug
  <2>1. Fresh' <=> Fresh
    BY <1>1, <1>17, OpensLug, Alone DEF Fresh, Finished, Between
  <2>2. Bags' = Bags /\ (~ Fresh => Done' = Done)
    BY <1>1, <1>2, <1>17, OpensLug, Alone DEF Done, Between, Fresh, Finished, Bags,
       ScannersIdle, Offering, PassengersAt
  <2>3. ~ Fresh => (AtRest' <=> AtRest)
    BY <1>1, <1>17, OpensLug, <2>2, Alone DEF AtRest, ScannersIdle
  <2> QED BY <1>1, <1>17, OpensLug, <2>1, <2>2, <2>3, SameScanning
<1>18. CASE NextBag
  <2>1. CASE filePointer < length
    <3>1. Fresh' <=> Fresh
      BY <1>1, <1>18, <2>1, WritesBag, Alone DEF Fresh, Finished, Between
    <3>2. Bags' = Bags /\ (~ Fresh => Done' = Done)
      BY <1>1, <1>2, <1>18, <2>1, WritesBag, Alone DEF Done, Between, Fresh, Finished, Bags,
         ScannersIdle, Offering, PassengersAt
    <3>3. ~ Fresh => (AtRest' <=> AtRest)
      BY <1>1, <1>18, <2>1, WritesBag, <3>2, Alone DEF AtRest, ScannersIdle
    <3> QED BY <1>1, <1>18, <2>1, WritesBag, <3>1, <3>2, <3>3, SameScanning
  <2>2. CASE ~ (filePointer < length)
    <3>1. Fresh' <=> Fresh
      BY <1>1, <1>18, <2>2, NoMoreBags, Alone DEF Fresh, Finished, Between
    <3>2. Bags' = Bags /\ (~ Fresh => Done' = Done)
      BY <1>1, <1>2, <1>18, <2>2, NoMoreBags, Alone DEF Done, Between, Fresh, Finished, Bags,
         ScannersIdle, Offering, PassengersAt
    <3>3. ~ Fresh => (AtRest' <=> AtRest)
      BY <1>1, <1>18, <2>2, NoMoreBags, <3>2, Alone DEF AtRest, ScannersIdle
    <3> QED BY <1>1, <1>18, <2>2, NoMoreBags, <3>1, <3>2, <3>3, SameScanning
  <2> QED BY <2>1, <2>2
<1>19. CASE Offer
  <2>1. Fresh' <=> Fresh
    BY <1>1, <1>19, Offers, Alone DEF Fresh, Finished, Between
  <2>2. Bags' = Bags /\ (~ Fresh => Done' = Done)
    BY <1>1, <1>2, <1>19, Offers, Alone DEF Done, Between, Fresh, Finished, Bags, ScannersIdle,
       Offering, PassengersAt
  <2>3. ~ Fresh => (AtRest' <=> AtRest)
    BY <1>1, <1>19, Offers, <2>2, Alone DEF AtRest, ScannersIdle
  <2> QED BY <1>1, <1>19, Offers, <2>1, <2>2, <2>3, SameScanning
<1>20. CASE AwaitScan
  <2>1. Fresh' <=> Fresh
    BY <1>1, <1>20, GetsScan, Alone DEF Fresh, Finished, Between
  <2>2. Bags' = Bags /\ (~ Fresh => Done' = Done)
    BY <1>1, <1>2, <1>20, GetsScan, Alone DEF Done, Between, Fresh, Finished, Bags,
       ScannersIdle, Offering, PassengersAt
  <2>3. ~ Fresh => (AtRest' <=> AtRest)
    BY <1>1, <1>20, GetsScan, <2>2, Alone DEF AtRest, ScannersIdle
  <2> QED BY <1>1, <1>20, GetsScan, <2>1, <2>2, <2>3, SameScanning
<1>21. CASE CreateLug
  <2>1. Fresh' <=> Fresh
    BY <1>1, <1>21, CreatesLug, Alone DEF Fresh, Finished, Between
  <2>2. Bags' = Bags /\ (~ Fresh => Done' = Done)
    BY <1>1, <1>2, <1>21, CreatesLug, Alone DEF Done, Between, Fresh, Finished, Bags,
       ScannersIdle, Offering, PassengersAt
  <2>3. ~ Fresh => (AtRest' <=> AtRest)
    BY <1>1, <1>21, CreatesLug, <2>2, Alone DEF AtRest, ScannersIdle
  <2> QED BY <1>1, <1>21, CreatesLug, <2>1, <2>2, <2>3, SameScanning
<1>22. CASE FlightOver
  <2>1. Fresh' <=> Fresh
    BY <1>1, <1>22, EndsFlight, Alone DEF Fresh, Finished, Between
  <2>2. Bags' = Bags /\ (~ Fresh => Done' = Done)
    BY <1>1, <1>2, <1>22, EndsFlight, Alone DEF Done, Between, Fresh, Finished, Bags,
       ScannersIdle, Offering, PassengersAt
  <2>3. ~ Fresh => (AtRest' <=> AtRest)
    BY <1>1, <1>22, EndsFlight, <2>2, Alone DEF AtRest, ScannersIdle
  <2> QED BY <1>1, <1>22, EndsFlight, <2>1, <2>2, <2>3, SameScanning
<1>23. CASE GiveUp
  BY <1>23 DEF GiveUp, Ups, At, Types, PassengersAt, ScannersAt
<1>24. CASE AwaitMain
  <2>1. Fresh' <=> Fresh
    BY <1>1, <1>24, GetsMain, Alone DEF Fresh, Finished, Between
  <2>2. Bags' = Bags /\ (~ Fresh => Done' = Done)
    BY <1>1, <1>2, <1>24, GetsMain, Alone DEF Done, Between, Fresh, Finished, Bags,
       ScannersIdle, Offering, PassengersAt
  <2>3. ~ Fresh => (AtRest' <=> AtRest)
    BY <1>1, <1>24, GetsMain, <2>2, Alone DEF AtRest, ScannersIdle
  <2> QED BY <1>1, <1>24, GetsMain, <2>1, <2>2, <2>3, SameScanning
<1>25. CASE OpenScannerId
  <2>1. /\ pc.scanners = "openIds" /\ pc'.scanners = "scan" /\ pc'.passengers = pc.passengers /\ pc'.main = pc.main
        /\ sem'.main = sem.main /\ sem'.scanners = sem.scanners
        /\ UNCHANGED <<load, scannerIdTxt, flight, filePointer>> /\ writeScannerId' = 0
        /\ writeScannerId = Closed
    BY <1>25, OpensScannerId DEF Entries
  <2>2. Bags' = Bags /\ Ids' = Ids /\ (Fresh' <=> Fresh)
    BY <1>1, <2>1 DEF Bags, Ids, Fresh, Between, Finished
  <2>3. Done' = Done
    BY <2>1, <2>2 DEF Done, Between
  <2>4. (AtRest' <=> AtRest) /\ (Reset => Reset')
    BY <2>1, <2>2, <2>3 DEF AtRest, Reset
  <2>5. Ids \in Seq(1 .. 3) /\ Len(Ids) \in Nat
    BY DEF Scanning
  <2>6. Counting => Counting'
    BY <2>1, <2>2, <2>3, <2>5 DEF Counting, Closed
  <2> QED BY <2>1, <2>2, <2>3, <2>4, <2>6 DEF Scanning
<1>26. CASE NoFile
  BY <1>26 DEF NoFile, Ups, At, Types, PassengersAt, ScannersAt
<1>27. CASE AwaitBag
  <2>1. Fresh' <=> Fresh
    BY <1>1, <1>27, GetsBag, Alone DEF Fresh, Finished, Between
  <2>2. Bags' = Bags /\ (~ Fresh => Done' = Done)
    BY <1>1, <1>2, <1>27, GetsBag, Alone DEF Done, Between, Fresh, Finished, Bags,
       ScannersIdle, Offering, PassengersAt
  <2>3. ~ Fresh => (AtRest' <=> AtRest)
    BY <1>1, <1>27, GetsBag, <2>2, Alone DEF AtRest, ScannersIdle, Done, Between, Offering,
       Fresh
  <2> QED BY <1>1, <1>27, GetsBag, <2>1, <2>2, <2>3, SameScanning
<1>28. CASE OpenLugWeight
  <2>1. Fresh' <=> Fresh
    BY <1>1, <1>28, OpensLugWeight, Alone DEF Fresh, Finished, Between
  <2>2. Bags' = Bags /\ (~ Fresh => Done' = Done)
    BY <1>1, <1>2, <1>28, OpensLugWeight, Alone DEF Done, Between, Fresh, Finished, Bags,
       ScannersIdle, Offering, PassengersAt
  <2>3. ~ Fresh => (AtRest' <=> AtRest)
    BY <1>1, <1>28, OpensLugWeight, <2>2, Alone DEF AtRest, ScannersIdle
  <2> QED BY <1>1, <1>28, OpensLugWeight, <2>1, <2>2, <2>3, SameScanning
<1>29. CASE ReadLugWeight
  <2>1. Fresh' <=> Fresh
    BY <1>1, <1>29, ReadsBag, Alone DEF Fresh, Finished, Between
  <2>2. Bags' = Bags /\ (~ Fresh => Done' = Done)
    BY <1>1, <1>2, <1>29, ReadsBag, Alone DEF Done, Between, Fresh, Finished, Bags,
       ScannersIdle, Offering, PassengersAt
  <2>3. ~ Fresh => (AtRest' <=> AtRest)
    BY <1>1, <1>29, ReadsBag, <2>2, Alone DEF AtRest, ScannersIdle
  <2> QED BY <1>1, <1>29, ReadsBag, <2>1, <2>2, <2>3, SameScanning
<1>30. CASE Scan
  BY <1>30, ScanScans
<1>31. CASE CloseScannerId
  <2>1. /\ pc.scanners = "close" /\ pc'.scanners = "last" /\ pc'.passengers = pc.passengers
        /\ pc.passengers = "await" /\ sem.scanners = 0 /\ sem'.scanners = sem.scanners
        /\ UNCHANGED <<scannerIdTxt, flight, filePointer>>
        /\ writeScannerId' = Closed /\ load' = [s \in 1 .. 3 |-> 0]
    BY <1>31, ClosesIds, Alone DEF ScannersIdle
  <2>2. Bags' = Bags /\ Ids' = Ids /\ ~ Fresh /\ ~ Fresh'
    BY <1>1, <2>1 DEF Bags, Ids, Fresh, Between
  <2>3. Done = filePointer /\ Done' = Done /\ filePointer = Len(Bags)
    BY <2>1, <2>2 DEF Done, Between, Offering
  <2>4. AtRest' /\ Reset'
    BY <2>1, <2>2, <2>3 DEF AtRest, Reset
  <2> QED BY <2>1, <2>2, <2>3, <2>4 DEF Scanning
<1>32. CASE Scanned
  <2>1. Fresh' <=> Fresh
    BY <1>1, <1>32, TellsScanned, Alone DEF Fresh, Finished, Between
  <2>2. Bags' = Bags /\ (~ Fresh => Done' = Done)
    BY <1>1, <1>2, <1>32, TellsScanned, Alone DEF Done, Between, Fresh, Finished, Bags,
       ScannersIdle, Offering, PassengersAt
  <2>3. ~ Fresh => (AtRest' <=> AtRest)
    BY <1>1, <1>32, TellsScanned, <2>2, Alone DEF AtRest, ScannersIdle, Done, Between,
       Offering, Fresh
  <2> QED BY <1>1, <1>32, TellsScanned, <2>1, <2>2, <2>3, SameScanning
<1>33. CASE LastScanned
  <2>1. Fresh' <=> Fresh
    BY <1>1, <1>33, TellsLast, Alone DEF Fresh, Finished, Between
  <2>2. Bags' = Bags /\ (~ Fresh => Done' = Done)
    BY <1>1, <1>2, <1>33, TellsLast, Alone DEF Done, Between, Fresh, Finished, Bags,
       ScannersIdle, Offering, PassengersAt
  <2>3. ~ Fresh => (AtRest' <=> AtRest)
    BY <1>1, <1>33, TellsLast, <2>2, Alone DEF AtRest, ScannersIdle
  <2> QED BY <1>1, <1>33, TellsLast, <2>1, <2>2, <2>3, SameScanning
<1>34. CASE ScannersFail
  BY <1>34 DEF ScannersFail, Ups, At, Types, PassengersAt, ScannersAt
<1> QED BY <1>3, <1>4, <1>5, <1>6, <1>7, <1>8, <1>9, <1>10, <1>11, <1>12, <1>13, <1>14, <1>15,
           <1>16, <1>17, <1>18, <1>19, <1>20, <1>21, <1>22, <1>23, <1>24, <1>25, <1>26, <1>27,
           <1>28, <1>29, <1>30, <1>31, <1>32, <1>33, <1>34 DEF Next, main, passengers, scanners

LEMMA PastNext ==
  ASSUME Provided, Types, Turn, Entries, Present, Copying, Offering, Scanning, Past, Next, UNCHANGED fixed
  PROVE  Past'
<1>1. flights' = flights /\ flight \in Nat /\ flight >= 1 /\ output \in Seq(Seq(1 .. 3))
  BY DEF fixed, Types, Copying
<1>2. CASE passengers \/ scanners
  BY <1>1, <1>2, MainAway DEF Past
<1>3. CASE CreatePassengers \/ OpenPassengers \/ CopyBag \/ HandOver \/ AwaitIds
  <2>1. UNCHANGED <<flight, output>>
    BY <1>3 DEF CreatePassengers, OpenPassengers, CopyBag, HandOver, AwaitIds, Ups, Downs,
       mainVars
  <2> QED BY <1>1, <2>1 DEF Past
<1>4. CASE OpenIds
  <2>1. flight' = flight /\ output' = Append(output, <<>>) /\ Len(output) = flight - 1
    BY <1>4, OpensIds DEF Copying
  <2>2. \A k \in 1 .. flight - 1 : output'[k] = output[k]
    BY <1>1, <2>1, AppendProperties
  <2> QED BY <1>1, <2>1, <2>2 DEF Past
<1>5. CASE CopyId
  <2>1. flight' = flight /\ \A k \in 1 .. flight - 1 : output'[k] = output[k]
    <3>1. Len(output) = flight /\ DOMAIN output = 1 .. flight
      BY <1>1, <1>5 DEF Copying, CopyId
    <3>2. CASE copied < Len(scannerIdTxt.contents)
      <4> DEFINE longer == Append(output[flight], scannerIdTxt.contents[copied + 1])
      <4>1. flight' = flight /\ output' = [output EXCEPT ![flight] = longer]
        BY <1>5, <3>2, CopiesId
      <4> HIDE DEF longer
      <4>2. \A k \in 1 .. flight - 1 : k \in DOMAIN output /\ k # flight
        BY <1>1, <3>1
      <4> QED BY <4>1, <4>2
    <3>3. CASE ~ (copied < Len(scannerIdTxt.contents))
      BY <1>1, <1>5, <3>3, IdsCopied
    <3> QED BY <3>2, <3>3
  <2> QED BY <1>1, <2>1 DEF Past
<1>6. CASE Handled
  <2>1. pc.main = "handled" /\ flight' = flight + 1 /\ output' = output
    BY <1>6, HandlesFlight
  <2>2. Finished /\ ~ Fresh /\ Done = Len(Bags)
    BY <2>1, Alone DEF Fresh, Finished, Done, Between
  <2>3. Balanced(output[flight], flights[flight], Len(flights[flight]))
    BY <2>1, <2>2 DEF Scanning, Copying, Bags
  <2>4. \A k \in 1 .. flight : k \in 1 .. flight - 1 \/ k = flight
    BY <1>1
  <2>5. flight' - 1 = flight
    BY <1>1, <2>1
  <2> QED BY <1>1, <2>1, <2>3, <2>4, <2>5 DEF Past
<1> QED BY <1>2, <1>3, <1>4, <1>5, <1>6 DEF Next, main

LEMMA DataNext == Control /\ Data /\ [Next]_vars => Data'
<1> SUFFICES ASSUME Control, Data, [Next]_vars, Provided'
             PROVE  Copying' /\ Offering' /\ Scanning' /\ Past'
  BY DEF Data
<1>1. UNCHANGED fixed /\ Provided
  BY FixedNext DEF fixed, Provided
<1>2. Types /\ Turn /\ Entries /\ Present /\ Copying /\ Offering /\ Scanning /\ Past
  BY <1>1 DEF Control, Data
<1>3. CASE Next
  BY <1>1, <1>2, <1>3, CopyingNext, OfferingNext, ScanningNext, PastNext
<1>4. CASE UNCHANGED vars
  <2>1. /\ UNCHANGED <<pc, sem, passengersTxt, scannerIdTxt, lugWeightTxt, flight, copied,
                       output>>
        /\ UNCHANGED <<length, filePointer, writeScannerId, bag, load, flights>>
    BY <1>4 DEF vars, files, mainVars, passengersVars, scannersVars, fixed
  <2>2. Bags' = Bags /\ Ids' = Ids /\ (Fresh' <=> Fresh) /\ (Between' <=> Between)
    BY <2>1 DEF Bags, Ids, Fresh, Finished, Between
  <2>3. Done' = Done
    BY <2>1, <2>2 DEF Done
  <2>4. (AtRest' <=> AtRest)
    BY <2>1, <2>2, <2>3 DEF AtRest
  <2>5. Copying' /\ Offering'
    BY <1>2, <2>1, <2>2 DEF Copying, Offering
  <2>6. Past'
    BY <1>2, <2>1 DEF Past
  <2> QED BY <1>2, <2>1, <2>2, <2>3, <2>4, <2>5, <2>6, SameScanning
<1> QED BY <1>3, <1>4
-----------------------------------------------------------------------------
\* The three programs work in turn: with scannerid.txt left from an earlier run
\* and entries enough in the file table exactly one of them is at work or has
\* been called, whatever the flights, and no OpenF fails.
THEOREM InTurnHolds == Spec => []InTurn
<1>1. Control => InTurn
  BY DEF Control, InTurn, Turn
<1> QED BY <1>1, ControlInit, ControlNext, PTL DEF Spec

\* output.txt is right for each flight that main has handled: one scanner for
\* each bag with a weight, the first of those that had taken least.
THEOREM OutputRightHolds == Spec => []OutputRight
<1>1. Data => OutputRight
  BY DEF Data, OutputRight, Past
<1> QED BY <1>1, ControlInit, ControlNext, DataInit, DataNext, PTL DEF Spec
=============================================================================
