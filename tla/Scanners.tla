------------------------------ MODULE Scanners ------------------------------
(***************************************************************************)
(* The application of the project: main (test/scannersmain.c) hands the    *)
(* luggage of one flight after the other to passengers (passengers.c),     *)
(* which hands the bags one by one to scanners (scanners.c).  The three    *)
(* processes work in turn by four semaphores and three files.              *)
(*                                                                         *)
(* A step is a call of Up or Down, or of CreateF or OpenF, or the ReadF,   *)
(* WriteF and CloseF calls for one bag on one file.  A bag is its weight;  *)
(* its digits, spaces and line ends are left out.  The files are those of  *)
(* the stub file system: CreateF empties a file that exists, and an open   *)
(* file keeps its own position.                                            *)
(***************************************************************************)
EXTENDS Integers, Sequences, FiniteSetsExt

CONSTANTS Inputs,        \* the inputs considered: a sequence of bags for each flight
          SlotChoices    \* how many entries the file table has for the three

ASSUME ScannersAssumption ==
  /\ \A input \in Inputs : input \in Seq(Seq(Nat))
  /\ SlotChoices \subseteq Nat

Closed == -1

VARIABLES
  flights, slots,          \* the input, and the entries of the file table
  pc,                      \* where each program is
  sem,                     \* the semaphores
  passengersTxt,           \* the files: Absent, or what they hold
  scannerIdTxt,            \* (the number of the scanner of each bag)
  lugWeightTxt,            \* (the weight of a bag, and whether "\n" follows)
  inUse,                   \* entries of the file table in use
  flight, copied,          \* main: the flight, and bags or ids copied of it
  output,                  \* main: output.txt, the ids of each flight
  length, filePointer,     \* passengers: fileLength and filePointer
  readPassengers,          \* passengers: the handle, Closed or 0
  writeScannerId,          \* scanners: the handle, Closed or its position
  bag, load,               \* scanners: what was read, and scanner1 to scanner3
  existed                  \* history: scannerid.txt was there at the start

files == <<passengersTxt, scannerIdTxt, lugWeightTxt, inUse>>
mainVars == <<flight, copied, output>>
passengersVars == <<length, filePointer, readPassengers>>
scannersVars == <<writeScannerId, bag, load>>
fixed == <<flights, slots, existed>>
vars == <<pc, sem, files, mainVars, passengersVars, scannersVars, fixed>>

Absent == [absent |-> TRUE]
File(contents) == [absent |-> FALSE, contents |-> contents]
NoBag == [weight |-> 0, end |-> FALSE]

\* The semaphores and files are there and main has started the two others;
\* files of an earlier run may be there.
Init ==
  /\ flights \in Inputs /\ slots \in SlotChoices
  /\ pc = [main |-> "create", passengers |-> "start", scanners |-> "flight"]
  /\ sem = [main |-> 0, passengers |-> 0, scanners |-> 0, maincounter |-> 0]
  /\ existed \in BOOLEAN
  /\ scannerIdTxt = IF existed THEN File(<<3>>) ELSE Absent
  /\ passengersTxt = Absent /\ lugWeightTxt = Absent
  /\ inUse = 2                                   \* input.txt and output.txt
  /\ flight = 1 /\ copied = 0 /\ output = <<>>
  /\ length = 0 /\ filePointer = 0 /\ readPassengers = Closed
  /\ writeScannerId = Closed /\ bag = NoBag /\ load = [s \in 1 .. 3 |-> 0]
-----------------------------------------------------------------------------
(* System calls *)

At(p, from, to) == pc[p] = from /\ pc' = [pc EXCEPT ![p] = to]
Up(s) == sem' = [sem EXCEPT ![s] = @ + 1]
Down(s) == sem[s] > 0 /\ sem' = [sem EXCEPT ![s] = @ - 1]

\* Program p calls Up or Down and nothing else.
Ups(p, from, s, to) ==
  At(p, from, to) /\ Up(s) /\ UNCHANGED <<files, mainVars, passengersVars, scannersVars, fixed>>
Downs(p, from, s, to) ==
  At(p, from, to) /\ Down(s) /\ UNCHANGED <<files, mainVars, passengersVars, scannersVars, fixed>>

\* OpenF: whether it finds the file and an entry, and its effect on the table.
CanOpen(f) == ~ f.absent /\ inUse < slots
OpenF == inUse' = inUse + 1
CloseF == inUse' = inUse - 1
-----------------------------------------------------------------------------
(* main *)

mainUnchanged == UNCHANGED <<sem, passengersVars, scannersVars, fixed>>

CreatePassengers ==
  /\ pc.main = "create"
  /\ IF flight > Len(flights)
     THEN /\ pc' = [pc EXCEPT !.main = "done"] /\ inUse' = inUse - 2
          /\ UNCHANGED passengersTxt
     ELSE /\ pc' = [pc EXCEPT !.main = "open"] /\ passengersTxt' = File(<<>>)
          /\ UNCHANGED inUse
  /\ UNCHANGED <<scannerIdTxt, lugWeightTxt, mainVars>> /\ mainUnchanged

\* main gives up, closing input.txt and output.txt, if OpenF fails.
OpenPassengers ==
  /\ pc.main = "open"
  /\ IF CanOpen(passengersTxt)
     THEN pc' = [pc EXCEPT !.main = "copy"] /\ OpenF
     ELSE pc' = [pc EXCEPT !.main = "done"] /\ inUse' = inUse - 2
  /\ UNCHANGED <<passengersTxt, scannerIdTxt, lugWeightTxt, mainVars>> /\ mainUnchanged

\* The next bag of the line is copied, or CloseF is called at its end.
CopyBag ==
  /\ pc.main = "copy"
  /\ IF copied < Len(flights[flight])
     THEN /\ passengersTxt' = File(Append(passengersTxt.contents, flights[flight][copied + 1]))
          /\ copied' = copied + 1
          /\ UNCHANGED <<pc, inUse>>
     ELSE /\ pc' = [pc EXCEPT !.main = "handOver"] /\ CloseF /\ copied' = 0
          /\ UNCHANGED passengersTxt
  /\ UNCHANGED <<scannerIdTxt, lugWeightTxt, flight, output>> /\ mainUnchanged

HandOver == Ups("main", "handOver", "passengers", "wait")
AwaitIds == Downs("main", "wait", "main", "openIds")

OpenIds ==
  /\ pc.main = "openIds"
  /\ IF CanOpen(scannerIdTxt)
     THEN pc' = [pc EXCEPT !.main = "copyIds"] /\ OpenF /\ output' = Append(output, <<>>)
     ELSE pc' = [pc EXCEPT !.main = "done"] /\ inUse' = inUse - 2 /\ UNCHANGED output
  /\ UNCHANGED <<passengersTxt, scannerIdTxt, lugWeightTxt, flight, copied>> /\ mainUnchanged

CopyId ==
  /\ pc.main = "copyIds"
  /\ IF copied < Len(scannerIdTxt.contents)
     THEN /\ output' = [output EXCEPT ![flight] = Append(@, scannerIdTxt.contents[copied + 1])]
          /\ copied' = copied + 1
          /\ UNCHANGED <<pc, inUse, flight>>
     ELSE /\ pc' = [pc EXCEPT !.main = "handled"] /\ CloseF
          /\ copied' = 0
          /\ UNCHANGED <<output, flight>>
  /\ UNCHANGED <<passengersTxt, scannerIdTxt, lugWeightTxt>> /\ mainUnchanged

\* Mutant: main does not tell the scanners that the flight is over.
HandledSilently ==
  /\ At("main", "handled", "create")
  /\ flight' = flight + 1
  /\ UNCHANGED <<sem, files, copied, output, passengersVars, scannersVars, fixed>>

Handled ==
  /\ At("main", "handled", "create") /\ Up("maincounter")
  /\ flight' = flight + 1
  /\ UNCHANGED <<files, copied, output, passengersVars, scannersVars, fixed>>
-----------------------------------------------------------------------------
(* passengers *)

passengersUnchanged == UNCHANGED <<sem, mainVars, scannersVars, fixed>>

\* Mutant: passengers starts by raising its own semaphore instead of main's.
StartWrong == Ups("passengers", "start", "passengers", "flight")

Start == Ups("passengers", "start", "maincounter", "flight")
AwaitFlight == Downs("passengers", "flight", "passengers", "createIds")

CreateScannerId ==
  /\ At("passengers", "createIds", "openBags")
  /\ scannerIdTxt' = File(<<>>)
  /\ UNCHANGED <<passengersTxt, lugWeightTxt, inUse, passengersVars>> /\ passengersUnchanged

\* OpenF("passengers.txt"); if it fails the program ends after Up("main").
OpenBags ==
  /\ pc.passengers = "openBags"
  /\ IF CanOpen(passengersTxt)
     THEN pc' = [pc EXCEPT !.passengers = "length"] /\ OpenF
     ELSE pc' = [pc EXCEPT !.passengers = "fail"] /\ UNCHANGED inUse
  /\ UNCHANGED <<passengersTxt, scannerIdTxt, lugWeightTxt, passengersVars>> /\ passengersUnchanged

\* getFileLength and CloseF.
GetFileLength ==
  /\ At("passengers", "length", "reopen")
  /\ length' = Len(passengersTxt.contents)
  /\ CloseF
  /\ UNCHANGED <<passengersTxt, scannerIdTxt, lugWeightTxt, filePointer, readPassengers>>
  /\ passengersUnchanged

\* The second OpenF, which is not tested, and CreateF("lugweight.txt").
Reopen ==
  /\ At("passengers", "reopen", "openLug")
  /\ IF CanOpen(passengersTxt) THEN OpenF /\ readPassengers' = 0
                               ELSE readPassengers' = Closed /\ UNCHANGED inUse
  /\ lugWeightTxt' = File(NoBag)
  /\ filePointer' = 0
  /\ UNCHANGED <<passengersTxt, scannerIdTxt, length>> /\ passengersUnchanged

\* OpenF("lugweight.txt"), before the loop and again after each bag.  The
\* handle that the last one of a flight returns is never closed.
OpenLug ==
  /\ pc.passengers = "openLug"
  /\ IF CanOpen(lugWeightTxt)
     THEN pc' = [pc EXCEPT !.passengers = "bag"] /\ OpenF /\ UNCHANGED readPassengers
     ELSE /\ pc' = [pc EXCEPT !.passengers = "fail"]
          /\ IF readPassengers = Closed THEN UNCHANGED inUse ELSE CloseF
          /\ readPassengers' = Closed
  /\ UNCHANGED <<passengersTxt, scannerIdTxt, lugWeightTxt, length, filePointer>>
  /\ passengersUnchanged

\* What the loop of passengers reads as its next bag.  Without a handle ReadF
\* reads nothing, and the loop sees the last character of the file until it
\* ends; past the end of the file it sees the separator of the last bag.
NextRead == IF readPassengers = Closed THEN length ELSE filePointer + 1
Weight(i) == IF i \in DOMAIN passengersTxt.contents THEN passengersTxt.contents[i] ELSE 0

\* One bag is read and written to lugweight.txt, which is closed; or the flight
\* is over, and readPassengers is left open.
NextBag ==
  /\ pc.passengers = "bag"
  /\ IF filePointer < length
     THEN /\ pc' = [pc EXCEPT !.passengers = "offer"]
          /\ lugWeightTxt' = File([weight |-> Weight(NextRead), end |-> NextRead = length])
          /\ filePointer' = NextRead
          /\ CloseF
     ELSE /\ pc' = [pc EXCEPT !.passengers = "over"]
          /\ UNCHANGED <<lugWeightTxt, filePointer, inUse>>
  /\ UNCHANGED <<passengersTxt, scannerIdTxt, length, readPassengers>> /\ passengersUnchanged

Offer == Ups("passengers", "offer", "scanners", "await")
AwaitScan == Downs("passengers", "await", "passengers", "createLug")

CreateLug ==
  /\ At("passengers", "createLug", "openLug")
  /\ lugWeightTxt' = File(NoBag)
  /\ UNCHANGED <<passengersTxt, scannerIdTxt, inUse, passengersVars>> /\ passengersUnchanged

FlightOver == Ups("passengers", "over", "main", "flight")
GiveUp == Ups("passengers", "fail", "main", "done")
-----------------------------------------------------------------------------
(* scanners *)

scannersUnchanged == UNCHANGED <<sem, mainVars, passengersVars, fixed>>

AwaitMain == Downs("scanners", "flight", "maincounter", "openIds")

\* OpenF("scannerid.txt"); if it fails the program calls Up("passengers") and
\* goes on without the file.
OpenScannerId ==
  /\ pc.scanners = "openIds"
  /\ IF CanOpen(scannerIdTxt)
     THEN pc' = [pc EXCEPT !.scanners = "scan"] /\ OpenF /\ writeScannerId' = 0
     ELSE pc' = [pc EXCEPT !.scanners = "noFile"] /\ writeScannerId' = Closed /\ UNCHANGED inUse
  /\ UNCHANGED <<passengersTxt, scannerIdTxt, lugWeightTxt, bag, load>> /\ scannersUnchanged

NoFile == Ups("scanners", "noFile", "passengers", "scan")
AwaitBag == Downs("scanners", "scan", "scanners", "openLug")

\* CloseF of the file of ids, if it is open.
CloseIds == inUse' = inUse - (IF writeScannerId = Closed THEN 0 ELSE 1)

OpenLugWeight ==
  /\ pc.scanners = "openLug"
  /\ IF CanOpen(lugWeightTxt)
     THEN pc' = [pc EXCEPT !.scanners = "read"] /\ OpenF
     ELSE pc' = [pc EXCEPT !.scanners = "fail"] /\ CloseIds
  /\ UNCHANGED <<passengersTxt, scannerIdTxt, lugWeightTxt, scannersVars>> /\ scannersUnchanged

\* The weight is read, up to the end of the file or of the line; CloseF.
ReadLugWeight ==
  /\ At("scanners", "read", "choose")
  /\ bag' = lugWeightTxt.contents
  /\ CloseF
  /\ UNCHANGED <<passengersTxt, scannerIdTxt, lugWeightTxt, writeScannerId, load>> /\ scannersUnchanged

\* Mutant: the second scanner is not compared with the third.
ChooseStrict ==
  CASE load[1] <= load[2] /\ load[1] <= load[3] -> 1
    [] ~ (load[1] <= load[2] /\ load[1] <= load[3]) /\ load[2] <= load[1] -> 2
    [] OTHER -> 3

\* The comparisons of scanner1 to scanner3, in their order.
Choose == IF load[1] <= load[2] /\ load[1] <= load[3] THEN 1
          ELSE IF load[2] <= load[1] /\ load[2] <= load[3] THEN 2 ELSE 3

\* WriteF at position pos of a file; a gap is filled with zeros.
WriteF(contents, pos, x) ==
  [i \in 1 .. Max({Len(contents), pos + 1}) |->
     IF i = pos + 1 THEN x ELSE IF i <= Len(contents) THEN contents[i] ELSE 0]

\* The scanner is chosen and its number written; a bag without weight gets none.
Scan ==
  /\ At("scanners", "choose", IF bag.end THEN "close" ELSE "next")
  /\ load' = [load EXCEPT ![Choose] = @ + bag.weight]
  /\ IF bag.weight # 0 /\ writeScannerId # Closed
     THEN /\ scannerIdTxt' = File(WriteF(scannerIdTxt.contents, writeScannerId, Choose))
          /\ writeScannerId' = writeScannerId + 1
     ELSE UNCHANGED <<scannerIdTxt, writeScannerId>>
  /\ UNCHANGED <<passengersTxt, lugWeightTxt, inUse, bag>> /\ scannersUnchanged

\* At the end of the flight the loads are reset and the file is closed.
CloseScannerId ==
  /\ At("scanners", "close", "last")
  /\ load' = [s \in 1 .. 3 |-> 0]
  /\ CloseIds /\ writeScannerId' = Closed
  /\ UNCHANGED <<passengersTxt, scannerIdTxt, lugWeightTxt, bag>> /\ scannersUnchanged

Scanned == Ups("scanners", "next", "passengers", "scan")
LastScanned == Ups("scanners", "last", "passengers", "flight")
ScannersFail == Ups("scanners", "fail", "passengers", "done")
-----------------------------------------------------------------------------
main == \/ CreatePassengers \/ OpenPassengers \/ CopyBag \/ HandOver \/ AwaitIds
        \/ OpenIds \/ CopyId \/ Handled
passengers == \/ Start \/ AwaitFlight \/ CreateScannerId \/ OpenBags \/ GetFileLength
              \/ Reopen \/ OpenLug \/ NextBag \/ Offer \/ AwaitScan \/ CreateLug
              \/ FlightOver \/ GiveUp
scanners == \/ AwaitMain \/ OpenScannerId \/ NoFile \/ AwaitBag \/ OpenLugWeight
            \/ ReadLugWeight \/ Scan \/ CloseScannerId \/ Scanned \/ LastScanned \/ ScannersFail

Next == main \/ passengers \/ scanners
Spec == Init /\ [][Next]_vars

\* A process that can run does: the scheduler serves its ready list in turn.
FairSpec == Spec /\ WF_vars(main) /\ WF_vars(passengers) /\ WF_vars(scanners)
-----------------------------------------------------------------------------
(* Correctness *)

\* What the application needs: scannerid.txt is left from an earlier run, and
\* the file table has room for the two handles that passengers leaves open for
\* each flight.
Provided == existed /\ slots >= 2 * Len(flights) + 4

One(p) == IF p THEN 1 ELSE 0

\* The three programs work in turn: exactly one of them is at work or has been
\* called and not yet begun, so that no file is read while another writes it.
InTurn ==
  Provided /\ pc.main # "done" =>
    1 = sem.main + sem.passengers + sem.scanners
          + One(pc.main # "wait")
          + One(pc.passengers \notin {"start", "flight", "await"})
          + One(pc.scanners \notin {"flight", "openIds", "scan"})

\* Those of the first n bags that have a weight and so get a scanner, and the
\* scanner of bag j if ids has one for each of them in turn.
Weighed(bags, n) == {j \in 1 .. n : bags[j] # 0}
ScannerOf(ids, bags, j) == ids[Cardinality(Weighed(bags, j))]

\* The weight that scanner s has taken of the first n bags: a set of units.
Taken(ids, bags, s, n) ==
  Cardinality(UNION {{j} \X (1 .. bags[j]) :
                       j \in {i \in Weighed(bags, n) : ScannerOf(ids, bags, i) = s}})

\* Each of the first n bags went to the first of the scanners that had taken
\* least of the bags before it.
Balanced(ids, bags, n) ==
  /\ Len(ids) = Cardinality(Weighed(bags, n))
  /\ \A j \in Weighed(bags, n), s \in 1 .. 3 :
       LET mine == Taken(ids, bags, ScannerOf(ids, bags, j), j - 1)
           its  == Taken(ids, bags, s, j - 1)
       IN  /\ ScannerOf(ids, bags, j) \in 1 .. 3
           /\ mine < its \/ (mine = its /\ ScannerOf(ids, bags, j) <= s)

\* For each flight that main has handled output.txt has one scanner for each
\* bag with a weight, in order, and it is the first of those that had taken
\* least of this flight.
OutputRight ==
  Provided => \A k \in 1 .. flight - 1 : Balanced(output[k], flights[k], Len(flights[k]))

\* Every flight is handled: nobody waits for ever for another and no OpenF
\* fails, although handles are left open.
AllHandled == Provided ~> pc.main = "done" /\ flight = Len(flights) + 1
=============================================================================
