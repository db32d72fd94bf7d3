------------------------------ MODULE SemTable ------------------------------
(***************************************************************************)
(* Semaphores of user programs: STable and Sem (userprog/stable.cc and     *)
(* stable.h) with the system calls CreateSemaphore, Up and Down            *)
(* (userprog/exception.cc), over Semaphore (threads/synch.cc).             *)
(*                                                                         *)
(* The initial value comes from the program and is not checked, so values  *)
(* are integers.  Names are copied from user memory with a limit that is   *)
(* larger in CreateSemaphore than in Up and Down.  Only P can take the     *)
(* processor away in the middle of a call.                                 *)
(***************************************************************************)
EXTENDS Integers, FiniteSets

CONSTANTS Proc,
          Name,           \* names programs use, of at most 49 characters
          Length,         \* their lengths
          Prefix,         \* the first NameLimit characters of each
          NameLimit,      \* characters Up and Down copy: MaxFileLength + 1
          MAX_SEMAPHORE,  \* slots (10)
          InitialValue,   \* the values programs pass to CreateSemaphore
          MaxValue,       \* bound on the size of a value and of a balance
          NULL

ASSUME SemTableAssumption ==
  /\ Length \in [Name -> 0 .. 49]
  /\ Prefix \in [Name -> Name]
  /\ \A n \in Name : Length[n] <= NameLimit => Prefix[n] = n
  /\ NameLimit \in Nat
  /\ MAX_SEMAPHORE \in Nat
  /\ MaxValue \in Nat
  /\ InitialValue \subseteq -MaxValue .. MaxValue
  /\ NULL \notin Name

Slot == 0 .. MAX_SEMAPHORE - 1

VARIABLES
  semPc,     \* "user", or "P" inside Semaphore::P
  on,        \* the slot of that semaphore
  asked,     \* the name that Down was given
  semTab,    \* the name in each slot, NULL if its bit in bm is clear
  value,     \* Semaphore::value in each slot
  initial,   \* history: the value each name was created with
  balance    \* history: Ups of each name, as programs gave it, less the Downs
             \* of that name which have returned

stVars == <<semPc, on, asked, semTab, value, initial, balance>>

STTypeOK ==
  /\ semPc \in [Proc -> {"user", "P"}]
  /\ on \in [Proc -> Slot \cup {NULL}]
  /\ asked \in [Proc -> Name \cup {NULL}]
  /\ semTab \in [Slot -> Name \cup {NULL}]
  /\ value \in [Slot -> -MaxValue .. MaxValue]
  /\ initial \in [Name -> -MaxValue .. MaxValue]
  /\ balance \in [Name -> -MaxValue .. MaxValue]

\* STable::STable.
STInit ==
  /\ semPc = [p \in Proc |-> "user"]
  /\ on = [p \in Proc |-> NULL]
  /\ asked = [p \in Proc |-> NULL]
  /\ semTab = [i \in Slot |-> NULL]
  /\ value = [i \in Slot |-> 0]
  /\ initial = [n \in Name |-> 0]
  /\ balance = [n \in Name |-> 0]

Marked == {i \in Slot : semTab[i] # NULL}
FindFreeSlot(i) == i \in Slot \ Marked /\ \A j \in Slot \ Marked : i <= j

\* Machine::User2System: the name, cut off at the limit of Up and Down.
User2System(n) == IF Length[n] <= NameLimit THEN n ELSE Prefix[n]
-----------------------------------------------------------------------------
\* CreateSemaphore(n, init).  It returns -1 and changes nothing if the name
\* is in use or the table is full.  Semaphores are never deleted.
Create(p, n, init) ==
  /\ semPc[p] = "user"
  /\ \A i \in Marked : semTab[i] # n
  /\ \E i \in Slot :
       /\ FindFreeSlot(i)
       /\ semTab' = [semTab EXCEPT ![i] = n]
       /\ value' = [value EXCEPT ![i] = init]
  /\ initial' = [initial EXCEPT ![n] = init]
  /\ UNCHANGED <<semPc, on, asked, balance>>

\* Mutant: the names are not compared.
FindsFirst(n, i) == i \in Marked /\ \A j \in Marked : i <= j

\* The slot that the loops of Wait and Signal stop at.
Finds(n, i) == /\ i \in Marked
               /\ semTab[i] = User2System(n)
               /\ \A j \in Marked : semTab[j] = User2System(n) => i <= j

\* Up or Down of a name that is in no slot: returns -1.
NotFound(p, n) ==
  /\ semPc[p] = "user"
  /\ \A i \in Marked : semTab[i] # User2System(n)
  /\ UNCHANGED stVars

\* Down(n) as far as Semaphore::P.
Down(p, n) ==
  \E i \in Slot :
    /\ semPc[p] = "user"
    /\ Finds(n, i)
    /\ semPc' = [semPc EXCEPT ![p] = "P"]
    /\ on' = [on EXCEPT ![p] = i]
    /\ asked' = [asked EXCEPT ![p] = n]
    /\ UNCHANGED <<semTab, value, initial, balance>>

\* Mutant: Down does not wait for a unit.
DownNoWait(p) ==
  /\ semPc[p] = "P"
  /\ value' = [value EXCEPT ![on[p]] = @ - 1]
  /\ balance' = [balance EXCEPT ![asked[p]] = @ - 1]
  /\ semPc' = [semPc EXCEPT ![p] = "user"]
  /\ on' = [on EXCEPT ![p] = NULL]
  /\ asked' = [asked EXCEPT ![p] = NULL]
  /\ UNCHANGED <<semTab, initial>>

\* P waits while the value is zero, not while it is negative.
DownPasses(p) ==
  /\ semPc[p] = "P"
  /\ value[on[p]] # 0
  /\ value[on[p]] > -MaxValue /\ balance[asked[p]] > -MaxValue
  /\ value' = [value EXCEPT ![on[p]] = @ - 1]
  /\ balance' = [balance EXCEPT ![asked[p]] = @ - 1]
  /\ semPc' = [semPc EXCEPT ![p] = "user"]
  /\ on' = [on EXCEPT ![p] = NULL]
  /\ asked' = [asked EXCEPT ![p] = NULL]
  /\ UNCHANGED <<semTab, initial>>

\* Up(n).
Up(p, n) ==
  \E i \in Slot :
    /\ semPc[p] = "user"
    /\ Finds(n, i)
    /\ value[i] < MaxValue /\ balance[n] < MaxValue
    /\ value' = [value EXCEPT ![i] = @ + 1]
    /\ balance' = [balance EXCEPT ![n] = @ + 1]
    /\ UNCHANGED <<semPc, on, asked, semTab, initial>>
-----------------------------------------------------------------------------
STNext == \E p \in Proc :
          \/ DownPasses(p)
          \/ \E n \in Name : \/ Down(p, n) \/ Up(p, n) \/ NotFound(p, n)
                             \/ \E v \in InitialValue : Create(p, n, v)

STSpec == STInit /\ [][STNext]_stVars
-----------------------------------------------------------------------------
(* Correctness *)

\* A name means one semaphore for all processes: two programs that create it
\* at the same time do not end up with one each.
NamesUnique == \A i, j \in Marked : semTab[i] = semTab[j] => i = j

\* synch.h:50: "semaphore value, always >= 0".  However the calls of several
\* processes interleave, Down does not take more units than there are.  It is
\* not so for a semaphore that a program created with a negative value, which
\* CreateSemaphore accepts and on which Down never waits.
NonNegative == \A i \in Marked : initial[semTab[i]] >= 0 => value[i] >= 0

\* What Up and Down of the name m have given to the semaphore n.
Part(n, m) == IF User2System(m) = n THEN balance[m] ELSE 0

\* Units are neither lost nor made, nor moved from one semaphore to another:
\* its value is what it was created with, plus the Ups and less the Downs that
\* programs called for it (stable.h:58-61), however the calls interleave.
\* Those of a name beyond the limit count for the name that it is cut down to,
\* and a semaphore of such a name keeps its first value: that is all that Up
\* and Down do with names that CreateSemaphore accepts and they do not
\* (exception.cc:786).  Stated for names with at most one longer one each.
UnitsAccounted ==
  \A i \in Marked : LET n == semTab[i] IN
    \A m \in Name \ {n} :
      (\A k \in Name : User2System(k) = n => k \in {n, m})
        => value[i] = initial[n] + Part(n, n) + Part(n, m)

\* What makes them inductive: a process inside P is on the slot of the name it
\* asked for, and nothing is counted for a name before its semaphore exists.
InsideP == \A p \in Proc : semPc[p] = "P" =>
             /\ on[p] \in Marked
             /\ asked[p] \in Name /\ semTab[on[p]] = User2System(asked[p])

BalanceCounted == \A n \in Name : balance[n] # 0 => \E i \in Marked : semTab[i] = User2System(n)

STInv == /\ STTypeOK /\ InsideP /\ BalanceCounted
         /\ NamesUnique /\ NonNegative /\ UnitsAccounted
=============================================================================
