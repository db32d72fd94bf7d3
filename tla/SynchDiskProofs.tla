-------------------------- MODULE SynchDiskProofs --------------------------
(***************************************************************************)
(* Proofs about SynchDisk and the interrupts it uses, for any number of    *)
(* threads, any disk geometry, any times and any bound MaxTime; and, in the *)
(* second part, about PostOffice, for any nodes, boxes, clients and mails. *)
(***************************************************************************)
EXTENDS SynchDisk, PostOffice, SequenceTheorems, NaturalsInduction, WellFoundedInduction, TLAPS

USE InterruptAssumption, SynchDiskAssumption

\* An entry of Interrupt::pending.
Entry == [type : {"TimerInt", "DiskInt"}, when : Nat]

TypeOK ==
  /\ totalTicks \in Nat /\ pending \in Seq(Entry)
  /\ phase \in {"run", "OneTick", "Idle"}
  /\ yieldOnReturn \in BOOLEAN /\ halted \in BOOLEAN
  /\ active \in BOOLEAN /\ lastSector \in Sector /\ bufferInit \in Nat
  /\ value \in Nat
  /\ pc \in [Thread -> {"idle", "P", "done"}]
  /\ requester \subseteq Thread /\ early \subseteq Thread
  /\ overlap \in BOOLEAN /\ aborted \in BOOLEAN

\* The list is sorted, and no device has two interrupts in it.
Sorted(list) == \A i, j \in DOMAIN list : i <= j => list[i].when <= list[j].when
Single(list) == \A i, j \in DOMAIN list : list[i].type = list[j].type => i = j
Has(list, type) == \E i \in DOMAIN list : list[i].type = type

Listed == Sorted(pending) /\ Single(pending) /\ (active <=> Has(pending, "DiskInt"))

\* The clock has not passed a pending interrupt, but in the loop of OneTick.
OnTime == /\ phase # "OneTick" => \A i \in DOMAIN pending : pending[i].when >= totalTicks
          /\ phase = "run" => ~ yieldOnReturn

\* A halted machine stays as it was.
Stopped == halted => phase = "run" /\ ~ active /\ ~ SomeReady

\* The track buffer began to fill when a rotation period started.
Whole == bufferInit = (bufferInit \div RotationTime) * RotationTime

Interrupts == TypeOK /\ Listed /\ OnTime /\ NoneOverdue /\ Stopped /\ Whole

\* While calls are kept apart there is one token for the thread in the disk:
\* the disk has it until the interrupt, then the semaphore.
OneToken ==
  /\ active => value = 0
  /\ value <= 1
  /\ ~ active => requester = {}
  /\ active \/ value > 0 => \E t \in Thread : pc[t] = "P"

Calls == /\ ~ overlap => OneToken /\ early = {}
         /\ aborted => overlap

IInv == Interrupts /\ Calls
-----------------------------------------------------------------------------
(* Lists sorted by time *)

\* A set of positions that is not empty has a least one.
LEMMA LeastPosition ==
  ASSUME NEW n \in Nat, NEW S \in SUBSET (1 .. n), S # {}
  PROVE  Min(S) \in S /\ \A y \in S : Min(S) <= y
<1>1. \A y \in S : y \in Nat
  BY 1 .. n \subseteq Nat
<1>2. PICK x \in S : \A y \in S : ~ (<<y, x>> \in OpToRel(<, Nat))
  BY <1>1, NatLessThanWellFounded, WFMin
<1>3. \A y \in S : ~ (y < x)
  BY <1>1, <1>2 DEF OpToRel
<1>4. \E m \in S : \A y \in S : m <= y
  BY <1>1, <1>3
<1> QED BY <1>4 DEF Min

\* The clock moves to the later of two times.
LEMMA MaxOfTwo ==
  ASSUME NEW a \in Nat, NEW b \in Nat, b >= a PROVE Max({a, b}) = b
<1>1. \E x \in {a, b} : \A y \in {a, b} : x >= y
  OBVIOUS
<1>2. Max({a, b}) \in {a, b} /\ \A y \in {a, b} : Max({a, b}) >= y
  BY <1>1 DEF Max
<1> QED BY <1>2

\* The two pieces of a list that is cut before position k.
LEMMA Pieces ==
  ASSUME NEW list \in Seq(Entry), NEW k \in 1 .. Len(list)
  PROVE  LET a == SubSeq(list, 1, k - 1)
             z == SubSeq(list, k, Len(list))
         IN  /\ a \in Seq(Entry) /\ Len(a) = k - 1 /\ \A i \in 1 .. k - 1 : a[i] = list[i]
             /\ z \in Seq(Entry) /\ Len(z) = Len(list) - k + 1
             /\ \A i \in 1 .. Len(list) - k + 1 : z[i] = list[k + i - 1]
<1> DEFINE n == Len(list)
           a == SubSeq(list, 1, k - 1)
           z == SubSeq(list, k, n)
<1>1. n \in Nat /\ k \in 1 .. n /\ \A i \in 1 .. n : list[i] \in Entry
  BY LenProperties, ElementOfSeq
<1> HIDE DEF n
<1>2. k \in Int /\ 1 \in Int /\ k - 1 \in Int /\ n \in Int /\ k <= n
  BY <1>1
<1>3. (\A i \in 1 .. k - 1 : list[i] \in Entry) /\ (\A i \in k .. n : list[i] \in Entry)
  BY <1>1
<1>4. /\ a \in Seq(Entry) /\ Len(a) = IF 1 <= k - 1 THEN (k - 1) - 1 + 1 ELSE 0
      /\ \A i \in 1 .. (k - 1) - 1 + 1 : a[i] = list[1 + i - 1]
  BY <1>2, <1>3, SubSeqProperties
<1>5. /\ z \in Seq(Entry) /\ Len(z) = IF k <= n THEN n - k + 1 ELSE 0
      /\ \A i \in 1 .. n - k + 1 : z[i] = list[k + i - 1]
  BY <1>2, <1>3, SubSeqProperties
<1> HIDE DEF a, z
<1>6. /\ a \in Seq(Entry) /\ Len(a) = k - 1
      /\ \A i \in 1 .. k - 1 : a[i] = list[i]
  BY <1>1, <1>4
<1>7. Len(z) = n - k + 1
  BY <1>2, <1>5
<1> QED BY <1>5, <1>6, <1>7 DEF a, z, n

\* SortedInsert puts the element after those that are not later and before
\* those that are, and leaves their order alone.
LEMMA Inserted ==
  ASSUME NEW list \in Seq(Entry), NEW e \in Entry, Sorted(list)
  PROVE  /\ SortedInsert(list, e) \in Seq(Entry)
         /\ Len(SortedInsert(list, e)) = Len(list) + 1
         /\ \E k \in 1 .. Len(list) + 1 :
              /\ SortedInsert(list, e)[k] = e
              /\ \A i \in 1 .. k - 1 : /\ SortedInsert(list, e)[i] = list[i]
                                       /\ list[i].when <= e.when
              /\ \A i \in k .. Len(list) : /\ SortedInsert(list, e)[i + 1] = list[i]
                                           /\ e.when < list[i].when
<1> DEFINE n == Len(list)
           later == {i \in DOMAIN list : e.when < list[i].when}
           r == SortedInsert(list, e)
<1>1. n \in Nat /\ DOMAIN list = 1 .. n /\ \A i \in 1 .. n : list[i] \in Entry
  BY LenProperties, ElementOfSeq
<1>2. e.when \in Nat /\ \A i \in 1 .. n : list[i].when \in Nat
  BY <1>1 DEF Entry
<1>3. CASE later = {}
  <2>1. r = Append(list, e)
    BY <1>3 DEF SortedInsert
  <2>2. /\ r \in Seq(Entry) /\ Len(r) = n + 1 /\ r[n + 1] = e
        /\ \A i \in 1 .. n : r[i] = list[i]
    BY <2>1, AppendProperties, <1>1
  <2>3. \A i \in 1 .. n : list[i].when <= e.when
    BY <1>1, <1>2, <1>3
  <2> HIDE DEF r, n, later
  <2>4. n + 1 \in 1 .. n + 1 /\ (n + 1) - 1 = n
    BY <1>1
  <2>5. \A i \in 1 .. (n + 1) - 1 : r[i] = list[i] /\ list[i].when <= e.when
    BY <2>2, <2>3, <2>4
  <2>6. \A i \in n + 1 .. n : r[i + 1] = list[i] /\ e.when < list[i].when
    BY <1>1
  <2> QED BY <2>2, <2>4, <2>5, <2>6 DEF r, n
<1>4. CASE later # {}
  <2> DEFINE k == Min(later)
             a == SubSeq(list, 1, k - 1)
             z == SubSeq(list, k, n)
  <2>1. k \in later /\ \A y \in later : k <= y
    BY <1>1, <1>4, LeastPosition, later \in SUBSET (1 .. n)
  <2>2. k \in 1 .. n /\ e.when < list[k].when
    BY <1>1, <2>1
  <2>3. \A i \in 1 .. k - 1 : i \in 1 .. n /\ list[i].when <= e.when
    <3> TAKE i \in 1 .. k - 1
    <3>1. i \in 1 .. n /\ ~ (k <= i)
      BY <1>1, <2>2
    <3>2. i \notin later
      BY <2>1, <3>1
    <3> QED BY <1>1, <1>2, <3>1, <3>2
  <2>4. \A i \in k .. n : e.when < list[i].when
    BY <1>1, <1>2, <2>2 DEF Sorted
  <2>5. r = a \o <<e>> \o z
    BY <1>4 DEF SortedInsert, InsertAt
  <2> HIDE DEF k, later
  <2>6. /\ a \in Seq(Entry) /\ Len(a) = k - 1 /\ \A i \in 1 .. k - 1 : a[i] = list[i]
        /\ z \in Seq(Entry) /\ Len(z) = n - k + 1
        /\ \A i \in 1 .. n - k + 1 : z[i] = list[k + i - 1]
    BY <1>1, <2>2, Pieces
  <2> DEFINE ae == a \o <<e>>
  <2> HIDE DEF a, z, r
  <2>7. ae \in Seq(Entry) /\ Len(ae) = k /\ ae[k] = e /\ \A i \in 1 .. k - 1 : ae[i] = list[i]
    <3>1. ae = Append(a, e)
      BY <2>6, AppendIsConcat
    <3>2. /\ ae \in Seq(Entry) /\ Len(ae) = Len(a) + 1 /\ ae[Len(a) + 1] = e
          /\ \A i \in 1 .. Len(a) : ae[i] = a[i]
      BY <2>6, <3>1, AppendProperties
    <3> HIDE DEF ae
    <3>3. Len(a) = k - 1 /\ Len(a) + 1 = k
      BY ONLY <2>2, <2>6
    <3>4. \A i \in 1 .. k - 1 : ae[i] = list[i]
      BY ONLY <2>6, <3>2, <3>3
    <3> QED BY ONLY <3>2, <3>3, <3>4
  <2> HIDE DEF ae
  <2>8. /\ r \in Seq(Entry) /\ Len(r) = n + 1
        /\ \A i \in 1 .. n + 1 : r[i] = IF i <= k THEN ae[i] ELSE z[i - k]
    <3>1. r = ae \o z
      BY <2>5 DEF ae, r
    <3>2. ae \in Seq(Entry) /\ z \in Seq(Entry)
      BY <2>6, <2>7
    <3>3. /\ r \in Seq(Entry) /\ Len(r) = Len(ae) + Len(z)
          /\ \A i \in 1 .. Len(ae) + Len(z) : r[i] = IF i <= Len(ae) THEN ae[i] ELSE z[i - Len(ae)]
      BY <3>1, <3>2, ConcatProperties
    <3>4. Len(ae) + Len(z) = n + 1 /\ Len(ae) = k
      BY <1>1, <2>2, <2>6, <2>7
    <3> QED BY <3>3, <3>4
  <2>9. r[k] = e /\ \A i \in 1 .. k - 1 : r[i] = list[i]
    <3>1. k \in 1 .. n + 1 /\ k <= k /\ \A i \in 1 .. k - 1 : i \in 1 .. n + 1 /\ i <= k
      BY <1>1, <2>2
    <3>2. r[k] = ae[k] /\ \A i \in 1 .. k - 1 : r[i] = ae[i]
      BY <2>8, <3>1
    <3> QED BY <2>7, <3>2
  <2>10. \A i \in k .. n : r[i + 1] = list[i]
    <3> TAKE i \in k .. n
    <3>1. r[i + 1] = z[i + 1 - k] /\ i + 1 - k \in 1 .. n - k + 1
      BY <1>1, <2>2, <2>8
    <3>2. z[i + 1 - k] = list[k + (i + 1 - k) - 1]
      BY <2>6, <3>1
    <3>3. k + (i + 1 - k) - 1 = i
      BY <1>1, <2>2
    <3> QED BY <3>1, <3>2, <3>3
  <2>11. k \in 1 .. n + 1
    BY <1>1, <2>2
  <2> QED BY <2>3, <2>4, <2>8, <2>9, <2>10, <2>11 DEF r, n
<1> QED BY <1>3, <1>4

\* What a list holds after SortedInsert: the element and what it held before,
\* still sorted and with one interrupt of each device.
LEMMA InsertedKeeps ==
  ASSUME NEW list \in Seq(Entry), NEW e \in Entry,
         Sorted(list), Single(list), ~ Has(list, e.type)
  PROVE  /\ SortedInsert(list, e) \in Seq(Entry)
         /\ Sorted(SortedInsert(list, e)) /\ Single(SortedInsert(list, e))
         /\ \A type : Has(SortedInsert(list, e), type) <=> Has(list, type) \/ type = e.type
         /\ \A i \in DOMAIN SortedInsert(list, e) :
              \/ SortedInsert(list, e)[i] = e
              \/ \E j \in DOMAIN list : SortedInsert(list, e)[i] = list[j]
<1> DEFINE n == Len(list)
           r == SortedInsert(list, e)
<1>1. n \in Nat /\ DOMAIN list = 1 .. n /\ \A i \in 1 .. n : list[i] \in Entry
  BY LenProperties, ElementOfSeq
<1>2. /\ n \in Nat /\ DOMAIN list = 1 .. n
      /\ e.when \in Nat /\ \A i \in 1 .. n : list[i].when \in Nat
  BY <1>1 DEF Entry
<1>3. r \in Seq(Entry) /\ Len(r) = n + 1 /\ DOMAIN r = 1 .. n + 1
  BY Inserted, LenProperties
<1>4. PICK k \in 1 .. n + 1 :
        /\ r[k] = e
        /\ \A i \in 1 .. k - 1 : r[i] = list[i] /\ list[i].when <= e.when
        /\ \A i \in k .. n : r[i + 1] = list[i] /\ e.when < list[i].when
  BY Inserted
<1> HIDE DEF n, r
<1>5. \A i \in 1 .. n + 1 :
        \/ i = k
        \/ i < k /\ i \in 1 .. n /\ r[i] = list[i] /\ list[i].when <= e.when
        \/ i > k /\ i - 1 \in 1 .. n /\ r[i] = list[i - 1] /\ e.when < list[i - 1].when
  <2> TAKE i \in 1 .. n + 1
  <2>1. CASE i < k
    <3>1. i \in 1 .. k - 1 /\ i \in 1 .. n
      BY <1>2, <2>1
    <3> QED BY <1>4, <2>1, <3>1
  <2>2. CASE i > k
    <3>1. i - 1 \in k .. n /\ i - 1 \in 1 .. n /\ (i - 1) + 1 = i
      BY <1>2, <2>2
    <3>2. r[(i - 1) + 1] = list[i - 1] /\ e.when < list[i - 1].when
      BY <1>4, <3>1
    <3> QED BY <2>2, <3>1, <3>2
  <2> QED BY <1>2, <2>1, <2>2
<1>6. \A j \in 1 .. n : \E i \in 1 .. n + 1 : r[i] = list[j]
  <2> TAKE j \in 1 .. n
  <2>1. CASE j < k
    <3>1. j \in 1 .. k - 1 /\ j \in 1 .. n + 1
      BY <1>2, <2>1
    <3> QED BY <1>4, <3>1
  <2>2. CASE j >= k
    <3>1. j \in k .. n /\ j + 1 \in 1 .. n + 1
      BY <1>2, <2>2
    <3> QED BY <1>4, <3>1
  <2> QED BY <1>2, <2>1, <2>2
<1>7. \A j \in 1 .. n : list[j].type # e.type
  BY <1>2 DEF Has
<1>8. \A i, j \in 1 .. n : i <= j => list[i].when <= list[j].when
  BY <1>2 DEF Sorted
<1>9. \A i, j \in 1 .. n : list[i].type = list[j].type => i = j
  BY <1>2 DEF Single
<1>10. Sorted(r)
  <2> SUFFICES ASSUME NEW i \in 1 .. n + 1, NEW j \in 1 .. n + 1, i <= j
               PROVE  r[i].when <= r[j].when
    BY <1>3 DEF Sorted
  <2>1. CASE j < k
    <3>1. i < k /\ i \in 1 .. n /\ j \in 1 .. n /\ r[i] = list[i] /\ r[j] = list[j]
      BY <1>2, <1>5, <2>1
    <3> QED BY <1>8, <3>1
  <2>2. CASE i > k
    <3>1. /\ j > k /\ i - 1 \in 1 .. n /\ j - 1 \in 1 .. n /\ i - 1 <= j - 1
          /\ r[i] = list[i - 1] /\ r[j] = list[j - 1]
      BY <1>2, <1>5, <2>2
    <3> QED BY <1>8, <3>1
  <2>3. CASE i <= k /\ k <= j
    <3>1. r[i].when \in Nat /\ r[i].when <= e.when
      <4>1. CASE i = k
        BY <1>2, <1>4, <4>1
      <4>2. CASE i < k
        <5>1. i \in 1 .. n /\ r[i] = list[i] /\ list[i].when <= e.when
          BY <1>2, <1>5, <4>2
        <5> QED BY <1>2, <5>1
      <4> QED BY <1>2, <2>3, <4>1, <4>2
    <3>2. r[j].when \in Nat /\ e.when <= r[j].when
      <4>1. CASE j = k
        BY <1>2, <1>4, <4>1
      <4>2. CASE j > k
        <5>1. j # k /\ ~ (j < k)
          BY <1>2, <4>2
        <5>2. j - 1 \in 1 .. n /\ r[j] = list[j - 1] /\ e.when < list[j - 1].when
          BY <1>5, <5>1
        <5> QED BY <1>2, <5>2
      <4> QED BY <1>2, <2>3, <4>1, <4>2
    <3> QED BY <1>2, <3>1, <3>2
  <2> QED BY <1>2, <2>1, <2>2, <2>3
<1>11. Single(r)
  <2> SUFFICES ASSUME NEW i \in 1 .. n + 1, NEW j \in 1 .. n + 1, r[i].type = r[j].type
               PROVE  i = j
    BY <1>3 DEF Single
  <2>1. CASE i = k \/ j = k
    <3>1. \A l \in 1 .. n + 1 : l # k => r[l].type # e.type
      BY <1>5, <1>7
    <3> QED BY <1>4, <2>1, <3>1
  <2>2. CASE i < k /\ j < k
    BY <1>2, <1>5, <1>9, <2>2
  <2>3. CASE i > k /\ j > k
    <3>1. i - 1 = j - 1
      BY <1>2, <1>5, <1>9, <2>3
    <3> QED BY <3>1
  <2>4. ASSUME NEW a \in 1 .. n + 1, NEW b \in 1 .. n + 1, a < k, k < b, r[a].type = r[b].type
        PROVE  FALSE
    <3>1. /\ a \in 1 .. n /\ r[a] = list[a] /\ list[a].when <= e.when
          /\ b - 1 \in 1 .. n /\ r[b] = list[b - 1] /\ e.when < list[b - 1].when
      BY <1>2, <1>5, <2>4
    <3>2. a = b - 1
      BY <1>9, <2>4, <3>1
    <3> QED BY <1>2, <3>1, <3>2
  <2> QED BY <1>2, <2>1, <2>2, <2>3, <2>4
<1>12. \A i \in DOMAIN r : r[i] = e \/ \E j \in DOMAIN list : r[i] = list[j]
  <2> SUFFICES ASSUME NEW i \in 1 .. n + 1, i # k
               PROVE  \E j \in 1 .. n : r[i] = list[j]
    BY <1>2, <1>3, <1>4
  <2> QED BY <1>5
<1>13. ASSUME NEW type PROVE Has(r, type) <=> Has(list, type) \/ type = e.type
  <2>1. Has(r, type) => Has(list, type) \/ type = e.type
    BY <1>12 DEF Has
  <2>2. type = e.type => Has(r, type)
    BY <1>3, <1>4 DEF Has
  <2>3. Has(list, type) => Has(r, type)
    BY <1>2, <1>3, <1>6 DEF Has
  <2> QED BY <2>1, <2>2, <2>3
<1> QED BY <1>3, <1>10, <1>11, <1>12, <1>13 DEF r

\* What SortedRemove leaves: later interrupts, of other devices.
LEMMA RemovedKeeps ==
  ASSUME NEW list \in Seq(Entry), list # <<>>, Sorted(list), Single(list)
  PROVE  /\ 1 \in DOMAIN list /\ list[1] \in Entry
         /\ SortedRemove(list) \in Seq(Entry)
         /\ Sorted(SortedRemove(list)) /\ Single(SortedRemove(list))
         /\ ~ Has(SortedRemove(list), list[1].type)
         /\ \A type : Has(list, type) <=> Has(SortedRemove(list), type) \/ type = list[1].type
         /\ \A i \in DOMAIN SortedRemove(list) :
              /\ \E j \in DOMAIN list : SortedRemove(list)[i] = list[j]
              /\ list[1].when <= SortedRemove(list)[i].when
<1> DEFINE n == Len(list)
           r == SortedRemove(list)
<1>1. /\ n \in Nat \ {0} /\ DOMAIN list = 1 .. n
      /\ \A i \in 1 .. n : list[i] \in Entry
  BY LenProperties, ElementOfSeq, EmptySeq
<1>2. /\ r \in Seq(Entry) /\ Len(r) = n - 1 /\ DOMAIN r = 1 .. n - 1
      /\ \A i \in 1 .. n - 1 : r[i] = list[i + 1]
  BY HeadTailProperties, LenProperties DEF SortedRemove
<1> HIDE DEF n, r
<1>3. \A i \in 1 .. n - 1 : i + 1 \in 1 .. n /\ i + 1 # 1
  BY <1>1
<1>4. 1 \in DOMAIN list /\ list[1] \in Entry
  BY <1>1
<1>5. \A i, j \in 1 .. n - 1 : (i <= j => i + 1 <= j + 1) /\ (i + 1 = j + 1 => i = j)
  BY <1>1
<1>6. Sorted(r) /\ Single(r)
  <2>1. Sorted(r)
    BY <1>1, <1>2, <1>3, <1>5 DEF Sorted
  <2>2. Single(r)
    <3> SUFFICES ASSUME NEW i \in 1 .. n - 1, NEW j \in 1 .. n - 1, r[i].type = r[j].type
                 PROVE  i = j
      BY <1>2 DEF Single
    <3>1. /\ r[i] = list[i + 1] /\ i + 1 \in DOMAIN list
          /\ r[j] = list[j + 1] /\ j + 1 \in DOMAIN list
      BY <1>1, <1>2, <1>3
    <3>2. i + 1 = j + 1
      BY <3>1 DEF Single
    <3> QED BY <1>5, <3>2
  <2> QED BY <2>1, <2>2
<1>7. ~ Has(r, list[1].type)
  <2> SUFFICES ASSUME NEW i \in 1 .. n - 1, r[i].type = list[1].type PROVE FALSE
    BY <1>2 DEF Has
  <2>1. r[i] = list[i + 1] /\ i + 1 \in DOMAIN list /\ i + 1 # 1
    BY <1>1, <1>2, <1>3
  <2> QED BY <1>4, <2>1 DEF Single
<1>8. \A i \in DOMAIN r : /\ \E j \in DOMAIN list : r[i] = list[j]
                          /\ list[1].when <= r[i].when
  <2> TAKE i \in DOMAIN r
  <2>1. r[i] = list[i + 1] /\ i + 1 \in DOMAIN list /\ 1 <= i + 1
    BY <1>1, <1>2, <1>3
  <2> QED BY <1>4, <2>1 DEF Sorted
<1>9. ASSUME NEW type PROVE Has(list, type) <=> Has(r, type) \/ type = list[1].type
  <2>1. Has(r, type) \/ type = list[1].type => Has(list, type)
    BY <1>4, <1>8 DEF Has
  <2>2. ASSUME NEW j \in DOMAIN list, list[j].type = type PROVE Has(r, type) \/ type = list[1].type
    <3>1. CASE j = 1
      BY <2>2, <3>1
    <3>2. CASE j # 1
      <4>1. j - 1 \in 1 .. n - 1 /\ (j - 1) + 1 = j
        BY <1>1, <3>2
      <4>2. r[j - 1] = list[j]
        BY <1>2, <4>1
      <4> QED BY <1>2, <2>2, <4>1, <4>2 DEF Has
    <3> QED BY <3>1, <3>2
  <2> QED BY <2>1, <2>2 DEF Has
<1> QED BY <1>2, <1>4, <1>6, <1>7, <1>8, <1>9 DEF r
-----------------------------------------------------------------------------
(* The time of a request *)

\* Division: Disk counts tracks, sectors and rotation periods with it.
LEMMA Rounded ==
  ASSUME NEW t \in Nat, NEW m \in Nat \ {0}
  PROVE  LET over == t % m
             rest == IF over > 0 THEN m - over ELSE 0
         IN  /\ rest \in 0 .. m - 1
             /\ (t + rest) \div m \in Nat /\ t + rest = ((t + rest) \div m) * m
<1> DEFINE over == t % m
           rest == IF over > 0 THEN m - over ELSE 0
<1>1. over \in 0 .. m - 1 /\ t \div m \in Nat /\ t = m * (t \div m) + over
  OBVIOUS
<1> DEFINE q == t \div m
<1> HIDE DEF over, q
<1>2. rest \in 0 .. m - 1
  BY <1>1
<1>3. \E p \in Nat : t + rest = p * m
  <2>1. CASE over = 0
    BY <1>1, <2>1 DEF q
  <2>2. CASE over > 0
    <3>1. t + rest = m * q + m
      BY <1>1, <2>2 DEF q
    <3>2. m * q + m = (q + 1) * m /\ q + 1 \in Nat
      BY <1>1 DEF q
    <3> QED BY <3>1, <3>2
  <2> QED BY <1>1, <2>1, <2>2
<1>4. \A p \in Nat : (p * m) \div m = p
  OBVIOUS
<1> HIDE DEF rest
<1>5. (t + rest) \div m \in Nat /\ t + rest = ((t + rest) \div m) * m
  BY <1>3, <1>4
<1> QED BY <1>2, <1>5 DEF rest, over

\* The time to the first sector of the disk, or to the last, is in range.
LEMMA SeekTimes ==
  ASSUME lastSector \in Sector, NEW s \in Sector
  PROVE  Seek(s) \in Nat /\ Seek(s) <= NumTracks * SeekTime
<1> DEFINE to == s \div SectorsPerTrack
           from == lastSector \div SectorsPerTrack
<1>1. SectorsPerTrack \in Nat \ {0} /\ NumTracks \in Nat \ {0} /\ SeekTime \in Nat \ {0}
  OBVIOUS
<1>2. to \in 0 .. NumTracks /\ from \in 0 .. NumTracks
  BY <1>1 DEF Sector
<1> HIDE DEF to, from
<1>3. Abs(to - from) \in 0 .. NumTracks
  BY <1>1, <1>2 DEF Abs
<1>4. Seek(s) = Abs(to - from) * SeekTime
  BY DEF Seek, to, from
<1> DEFINE d == Abs(to - from)
<1> HIDE DEF d
<1>5. d * SeekTime \in Nat /\ d * SeekTime <= NumTracks * SeekTime
  BY <1>1, <1>3 DEF d
<1> QED BY <1>4, <1>5 DEF d

\* After the seek and the rest of the sector under the head a period starts,
\* the p-th.
LEMMA PeriodStarts ==
  ASSUME totalTicks \in Nat, lastSector \in Sector, NEW s \in Sector
  PROVE  /\ Rotation(s) \in 0 .. RotationTime - 1
         /\ TimeAfter(s) \in Nat /\ TimeAfter(s) \div RotationTime \in Nat
         /\ TimeAfter(s) = (TimeAfter(s) \div RotationTime) * RotationTime
<1> DEFINE t == totalTicks + Seek(s)
<1>1. t \in Nat /\ RotationTime \in Nat \ {0}
  BY SeekTimes
<1>2. Rotation(s) = LET over == t % RotationTime
                    IN  IF over > 0 THEN RotationTime - over ELSE 0
  BY DEF Rotation
<1>3. TimeAfter(s) = t + Rotation(s)
  BY DEF TimeAfter
<1> HIDE DEF t
<1>4. /\ Rotation(s) \in 0 .. RotationTime - 1
      /\ (t + Rotation(s)) \div RotationTime \in Nat
      /\ t + Rotation(s) = ((t + Rotation(s)) \div RotationTime) * RotationTime
  BY <1>1, <1>2, Rounded
<1> QED BY <1>1, <1>3, <1>4

\* The first number from p on with the remainder of s.
LEMMA NextResidue ==
  ASSUME NEW s \in Nat, NEW p \in Nat, NEW m \in Nat \ {0}
  PROVE  LET d == ((s % m) - (p % m) + m) % m
         IN  /\ d \in 0 .. m - 1 /\ (p + d) % m = s % m
             /\ \A j \in Nat : j >= p /\ j % m = s % m => p + d <= j
<1> DEFINE a == s % m
           b == p % m
           q == p \div m
           d == (a - b + m) % m
           c == IF a >= b THEN q ELSE q + 1
<1>1. a \in 0 .. m - 1 /\ b \in 0 .. m - 1 /\ q \in Nat /\ p = m * q + b
  OBVIOUS
<1>2. \A j \in Nat : j % m = a => \E i \in Nat : j = m * i + a
  <2> SUFFICES ASSUME NEW j \in Nat, j % m = a PROVE \E i \in Nat : j = m * i + a
    OBVIOUS
  <2>1. j \div m \in Nat /\ j = m * (j \div m) + (j % m)
    OBVIOUS
  <2> QED BY <2>1
<1> HIDE DEF a, b, q
<1>3. d = IF a >= b THEN a - b ELSE a - b + m
  <2>1. CASE a >= b
    <3>1. a - b + m = m * 1 + (a - b) /\ a - b \in 0 .. m - 1
      BY <1>1, <2>1
    <3>2. (a - b + m) % m = a - b
      BY <1>1, <3>1
    <3> QED BY <2>1, <3>2
  <2>2. CASE ~ (a >= b)
    <3>1. a - b + m \in 0 .. m - 1
      BY <1>1, <2>2
    <3>2. (a - b + m) % m = a - b + m
      BY <1>1, <3>1
    <3> QED BY <2>2, <3>2
  <2> QED BY <2>1, <2>2
<1> HIDE DEF d
<1>4. d \in 0 .. m - 1
  BY <1>1, <1>3
<1>5. c \in Nat /\ m * (q + 1) = m * q + m
  BY <1>1
<1>6. p + d = m * c + a
  BY <1>1, <1>3, <1>5
<1>7. (p + d) % m = a
  <2> HIDE DEF c
  <2> QED BY <1>1, <1>4, <1>5, <1>6
<1>8. ASSUME NEW j \in Nat, j >= p, j % m = a PROVE p + d <= j
  <2>1. PICK i \in Nat : j = m * i + a
    BY <1>2, <1>8
  <2>2. m * i + a >= m * q + b
    BY <1>1, <1>8, <2>1
  <2>3. i >= c
    <3>1. CASE a >= b
      <4>1. m * q - m < m * i
        BY <1>1, <2>2
      <4>2. i > q - 1
        BY <1>1, <4>1
      <4> QED BY <1>1, <3>1, <4>2
    <3>2. CASE ~ (a >= b)
      <4>1. m * q < m * i
        BY <1>1, <2>2, <3>2
      <4>2. i > q
        BY <1>1, <4>1
      <4> QED BY <1>1, <3>2, <4>2
    <3> QED BY <3>1, <3>2
  <2> HIDE DEF c
  <2>4. m * i >= m * c
    BY <1>5, <2>3
  <2> QED BY <1>1, <1>5, <1>6, <2>1, <2>4
<1> QED BY <1>4, <1>7, <1>8 DEF a, b, d

\* ModuloDiff: how many periods after the p-th sector s passes, and that it
\* does not pass before.
LEMMA NextPass ==
  ASSUME NEW s \in Nat, NEW p \in Nat
  PROVE  /\ ModuloDiff(s, p) \in 0 .. SectorsPerTrack - 1
         /\ PassesIn(p + ModuloDiff(s, p), s)
         /\ \A j \in Nat : j >= p /\ PassesIn(j, s) => p + ModuloDiff(s, p) <= j
<1> DEFINE m == SectorsPerTrack
           d == ((s % m) - (p % m) + m) % m
<1>1. m \in Nat \ {0}
  OBVIOUS
<1>2. ModuloDiff(s, p) = d
  BY DEF ModuloDiff
<1> HIDE DEF m
<1>3. /\ d \in 0 .. m - 1 /\ (p + d) % m = s % m
      /\ \A j \in Nat : j >= p /\ j % m = s % m => p + d <= j
  BY <1>1, NextResidue
<1> QED BY <1>2, <1>3 DEF PassesIn, m

\* A request always takes time, so that its interrupt is not due at once.
LEMMA LatencyPositive ==
  ASSUME totalTicks \in Nat, lastSector \in Sector, bufferInit \in Nat, NEW s \in Sector,
         NEW writing \in BOOLEAN
  PROVE  ComputeLatency(s, writing) \in Nat \ {0}
<1> DEFINE d == ModuloDiff(s, TimeAfter(s) \div RotationTime)
<1>1. s \in Nat /\ RotationTime \in Nat \ {0}
  BY DEF Sector
<1>2. Seek(s) \in Nat /\ Rotation(s) \in Nat /\ TimeAfter(s) \div RotationTime \in Nat
  BY SeekTimes, PeriodStarts
<1>3. d \in 0 .. SectorsPerTrack - 1
  BY <1>1, <1>2, NextPass
<1>4. d * RotationTime \in Nat
  <2> HIDE DEF d
  <2>1. d \in Nat
    BY <1>3
  <2> QED BY <1>1, <2>1
<1>5. ComputeLatency(s, writing) = RotationTime
        \/ ComputeLatency(s, writing) = Seek(s) + Rotation(s) + d * RotationTime + RotationTime
  BY DEF ComputeLatency
<1> HIDE DEF d
<1> DEFINE dr == d * RotationTime
<1> HIDE DEF dr
<1>6. Seek(s) + Rotation(s) + dr + RotationTime \in Nat \ {0}
  BY <1>1, <1>2, <1>4 DEF dr
<1> QED BY <1>1, <1>5, <1>6 DEF dr

\* The sector passes for the first time after the seek in the period that ends
\* when ComputeLatency says.
LEMMA PassAfterSeek ==
  ASSUME totalTicks \in Nat, lastSector \in Sector PROVE FirstPassAfterSeek
<1> SUFFICES ASSUME NEW s \in Sector
             PROVE  \E k \in Period :
                      /\ totalTicks + ComputeLatency(s, TRUE) = (k + 1) * RotationTime
                      /\ PassesIn(k, s) /\ k * RotationTime >= totalTicks + Seek(s)
                      /\ \A j \in Period :
                           PassesIn(j, s) /\ j * RotationTime >= totalTicks + Seek(s) => k <= j
  BY DEF FirstPassAfterSeek
<1> DEFINE R == RotationTime
           t == totalTicks + Seek(s)
           q == TimeAfter(s) \div R
           d == ModuloDiff(s, q)
           k == q + d
<1>1. /\ s \in Nat /\ R \in Nat \ {0} /\ SectorsPerTrack \in Nat \ {0}
      /\ totalTicks \in Nat /\ NumTracks * SeekTime \in Nat
  BY DEF Sector
<1>2. Seek(s) \in Nat /\ Seek(s) <= NumTracks * SeekTime /\ t \in Nat
  BY <1>1, SeekTimes
<1>3. /\ Rotation(s) \in 0 .. R - 1 /\ q \in Nat /\ TimeAfter(s) = q * R
      /\ TimeAfter(s) = t + Rotation(s)
  BY <1>1, PeriodStarts DEF TimeAfter
<1>4. /\ d \in 0 .. SectorsPerTrack - 1 /\ PassesIn(k, s)
      /\ \A j \in Nat : j >= q /\ PassesIn(j, s) => k <= j
  BY <1>1, <1>3, NextPass
<1>5. ComputeLatency(s, TRUE) = Seek(s) + Rotation(s) + d * R + R
  BY DEF ComputeLatency
<1>6. MaxLatency = NumTracks * SeekTime + (SectorsPerTrack + 2) * R
  BY DEF MaxLatency
<1> DEFINE top == (totalTicks + MaxLatency) \div R
<1>7. Period = 0 .. top
  BY DEF Period
<1> HIDE DEF t, q, d, R
<1>8. k \in Nat /\ (k + 1) * R = q * R + d * R + R /\ k * R = q * R + d * R
  BY <1>1, <1>3, <1>4
<1>9. d * R \in Nat /\ d * R <= SectorsPerTrack * R
  BY <1>1, <1>4
<1>10. totalTicks + ComputeLatency(s, TRUE) = (k + 1) * R
  <2> DEFINE qr == q * R
             dr == d * R
             latency == ComputeLatency(s, TRUE)
             ends == (k + 1) * R
  <2>1. qr \in Nat /\ dr \in Nat /\ qr = totalTicks + Seek(s) + Rotation(s)
    BY <1>1, <1>2, <1>3, <1>9 DEF t
  <2>2. latency = Seek(s) + Rotation(s) + dr + R /\ ends = qr + dr + R
    BY <1>5, <1>8
  <2> HIDE DEF qr, dr, latency, ends
  <2>3. totalTicks + latency = ends
    BY <1>1, <1>2, <1>3, <2>1, <2>2
  <2> QED BY <2>3 DEF latency, ends
<1>11. k * R >= t
  BY <1>1, <1>2, <1>3, <1>8, <1>9
<1>12. top \in Nat /\ k <= top
  <2>1. k * R <= totalTicks + MaxLatency /\ MaxLatency \in Nat
    <3>1. (SectorsPerTrack + 2) * R = SectorsPerTrack * R + 2 * R /\ SectorsPerTrack * R \in Nat
      BY <1>1
    <3> QED BY <1>1, <1>2, <1>3, <1>6, <1>8, <1>9, <3>1 DEF t
  <2> DEFINE x == totalTicks + MaxLatency
  <2>2. x \in Nat /\ k * R <= x
    BY <1>1, <2>1
  <2> HIDE DEF x
  <2>3. k <= x \div R /\ x \div R \in Nat
    BY <1>1, <1>8, <2>2
  <2> QED BY <2>3 DEF x
<1>13. ASSUME NEW j \in Nat, j * R >= t PROVE j >= q
  <2>1. q * R - R < t
    BY <1>1, <1>2, <1>3
  <2> QED BY <1>1, <1>2, <1>3, <1>13, <2>1
<1> HIDE DEF k, top
<1>14. \A j \in Period : PassesIn(j, s) /\ j * R >= t => k <= j
  BY <1>4, <1>7, <1>12, <1>13
<1>15. k \in Period
  BY <1>7, <1>8, <1>12
<1> QED BY <1>4, <1>10, <1>11, <1>14, <1>15 DEF R, t

\* The track buffer, which began to fill at the start of a period, has what
\* has passed under the head since then.
LEMMA BufferHolds ==
  ASSUME totalTicks \in Nat, lastSector \in Sector,
         bufferInit \in Nat, bufferInit = (bufferInit \div RotationTime) * RotationTime
  PROVE  TrackBufferHolds
<1> SUFFICES ASSUME NEW s \in Sector
             PROVE  /\ InTrackBuffer(s) => Loaded(s, totalTicks + RotationTime)
                    /\ Seek(s) = 0 /\ Loaded(s, totalTicks) => InTrackBuffer(s)
  BY DEF TrackBufferHolds
<1> DEFINE R == RotationTime
           p == bufferInit \div R
           q == TimeAfter(s) \div R
           d == ModuloDiff(s, p)
           top == (totalTicks + MaxLatency) \div R
<1>1. /\ s \in Nat /\ R \in Nat \ {0} /\ SectorsPerTrack \in Nat \ {0}
      /\ totalTicks \in Nat /\ NumTracks * SeekTime \in Nat /\ SectorsPerTrack * R \in Nat
  BY DEF Sector
<1>2. p \in Nat /\ bufferInit = p * R
  BY <1>1
<1>3. /\ Rotation(s) \in 0 .. R - 1 /\ q \in Nat /\ TimeAfter(s) = q * R
      /\ TimeAfter(s) = totalTicks + Seek(s) + Rotation(s) /\ Seek(s) \in Nat
  BY <1>1, PeriodStarts, SeekTimes DEF TimeAfter
<1>4. /\ d \in 0 .. SectorsPerTrack - 1 /\ PassesIn(p + d, s)
      /\ \A j \in Nat : j >= p /\ PassesIn(j, s) => p + d <= j
  BY <1>1, <1>2, NextPass
<1>5. InTrackBuffer(s) <=> Seek(s) = 0 /\ (TimeAfter(s) - bufferInit) \div R > d
  BY DEF InTrackBuffer
<1>6. Period = 0 .. top
  BY DEF Period
<1>7. ASSUME NEW t
      PROVE  Loaded(s, t) <=> \E k \in Period : PassesIn(k, s) /\ k * R >= p * R /\ (k + 1) * R <= t
  BY <1>2 DEF Loaded
<1>8. MaxLatency \in Nat /\ MaxLatency >= R
  <2>1. (SectorsPerTrack + 2) * R = SectorsPerTrack * R + 2 * R
    BY <1>1
  <2>2. MaxLatency = NumTracks * SeekTime + (SectorsPerTrack * R + 2 * R)
    BY <2>1 DEF MaxLatency
  <2> QED BY <1>1, <2>2
<1> HIDE DEF R, p, q, d, top
<1>9. (TimeAfter(s) - bufferInit) \div R = q - p
  <2>1. TimeAfter(s) - bufferInit = (q - p) * R
    BY <1>1, <1>2, <1>3
  <2> QED BY <1>1, <1>2, <1>3, <2>1
<1>10. top \in Nat /\ \A k \in Nat : k * R <= totalTicks + R => k <= top
  <2> DEFINE x == totalTicks + MaxLatency
  <2>1. x \in Nat /\ totalTicks + R <= x /\ top = x \div R
    BY <1>1, <1>8 DEF top, R
  <2> HIDE DEF x
  <2>2. top \in Nat
    BY <1>1, <2>1
  <2>3. ASSUME NEW k \in Nat, k * R <= totalTicks + R PROVE k <= top
    <3>1. k * R <= x
      BY <1>1, <2>1, <2>3
    <3> QED BY <1>1, <2>1, <3>1
  <2> QED BY <2>2, <2>3
<1>11. ASSUME InTrackBuffer(s) PROVE Loaded(s, totalTicks + R)
  <2> DEFINE k == p + d
  <2>1. Seek(s) = 0 /\ q - p > d
    BY <1>5, <1>9, <1>11
  <2>2. k \in Nat /\ k >= p /\ k + 1 <= q
    BY <1>2, <1>3, <1>4, <2>1
  <2>3. PassesIn(k, s)
    BY <1>4
  <2> HIDE DEF k
  <2>4. k * R >= p * R /\ k * R <= (k + 1) * R /\ (k + 1) * R <= q * R
    BY <1>1, <1>2, <1>3, <2>2
  <2>5. q * R <= totalTicks + R
    BY <1>1, <1>3, <2>1
  <2>6. k * R \in Nat /\ (k + 1) * R \in Nat /\ q * R \in Nat
    BY <1>1, <1>3, <2>2
  <2>7. (k + 1) * R <= totalTicks + R /\ k * R <= totalTicks + R
    <3> DEFINE a == k * R
               b == (k + 1) * R
               c == q * R
    <3> HIDE DEF a, b, c
    <3>1. b <= totalTicks + R /\ a <= totalTicks + R
      BY <1>1, <2>4, <2>5, <2>6 DEF a, b, c
    <3> QED BY <3>1 DEF a, b
  <2>8. k \in Period
    BY <1>6, <1>10, <2>2, <2>7
  <2> QED BY <1>7, <2>3, <2>4, <2>7, <2>8
<1>12. ASSUME Seek(s) = 0, Loaded(s, totalTicks) PROVE InTrackBuffer(s)
  <2>1. PICK k \in Period : PassesIn(k, s) /\ k * R >= p * R /\ (k + 1) * R <= totalTicks
    BY <1>7, <1>12
  <2>2. k \in Nat
    BY <1>6, <1>10
  <2>3. k >= p
    BY <1>1, <1>2, <2>1, <2>2
  <2>4. p + d <= k
    BY <1>4, <2>1, <2>2, <2>3
  <2>5. (k + 1) * R <= q * R
    BY <1>1, <1>3, <1>12, <2>1, <2>2
  <2>6. k + 1 <= q
    BY <1>1, <1>3, <2>2, <2>5
  <2>7. q - p > d
    BY <1>2, <1>3, <1>4, <2>2, <2>4, <2>6
  <2> QED BY <1>5, <1>9, <1>12, <2>7
<1> QED BY <1>11, <1>12 DEF R
-----------------------------------------------------------------------------
(* Interrupts: the list, the clock and the devices *)

\* At the start the timer at most is pending.
LEMMA InterruptsInit == Init => Interrupts
<1> SUFFICES ASSUME Init PROVE Interrupts
  OBVIOUS
<1> USE DEF Init, InterruptInit
<1>1. 0 \in Sector
  BY DEF Sector
<1>2. \/ pending = <<>>
      \/ \E n \in Nat \ {0} : pending = SortedInsert(<<>>, [type |-> "TimerInt", when |-> n])
  BY DEF Schedule, TimeOfNextInterrupt
<1>3. <<>> \in Seq(Entry) /\ Sorted(<<>>) /\ Single(<<>>) /\ \A type : ~ Has(<<>>, type)
  BY EmptySeq DEF Sorted, Single, Has
<1>4. /\ pending \in Seq(Entry) /\ Sorted(pending) /\ Single(pending)
      /\ ~ Has(pending, "DiskInt")
      /\ \A i \in DOMAIN pending : pending[i].when \in Nat \ {0}
  <2>1. CASE pending = <<>>
    BY <1>3, <2>1, EmptySeq
  <2>2. ASSUME NEW n \in Nat \ {0},
               pending = SortedInsert(<<>>, [type |-> "TimerInt", when |-> n])
        PROVE  /\ pending \in Seq(Entry) /\ Sorted(pending) /\ Single(pending)
               /\ ~ Has(pending, "DiskInt")
               /\ \A i \in DOMAIN pending : pending[i].when \in Nat \ {0}
    <3> DEFINE e == [type |-> "TimerInt", when |-> n]
    <3>1. e \in Entry /\ e.type # "DiskInt" /\ e.when \in Nat \ {0}
      BY DEF Entry
    <3> HIDE DEF e
    <3>2. /\ SortedInsert(<<>>, e) \in Seq(Entry)
          /\ Sorted(SortedInsert(<<>>, e)) /\ Single(SortedInsert(<<>>, e))
          /\ ~ Has(SortedInsert(<<>>, e), "DiskInt")
          /\ \A i \in DOMAIN SortedInsert(<<>>, e) :
               \/ SortedInsert(<<>>, e)[i] = e
               \/ \E j \in DOMAIN <<>> : SortedInsert(<<>>, e)[i] = <<>>[j]
      BY <1>3, <3>1, InsertedKeeps
    <3>3. pending = SortedInsert(<<>>, e)
      BY <2>2 DEF e
    <3> QED BY <3>1, <3>2, <3>3, EmptySeq
  <2> QED BY <1>2, <2>1, <2>2
<1>5. TypeOK
  BY <1>1, <1>4 DEF TypeOK
<1>6. Listed
  BY <1>4 DEF Listed
<1>7. OnTime /\ NoneOverdue /\ Stopped
  BY <1>4, <1>6 DEF OnTime, NoneOverdue, Stopped, Listed, Has
<1>8. Whole
  BY DEF Whole
<1> QED BY <1>5, <1>6, <1>7, <1>8 DEF Interrupts

\* A step of a thread that leaves the clock and the disk alone.
LEMMA ThreadStep ==
  ASSUME Interrupts, TypeOK', ~ halted, UNCHANGED <<clock, disk>>
  PROVE  Interrupts'
BY DEF Interrupts, Listed, Sorted, Single, Has, OnTime, NoneOverdue, Stopped, Whole, clock, disk

\* A request schedules the one interrupt of the disk, later than now.
LEMMA RequestInterrupts ==
  ASSUME Interrupts, NEW t \in Thread, NEW s \in Sector, NEW writing \in BOOLEAN,
         Request(t, s, writing)
  PROVE  Interrupts'
<1> DEFINE e == [type |-> "DiskInt", when |-> totalTicks + ComputeLatency(s, writing)]
<1>1. /\ TypeOK /\ Listed /\ OnTime /\ NoneOverdue /\ Whole
      /\ totalTicks \in Nat /\ lastSector \in Sector /\ bufferInit \in Nat
      /\ pending \in Seq(Entry) /\ Sorted(pending) /\ Single(pending)
  BY DEF Interrupts, TypeOK, Listed
<1>2. /\ ~ halted /\ phase = "run" /\ ~ active /\ active' = TRUE
      /\ pending' = SortedInsert(pending, e)
      /\ UNCHANGED <<totalTicks, phase, yieldOnReturn, halted, value, aborted>>
      /\ pc' = [pc EXCEPT ![t] = "P"]
      /\ requester' = requester \cup {t} /\ early' = early \ {t}
      /\ overlap' \in BOOLEAN
  BY <1>1 DEF Request, Runs, StartRequest, Schedule, Called, TypeOK
<1>3. e \in Entry /\ e.when > totalTicks /\ e.type = "DiskInt"
  BY <1>1, LatencyPositive DEF Entry
<1> HIDE DEF e
<1>4. ~ Has(pending, "DiskInt")
  BY <1>1, <1>2 DEF Listed
<1>5. /\ pending' \in Seq(Entry) /\ Sorted(pending') /\ Single(pending')
      /\ Has(pending', "DiskInt")
      /\ \A i \in DOMAIN pending' :
           pending'[i] = e \/ \E j \in DOMAIN pending : pending'[i] = pending[j]
  BY <1>1, <1>2, <1>3, <1>4, InsertedKeeps
<1>6. \A j \in DOMAIN pending : pending[j].when > totalTicks
                                  \/ pending[j] = [type |-> "TimerInt", when |-> totalTicks]
  BY <1>1, <1>2 DEF NoneOverdue
<1>7. \A i \in DOMAIN pending' : pending'[i].when > totalTicks
                                   \/ pending'[i] = [type |-> "TimerInt", when |-> totalTicks]
  BY <1>3, <1>5, <1>6
<1>8. /\ TimeAfter(s) \in Nat
      /\ TimeAfter(s) = (TimeAfter(s) \div RotationTime) * RotationTime
      /\ lastSector' = s /\ (bufferInit' = TimeAfter(s) \/ bufferInit' = bufferInit)
  BY <1>1, PeriodStarts DEF Request, StartRequest, UpdateLast
<1>9. TypeOK'
  BY <1>1, <1>2, <1>5, <1>8 DEF TypeOK
<1>10. Listed'
  BY <1>2, <1>5 DEF Listed
<1>11. NoneOverdue'
  BY <1>1, <1>2, <1>5, <1>7 DEF NoneOverdue, Has
<1>12. OnTime'
  <2>1. \A i \in DOMAIN pending' : pending'[i] \in Entry
    BY <1>5, ElementOfSeq, LenProperties
  <2>2. \A i \in DOMAIN pending' : pending'[i].when >= totalTicks
    BY <1>1, <1>7, <2>1 DEF Entry
  <2> QED BY <1>1, <1>2, <2>2 DEF OnTime
<1>13. Stopped' /\ Whole'
  BY <1>1, <1>2, <1>8 DEF Stopped, Whole
<1> QED BY <1>9, <1>10, <1>11, <1>12, <1>13 DEF Interrupts

\* A tick may make interrupts due, and starts the loop that takes them.
LEMMA TickInterrupts ==
  ASSUME Interrupts, Tick
  PROVE  Interrupts'
<1>1. /\ TypeOK' /\ ~ halted'
  BY DEF Interrupts, TypeOK, Tick, OneTick, disk
<1>2. phase' = "OneTick" /\ UNCHANGED <<pending, disk>>
  BY DEF Tick, OneTick
<1> QED BY <1>1, <1>2 DEF Interrupts, Listed, Sorted, Single, Has, OnTime, NoneOverdue, Stopped,
                          Whole, disk

\* An interrupt is taken: the clock moves at most to its time.
LEMMA Taken ==
  ASSUME Interrupts, Take
  PROVE  /\ pending # <<>> /\ ~ halted /\ UNCHANGED halted
         /\ totalTicks' \in Nat /\ phase' \in {"OneTick", "Idle"}
         /\ phase' # "OneTick" =>
              \A i \in DOMAIN SortedRemove(pending) : SortedRemove(pending)[i].when >= totalTicks'
<1>1. /\ pending # <<>> /\ ~ halted /\ UNCHANGED halted /\ phase' \in {"OneTick", "Idle"}
      /\ phase' = "OneTick" <=> phase = "OneTick"
      /\ phase # "run" => totalTicks' = totalTicks
      /\ phase = "run" => totalTicks' = Max({totalTicks, pending[1].when})
  BY DEF Take, Interrupts, TypeOK
<1>2. /\ pending \in Seq(Entry) /\ totalTicks \in Nat /\ Sorted(pending) /\ Single(pending)
  BY DEF Interrupts, TypeOK, Listed
<1>3. /\ 1 \in DOMAIN pending /\ pending[1] \in Entry
      /\ SortedRemove(pending) \in Seq(Entry)
      /\ \A i \in DOMAIN SortedRemove(pending) :
           /\ \E j \in DOMAIN pending : SortedRemove(pending)[i] = pending[j]
           /\ pending[1].when <= SortedRemove(pending)[i].when
  BY <1>1, <1>2, RemovedKeeps
<1>4. phase # "OneTick" => \A i \in DOMAIN pending : pending[i].when >= totalTicks
  BY DEF Interrupts, OnTime
<1>5. pending[1].when \in Nat
  BY <1>3 DEF Entry
<1>6. phase = "run" => totalTicks' = pending[1].when
  <2>1. \A a, b \in Nat : b >= a => Max({a, b}) = b
    BY MaxOfTwo
  <2> QED BY <1>1, <1>2, <1>3, <1>4, <1>5, <2>1
<1>7. CASE phase = "run"
  BY <1>1, <1>3, <1>5, <1>6, <1>7
<1>8. CASE phase # "run"
  BY <1>1, <1>2, <1>3, <1>4, <1>8
<1> QED BY <1>7, <1>8

\* The timer's interrupt makes place for its next one.
LEMMA TimerInterrupts ==
  ASSUME Interrupts, TimerInterrupt
  PROVE  Interrupts'
<1>1. /\ TypeOK /\ Listed /\ Whole /\ pending \in Seq(Entry) /\ Sorted(pending) /\ Single(pending)
  BY DEF Interrupts, TypeOK, Listed
<1>2. /\ pending # <<>> /\ ~ halted /\ UNCHANGED halted
      /\ totalTicks' \in Nat /\ phase' \in {"OneTick", "Idle"}
      /\ phase' # "OneTick" =>
           \A i \in DOMAIN SortedRemove(pending) : SortedRemove(pending)[i].when >= totalTicks'
  BY Taken DEF TimerInterrupt, Interrupted
<1>3. pending[1].type = "TimerInt" /\ yieldOnReturn' = TRUE
  BY DEF TimerInterrupt, TimerExpired
<1>4. PICK n \in TimeOfNextInterrupt :
        pending' = SortedInsert(SortedRemove(pending),
                                [type |-> "TimerInt", when |-> totalTicks' + n])
  BY DEF TimerInterrupt, TimerExpired, Schedule
<1> DEFINE rest == SortedRemove(pending)
           then == totalTicks' + n
           e == [type |-> "TimerInt", when |-> then]
<1>5. n \in Nat /\ then \in Nat /\ then >= totalTicks'
  <2>1. TimerTicks \in Nat
    OBVIOUS
  <2>2. n \in Nat
    BY <2>1 DEF TimeOfNextInterrupt
  <2>3. totalTicks' \in Nat
    BY <1>2
  <2>4. \A a, b \in Nat : a + b \in Nat /\ a + b >= a
    OBVIOUS
  <2> QED BY <2>2, <2>3, <2>4, Zenon
<1>6. e \in Entry /\ e.type = "TimerInt" /\ e.when >= totalTicks'
  <2> HIDE DEF then
  <2> QED BY <1>5 DEF Entry
<1>7. /\ rest \in Seq(Entry) /\ Sorted(rest) /\ Single(rest) /\ ~ Has(rest, "TimerInt")
      /\ Has(pending, "DiskInt") <=> Has(rest, "DiskInt")
  BY <1>1, <1>2, <1>3, RemovedKeeps
<1>8. pending' = SortedInsert(rest, e)
  BY <1>4
<1> HIDE DEF e, rest
<1>9. /\ pending' \in Seq(Entry) /\ Sorted(pending') /\ Single(pending')
      /\ Has(pending', "DiskInt") <=> Has(rest, "DiskInt")
      /\ \A i \in DOMAIN pending' : pending'[i] = e \/ \E j \in DOMAIN rest : pending'[i] = rest[j]
  BY <1>6, <1>7, <1>8, InsertedKeeps
<1>10. UNCHANGED <<active, lastSector, bufferInit, value, pc, requester, early, overlap, aborted>>
  BY DEF TimerInterrupt, disk
<1>11. TypeOK'
  BY <1>1, <1>2, <1>3, <1>9, <1>10 DEF TypeOK
<1>12. Listed'
  BY <1>1, <1>7, <1>9, <1>10 DEF Listed
<1>13. OnTime'
  <2>1. phase' # "OneTick" => \A i \in DOMAIN rest : rest[i].when >= totalTicks'
    BY <1>2 DEF rest
  <2> QED BY <1>2, <1>6, <1>9, <2>1 DEF OnTime
<1>14. NoneOverdue' /\ Stopped' /\ Whole'
  BY <1>1, <1>2, <1>10 DEF NoneOverdue, Stopped, Whole
<1> QED BY <1>11, <1>12, <1>13, <1>14 DEF Interrupts

\* The disk's interrupt is taken from the list, which has no other.
LEMMA HandleInterrupts ==
  ASSUME Interrupts, HandleInterrupt
  PROVE  Interrupts'
<1>1. /\ TypeOK /\ Listed /\ Whole /\ pending \in Seq(Entry) /\ Sorted(pending) /\ Single(pending)
  BY DEF Interrupts, TypeOK, Listed
<1>2. /\ pending # <<>> /\ ~ halted /\ UNCHANGED halted
      /\ totalTicks' \in Nat /\ phase' \in {"OneTick", "Idle"}
      /\ phase' # "OneTick" =>
           \A i \in DOMAIN SortedRemove(pending) : SortedRemove(pending)[i].when >= totalTicks'
  BY Taken DEF HandleInterrupt, Interrupted
<1>3. /\ pending[1].type = "DiskInt" /\ pending' = SortedRemove(pending)
      /\ active' = FALSE /\ value' = value + 1 /\ requester' = {}
      /\ UNCHANGED <<yieldOnReturn, lastSector, bufferInit, pc, early, overlap, aborted>>
  BY DEF HandleInterrupt
<1>4. pending' \in Seq(Entry) /\ Sorted(pending') /\ Single(pending') /\ ~ Has(pending', "DiskInt")
  BY <1>1, <1>2, <1>3, RemovedKeeps
<1>5. TypeOK'
  <2>1. active' \in BOOLEAN /\ halted' \in BOOLEAN /\ yieldOnReturn' \in BOOLEAN
    BY <1>1, <1>2, <1>3 DEF TypeOK
  <2>2. value' \in Nat /\ requester' \subseteq Thread
    BY <1>1, <1>3 DEF TypeOK
  <2> QED BY <1>1, <1>2, <1>3, <1>4, <2>1, <2>2 DEF TypeOK
<1>6. Listed'
  BY <1>3, <1>4 DEF Listed
<1>7. OnTime'
  BY <1>2, <1>3 DEF OnTime
<1>8. NoneOverdue' /\ Stopped' /\ Whole'
  BY <1>1, <1>2, <1>3 DEF NoneOverdue, Stopped, Whole
<1> QED BY <1>5, <1>6, <1>7, <1>8 DEF Interrupts

\* The loop ends when the first interrupt, and so each, is still to come.
LEMMA NothingDueInterrupts ==
  ASSUME Interrupts, NothingDue
  PROVE  Interrupts'
<1>1. /\ TypeOK /\ Listed /\ OnTime /\ Whole /\ totalTicks \in Nat
      /\ pending \in Seq(Entry) /\ Sorted(pending) /\ Single(pending)
  BY DEF Interrupts, TypeOK, Listed
<1>2. /\ phase \in {"OneTick", "Idle"} /\ phase' = "run" /\ yieldOnReturn' = FALSE
      /\ UNCHANGED <<totalTicks, halted>>
      /\ UNCHANGED <<active, lastSector, bufferInit, value, pc, requester, early, overlap, aborted>>
      /\ pending # <<>> => pending[1].when > totalTicks \/ (phase = "Idle" /\ OnlyTimer)
      /\ pending = <<>> => pending' = <<>>
      /\ pending # <<>> => pending' = SortedInsert(SortedRemove(pending), pending[1])
  BY <1>1 DEF NothingDue, LoopEnds, TypeOK, disk
<1>3. ~ halted
  BY <1>2 DEF Interrupts, Stopped
<1>4. /\ pending' \in Seq(Entry) /\ Sorted(pending') /\ Single(pending')
      /\ Has(pending', "DiskInt") <=> Has(pending, "DiskInt")
      /\ \A i \in DOMAIN pending' : pending'[i].when > totalTicks
                                      \/ pending'[i] = [type |-> "TimerInt", when |-> totalTicks]
  <2>1. CASE pending = <<>>
    <3>1. pending' = pending
      BY <1>2, <2>1
    <3> QED BY <1>1, <2>1, <3>1, EmptySeq
  <2>2. CASE pending # <<>>
    <3> DEFINE first == pending[1]
               rest == SortedRemove(pending)
    <3>1. /\ 1 \in DOMAIN pending /\ first \in Entry
          /\ rest \in Seq(Entry) /\ Sorted(rest) /\ Single(rest) /\ ~ Has(rest, first.type)
          /\ \A type : Has(pending, type) <=> Has(rest, type) \/ type = first.type
          /\ \A i \in DOMAIN rest : /\ \E j \in DOMAIN pending : rest[i] = pending[j]
                                    /\ first.when <= rest[i].when
      BY <1>1, <2>2, RemovedKeeps
    <3>2. pending' = SortedInsert(rest, first)
      BY <1>2, <2>2
    <3>3. first.when > totalTicks \/ (phase = "Idle" /\ OnlyTimer)
      BY <1>2, <2>2
    <3>4. OnlyTimer => first.type = "TimerInt" /\ DOMAIN rest = {}
      <4>1. Len(rest) = Len(pending) - 1
        BY <1>1, <2>2, HeadTailProperties DEF SortedRemove
      <4>2. DOMAIN rest = 1 .. Len(rest)
        BY <3>1, LenProperties
      <4> QED BY <4>1, <4>2 DEF OnlyTimer
    <3>5. phase = "Idle" => first.when >= totalTicks
      BY <1>1, <3>1 DEF OnTime
    <3> HIDE DEF first, rest
    <3>6. first.when \in Nat /\ \A i \in DOMAIN rest : rest[i] \in Entry /\ rest[i].when \in Nat
      <4>1. \A i \in DOMAIN rest : rest[i] \in Entry
        BY <3>1, ElementOfSeq, LenProperties
      <4> QED BY <3>1, <4>1 DEF Entry
    <3>7. /\ pending' \in Seq(Entry) /\ Sorted(pending') /\ Single(pending')
          /\ \A type : Has(pending', type) <=> Has(rest, type) \/ type = first.type
          /\ \A i \in DOMAIN pending' :
               pending'[i] = first \/ \E j \in DOMAIN rest : pending'[i] = rest[j]
      BY <3>1, <3>2, InsertedKeeps
    <3>8. CASE first.when > totalTicks
      <4>1. \A i \in DOMAIN rest : rest[i].when > totalTicks
        BY <1>1, <3>1, <3>6, <3>8
      <4> QED BY <3>1, <3>7, <3>8, <4>1
    <3>9. CASE ~ (first.when > totalTicks)
      <4>1. first.when = totalTicks /\ first.type = "TimerInt" /\ DOMAIN rest = {}
        BY <1>1, <3>3, <3>4, <3>5, <3>6, <3>9
      <4>2. first = [type |-> "TimerInt", when |-> totalTicks]
        BY <3>1, <4>1 DEF Entry
      <4> QED BY <3>1, <3>7, <4>1, <4>2
    <3> QED BY <3>8, <3>9
  <2> QED BY <2>1, <2>2
<1>5. TypeOK'
  BY <1>1, <1>2, <1>4 DEF TypeOK
<1>6. Listed'
  BY <1>1, <1>2, <1>4 DEF Listed
<1>7. OnTime'
  <2>1. \A i \in DOMAIN pending' : pending'[i] \in Entry
    BY <1>4, ElementOfSeq, LenProperties
  <2>2. ASSUME NEW i \in DOMAIN pending' PROVE pending'[i].when >= totalTicks
    <3>1. pending'[i].when \in Nat
      BY <2>1 DEF Entry
    <3>2. pending'[i].when > totalTicks \/ pending'[i].when = totalTicks
      BY <1>4
    <3> QED BY <1>1, <3>1, <3>2
  <2> QED BY <1>2, <2>2 DEF OnTime
<1>8. NoneOverdue'
  BY <1>1, <1>2, <1>4, <1>6 DEF NoneOverdue, Listed, Has
<1>9. Stopped' /\ Whole'
  BY <1>1, <1>2, <1>3 DEF Stopped, Whole
<1> QED BY <1>5, <1>6, <1>7, <1>8, <1>9 DEF Interrupts

\* An idle machine halts with an empty list, or with the timer alone.
LEMMA HaltInterrupts ==
  ASSUME Interrupts, Halt
  PROVE  Interrupts'
<1>1. /\ TypeOK /\ Listed /\ OnTime /\ Whole /\ totalTicks \in Nat /\ pending \in Seq(Entry)
  BY DEF Interrupts, TypeOK, Listed
<1>2. /\ ~ SomeReady /\ phase = "run" /\ ~ halted /\ halted' = TRUE
      /\ UNCHANGED <<pending, phase, yieldOnReturn>>
      /\ UNCHANGED <<active, lastSector, bufferInit, value, pc, requester, early, overlap, aborted>>
      /\ pending = <<>> \/ OnlyTimer
      /\ totalTicks' = IF OnlyTimer THEN Max({totalTicks, pending[1].when}) ELSE totalTicks
  BY DEF Halt, IdleHalts, disk
<1>3. ~ active
  <2>1. \A i \in DOMAIN pending : pending[i].type = "TimerInt"
    BY <1>1, <1>2, LenProperties, EmptySeq DEF OnlyTimer
  <2> QED BY <1>1, <2>1 DEF Listed, Has
<1>4. totalTicks' \in Nat /\ \A i \in DOMAIN pending : pending[i].when >= totalTicks'
  <2>1. \A i \in DOMAIN pending : pending[i].when >= totalTicks
    BY <1>1, <1>2 DEF OnTime
  <2>2. CASE ~ OnlyTimer
    BY <1>1, <1>2, <2>1, <2>2
  <2>3. CASE OnlyTimer
    <3>1. DOMAIN pending = {1} /\ pending[1] \in Entry
      BY <1>1, <2>3, LenProperties, ElementOfSeq DEF OnlyTimer
    <3>2. pending[1].when \in Nat /\ pending[1].when >= totalTicks
      BY <2>1, <3>1 DEF Entry
    <3>3. totalTicks' = pending[1].when
      BY <1>1, <1>2, <2>3, <3>2, MaxOfTwo
    <3> QED BY <3>1, <3>2, <3>3
  <2> QED BY <2>2, <2>3
<1>5. TypeOK'
  BY <1>1, <1>2, <1>4 DEF TypeOK
<1>6. Listed'
  BY <1>1, <1>2 DEF Listed, Sorted, Single, Has
<1>7. OnTime'
  BY <1>1, <1>2, <1>4 DEF OnTime
<1>8. NoneOverdue'
  BY <1>2 DEF NoneOverdue
<1>9. Stopped'
  BY <1>2, <1>3 DEF Stopped, SomeReady
<1>10. Whole'
  BY <1>1, <1>2 DEF Whole
<1> QED BY <1>5, <1>6, <1>7, <1>8, <1>9, <1>10 DEF Interrupts

\* Each step keeps the list, the clock and the devices together.
LEMMA InterruptsNext == Interrupts /\ [Next]_vars => Interrupts'
<1> SUFFICES ASSUME Interrupts, [Next]_vars PROVE Interrupts'
  OBVIOUS
<1>1. ASSUME NEW t \in Thread, RequestFails(t) \/ Return(t) \/ Finish(t)
      PROVE  Interrupts'
  <2>1. /\ ~ halted /\ UNCHANGED <<clock, disk>>
    BY <1>1 DEF RequestFails, Return, Finish, Runs
  <2>2. TypeOK'
    <3>1. CASE RequestFails(t)
      <4>1. overlap' \in BOOLEAN /\ aborted' \in BOOLEAN
        BY <3>1 DEF RequestFails, Called
      <4> QED BY <3>1, <4>1 DEF RequestFails, Interrupts, TypeOK, clock, disk
    <3>2. CASE Return(t)
      BY <3>2 DEF Return, Interrupts, TypeOK, clock, disk
    <3>3. CASE Finish(t)
      BY <3>3 DEF Finish, Interrupts, TypeOK, clock, disk
    <3> QED BY <1>1, <3>1, <3>2, <3>3
  <2> QED BY <2>1, <2>2, ThreadStep
<1>2. CASE UNCHANGED vars
  BY <1>2 DEF vars, clock, disk, Interrupts, TypeOK, Listed, Sorted, Single, Has, OnTime,
              NoneOverdue, Stopped, SomeReady, Whole
<1> QED BY <1>1, <1>2, RequestInterrupts, TickInterrupts, TimerInterrupts, HandleInterrupts,
           NothingDueInterrupts, HaltInterrupts DEF Next

\* The list of interrupts is sorted and has the disk's just while a request
\* is in progress, at every step of the threads, the clock and the handlers.
THEOREM InterruptsInvariant == Spec => []Interrupts
BY InterruptsInit, InterruptsNext, PTL DEF Spec

\* The state is always of its type.
THEOREM TypeCorrect == Spec => []TypeOK
BY InterruptsInvariant, PTL DEF Interrupts

\* Interrupts come at the first chance after their time and the clock skips
\* none: CheckIfDue, the loops of OneTick and Idle and the sorted list together
\* leave nothing due when a thread runs, for every number of interrupts taken
\* in between.
THEOREM NoneOverdueHolds == Spec => []NoneOverdue
BY InterruptsInvariant, PTL DEF Interrupts

\* The time that Disk::ComputeLatency charges is that of a rotating disk, for
\* every number of tracks and sectors and every rotation and seek time: the
\* request ends with the first pass of its sector after the seek, and the track
\* buffer answers exactly the reads it can.
THEOREM LatencyIsPhysicalHolds == Spec => []LatencyIsPhysical
<1>1. Interrupts => LatencyIsPhysical
  BY PassAfterSeek, BufferHolds DEF Interrupts, TypeOK, Whole, LatencyIsPhysical
<1> QED BY <1>1, InterruptsInvariant, PTL

\* The machine halts only when no thread can run or waits for the disk, and
\* stays halted: the safety half of HaltsWhenDone.
HaltsOnlyWhenDone == halted => ~ active /\ ~ SomeReady

\* Interrupt::Idle does not halt while the interrupt of the disk is pending.
THEOREM HaltsOnlyWhenDoneHolds == Spec => []HaltsOnlyWhenDone
<1>1. Interrupts => HaltsOnlyWhenDone
  BY DEF Interrupts, Stopped, HaltsOnlyWhenDone
<1> QED BY <1>1, InterruptsInvariant, PTL
-----------------------------------------------------------------------------
(* Calls of the disk *)

\* At the start nobody is in the disk.
LEMMA CallsInit == Init => Calls
BY DEF Init, Calls, OneToken

\* The first interrupt of the disk is that of the request in progress.
LEMMA DiskWasActive ==
  ASSUME Interrupts, HandleInterrupt PROVE active
<1>1. pending # <<>> /\ pending[1].type = "DiskInt" /\ pending \in Seq(Entry)
  BY DEF HandleInterrupt, Interrupted, Take, Interrupts, TypeOK
<1>2. 1 \in DOMAIN pending
  BY <1>1, LenProperties, EmptySeq
<1> QED BY <1>1, <1>2 DEF Interrupts, Listed, Has

\* Each step hands the token on, or makes calls overlap.
LEMMA CallsNext == IInv /\ [Next]_vars => Calls'
<1> SUFFICES ASSUME IInv, [Next]_vars PROVE Calls'
  OBVIOUS
<1>1. /\ Interrupts /\ Calls /\ value \in Nat /\ pc \in [Thread -> {"idle", "P", "done"}]
      /\ overlap \in BOOLEAN /\ aborted \in BOOLEAN /\ active \in BOOLEAN
  BY DEF IInv, Interrupts, TypeOK
<1>2. ASSUME NEW t \in Thread, NEW s \in Sector, NEW writing \in BOOLEAN, Request(t, s, writing)
      PROVE  Calls'
  <2>1. /\ pc' = [pc EXCEPT ![t] = "P"] /\ active' = TRUE /\ ~ active /\ ~ aborted
        /\ value' = value /\ aborted' = aborted /\ early' = early \ {t}
        /\ overlap' = (overlap \/ \E u \in Thread : pc[u] = "P")
    BY <1>2 DEF Request, StartRequest, Called, Runs
  <2>2. ASSUME ~ overlap' PROVE OneToken' /\ early' = {}
    <3>1. ~ overlap /\ ~ \E u \in Thread : pc[u] = "P"
      BY <2>1, <2>2
    <3>2. value = 0 /\ early = {}
      BY <1>1, <3>1 DEF Calls, OneToken
    <3>3. pc'[t] = "P"
      BY <1>1, <2>1
    <3> QED BY <2>1, <3>2, <3>3 DEF OneToken
  <2> QED BY <2>1, <2>2 DEF Calls
<1>3. ASSUME NEW t \in Thread, RequestFails(t) PROVE Calls'
  <2>1. /\ UNCHANGED <<active, value, pc, requester, early>> /\ active
        /\ overlap' = (overlap \/ \E u \in Thread : pc[u] = "P")
    BY <1>3 DEF RequestFails, Called, disk
  <2>2. overlap'
    BY <1>1, <2>1 DEF Calls, OneToken
  <2> QED BY <2>2 DEF Calls
<1>4. ASSUME NEW t \in Thread, Return(t) PROVE Calls'
  <2>1. /\ value > 0 /\ value' = value - 1 /\ UNCHANGED <<active, requester, overlap, aborted>>
        /\ t \notin requester => early' = early
    BY <1>4 DEF Return, disk
  <2>2. ASSUME ~ overlap PROVE OneToken' /\ early' = {}
    <3>1. ~ active /\ value = 1 /\ requester = {} /\ early = {}
      BY <1>1, <2>1, <2>2 DEF Calls, OneToken
    <3>2. value' = 0 /\ early' = {}
      BY <2>1, <3>1
    <3> QED BY <2>1, <3>1, <3>2 DEF OneToken
  <2> QED BY <1>1, <2>1, <2>2 DEF Calls
<1>5. ASSUME NEW t \in Thread, Finish(t) PROVE Calls'
  <2>1. /\ pc[t] = "idle" /\ pc' = [pc EXCEPT ![t] = "done"]
        /\ UNCHANGED <<active, value, requester, early, overlap, aborted>>
    BY <1>5 DEF Finish, disk
  <2>2. \A u \in Thread : pc[u] = "P" => pc'[u] = "P"
    BY <1>1, <2>1
  <2> QED BY <1>1, <2>1, <2>2 DEF Calls, OneToken
<1>6. CASE HandleInterrupt
  <2>1. /\ active' = FALSE /\ value' = value + 1 /\ requester' = {}
        /\ UNCHANGED <<pc, early, overlap, aborted>>
    BY <1>6 DEF HandleInterrupt
  <2>2. active
    BY <1>1, <1>6, DiskWasActive
  <2>3. ASSUME ~ overlap PROVE OneToken' /\ early' = {}
    <3>1. value' = 1 /\ early' = {} /\ \E t \in Thread : pc'[t] = "P"
      BY <1>1, <2>1, <2>2, <2>3 DEF Calls, OneToken
    <3> QED BY <2>1, <3>1 DEF OneToken
  <2> QED BY <1>1, <2>1, <2>3 DEF Calls
<1>7. CASE Tick \/ TimerInterrupt \/ NothingDue \/ Halt \/ UNCHANGED vars
  <2>1. UNCHANGED <<active, value, pc, requester, early, overlap, aborted>>
    BY <1>7 DEF Tick, TimerInterrupt, NothingDue, Halt, vars, disk
  <2> QED BY <1>1, <2>1 DEF Calls, OneToken
<1> QED BY <1>2, <1>3, <1>4, <1>5, <1>6, <1>7 DEF Next

\* While calls are kept apart, the disk, the semaphore and the thread that
\* waits agree on whose turn it is.
THEOREM CallsInvariant == Spec => []IInv
<1>1. Init => IInv
  BY InterruptsInit, CallsInit DEF IInv
<1>2. IInv /\ [Next]_vars => IInv'
  BY InterruptsNext, CallsNext DEF IInv
<1> QED BY <1>1, <1>2, PTL DEF Spec

\* ReadSector and WriteSector return only after the interrupt of their own
\* request, as long as their callers keep calls apart.
THEOREM ReturnsWhenDoneHolds == Spec => []ReturnsWhenDone
<1>1. IInv => ReturnsWhenDone
  BY DEF IInv, Calls, ReturnsWhenDone
<1> QED BY <1>1, CallsInvariant, PTL

\* The assertion of Disk::ReadRequest and WriteRequest that the disk is not
\* active fails only when a call began before another had returned.
AbortsOnlyOnOverlap == aborted => overlap

\* Calls that are kept apart never stop the simulator.
THEOREM AbortsOnlyOnOverlapHolds == Spec => []AbortsOnlyOnOverlap
<1>1. IInv => AbortsOnlyOnOverlap
  BY DEF IInv, Calls, AbortsOnlyOnOverlap
<1> QED BY <1>1, CallsInvariant, PTL
-----------------------------------------------------------------------------
(***************************************************************************)
(* The network and the post office, for any machines, clients, mailboxes   *)
(* and number of messages (module PostOffice).  Whatever arrives, is       *)
(* dropped or is delayed, messages keep their order.                       *)
(***************************************************************************)
USE PostOfficeAssumption, NullAssumption

\* The first element of a sequence and the others make up the sequence.
LEMMA HeadThenTail ==
  ASSUME NEW S, NEW s \in Seq(S), s # << >>
  PROVE  <<Head(s)>> \o Tail(s) = s
  OBVIOUS

\* Concatenation is associative.
LEMMA Associative == \A s, t, u \in Seq(Mail) : (s \o t) \o u = s \o (t \o u)
<1> TAKE s \in Seq(Mail), t \in Seq(Mail), u \in Seq(Mail)
<1> QED
  BY ONLY s \in Seq(Mail), t \in Seq(Mail), u \in Seq(Mail), ConcatAssociative

\* Appending at the end of the second of two sequences.
LEMMA AppendAfter == \A s, t \in Seq(Mail), e \in Mail : s \o Append(t, e) = Append(s \o t, e)
  OBVIOUS

\* Buffered is a sequence of at most one message.
LEMMA BufferedType ==
  ASSUME POTypeOK, NEW n \in Node
  PROVE  /\ Buffered(n) \in Seq(Mail)
         /\ Len(Buffered(n)) = IF inHdr[n] = NULL THEN 0 ELSE 1
  BY DEF POTypeOK, Buffered

\* PostOffice::PostOffice and Network::Network establish the invariant.
LEMMA PostInit == POInit => POInv
<1> SUFFICES ASSUME POInit PROVE POInv
  OBVIOUS
<1>1. POTypeOK
  BY DEF POInit, POTypeOK
<1>2. DeliveredInOrder /\ OneSignalPerPacket
  BY DEF POInit, DeliveredInOrder, OneSignalPerPacket, Buffered
<1> QED
  BY <1>1, <1>2 DEF POInv, POInit

\* A packet put on the wire is the last one to arrive.
LEMMA SendInv ==
  ASSUME POInv, NEW c \in Client, NEW to \in Node, NEW b \in Box, Send(c, to, b)
  PROVE  POInv'
<1> DEFINE n == Home[c]
          mail == [id |-> mails + 1, from |-> Home[c], to |-> to, box |-> b]
<1>1. mails \in Nat /\ mails < MaxMail
  BY DEF Send, POInv, POTypeOK
<1>a. n \in Node /\ mail \in Mail /\ mail.to = to
  BY <1>1 DEF Mail
<1>b. NetworkSend(n, mail)
  BY DEF Send
<1>c. /\ mails' = mails + 1 /\ clientPc' = [clientPc EXCEPT ![c] = "sending"]
      /\ UNCHANGED <<inHdr, office, up, arrived, taken>>
  BY DEF Send
<1> HIDE DEF n, mail
<1>2. /\ n \in Node /\ mail \in Mail /\ mail.to = to
      /\ mails < MaxMail /\ mails' = mails + 1
      /\ clientPc' = [clientPc EXCEPT ![c] = "sending"]
      /\ NetworkSend(n, mail)
      /\ UNCHANGED <<inHdr, office, up, arrived, taken>>
  BY <1>1, <1>a, <1>b, <1>c
<1>3. /\ mails \in Nat /\ sending[n] \in Nat /\ sent \in [Node -> Nat]
      /\ sending \in [Node -> Nat] /\ sending[n] + sent[n] <= mails
  <2>1. sent \in [Node -> 0 .. MaxMail] /\ sending \in [Node -> 0 .. MaxMail]
    BY DEF POInv, POTypeOK
  <2>2. sent \in [Node -> Nat] /\ sending \in [Node -> Nat]
    BY <2>1
  <2>3. \A m \in Node : sending[m] + sent[m] <= mails
    BY DEF POInv
  <2> QED
    BY <1>1, <1>a, <2>2, <2>3
<1>4. sending' = [sending EXCEPT ![n] = @ + 1] /\ sent' = sent
  BY <1>2 DEF NetworkSend, office
<1>5. \A m \in Node : sending'[m] + sent'[m] <= mails'
  <2> SUFFICES ASSUME NEW m \in Node PROVE sending'[m] + sent[m] <= mails + 1
    BY <1>2, <1>4
  <2>1. sending[m] + sent[m] <= mails /\ sending[m] \in Nat /\ sent[m] \in Nat
    BY <1>3 DEF POInv
  <2>2. sending'[m] \in {sending[m], sending[m] + 1}
    BY <1>3, <1>4
  <2> QED
    BY <1>3, <2>1, <2>2
<1>6. \/ /\ socket' = [socket EXCEPT ![to] = Append(@, mail)]
         /\ wire' = [wire EXCEPT ![to] = Append(@, mail)]
      \/ UNCHANGED <<socket, wire>>
  BY <1>2 DEF NetworkSend
<1>7. POTypeOK'
  <2>1. /\ socket' \in [Node -> Seq(Mail)] /\ wire' \in [Node -> Seq(Mail)]
    <3>1. /\ Append(socket[to], mail) \in Seq(Mail)
          /\ Append(wire[to], mail) \in Seq(Mail)
      <4>1. socket[to] \in Seq(Mail) /\ wire[to] \in Seq(Mail)
        BY DEF POInv, POTypeOK
      <4> QED
        BY <1>2, <4>1, AppendProperties
    <3> QED
      <4>1. socket \in [Node -> Seq(Mail)] /\ wire \in [Node -> Seq(Mail)]
        BY DEF POInv, POTypeOK
      <4>2. /\ [socket EXCEPT ![to] = Append(@, mail)] \in [Node -> Seq(Mail)]
            /\ [wire EXCEPT ![to] = Append(@, mail)] \in [Node -> Seq(Mail)]
        BY <3>1, <4>1
      <4> QED
        BY <1>6, <4>1, <4>2, Zenon
  <2>2. sending' \in [Node -> 0 .. MaxMail]
    <3>1. sending[n] + 1 \in 0 .. MaxMail
      <4>1. sent[n] \in Nat /\ mails < MaxMail
        BY <1>2, <1>3
      <4> QED
        BY <1>3, <4>1
    <3> QED
      BY <1>4, <3>1 DEF POInv, POTypeOK
  <2>3. /\ inHdr' \in [Node -> Mail \cup {NULL}]
        /\ available' \in [Node -> 0 .. 1]
        /\ sent' \in [Node -> 0 .. MaxMail]
        /\ worker' \in [Node -> {"P", "deliver"}]
        /\ boxes' \in [Node -> [Box -> Seq(Mail)]]
        /\ clientPc' \in [Client -> {"idle", "sending"}]
        /\ up' \in [Node -> BOOLEAN]
    BY <1>2 DEF POInv, POTypeOK, office
  <2>4. /\ mails' \in 0 .. MaxMail
        /\ arrived' \in [Node -> Seq(Mail)]
        /\ taken' \in [Node -> [Box -> Seq(Mail)]]
    <3>1. mails + 1 \in 0 .. MaxMail
      BY <1>2, <1>3
    <3> QED
      BY <1>2, <3>1 DEF POInv, POTypeOK
  <2> QED
    BY <2>1, <2>2, <2>3, <2>4 DEF POTypeOK
<1>8. DeliveredInOrder'
  <2> SUFFICES ASSUME NEW m \in Node
               PROVE  arrived'[m] \o Buffered(m)' \o socket'[m] = wire'[m]
    BY DEF DeliveredInOrder
  <2>1. Buffered(m)' = Buffered(m) /\ arrived'[m] = arrived[m]
    BY <1>2 DEF Buffered
  <2>2. arrived[m] \o Buffered(m) \o socket[m] = wire[m]
    BY DEF POInv, DeliveredInOrder
  <2>3. /\ arrived[m] \in Seq(Mail) /\ socket[m] \in Seq(Mail)
        /\ wire[m] \in Seq(Mail) /\ Buffered(m) \in Seq(Mail)
    BY BufferedType DEF POInv, POTypeOK
  <2>4. CASE socket'[m] = socket[m] /\ wire'[m] = wire[m]
    BY <2>1, <2>2, <2>4
  <2>5. CASE /\ socket'[m] = Append(socket[m], mail)
             /\ wire'[m] = Append(wire[m], mail)
    <3>1. arrived[m] \o Buffered(m) \in Seq(Mail)
      BY <2>3, ConcatProperties
    <3>2. (arrived[m] \o Buffered(m)) \o Append(socket[m], mail)
            = Append((arrived[m] \o Buffered(m)) \o socket[m], mail)
      BY <1>2, <2>3, <3>1, AppendAfter, Zenon
    <3> QED
      BY <2>1, <2>2, <2>5, <3>2
  <2>6. \/ socket'[m] = socket[m] /\ wire'[m] = wire[m]
        \/ /\ socket'[m] = Append(socket[m], mail)
           /\ wire'[m] = Append(wire[m], mail)
    <3>1. socket \in [Node -> Seq(Mail)] /\ wire \in [Node -> Seq(Mail)]
      BY DEF POInv, POTypeOK
    <3> QED
      BY <1>6, <3>1
  <2> QED
    BY <2>4, <2>5, <2>6
<1>9. OneSignalPerPacket'
  BY <1>2 DEF POInv, OneSignalPerPacket, Buffered, office
<1> QED
  BY <1>5, <1>7, <1>8, <1>9 DEF POInv

\* The device takes the first packet of the wire into its empty buffer and
\* signals it.
LEMMA CheckPktAvailInv ==
  ASSUME POInv, NEW n \in Node, CheckPktAvail(n)
  PROVE  POInv'
<1> DEFINE h == Head(socket[n])
<1>1. /\ inHdr[n] = NULL /\ socket[n] # << >>
      /\ inHdr' = [inHdr EXCEPT ![n] = h]
      /\ socket' = [socket EXCEPT ![n] = Tail(@)]
      /\ available' = [available EXCEPT ![n] = @ + 1]
      /\ UNCHANGED <<sending, sent, worker, boxes, clientPc, up, history>>
  BY DEF CheckPktAvail
<1>2. /\ socket[n] \in Seq(Mail) /\ h \in Mail /\ Tail(socket[n]) \in Seq(Mail)
      /\ <<h>> \o Tail(socket[n]) = socket[n]
  <2>1. socket[n] \in Seq(Mail)
    BY DEF POInv, POTypeOK
  <2> QED
    BY <2>1, <1>1, HeadThenTail, HeadTailProperties
<1> HIDE DEF h
<1>3. available[n] = 0 /\ worker[n] = "P"
  <2>1. Len(Buffered(n)) = 0
    BY <1>1, BufferedType DEF POInv
  <2>2. available[n] + (IF worker[n] = "deliver" THEN 1 ELSE 0) = 0
    BY <2>1 DEF POInv, OneSignalPerPacket
  <2>3. available[n] \in 0 .. 1 /\ worker[n] \in {"P", "deliver"}
    BY DEF POInv, POTypeOK
  <2> QED BY <2>2, <2>3
<1>4. POTypeOK'
  <2>1. available' \in [Node -> 0 .. 1]
    BY <1>1, <1>3 DEF POInv, POTypeOK
  <2>2. socket' \in [Node -> Seq(Mail)] /\ inHdr' \in [Node -> Mail \cup {NULL}]
    BY <1>1, <1>2 DEF POInv, POTypeOK
  <2> QED
    BY <1>1, <2>1, <2>2 DEF POInv, POTypeOK, history
<1>5. \A m \in Node : m # n => Buffered(m)' = Buffered(m)
  BY <1>1 DEF Buffered, POInv, POTypeOK
<1>6. Buffered(n) = << >> /\ Buffered(n)' = <<h>>
  BY <1>1, <1>2 DEF Buffered, POInv, POTypeOK
<1>7. DeliveredInOrder'
  <2> SUFFICES ASSUME NEW m \in Node
               PROVE  arrived'[m] \o Buffered(m)' \o socket'[m] = wire'[m]
    BY DEF DeliveredInOrder
  <2>1. arrived[m] \o Buffered(m) \o socket[m] = wire[m]
    BY DEF POInv, DeliveredInOrder
  <2>2. arrived' = arrived /\ wire' = wire
    BY <1>1 DEF history
  <2>3. CASE m # n
    BY <1>1, <1>5, <2>1, <2>2, <2>3 DEF POInv, POTypeOK
  <2>4. CASE m = n
    <3>1. socket'[n] = Tail(socket[n])
      BY <1>1 DEF POInv, POTypeOK
    <3>2. arrived[n] \in Seq(Mail) /\ <<h>> \in Seq(Mail)
      BY <1>2 DEF POInv, POTypeOK
    <3>3. arrived[n] \o << >> = arrived[n]
      BY <3>2, ConcatEmptySeq
    <3>4. (arrived[n] \o <<h>>) \o Tail(socket[n])
            = arrived[n] \o (<<h>> \o Tail(socket[n]))
      BY ONLY <1>2, <3>2, Associative, Zenon
    <3> QED
      BY <1>2, <1>6, <2>1, <2>2, <2>4, <3>1, <3>3, <3>4
  <2> QED
    BY <2>3, <2>4
<1>8. OneSignalPerPacket'
  <2> SUFFICES ASSUME NEW m \in Node
               PROVE  available'[m] + (IF worker'[m] = "deliver" THEN 1 ELSE 0)
                        = Len(Buffered(m)')
    BY DEF OneSignalPerPacket
  <2>1. CASE m # n
    BY <1>1, <1>5, <2>1 DEF POInv, OneSignalPerPacket, POTypeOK
  <2>2. CASE m = n
    <3>1. Len(<<h>>) = 1
      OBVIOUS
    <3> QED
      BY <1>1, <1>3, <1>6, <2>2, <3>1 DEF POInv, POTypeOK
  <2> QED
    BY <2>1, <2>2
<1>9. \A m \in Node : sending'[m] + sent'[m] <= mails'
  BY <1>1 DEF POInv, history
<1> QED
  BY <1>4, <1>7, <1>8, <1>9 DEF POInv

\* The worker has a packet when it is past P, and empties the device.
LEMMA DeliverInv ==
  ASSUME POInv, NEW n \in Node, Deliver(n)
  PROVE  POInv'
<1>1. /\ worker[n] = "deliver" /\ inHdr[n] # NULL
      /\ boxes' = [boxes EXCEPT ![n][inHdr[n].box] = Append(@, inHdr[n])]
      /\ arrived' = [arrived EXCEPT ![n] = Append(@, inHdr[n])]
      /\ inHdr' = [inHdr EXCEPT ![n] = NULL]
      /\ worker' = [worker EXCEPT ![n] = "P"]
      /\ UNCHANGED <<socket, sending, available, sent, clientPc, up, mails, wire, taken>>
  BY DEF Deliver
<1>2. /\ inHdr[n] \in Mail /\ inHdr[n].box \in Box
  BY <1>1 DEF POInv, POTypeOK, Mail
<1>3. Buffered(n) = <<inHdr[n]>> /\ Buffered(n)' = << >>
  BY <1>1 DEF Buffered, POInv, POTypeOK
<1>4. \A m \in Node : m # n => Buffered(m)' = Buffered(m)
  BY <1>1 DEF Buffered, POInv, POTypeOK
<1>5. POTypeOK'
  <2>1. /\ Append(arrived[n], inHdr[n]) \in Seq(Mail)
        /\ Append(boxes[n][inHdr[n].box], inHdr[n]) \in Seq(Mail)
    BY <1>2 DEF POInv, POTypeOK
  <2>2. arrived' \in [Node -> Seq(Mail)]
    BY <1>1, <2>1 DEF POInv, POTypeOK
  <2>3. boxes' \in [Node -> [Box -> Seq(Mail)]]
    BY <1>1, <1>2, <2>1 DEF POInv, POTypeOK
  <2> QED
    BY <1>1, <2>2, <2>3 DEF POInv, POTypeOK
<1>6. DeliveredInOrder'
  <2> SUFFICES ASSUME NEW m \in Node
               PROVE  arrived'[m] \o Buffered(m)' \o socket'[m] = wire'[m]
    BY DEF DeliveredInOrder
  <2>1. arrived[m] \o Buffered(m) \o socket[m] = wire[m]
    BY DEF POInv, DeliveredInOrder
  <2>2. CASE m # n
    BY <1>1, <1>4, <2>1, <2>2 DEF POInv, POTypeOK
  <2>3. CASE m = n
    <3>1. arrived[n] \in Seq(Mail)
      BY DEF POInv, POTypeOK
    <3>2. arrived'[n] = arrived[n] \o <<inHdr[n]>>
      <4>1. arrived'[n] = Append(arrived[n], inHdr[n])
        BY <1>1 DEF POInv, POTypeOK
      <4> QED
        BY <1>2, <3>1, <4>1, AppendIsConcat, Zenon
    <3>3. arrived'[n] \in Seq(Mail)
      BY <1>5 DEF POTypeOK
    <3>4. arrived'[n] \o << >> = arrived'[n]
      BY <3>3, ConcatEmptySeq
    <3> QED
      BY <1>1, <1>3, <2>1, <2>3, <3>2, <3>4
  <2> QED
    BY <2>2, <2>3
<1>7. OneSignalPerPacket'
  <2> SUFFICES ASSUME NEW m \in Node
               PROVE  available'[m] + (IF worker'[m] = "deliver" THEN 1 ELSE 0)
                        = Len(Buffered(m)')
    BY DEF OneSignalPerPacket
  <2>1. CASE m # n
    BY <1>1, <1>4, <2>1 DEF POInv, OneSignalPerPacket, POTypeOK
  <2>2. CASE m = n
    <3>1. available[n] + 1 = Len(<<inHdr[n]>>)
      BY <1>1, <1>3 DEF POInv, OneSignalPerPacket
    <3>2. Len(<<inHdr[n]>>) = 1 /\ available[n] \in 0 .. 1
      BY DEF POInv, POTypeOK
    <3> QED
      BY <1>1, <1>3, <2>2, <3>1, <3>2 DEF POInv, POTypeOK
  <2> QED
    BY <2>1, <2>2
<1>8. \A m \in Node : sending'[m] + sent'[m] <= mails'
  BY <1>1 DEF POInv
<1> QED
  BY <1>5, <1>6, <1>7, <1>8 DEF POInv

\* The worker takes its signal; the packet stays in the device.
LEMMA WorkerWakesInv ==
  ASSUME POInv, NEW n \in Node, WorkerWakes(n)
  PROVE  POInv'
<1> USE DEF WorkerWakes, net, history
<1>1. available[n] = 1
  BY DEF POInv, POTypeOK
<1>2. POTypeOK'
  BY <1>1 DEF POInv, POTypeOK
<1>3. DeliveredInOrder'
  BY DEF POInv, DeliveredInOrder, Buffered
<1>4. OneSignalPerPacket'
  <2>1. /\ available' = [available EXCEPT ![n] = 0] /\ available \in [Node -> 0 .. 1]
        /\ worker' = [worker EXCEPT ![n] = "deliver"] /\ worker[n] = "P"
        /\ worker \in [Node -> {"P", "deliver"}]
    <3>1. available' = [available EXCEPT ![n] = @ - 1] /\ worker[n] = "P"
      OBVIOUS
    <3>2. available \in [Node -> 0 .. 1] /\ worker \in [Node -> {"P", "deliver"}]
      BY DEF POInv, POTypeOK
    <3> QED BY <1>1, <3>1, <3>2
  <2>2. \A k \in Node : Buffered(k)' = Buffered(k)
    BY DEF Buffered
  <2> QED BY <1>1, <2>1, <2>2 DEF POInv, OneSignalPerPacket
<1> QED
  BY <1>2, <1>3, <1>4 DEF POInv

\* The interrupt at the end of sending turns one pending interrupt into one
\* unit of messageSent.
LEMMA SendDoneInv ==
  ASSUME POInv, NEW n \in Node, SendDone(n)
  PROVE  POInv'
<1> USE DEF SendDone, history
<1>1. sending[n] + sent[n] <= mails /\ mails <= MaxMail
  BY DEF POInv, POTypeOK
<1>2. POTypeOK'
  <2>1. sending[n] - 1 \in 0 .. MaxMail /\ sent[n] + 1 \in 0 .. MaxMail
    BY <1>1 DEF POInv, POTypeOK
  <2> QED BY <2>1 DEF POInv, POTypeOK
<1>3. DeliveredInOrder' /\ OneSignalPerPacket'
  BY DEF POInv, DeliveredInOrder, OneSignalPerPacket, Buffered
<1>4. \A m \in Node : sending'[m] + sent'[m] <= mails'
  BY DEF POInv, POTypeOK
<1> QED
  BY <1>2, <1>3, <1>4 DEF POInv

LEMMA SendReturnsInv ==
  ASSUME POInv, NEW c \in Client, SendReturns(c)
  PROVE  POInv'
<1> USE DEF SendReturns, net, history
<1>1. POTypeOK'
  BY DEF POInv, POTypeOK
<1>2. DeliveredInOrder' /\ OneSignalPerPacket'
  BY DEF POInv, DeliveredInOrder, OneSignalPerPacket, Buffered
<1>3. \A m \in Node : sending'[m] + sent'[m] <= mails'
  BY DEF POInv, POTypeOK
<1> QED
  BY <1>1, <1>2, <1>3 DEF POInv

LEMMA ReceiveInv ==
  ASSUME POInv, NEW c \in Client, NEW b \in Box,
         Receive(c, b) \/ ReceiveFails(c, b)
  PROVE  POInv'
<1> DEFINE n == Home[c]
<1>1. n \in Node
  OBVIOUS
<1>2. POTypeOK'
  <2>1. CASE Receive(c, b)
    <3>1. boxes[n][b] \in Seq(Mail) /\ boxes[n][b] # << >>
      BY <1>1, <2>1 DEF Receive, POInv, POTypeOK
    <3>2. Head(boxes[n][b]) \in Mail /\ Tail(boxes[n][b]) \in Seq(Mail)
      BY <3>1, HeadTailProperties
    <3>3. /\ boxes' = [boxes EXCEPT ![n][b] = Tail(boxes[n][b])]
          /\ taken' = [taken EXCEPT ![n][b] = Append(taken[n][b], Head(boxes[n][b]))]
      BY <2>1 DEF Receive
    <3>4. Append(taken[n][b], Head(boxes[n][b])) \in Seq(Mail)
      BY <1>1, <3>2 DEF POInv, POTypeOK
    <3> HIDE DEF n
    <3>5. boxes' \in [Node -> [Box -> Seq(Mail)]]
      BY <1>1, <3>2, <3>3 DEF POInv, POTypeOK
    <3>6. taken' \in [Node -> [Box -> Seq(Mail)]]
      BY <1>1, <3>4, <3>3 DEF POInv, POTypeOK
    <3> QED
      BY <2>1, <3>5, <3>6 DEF Receive, POInv, POTypeOK, net
  <2>2. CASE ReceiveFails(c, b)
    BY <2>2 DEF ReceiveFails, POInv, POTypeOK, net, office, history
  <2> QED
    BY <2>1, <2>2
<1>3. UNCHANGED <<net, available, sent, worker, mails, wire, arrived>>
  BY DEF Receive, ReceiveFails, office, history
<1>4. DeliveredInOrder' /\ OneSignalPerPacket'
  BY <1>3 DEF POInv, DeliveredInOrder, OneSignalPerPacket, Buffered, net
<1>5. \A m \in Node : sending'[m] + sent'[m] <= mails'
  BY <1>3 DEF POInv, net
<1> QED
  BY <1>2, <1>4, <1>5 DEF POInv

\* Every step of every machine preserves the invariant.
LEMMA PostNext == POInv /\ [PONext]_poVars => POInv'
<1> SUFFICES ASSUME POInv, [PONext]_poVars PROVE POInv'
  OBVIOUS
<1>1. CASE UNCHANGED poVars
  BY <1>1 DEF poVars, net, office, history, POInv, POTypeOK, DeliveredInOrder,
              OneSignalPerPacket, Buffered
<1>2. CASE PONext
  BY <1>2, SendInv, CheckPktAvailInv, DeliverInv, WorkerWakesInv, SendDoneInv,
     SendReturnsInv, ReceiveInv DEF PONext
<1> QED
  BY <1>1, <1>2

\* The invariant holds in every reachable state of any network.
THEOREM PostOfficeInvariant == POSpec => []POInv
  BY PostInit, PostNext, PTL DEF POSpec

\* Type correctness; in particular the worker's semaphore never exceeds 1.
THEOREM PostOfficeTypes == POSpec => []POTypeOK
<1>1. POInv => POTypeOK
  BY DEF POInv
<1> QED
  BY <1>1, PostOfficeInvariant, PTL

\* Packets that are not dropped reach a box once each and in the order in which
\* Network::Send put them on the wire.
THEOREM NetworkIsInOrder == POSpec => []DeliveredInOrder
<1>1. POInv => DeliveredInOrder
  BY DEF POInv
<1> QED
  BY <1>1, PostOfficeInvariant, PTL

\* CheckPktAvail wakes the postal worker exactly once for each packet.
THEOREM SignalsMatchPackets == POSpec => []OneSignalPerPacket
<1>1. POInv => OneSignalPerPacket
  BY DEF POInv
<1> QED
  BY <1>1, PostOfficeInvariant, PTL
-----------------------------------------------------------------------------
(* The boxes *)

\* A message that arrives is the last of its box and of no other.
LEMMA MailForAppend ==
  ASSUME NEW q \in Seq(Mail), NEW s \in Seq(Mail), NEW m \in Mail, NEW b \in Box,
         MailFor(q, s, b)
  PROVE  MailFor(IF m.box = b THEN Append(q, m) ELSE q, Append(s, m), b)
<1> DEFINE sm == Append(s, m)
           For(t) == {i \in DOMAIN t : t[i].box = b}
<1>1. PICK at \in [DOMAIN q -> For(s)] :
        /\ \A k \in DOMAIN q : q[k] = s[at[k]]
        /\ \A j, k \in DOMAIN q : j < k => at[j] < at[k]
        /\ \A i \in DOMAIN s : s[i].box = b => \E k \in DOMAIN q : at[k] = i
  BY DEF MailFor
<1>2. /\ Len(s) \in Nat /\ DOMAIN s = 1 .. Len(s)
      /\ Len(q) \in Nat /\ DOMAIN q = 1 .. Len(q)
  BY LenProperties
<1>3. /\ DOMAIN sm = 1 .. Len(s) + 1 /\ sm[Len(s) + 1] = m
      /\ \A i \in 1 .. Len(s) : sm[i] = s[i]
  BY <1>2, AppendProperties, LenProperties
<1>4. For(s) \subseteq For(sm)
  BY <1>2, <1>3
<1>5. CASE m.box = b
  <2> DEFINE qm == Append(q, m)
             to == [k \in 1 .. Len(q) + 1 |-> IF k = Len(q) + 1 THEN Len(s) + 1 ELSE at[k]]
  <2>1. /\ DOMAIN qm = 1 .. Len(q) + 1 /\ qm[Len(q) + 1] = m
        /\ \A k \in 1 .. Len(q) : qm[k] = q[k]
    BY <1>2, AppendProperties, LenProperties
  <2>2. Len(s) + 1 \in For(sm)
    BY <1>2, <1>3, <1>5
  <2>3. \A k \in 1 .. Len(q) : at[k] \in For(s) /\ at[k] \in 1 .. Len(s)
    BY <1>1, <1>2
  <2> HIDE DEF qm, sm, For
  <2>4. to \in [1 .. Len(q) + 1 -> For(sm)]
    BY <1>2, <1>4, <2>2, <2>3
  <2>5. /\ to[Len(q) + 1] = Len(s) + 1
        /\ \A k \in 1 .. Len(q) : to[k] = at[k]
    BY <1>2
  <2> HIDE DEF to
  <2>6. \A k \in 1 .. Len(q) + 1 : qm[k] = sm[to[k]]
    <3> TAKE k \in 1 .. Len(q) + 1
    <3>1. CASE k = Len(q) + 1
      BY <1>3, <2>1, <2>5, <3>1
    <3>2. CASE k \in 1 .. Len(q)
      BY <1>1, <1>2, <1>3, <2>1, <2>3, <2>5, <3>2
    <3>3. Len(q) \in Nat /\ (k = Len(q) + 1 \/ k \in 1 .. Len(q))
      BY LenProperties
    <3> QED BY <3>1, <3>2, <3>3
  <2>7. \A j, k \in 1 .. Len(q) + 1 : j < k => to[j] < to[k]
    <3> SUFFICES ASSUME NEW j \in 1 .. Len(q) + 1, NEW k \in 1 .. Len(q) + 1, j < k
                 PROVE  to[j] < to[k]
      OBVIOUS
    <3>1. j \in 1 .. Len(q)
      BY <1>2
    <3>2. to[j] = at[j] /\ at[j] \in 1 .. Len(s)
      BY <2>3, <2>5, <3>1
    <3>3. CASE k = Len(q) + 1
      <4>1. to[k] = Len(s) + 1
        BY <2>5, <3>3
      <4> QED BY <1>2, <3>2, <4>1
    <3>4. CASE k \in 1 .. Len(q)
      <4>1. to[k] = at[k]
        BY <2>5, <3>4
      <4>2. at[j] < at[k]
        BY <1>1, <1>2, <3>1, <3>4
      <4> QED BY <3>2, <4>1, <4>2
    <3>5. k = Len(q) + 1 \/ k \in 1 .. Len(q)
      <4>1. Len(q) \in Nat
        BY <1>2
      <4> QED BY ONLY <4>1, k \in 1 .. Len(q) + 1
    <3> QED BY <3>3, <3>4, <3>5
  <2>8. \A i \in 1 .. Len(s) + 1 : sm[i].box = b => \E k \in 1 .. Len(q) + 1 : to[k] = i
    <3> TAKE i \in 1 .. Len(s) + 1
    <3> HAVE sm[i].box = b
    <3>1. CASE i = Len(s) + 1
      BY <1>2, <2>5, <3>1
    <3>2. CASE i \in 1 .. Len(s)
      <4>1. PICK k \in 1 .. Len(q) : at[k] = i
        BY <1>1, <1>2, <1>3, <3>2
      <4> QED BY <1>2, <2>5, <4>1
    <3>3. Len(s) \in Nat
      BY <1>2
    <3>4. i = Len(s) + 1 \/ i \in 1 .. Len(s)
      BY ONLY <3>3, i \in 1 .. Len(s) + 1
    <3> QED BY <3>1, <3>2, <3>4
  <2>9. DOMAIN qm = 1 .. Len(q) + 1 /\ DOMAIN sm = 1 .. Len(s) + 1
    BY <1>3, <2>1
  <2>10. For(sm) = {i \in DOMAIN sm : sm[i].box = b}
    BY DEF For
  <2>11. MailFor(qm, sm, b)
    <3> SUFFICES \E on \in [DOMAIN qm -> For(sm)] :
          /\ \A k \in DOMAIN qm : qm[k] = sm[on[k]]
          /\ \A j, k \in DOMAIN qm : j < k => on[j] < on[k]
          /\ \A i \in DOMAIN sm : sm[i].box = b => \E k \in DOMAIN qm : on[k] = i
      BY <2>10 DEF MailFor
    <3>1. to \in [DOMAIN qm -> For(sm)]
      BY <2>4, <2>9
    <3> WITNESS to \in [DOMAIN qm -> For(sm)]
    <3>2. /\ \A k \in DOMAIN qm : qm[k] = sm[to[k]]
          /\ \A j, k \in DOMAIN qm : j < k => to[j] < to[k]
      BY <2>6, <2>7, <2>9
    <3>3. \A i \in DOMAIN sm : sm[i].box = b => \E k \in DOMAIN qm : to[k] = i
      BY <2>8, <2>9
    <3> QED BY <3>2, <3>3
  <2> QED BY <1>5, <2>11 DEF qm, sm
<1>6. CASE m.box # b
  <2>1. at \in [DOMAIN q -> For(sm)]
    BY <1>4
  <2>2. \A k \in DOMAIN q : at[k] \in 1 .. Len(s)
    BY <1>1, <1>2
  <2>3. \A k \in DOMAIN q : q[k] = sm[at[k]]
    BY <1>1, <1>3, <2>2
  <2>4. \A i \in DOMAIN sm : sm[i].box = b => \E k \in DOMAIN q : at[k] = i
    BY <1>1, <1>2, <1>3, <1>6
  <2> HIDE DEF sm
  <2>5. MailFor(q, sm, b)
    BY <1>1, <2>1, <2>3, <2>4 DEF MailFor
  <2> QED BY <1>6, <2>5 DEF sm
<1> QED BY <1>5, <1>6

\* A step that touches neither the boxes nor what was taken and delivered.
LEMMA BoxesKept ==
  ASSUME BoxInOrder, UNCHANGED <<boxes, arrived, taken>>
  PROVE  BoxInOrder'
BY DEF BoxInOrder

\* PostalDelivery puts a message at the end of its own box.
LEMMA DeliverBox ==
  ASSUME POInv, BoxInOrder, NEW n \in Node, Deliver(n)
  PROVE  BoxInOrder'
<1> DEFINE m == inHdr[n]
<1>1. m \in Mail /\ m.box \in Box
  BY DEF POInv, POTypeOK, Deliver, Mail
<1>2. /\ boxes' = [boxes EXCEPT ![n][m.box] = Append(@, m)]
      /\ arrived' = [arrived EXCEPT ![n] = Append(@, m)]
      /\ taken' = taken
  BY DEF Deliver
<1> HIDE DEF m
<1>3. /\ boxes'[n] = [boxes[n] EXCEPT ![m.box] = Append(boxes[n][m.box], m)]
      /\ arrived'[n] = Append(arrived[n], m)
      /\ \A k \in Node \ {n} : boxes'[k] = boxes[k] /\ arrived'[k] = arrived[k]
  BY <1>2 DEF POInv, POTypeOK
<1>4. \A b \in Box : boxes'[n][b] = IF m.box = b THEN Append(boxes[n][b], m) ELSE boxes[n][b]
  <2>1. boxes[n] \in [Box -> Seq(Mail)]
    BY DEF POInv, POTypeOK
  <2> QED BY <1>1, <1>3, <2>1
<1>5. ASSUME NEW b \in Box PROVE MailFor(taken'[n][b] \o boxes'[n][b], arrived'[n], b)
  <2> DEFINE t == taken[n][b]
             x == boxes[n][b]
             a == arrived[n]
             q == t \o x
  <2>1. t \in Seq(Mail) /\ x \in Seq(Mail) /\ a \in Seq(Mail)
    BY DEF POInv, POTypeOK
  <2>2. MailFor(q, a, b)
    BY DEF BoxInOrder
  <2>3. /\ taken'[n][b] = t /\ arrived'[n] = Append(a, m)
        /\ m.box = b => boxes'[n][b] = Append(x, m)
        /\ m.box # b => boxes'[n][b] = x
    BY <1>2, <1>3, <1>4
  <2> HIDE DEF t, x, a
  <2>4. q \in Seq(Mail) /\ t \o Append(x, m) = Append(q, m)
    BY <1>1, <2>1, AppendAfter, ConcatProperties
  <2>5. /\ m.box = b => taken'[n][b] \o boxes'[n][b] = Append(q, m)
        /\ m.box # b => taken'[n][b] \o boxes'[n][b] = q
    BY <2>3, <2>4
  <2> HIDE DEF q
  <2>6. MailFor(IF m.box = b THEN Append(q, m) ELSE q, Append(a, m), b)
    BY <1>1, <2>1, <2>2, <2>4, MailForAppend
  <2>7. CASE m.box = b
    <3>1. MailFor(Append(q, m), Append(a, m), b)
      BY <2>6, <2>7
    <3> QED BY <2>3, <2>5, <2>7, <3>1
  <2>8. CASE m.box # b
    <3>1. MailFor(q, Append(a, m), b)
      BY <2>6, <2>8
    <3> QED BY <2>3, <2>5, <2>8, <3>1
  <2> QED BY <2>7, <2>8
<1>6. ASSUME NEW k \in Node \ {n}, NEW b \in Box
      PROVE  MailFor(taken'[k][b] \o boxes'[k][b], arrived'[k], b)
  BY <1>2, <1>3 DEF BoxInOrder
<1> QED BY <1>5, <1>6 DEF BoxInOrder

\* Receive takes the oldest message of a box.
LEMMA ReceiveBox ==
  ASSUME POInv, BoxInOrder, NEW c \in Client, NEW b \in Box, Receive(c, b)
  PROVE  BoxInOrder'
<1> DEFINE n == Home[c]
           x == boxes[n][b]
           t == taken[n][b]
<1>1. n \in Node /\ x \in Seq(Mail) /\ t \in Seq(Mail) /\ x # << >>
  BY DEF POInv, POTypeOK, Receive
<1>2. /\ boxes' = [boxes EXCEPT ![n][b] = Tail(@)]
      /\ taken' = [taken EXCEPT ![n][b] = Append(@, Head(x))]
      /\ arrived' = arrived
  BY DEF Receive
<1> HIDE DEF n
<1>3. /\ \A k \in Node, a \in Box : k # n \/ a # b =>
           boxes'[k][a] = boxes[k][a] /\ taken'[k][a] = taken[k][a]
      /\ boxes'[n][b] = Tail(x) /\ taken'[n][b] = Append(t, Head(x))
  BY <1>1, <1>2 DEF POInv, POTypeOK
<1> HIDE DEF x, t
<1>4. Append(t, Head(x)) \o Tail(x) = t \o x
  <2> DEFINE h == <<Head(x)>>
             r == Tail(x)
  <2>1. Head(x) \in Mail /\ r \in Seq(Mail)
    BY <1>1, HeadTailProperties
  <2>2. Append(t, Head(x)) = t \o h
    BY <1>1, <2>1, AppendIsConcat
  <2>3. h \in Seq(Mail) /\ h \o r = x
    BY <1>1, <2>1, HeadThenTail
  <2> HIDE DEF h, r
  <2>4. t \in Seq(Mail) /\ h \in Seq(Mail) /\ r \in Seq(Mail)
    BY <1>1, <2>1, <2>3
  <2>5. (t \o h) \o r = t \o (h \o r)
    BY <2>4, Associative
  <2> QED BY <2>2, <2>3, <2>5 DEF r
<1>5. \A k \in Node, a \in Box :
        taken'[k][a] \o boxes'[k][a] = taken[k][a] \o boxes[k][a]
  BY <1>3, <1>4 DEF x, t
<1> QED BY <1>2, <1>5 DEF BoxInOrder

LEMMA BoxesNext == POInv /\ BoxInOrder /\ [PONext]_poVars => BoxInOrder'
<1> SUFFICES ASSUME POInv, BoxInOrder, [PONext]_poVars PROVE BoxInOrder'
  OBVIOUS
<1>1. ASSUME NEW n \in Node, SendDone(n) \/ CheckPktAvail(n) \/ WorkerWakes(n)
      PROVE  BoxInOrder'
  BY <1>1, BoxesKept DEF SendDone, CheckPktAvail, WorkerWakes, history
<1>2. ASSUME NEW c \in Client, NEW b \in Box, NEW n \in Node,
             SendReturns(c) \/ ReceiveFails(c, b) \/ Send(c, n, b)
      PROVE  BoxInOrder'
  BY <1>2, BoxesKept DEF SendReturns, ReceiveFails, Send, office, history
<1>3. ASSUME NEW c \in Client, SendReturns(c) PROVE BoxInOrder'
  BY <1>3, BoxesKept DEF SendReturns, history
<1>4. ASSUME NEW c \in Client, NEW b \in Box, ReceiveFails(c, b) PROVE BoxInOrder'
  BY <1>4, BoxesKept DEF ReceiveFails, office, history
<1>5. CASE UNCHANGED poVars
  BY <1>5, BoxesKept DEF poVars, office, history
<1> QED BY <1>1, <1>2, <1>3, <1>4, <1>5, DeliverBox, ReceiveBox DEF PONext

\* Clients take the mail of a box in the order in which the worker delivered
\* it, each message once, whatever came for other boxes in between.
THEOREM BoxesAreInOrder == POSpec => []BoxInOrder
<1>1. POInit => BoxInOrder
  <2> SUFFICES ASSUME POInit, NEW n \in Node, NEW b \in Box
               PROVE  MailFor(taken[n][b] \o boxes[n][b], arrived[n], b)
    BY DEF BoxInOrder
  <2>1. taken[n][b] = << >> /\ boxes[n][b] = << >> /\ arrived[n] = << >>
    BY DEF POInit
  <2>2. << >> \o << >> = << >> /\ DOMAIN << >> = {}
    BY EmptySeq, ConcatEmptySeq
  <2>3. [k \in {} |-> 0] \in [{} -> {}]
    OBVIOUS
  <2>4. MailFor(<< >>, << >>, b)
    BY <2>2, <2>3 DEF MailFor
  <2> QED BY <2>1, <2>2, <2>4
<1> QED BY <1>1, BoxesNext, PostOfficeInvariant, PTL DEF POSpec
=============================================================================
