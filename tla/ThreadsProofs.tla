--------------------------- MODULE ThreadsProofs ---------------------------
(***************************************************************************)
(* Proofs about Threads, for any number of threads and semaphores.         *)
(***************************************************************************)
EXTENDS Threads, SequenceTheorems, FiniteSetTheorems, TLAPS

(***************************************************************************)
(* The queues of the kernel, as sequences without repetition.              *)
(***************************************************************************)

\* List::Append of an element that the list does not hold.
LEMMA AppendOnce ==
  ASSUME NEW S, NEW q \in Seq(S), NEW e \in S,
         IsInjective(q), e \notin Range(q)
  PROVE  /\ Append(q, e) \in Seq(S)
         /\ Append(q, e) # <<>>
         /\ IsInjective(Append(q, e))
         /\ Range(Append(q, e)) = Range(q) \cup {e}
<1>1. /\ Append(q, e) \in Seq(S)
      /\ Append(q, e) # <<>>
      /\ Len(Append(q, e)) = Len(q) + 1
      /\ \A i \in 1..Len(q) : Append(q, e)[i] = q[i]
      /\ Append(q, e)[Len(q) + 1] = e
  BY AppendProperties
<1>2. /\ Len(q) \in Nat
      /\ DOMAIN q = 1..Len(q)
      /\ DOMAIN Append(q, e) = 1..(Len(q) + 1)
  BY <1>1, LenProperties
<1>3. \A i \in 1..Len(q) : q[i] \in Range(q)
  BY <1>2 DEF Range
<1>4. IsInjective(Append(q, e))
  <2> SUFFICES ASSUME NEW i \in 1..(Len(q) + 1), NEW j \in 1..(Len(q) + 1),
                      Append(q, e)[i] = Append(q, e)[j]
               PROVE  i = j
    BY <1>2 DEF IsInjective
  <2>1. CASE i \in 1..Len(q) /\ j \in 1..Len(q)
    BY <2>1, <1>1, <1>2 DEF IsInjective
  <2>2. CASE i = Len(q) + 1 \/ j = Len(q) + 1
    BY <2>2, <1>1, <1>2, <1>3
  <2> QED BY <2>1, <2>2, <1>2
<1>5. Range(Append(q, e)) = Range(q) \cup {e}
  BY <1>1, <1>2 DEF Range
<1> QED BY <1>1, <1>4, <1>5

\* List::Remove from a list without repetition.
LEMMA RemoveHead ==
  ASSUME NEW S, NEW q \in Seq(S), IsInjective(q), q # <<>>
  PROVE  /\ Head(q) \in S
         /\ Head(q) \in Range(q)
         /\ Tail(q) \in Seq(S)
         /\ IsInjective(Tail(q))
         /\ Range(Tail(q)) = Range(q) \ {Head(q)}
<1>1. /\ Head(q) \in S
      /\ Tail(q) \in Seq(S)
      /\ Len(Tail(q)) = Len(q) - 1
      /\ \A i \in 1..Len(Tail(q)) : Tail(q)[i] = q[i + 1]
  BY HeadTailProperties
<1>2. /\ Len(q) \in Nat \ {0}
      /\ DOMAIN q = 1..Len(q)
      /\ DOMAIN Tail(q) = 1..(Len(q) - 1)
  BY <1>1, LenProperties, EmptySeq
<1>3. Head(q) = q[1]
  BY <1>2
<1>4. IsInjective(Tail(q))
  BY <1>1, <1>2 DEF IsInjective
<1>5. Range(Tail(q)) = Range(q) \ {Head(q)}
  <2>1. \A i \in 1..(Len(q) - 1) : q[i + 1] \in Range(q) /\ q[i + 1] # q[1]
    BY <1>2 DEF Range, IsInjective
  <2>2. Range(Tail(q)) \subseteq Range(q) \ {Head(q)}
    BY <2>1, <1>1, <1>2, <1>3 DEF Range
  <2>3. ASSUME NEW x \in Range(q), x # Head(q)
        PROVE  x \in Range(Tail(q))
    <3>1. PICK i \in 1..Len(q) : x = q[i]
      BY <1>2 DEF Range
    <3>2. i # 1 /\ i - 1 \in 1..(Len(q) - 1)
      BY <3>1, <2>3, <1>2, <1>3
    <3>3. Tail(q)[i - 1] = x
      BY <3>1, <3>2, <1>1, <1>2
    <3> QED BY <3>2, <3>3, <1>2 DEF Range
  <2> QED BY <2>2, <2>3
<1>6. Head(q) \in Range(q)
  BY <1>2, <1>3 DEF Range
<1> QED BY <1>1, <1>4, <1>5, <1>6

\* The empty list holds nothing, and is the only one that does.
LEMMA EmptyRange ==
  ASSUME NEW S, NEW q \in Seq(S)
  PROVE  /\ IsInjective(<<>>)
         /\ Range(<<>>) = {}
         /\ Range(q) = {} => q = <<>>
<1>1. DOMAIN <<>> = {}
  BY EmptySeq, LenProperties
<1>2. q # <<>> => q[1] \in Range(q)
  BY EmptySeq, LenProperties DEF Range
<1> QED BY <1>1, <1>2 DEF IsInjective, Range

(***************************************************************************)
(* Type correctness, the places of the threads, and the carcass.           *)
(***************************************************************************)

Places == TypeOK /\ OnePlace /\ StatusFits /\ NoUseAfterDelete

LEMMA InitPlaces == Init => Places
<1> SUFFICES ASSUME Init PROVE Places
  OBVIOUS
<1> USE ThreadsAssumption DEF Init
<1>1. TypeOK
  BY DEF TypeOK, Status, Where
<1>2. OnePlace
  BY EmptyRange, EmptySeq DEF OnePlace
<1>3. StatusFits
  BY DEF StatusFits, StatusesAt
<1>4. NoUseAfterDelete
  BY DEF NoUseAfterDelete
<1> QED BY <1>1, <1>2, <1>3, <1>4 DEF Places

\* What a caller of Scheduler::Run(next) has established: next is ready and
\* no longer in the ready list rl, and nobody runs.
RunPre(next, rl, st, tbd, a) ==
  /\ next \in Thread
  /\ rl \in Seq(Thread)
  /\ st \in [Thread -> Status]
  /\ tbd \in Thread \cup {NULL}
  /\ a \in [Thread -> Where]
  /\ a[next] = at[next]
  /\ IsInjective(rl)
  /\ Range(rl) = {t \in Thread : st[t] = "READY"} \ {next}
  /\ st[next] = "READY"
  /\ \A t \in Thread : st[t] # "RUNNING"
  /\ \A t \in Thread : st[t] \in StatusesAt(a[t])
  /\ tbd # NULL => st[tbd] = "BLOCKED" /\ a[tbd] = "finished"

\* What holds once next runs: the places fit, and the threads asleep in P are
\* those of st and a.
RunPost(st, a) ==
  /\ status' \in [Thread -> Status]
  /\ at' \in [Thread -> Where]
  /\ currentThread' \in Thread
  /\ readyList' \in Seq(Thread)
  /\ threadToBeDestroyed' \in Thread \cup {NULL}
  /\ mode' = "running"
  /\ IsInjective(readyList')
  /\ Range(readyList') = {t \in Thread : status'[t] = "READY"}
  /\ \A t \in Thread : status'[t] = "RUNNING" <=> t = currentThread'
  /\ \A t \in Thread : status'[t] \in StatusesAt(at'[t])
  /\ NoUseAfterDelete'
  /\ \A t \in Thread : status'[t] = "BLOCKED" /\ at'[t] = "P"
                        <=> st[t] = "BLOCKED" /\ a[t] = "P"
  /\ \A t \in Thread : at'[t] = "P" <=> a[t] = "P"

\* Scheduler::Run re-establishes the places.
LEMMA RunPlaces ==
  ASSUME TypeOK, StatusFits, NoUseAfterDelete,
         NEW next, NEW rl, NEW st, NEW tbd, NEW a,
         RunPre(next, rl, st, tbd, a),
         Run(next, rl, st, tbd), at' = Started(a, next)
  PROVE  RunPost(st, a)
<1> USE ThreadsAssumption DEF RunPre, RunPost
<1>1. a[next] # "finished" /\ tbd # next
  BY DEF StatusesAt, Where
<1>2. CASE ReapsCarcass(next) /\ tbd # NULL
  BY <1>1, <1>2 DEF Run, Started, Status, Where, StatusesAt, NoUseAfterDelete
<1>3. CASE ~(ReapsCarcass(next) /\ tbd # NULL)
  BY <1>1, <1>3 DEF Run, Started, Status, Where, StatusesAt, NoUseAfterDelete
<1> QED BY <1>2, <1>3

\* Thread::Sleep by the running thread t, which will resume at where: the
\* facts about every variable that Sleep touches.
LEMMA SleepPlaces ==
  ASSUME Places, NEW t \in Thread, mode = "running", currentThread = t,
         NEW where \in {"P", "finished"},
         NEW tbd \in Thread \cup {NULL},
         where = "P" => tbd = threadToBeDestroyed,
         where = "finished" => tbd = t,
         SleepAt(t, where, tbd)
  PROVE  /\ status' \in [Thread -> Status]
         /\ at' \in [Thread -> Where]
         /\ currentThread' \in Thread
         /\ readyList' \in Seq(Thread)
         /\ threadToBeDestroyed' \in Thread \cup {NULL}
         /\ mode' \in {"running", "idle"}
         /\ IsInjective(readyList')
         /\ Range(readyList') = {u \in Thread : status'[u] = "READY"}
         /\ \A u \in Thread : status'[u] = "RUNNING" <=> /\ u = currentThread'
                                                         /\ mode' = "running"
         /\ \A u \in Thread : status'[u] \in StatusesAt(at'[u])
         /\ NoUseAfterDelete'
         /\ \A u \in Thread : status'[u] = "BLOCKED" /\ at'[u] = "P"
                  <=> IF u = t THEN where = "P"
                      ELSE status[u] = "BLOCKED" /\ at[u] = "P"
         /\ \A u \in Thread : at'[u] = "P" <=>
                  IF u = t THEN where = "P" ELSE at[u] = "P"
<1> DEFINE st == [status EXCEPT ![t] = "BLOCKED"]
           a == [at EXCEPT ![t] = where]
<1> USE ThreadsAssumption
<1>1. /\ TypeOK /\ StatusFits /\ NoUseAfterDelete /\ OnePlace
      /\ status[t] = "RUNNING"
      /\ st \in [Thread -> Status]
      /\ a \in [Thread -> Where]
  BY DEF Places, OnePlace, TypeOK, Status, Where
<1>2. /\ \A u \in Thread : st[u] # "RUNNING"
      /\ \A u \in Thread : st[u] \in StatusesAt(a[u])
      /\ tbd # NULL => st[tbd] = "BLOCKED" /\ a[tbd] = "finished"
      /\ {u \in Thread : st[u] = "READY"} = {u \in Thread : status[u] = "READY"}
  BY <1>1 DEF OnePlace, StatusFits, StatusesAt, NoUseAfterDelete, TypeOK, Where
<1>3. CASE readyList # <<>>
  <2> DEFINE next == Head(readyList)
  <2>1. /\ next \in Thread
        /\ next \in Range(readyList)
        /\ Tail(readyList) \in Seq(Thread)
        /\ IsInjective(Tail(readyList))
        /\ Range(Tail(readyList)) = Range(readyList) \ {next}
    BY <1>1, <1>3, RemoveHead DEF TypeOK, OnePlace
  <2>2. /\ next # t
        /\ a[next] = at[next]
        /\ st[next] = "READY"
        /\ Range(Tail(readyList)) = {u \in Thread : st[u] = "READY"} \ {next}
    BY <1>1, <1>2, <2>1 DEF OnePlace, TypeOK
  <2>3. Run(next, Tail(readyList), st, tbd) /\ at' = Started(a, next)
    BY <1>3 DEF SleepAt, Sleep
  <2>4. \A u \in Thread : st[u] = "BLOCKED" /\ a[u] = "P"
                  <=> IF u = t THEN where = "P"
                      ELSE status[u] = "BLOCKED" /\ at[u] = "P"
    BY <1>1 DEF TypeOK
  <2>5. \A u \in Thread : a[u] = "P" <=>
                  IF u = t THEN where = "P" ELSE at[u] = "P"
    BY <1>1 DEF TypeOK
  <2>6. RunPre(next, Tail(readyList), st, tbd, a)
    BY <1>1, <1>2, <2>1, <2>2 DEF RunPre
  <2> HIDE DEF st, a, next
  <2>7. RunPost(st, a)
    BY <1>1, <2>3, <2>6, RunPlaces
  <2> QED BY <2>4, <2>5, <2>7 DEF RunPost
<1>4. CASE readyList = <<>>
  <2>1. /\ status' = st /\ at' = a /\ threadToBeDestroyed' = tbd
        /\ mode' = "idle"
        /\ currentThread' = currentThread /\ readyList' = readyList
    BY <1>4 DEF SleepAt, Sleep
  <2>2. NoUseAfterDelete'
    BY <2>1, <1>1, <1>2 DEF NoUseAfterDelete, TypeOK, StatusesAt
  <2> QED BY <2>1, <2>2, <1>1, <1>2 DEF TypeOK, OnePlace
<1> QED BY <1>3, <1>4

\* The body of Semaphore::V, with everything it leaves alone.
LEMMA VPlaces ==
  ASSUME Places, NEW s \in Sem, DoV(s), pending' \in SUBSET Sem,
         UNCHANGED <<at, on, currentThread, threadToBeDestroyed, mode>>
  PROVE  Places'
<1> USE ThreadsAssumption
<1>1. TypeOK /\ StatusFits /\ NoUseAfterDelete /\ OnePlace
  BY DEF Places
<1>2. value' \in [Sem -> Nat]
  BY <1>1 DEF DoV, TypeOK
<1>3. CASE queue[s] = <<>>
  BY <1>1, <1>2, <1>3
  DEF DoV, Places, TypeOK, OnePlace, StatusFits, NoUseAfterDelete
<1>4. CASE queue[s] # <<>>
  <2> DEFINE w == Head(queue[s])
  <2>1. /\ w \in Thread
        /\ w \in Range(queue[s])
        /\ Tail(queue[s]) \in Seq(Thread)
        /\ IsInjective(Tail(queue[s]))
        /\ Range(Tail(queue[s])) = Range(queue[s]) \ {w}
    BY <1>1, <1>4, RemoveHead DEF TypeOK, OnePlace
  <2>2. status[w] = "BLOCKED" /\ at[w] = "P" /\ on[w] = s
    BY <2>1, <1>1 DEF OnePlace
  <2>3. w \notin Range(readyList)
    BY <2>2, <1>1 DEF OnePlace
  <2>4. /\ Append(readyList, w) \in Seq(Thread)
        /\ IsInjective(Append(readyList, w))
        /\ Range(Append(readyList, w)) = Range(readyList) \cup {w}
    BY <2>1, <2>3, <1>1, AppendOnce DEF TypeOK, OnePlace
  <2>5. /\ queue' = [queue EXCEPT ![s] = Tail(queue[s])]
        /\ status' = [status EXCEPT ![w] = "READY"]
        /\ readyList' = Append(readyList, w)
    BY <1>4 DEF DoV
  <2> HIDE DEF w
  <2>6. TypeOK'
    BY <2>1, <2>4, <2>5, <1>1, <1>2 DEF TypeOK, Status
  <2>7. \A u \in Thread : status'[u] = IF u = w THEN "READY" ELSE status[u]
    BY <2>5, <1>1 DEF TypeOK
  <2>8. OnePlace'
    <3>1. /\ \A u \in Thread : status'[u] = "RUNNING" <=>
                                 u = currentThread' /\ mode' = "running"
          /\ IsInjective(readyList')
          /\ Range(readyList') = {u \in Thread : status'[u] = "READY"}
      BY <2>1, <2>2, <2>4, <2>5, <2>7, <1>1 DEF OnePlace
    <3>2. ASSUME NEW r \in Sem
          PROVE  /\ IsInjective(queue'[r])
                 /\ Range(queue'[r]) = {u \in Thread :
                      status'[u] = "BLOCKED" /\ at'[u] = "P" /\ on'[u] = r}
      <4>1. CASE r = s
        BY <4>1, <2>1, <2>2, <2>5, <2>7, <1>1 DEF OnePlace, TypeOK
      <4>2. CASE r # s
        <5>1. queue'[r] = queue[r]
          BY <4>2, <2>5, <1>1 DEF TypeOK
        <5> QED BY <5>1, <4>2, <2>2, <2>7, <1>1 DEF OnePlace
      <4> QED BY <4>1, <4>2
    <3> QED BY <3>1, <3>2 DEF OnePlace
  <2>9. StatusFits'
    BY <2>2, <2>7, <1>1 DEF StatusFits, StatusesAt
  <2>10. NoUseAfterDelete'
    BY <2>2, <2>7, <1>1 DEF NoUseAfterDelete, TypeOK
  <2> QED BY <2>6, <2>8, <2>9, <2>10 DEF Places
<1> QED BY <1>3, <1>4

\* Run(Head(readyList)) by a thread that is not going to sleep: Yield (with
\* the caller put back) and the return from Idle (with nobody put back).
LEMMA SwitchPlaces ==
  ASSUME Places, readyList # <<>>, NEW rl, NEW st,
         st \in [Thread -> Status], rl \in Seq(Thread), IsInjective(rl),
         \A t \in Thread : st[t] # "RUNNING",
         \A t \in Thread : st[t] = IF status[t] = "RUNNING" THEN "READY"
                                   ELSE status[t],
         Range(rl) = {t \in Thread : st[t] = "READY"} \ {Head(readyList)},
         Run(Head(readyList), rl, st, threadToBeDestroyed),
         at' = Started(at, Head(readyList)),
         UNCHANGED <<on, value, queue, pending>>
  PROVE  Places'
<1> USE ThreadsAssumption
<1> DEFINE next == Head(readyList)
<1>1. TypeOK /\ OnePlace /\ StatusFits /\ NoUseAfterDelete
  BY DEF Places
<1>2. next \in Thread /\ status[next] = "READY"
  BY <1>1, RemoveHead DEF TypeOK, OnePlace
<1>3. RunPre(next, rl, st, threadToBeDestroyed, at)
  BY <1>1, <1>2
  DEF RunPre, TypeOK, StatusFits, StatusesAt, NoUseAfterDelete, Where
<1> HIDE DEF next
<1>4. RunPost(st, at)
  BY <1>1, <1>3, RunPlaces DEF next
<1>5. \A s \in Sem : {t \in Thread : status'[t] = "BLOCKED" /\ at'[t] = "P"
                                      /\ on'[t] = s}
                     = {t \in Thread : status[t] = "BLOCKED" /\ at[t] = "P"
                                      /\ on[t] = s}
  BY <1>4 DEF RunPost
<1>6. OnePlace'
  BY <1>1, <1>4, <1>5 DEF RunPost, OnePlace
<1>7. TypeOK' /\ StatusFits' /\ NoUseAfterDelete'
  BY <1>1, <1>4 DEF RunPost, TypeOK, StatusFits
<1> QED BY <1>6, <1>7 DEF Places

LEMMA ForkPlaces ==
  ASSUME Places, NEW t \in Thread, NEW u \in Thread, Fork(t, u)
  PROVE  Places'
<1> USE ThreadsAssumption
<1>1. TypeOK /\ OnePlace /\ StatusFits /\ NoUseAfterDelete
  BY DEF Places
<1>2. /\ u \notin Range(readyList)
      /\ at[u] = "new"
  BY <1>1 DEF Fork, OnePlace, StatusFits, StatusesAt, TypeOK, Where
<1>3. /\ Append(readyList, u) \in Seq(Thread)
      /\ IsInjective(Append(readyList, u))
      /\ Range(Append(readyList, u)) = Range(readyList) \cup {u}
  BY <1>1, <1>2, AppendOnce DEF TypeOK, OnePlace
<1>4. TypeOK'
  BY <1>1, <1>3 DEF Fork, TypeOK, Status
<1>5. OnePlace'
  BY <1>1, <1>2, <1>3 DEF Fork, TypeOK, OnePlace
<1>6. StatusFits'
  BY <1>1, <1>2 DEF Fork, TypeOK, StatusFits, StatusesAt
<1>7. NoUseAfterDelete'
  BY <1>1, <1>2 DEF Fork, TypeOK, NoUseAfterDelete
<1> QED BY <1>4, <1>5, <1>6, <1>7 DEF Places

LEMMA YieldPlaces ==
  ASSUME Places, NEW t \in Thread, Yield(t)
  PROVE  Places'
<1> DEFINE next == Head(readyList)
           st == [status EXCEPT ![t] = "READY"]
           rl == Append(Tail(readyList), t)
<1>1. /\ TypeOK /\ OnePlace
      /\ status[t] = "RUNNING"
      /\ readyList # <<>>
  BY DEF Places, Yield, InBody, OnePlace
<1>2. /\ next \in Range(readyList)
      /\ Tail(readyList) \in Seq(Thread)
      /\ IsInjective(Tail(readyList))
      /\ Range(Tail(readyList)) = Range(readyList) \ {next}
      /\ t \notin Range(Tail(readyList))
  BY <1>1, RemoveHead DEF TypeOK, OnePlace
<1>3. /\ rl \in Seq(Thread)
      /\ IsInjective(rl)
      /\ Range(rl) = (Range(readyList) \ {next}) \cup {t}
  <2> DEFINE tl == Tail(readyList)
  <2>1. tl \in Seq(Thread) /\ IsInjective(tl) /\ t \notin Range(tl)
    BY <1>2
  <2> HIDE DEF tl
  <2>2. /\ Append(tl, t) \in Seq(Thread)
        /\ IsInjective(Append(tl, t))
        /\ Range(Append(tl, t)) = Range(tl) \cup {t}
    BY <2>1, AppendOnce
  <2> QED BY <2>2, <1>2 DEF tl
<1>4. /\ st \in [Thread -> Status]
      /\ \A u \in Thread : st[u] # "RUNNING"
      /\ \A u \in Thread : st[u] = IF status[u] = "RUNNING" THEN "READY"
                                   ELSE status[u]
  BY <1>1 DEF OnePlace, TypeOK, Status
<1>5. Range(rl) = {u \in Thread : st[u] = "READY"} \ {next}
  BY <1>1, <1>2, <1>3, <1>4 DEF OnePlace, TypeOK
<1>6. /\ Run(next, rl, st, threadToBeDestroyed)
      /\ at' = Started(at, next)
      /\ UNCHANGED <<on, value, queue, pending>>
  BY DEF Yield
<1> QED
  BY <1>1, <1>3, <1>4, <1>5, <1>6, SwitchPlaces

LEMMA IdleReturnPlaces ==
  ASSUME Places, IdleReturn
  PROVE  Places'
<1>1. /\ TypeOK /\ OnePlace
      /\ readyList # <<>>
      /\ \A u \in Thread : status[u] # "RUNNING"
  BY DEF Places, IdleReturn, OnePlace
<1>2. /\ Tail(readyList) \in Seq(Thread)
      /\ IsInjective(Tail(readyList))
      /\ Range(Tail(readyList))
           = {u \in Thread : status[u] = "READY"} \ {Head(readyList)}
  BY <1>1, RemoveHead DEF TypeOK, OnePlace
<1> QED
  BY <1>1, <1>2, SwitchPlaces DEF IdleReturn, TypeOK

LEMMA FinishPlaces ==
  ASSUME Places, NEW t \in Thread, Finish(t)
  PROVE  Places'
<1> USE ThreadsAssumption
<1>1. /\ TypeOK /\ OnePlace /\ StatusFits
      /\ mode = "running" /\ currentThread = t /\ at[t] = "body"
  BY DEF Places, Finish, InBody
<1>2. SleepAt(t, "finished", t) /\ UNCHANGED <<on, value, queue, pending>>
  BY DEF Finish
<1> DEFINE S(s) == {u \in Thread : status[u] = "BLOCKED" /\ at[u] = "P"
                                     /\ on[u] = s}
<1>3. /\ TypeOK'
      /\ NoUseAfterDelete'
      /\ StatusFits'
  BY <1>1, <1>2, SleepPlaces DEF TypeOK, StatusFits
<1>4. \A s \in Sem : S(s)' = S(s)
  BY <1>1, <1>2, SleepPlaces DEF TypeOK
<1>5. OnePlace'
  BY <1>1, <1>2, <1>4, SleepPlaces DEF OnePlace
<1> QED BY <1>3, <1>5 DEF Places

\* A turn of P's loop that goes to sleep, first or repeated.
LEMMA PSleepPlaces ==
  ASSUME Places, NEW t \in Thread, NEW s \in Sem,
         mode = "running", currentThread = t,
         PSleep(t, s)
  PROVE  Places'
<1> USE ThreadsAssumption
<1>1. /\ TypeOK /\ OnePlace /\ StatusFits
      /\ status[t] = "RUNNING"
  BY DEF Places, OnePlace
<1>2. /\ SleepAt(t, "P", threadToBeDestroyed)
      /\ queue' = [queue EXCEPT ![s] = Append(@, t)]
      /\ on' = [on EXCEPT ![t] = s]
      /\ UNCHANGED <<value, pending>>
  BY DEF PSleep
<1>3. /\ queue[s] \in Seq(Thread)
      /\ IsInjective(queue[s])
      /\ t \notin Range(queue[s])
  BY <1>1 DEF TypeOK, OnePlace
<1>4. /\ Append(queue[s], t) \in Seq(Thread)
      /\ IsInjective(Append(queue[s], t))
      /\ Range(Append(queue[s], t)) = Range(queue[s]) \cup {t}
  BY <1>3, AppendOnce
<1>5. threadToBeDestroyed \in Thread \cup {NULL}
  BY <1>1 DEF TypeOK
<1>6. TypeOK'
  BY <1>1, <1>2, <1>4, <1>5, SleepPlaces DEF TypeOK
<1>7. StatusFits' /\ NoUseAfterDelete'
  BY <1>1, <1>2, <1>5, SleepPlaces DEF TypeOK, StatusFits
<1>8. ASSUME NEW r \in Sem
      PROVE  /\ IsInjective(queue'[r])
             /\ Range(queue'[r]) = {u \in Thread :
                  status'[u] = "BLOCKED" /\ at'[u] = "P" /\ on'[u] = r}
  <2>1. \A u \in Thread : status'[u] = "BLOCKED" /\ at'[u] = "P"
                 <=> (u = t \/ (status[u] = "BLOCKED" /\ at[u] = "P"))
    BY <1>1, <1>2, <1>5, SleepPlaces
  <2>2. \A u \in Thread : on'[u] = IF u = t THEN s ELSE on[u]
    BY <1>1, <1>2 DEF TypeOK
  <2>3. CASE r = s
    BY <2>1, <2>2, <2>3, <1>1, <1>2, <1>4 DEF TypeOK, OnePlace
  <2>4. CASE r # s
    <3>1. queue'[r] = queue[r]
      BY <2>4, <1>1, <1>2 DEF TypeOK
    <3> QED BY <2>1, <2>2, <2>4, <3>1, <1>1 DEF OnePlace
  <2> QED BY <2>3, <2>4
<1>9. OnePlace'
  BY <1>1, <1>2, <1>5, <1>8, SleepPlaces DEF OnePlace
<1> QED BY <1>6, <1>7, <1>9 DEF Places

\* The end of P: the running thread takes a unit.
LEMMA PTakePlaces ==
  ASSUME Places, NEW t \in Thread, NEW s \in Sem,
         mode = "running", currentThread = t, value[s] # 0,
         PTake(t, s)
  PROVE  Places'
<1> USE ThreadsAssumption
<1>1. /\ TypeOK /\ OnePlace /\ StatusFits /\ NoUseAfterDelete
      /\ status[t] = "RUNNING"
  BY DEF Places, OnePlace
<1>2. TypeOK'
  BY <1>1 DEF PTake, TypeOK, Where
<1>3. OnePlace'
  BY <1>1 DEF PTake, TypeOK, OnePlace
<1>4. StatusFits'
  BY <1>1 DEF PTake, TypeOK, StatusFits, StatusesAt
<1>5. NoUseAfterDelete'
  BY <1>1 DEF PTake, TypeOK, NoUseAfterDelete, OnePlace
<1> QED BY <1>2, <1>3, <1>4, <1>5 DEF Places

LEMMA NextPlaces == Places /\ [Next]_vars => Places'
<1> SUFFICES ASSUME Places, [Next]_vars PROVE Places'
  OBVIOUS
<1>0. TypeOK /\ StatusFits
  BY DEF Places
<1>1. ASSUME NEW t \in Thread, NEW u \in Thread, Fork(t, u) PROVE Places'
  BY <1>1, ForkPlaces
<1>2. ASSUME NEW t \in Thread, Yield(t) PROVE Places'
  BY <1>2, YieldPlaces
<1>3. ASSUME NEW t \in Thread, Finish(t) PROVE Places'
  BY <1>3, FinishPlaces
<1>4. ASSUME NEW t \in Thread, PResume(t) PROVE Places'
  <2>1. on[t] \in Sem
    BY <1>0, <1>4 DEF PResume, StatusFits, TypeOK
  <2> QED BY <1>4, <2>1, PSleepPlaces, PTakePlaces DEF PResume
<1>5. ASSUME NEW t \in Thread, NEW s \in Sem, P(t, s) PROVE Places'
  BY <1>5, PSleepPlaces, PTakePlaces DEF P, InBody
<1>6. ASSUME NEW t \in Thread, NEW s \in Sem, V(t, s) PROVE Places'
  BY <1>0, <1>6, VPlaces DEF V, TypeOK
<1>7. ASSUME NEW t \in Thread, NEW s \in Sem, Request(t, s) PROVE Places'
  BY <1>7 DEF Request, Places, TypeOK, OnePlace, StatusFits, NoUseAfterDelete
<1>8. ASSUME NEW s \in Sem, Interrupt(s) PROVE Places'
  BY <1>0, <1>8, VPlaces DEF Interrupt, TypeOK
<1>9. ASSUME IdleReturn PROVE Places'
  BY <1>9, IdleReturnPlaces
<1>10. ASSUME Halt PROVE Places'
  BY <1>10 DEF Halt, Places, TypeOK, OnePlace, StatusFits, NoUseAfterDelete
<1>11. ASSUME UNCHANGED vars PROVE Places'
  BY <1>11
  DEF vars, Places, TypeOK, OnePlace, StatusFits, NoUseAfterDelete
<1> QED
  BY <1>1, <1>2, <1>3, <1>4, <1>5, <1>6, <1>7, <1>8, <1>9, <1>10, <1>11
  DEF Next, Halted

\* Type correctness of the kernel threads: in particular no semaphore value
\* becomes negative and every queue holds threads only.
THEOREM TypeCorrect == Spec => []TypeOK
BY InitPlaces, NextPlaces, PTL DEF Spec, Places

\* Every thread is in exactly the queue that its status tells.
THEOREM ThreadsInOnePlace == Spec => []OnePlace
BY InitPlaces, NextPlaces, PTL DEF Spec, Places

\* No thread is deleted while it could run, nor on its own stack.
THEOREM DeleteIsSafe == Spec => []NoUseAfterDelete
BY InitPlaces, NextPlaces, PTL DEF Spec, Places

(***************************************************************************)
(* No lost wake-up.  The set Woken(s) loses a thread only when that thread *)
(* tests the value of s, and gains one with every V that finds a sleeper.  *)
(***************************************************************************)

\* The set of woken threads is finite, so adding and removing a thread moves
\* its cardinality by one.
LEMMA WokenFinite ==
  ASSUME NEW W \in SUBSET Thread
  PROVE  /\ IsFiniteSet(W)
         /\ Cardinality(W) \in Nat
         /\ \A t : t \in W => Cardinality(W \ {t}) = Cardinality(W) - 1
         /\ \A t : t \notin W => Cardinality(W \cup {t}) = Cardinality(W) + 1
<1>1. IsFiniteSet(W)
  BY ThreadsAssumption, FS_Subset
<1> QED BY <1>1, FS_CardinalityType, FS_AddElement, FS_RemoveElement

\* The woken threads are those inside P(s) that are not in its queue, so they
\* change with the queues and with who is inside P, whoever runs.
WokenOutsideQueue ==
  \A s \in Sem : Woken(s) = {t \in Thread : on[t] = s} \ Range(queue[s])

LEMMA WokenIs == Places => WokenOutsideQueue
BY ThreadsAssumption
DEF Places, TypeOK, OnePlace, StatusFits, StatusesAt, Woken, Where,
    WokenOutsideQueue

\* A step that leaves the semaphores alone wakes nobody.
LEMMA KeepWakeup ==
  ASSUME Places, Places', NoLostWakeup, UNCHANGED <<on, queue, value>>
  PROVE  NoLostWakeup'
<1>1. WokenOutsideQueue /\ WokenOutsideQueue'
  BY WokenIs, PTL
<1> QED BY <1>1 DEF WokenOutsideQueue, NoLostWakeup

\* P(s) goes to sleep only when there is no unit of s.
LEMMA PSleepWakeup ==
  ASSUME Places, Places', NoLostWakeup, NEW t \in Thread, NEW s \in Sem,
         value[s] = 0, on[t] \in {NULL, s}, PSleep(t, s)
  PROVE  NoLostWakeup'
<1> USE ThreadsAssumption
<1>0. WokenOutsideQueue /\ WokenOutsideQueue'
  BY WokenIs, PTL
<1> SUFFICES ASSUME NEW r \in Sem, queue'[r] # <<>>
             PROVE  value'[r] <= Cardinality(Woken(r)')
  BY DEF NoLostWakeup
<1>1. TypeOK /\ value' = value
  BY DEF Places, PSleep
<1>2. CASE r = s
  <2>1. Cardinality(Woken(r)') \in Nat
    BY WokenFinite DEF Woken
  <2> QED BY <1>1, <1>2, <2>1
<1>3. CASE r # s
  <2>1. /\ queue'[r] = queue[r]
        /\ \A u \in Thread : on'[u] = r <=> on[u] = r
    BY <1>1, <1>3 DEF PSleep, TypeOK
  <2>2. Woken(r)' = Woken(r)
    <3>1. {u \in Thread : on'[u] = r} = {u \in Thread : on[u] = r}
      BY <2>1
    <3> QED BY <1>0, <2>1, <3>1 DEF WokenOutsideQueue
  <2> QED BY <1>1, <2>1, <2>2 DEF NoLostWakeup
<1> QED BY <1>2, <1>3

\* A thread that takes a unit of s was either woken for s, and is so no
\* longer, or never waited.
LEMMA PTakeWakeup ==
  ASSUME Places, Places', NoLostWakeup, NEW t \in Thread, NEW s \in Sem,
         currentThread = t, mode = "running",
         value[s] # 0, on[t] \in {NULL, s}, PTake(t, s)
  PROVE  NoLostWakeup'
<1> USE ThreadsAssumption
<1>0. WokenOutsideQueue /\ WokenOutsideQueue'
  BY WokenIs, PTL
<1> SUFFICES ASSUME NEW r \in Sem, queue'[r] # <<>>
             PROVE  value'[r] <= Cardinality(Woken(r)')
  BY DEF NoLostWakeup
<1>1. /\ TypeOK
      /\ queue' = queue
      /\ value' = [value EXCEPT ![s] = @ - 1]
      /\ \A u \in Thread : on'[u] = IF u = t THEN NULL ELSE on[u]
      /\ \A q \in Sem : t \notin Range(queue[q])
  BY DEF Places, PTake, TypeOK, OnePlace
<1>2. /\ value[r] \in Nat /\ Woken(r) \in SUBSET Thread
      /\ value[r] <= Cardinality(Woken(r))
  BY <1>1 DEF TypeOK, Woken, NoLostWakeup
<1>3. CASE r = s /\ on[t] = s
  <2>1. t \in Woken(s) /\ Woken(s)' = Woken(s) \ {t}
    BY <1>0, <1>1, <1>3 DEF WokenOutsideQueue
  <2>2. Cardinality(Woken(s) \ {t}) = Cardinality(Woken(s)) - 1
    BY <1>2, <1>3, <2>1, WokenFinite
  <2>3. Cardinality(Woken(s)) \in Nat
    BY <1>2, <1>3, WokenFinite
  <2> QED BY <1>1, <1>2, <1>3, <2>1, <2>2, <2>3 DEF TypeOK
<1>4. CASE r # s \/ on[t] = NULL
  <2>1. Woken(r)' = Woken(r)
    <3>1. {u \in Thread : on'[u] = r} = {u \in Thread : on[u] = r}
      BY <1>1, <1>4
    <3>2. Woken(r)' = {u \in Thread : on'[u] = r} \ Range(queue[r])
      BY <1>0, <1>1 DEF WokenOutsideQueue
    <3>3. Woken(r) = {u \in Thread : on[u] = r} \ Range(queue[r])
      BY <1>0 DEF WokenOutsideQueue
    <3> QED BY <3>1, <3>2, <3>3
  <2>2. Cardinality(Woken(r)) \in Nat
    BY <1>2, WokenFinite
  <2> QED BY <1>1, <1>2, <2>1, <2>2 DEF TypeOK
<1> QED BY <1>3, <1>4

\* V(s) adds a unit and, if threads sleep in P(s), a woken thread.
LEMMA VWakeup ==
  ASSUME Places, Places', NoLostWakeup, NEW s \in Sem, DoV(s), on' = on
  PROVE  NoLostWakeup'
<1> USE ThreadsAssumption
<1>0. WokenOutsideQueue /\ WokenOutsideQueue'
  BY WokenIs, PTL
<1> SUFFICES ASSUME NEW r \in Sem, queue'[r] # <<>>
             PROVE  value'[r] <= Cardinality(Woken(r)')
  BY DEF NoLostWakeup
<1>1. /\ TypeOK /\ OnePlace
      /\ value' = [value EXCEPT ![s] = @ + 1]
      /\ queue[s] = <<>> => queue' = queue
      /\ queue[s] # <<>> => queue' = [queue EXCEPT ![s] = Tail(@)]
  BY DEF Places, DoV
<1>2. CASE r # s
  <2>1. queue'[r] = queue[r] /\ value'[r] = value[r]
    BY <1>1, <1>2 DEF TypeOK
  <2>2. Woken(r)' = Woken(r)
    BY <1>0, <2>1 DEF WokenOutsideQueue
  <2> QED BY <2>1, <2>2 DEF NoLostWakeup
<1>3. CASE r = s
  <2>1. queue[s] # <<>> /\ queue'[s] = Tail(queue[s])
    BY <1>1, <1>3 DEF TypeOK
  <2>2. /\ Head(queue[s]) \in Range(queue[s])
        /\ Range(Tail(queue[s])) = Range(queue[s]) \ {Head(queue[s])}
    BY <1>1, <2>1, RemoveHead DEF TypeOK, OnePlace
  <2>3. Head(queue[s]) \in Thread /\ on[Head(queue[s])] = s
    BY <1>1, <2>2 DEF OnePlace
  <2>4. /\ Head(queue[s]) \notin Woken(s)
        /\ Woken(s)' = Woken(s) \cup {Head(queue[s])}
    BY <1>0, <2>1, <2>2, <2>3 DEF WokenOutsideQueue
  <2>5. /\ Cardinality(Woken(s)) \in Nat
        /\ Cardinality(Woken(s)') = Cardinality(Woken(s)) + 1
    BY <2>4, WokenFinite DEF Woken
  <2>6. value[s] <= Cardinality(Woken(s)) /\ value[s] \in Nat
    BY <1>1, <2>1 DEF NoLostWakeup, TypeOK
  <2> QED BY <1>1, <1>3, <2>5, <2>6 DEF TypeOK
<1> QED BY <1>2, <1>3

LEMMA NextWakeup ==
  ASSUME Places, Places', NoLostWakeup, [Next]_vars
  PROVE  NoLostWakeup'
<1> USE ThreadsAssumption
<1>0. TypeOK /\ StatusFits
  BY DEF Places
<1>1. ASSUME NEW t \in Thread, PResume(t) PROVE NoLostWakeup'
  <2>1. on[t] \in Sem
    BY <1>0, <1>1 DEF PResume, StatusFits, TypeOK
  <2> QED BY <1>1, <2>1, PSleepWakeup, PTakeWakeup DEF PResume
<1>2. ASSUME NEW t \in Thread, NEW s \in Sem, P(t, s) PROVE NoLostWakeup'
  <2>1. on[t] = NULL
    BY <1>0, <1>2 DEF P, InBody, StatusFits, TypeOK
  <2> QED BY <1>2, <2>1, PSleepWakeup, PTakeWakeup DEF P, InBody
<1>3. ASSUME NEW s \in Sem, NEW t \in Thread, V(t, s) PROVE NoLostWakeup'
  BY <1>3, VWakeup DEF V
<1>4. ASSUME NEW s \in Sem, Interrupt(s) PROVE NoLostWakeup'
  BY <1>4, VWakeup DEF Interrupt
<1>5. CASE UNCHANGED <<on, queue, value>>
  BY <1>5, KeepWakeup
<1>6. ASSUME NEW t \in Thread, NEW u \in Thread, Fork(t, u)
      PROVE  UNCHANGED <<on, queue, value>>
  BY <1>6 DEF Fork
<1>7. ASSUME NEW t \in Thread, Yield(t) \/ Finish(t)
      PROVE  UNCHANGED <<on, queue, value>>
  BY <1>7 DEF Yield, Finish
<1>8. ASSUME NEW t \in Thread, NEW s \in Sem, Request(t, s)
      PROVE  UNCHANGED <<on, queue, value>>
  BY <1>8 DEF Request
<1>9. ASSUME IdleReturn \/ Halt \/ UNCHANGED vars
      PROVE  UNCHANGED <<on, queue, value>>
  BY <1>9 DEF IdleReturn, Halt, vars
<1> QED
  BY <1>1, <1>2, <1>3, <1>4, <1>5, <1>6, <1>7, <1>8, <1>9 DEF Next, Halted

(***************************************************************************)
(* The whole inductive invariant.                                          *)
(***************************************************************************)

Quiet == mode = "halted" => pending = {} /\ readyList = <<>>

\* Only Halt stops the machine, and nothing moves afterwards.
LEMMA NextQuiet ==
  ASSUME Places, Quiet, [Next]_vars
  PROVE  Quiet'
<1>1. CASE mode = "halted"
  <2>1. \A t \in Thread : ~InBody(t)
    BY <1>1 DEF InBody
  <2>2. UNCHANGED vars
    BY <1>1, <2>1 DEF Next, Halted, Halt, IdleReturn, Interrupt, Request, V,
       P, PResume, Finish, Yield, Fork, Places, TypeOK
  <2> QED BY <2>2 DEF Quiet, vars
<1>2. CASE mode # "halted"
  <2>1. mode' = "halted" => Halt
    BY <1>2 DEF Next, Halted, IdleReturn, Interrupt, Request, V, P, PSleep,
       PTake, PResume, Finish, Yield, Fork, SleepAt, Sleep, Run, vars
  <2> QED BY <2>1 DEF Halt, Quiet
<1> QED BY <1>1, <1>2

\* The invariant that carries the safety properties of the kernel threads.
THEOREM Inductive == Spec => []IInv
<1>1. Init => Places /\ NoLostWakeup /\ Quiet
  BY InitPlaces DEF Init, NoLostWakeup, Quiet
<1>2. Places /\ NoLostWakeup /\ Quiet /\ [Next]_vars
        => (Places /\ NoLostWakeup /\ Quiet)'
  BY NextPlaces, NextWakeup, NextQuiet
<1>3. Places /\ NoLostWakeup /\ Quiet => IInv
  BY DEF Places, Quiet, IInv
<1> QED BY <1>1, <1>2, <1>3, PTL DEF Spec

\* While a thread sleeps in P, every unit of its semaphore has a woken thread
\* on the way to it: no V is ever lost, for any number of threads.
THEOREM WakeupsAreNotLost == Spec => []NoLostWakeup
BY Inductive, PTL DEF IInv

\* Interrupt::Idle stops the machine only when no thread can ever run again.
THEOREM HaltIsJustified == Spec => []HaltsOnlyWhenStuck
<1>1. IInv => HaltsOnlyWhenStuck
  <2> SUFFICES ASSUME IInv, mode = "halted", NEW t \in Thread
               PROVE  /\ pending = {}
                      /\ status[t] \notin {"READY", "RUNNING"}
                      /\ at[t] = "P" => value[on[t]] = 0
    BY ThreadsAssumption DEF HaltsOnlyWhenStuck
  <2>1. \A u \in Thread : status[u] \notin {"READY", "RUNNING"}
    BY EmptyRange DEF IInv, TypeOK, OnePlace
  <2>2. ASSUME at[t] = "P" PROVE value[on[t]] = 0
    <3>1. on[t] \in Sem /\ status[t] = "BLOCKED"
      BY <2>1, <2>2, ThreadsAssumption
      DEF IInv, TypeOK, StatusFits, StatusesAt
    <3>2. t \in Range(queue[on[t]])
      BY <2>2, <3>1 DEF IInv, OnePlace
    <3>3. queue[on[t]] # <<>>
      BY <3>2, EmptyRange, EmptySeq
    <3>4. Woken(on[t]) = {}
      BY <2>1 DEF Woken
    <3>5. value[on[t]] <= 0
      BY <3>1, <3>3, <3>4, FS_EmptySet DEF IInv, NoLostWakeup
    <3> QED BY <3>1, <3>5 DEF IInv, TypeOK
  <2> QED BY <2>1, <2>2 DEF IInv
<1> QED BY <1>1, Inductive, PTL

(***************************************************************************)
(* Refinement of SemaphoreSpec.  Going back to sleep after a wake-up is a  *)
(* stuttering step of the abstract semaphore.                              *)
(***************************************************************************)

LEMMA StepRefines ==
  ASSUME IInv, [Next]_vars
  PROVE  [Abs!ANext]_(Abs!avars)
<1> USE ThreadsAssumption
<1>0. TypeOK /\ StatusFits
  BY DEF IInv
<1>1. ASSUME NEW t \in Thread, NEW s \in Sem, on[t] \in {NULL, s},
             value[s] # 0, PTake(t, s)
      PROVE  Abs!ANext
  <2>1. Abs!Take(t, s)
    BY <1>0, <1>1 DEF Abs!Take, PTake, TypeOK
  <2> QED BY <2>1 DEF Abs!ANext
<1>2. ASSUME NEW t \in Thread, NEW s \in Sem, on[t] = NULL,
             value[s] = 0, PSleep(t, s)
      PROVE  Abs!ANext
  <2>1. Abs!Wait(t, s)
    BY <1>0, <1>2 DEF Abs!Wait, PSleep, TypeOK
  <2> QED BY <2>1 DEF Abs!ANext
<1>3. ASSUME NEW s \in Sem, DoV(s), on' = on
      PROVE  Abs!ANext
  BY <1>3 DEF Abs!ANext, Abs!Give, DoV
<1>4. ASSUME NEW t \in Thread, NEW s \in Sem, P(t, s) PROVE Abs!ANext
  <2>1. on[t] = NULL
    BY <1>0, <1>4 DEF P, InBody, StatusFits, TypeOK
  <2> QED BY <1>1, <1>2, <1>4, <2>1 DEF P
<1>5. ASSUME NEW t \in Thread, PResume(t)
      PROVE  Abs!ANext \/ UNCHANGED <<value, on>>
  <2>1. on[t] \in Sem
    BY <1>0, <1>5 DEF PResume, StatusFits, TypeOK
  <2>2. CASE value[on[t]] = 0
    BY <1>0, <1>5, <2>1, <2>2 DEF PResume, PSleep, TypeOK
  <2>3. CASE value[on[t]] # 0
    BY <1>1, <1>5, <2>1, <2>3 DEF PResume
  <2> QED BY <2>2, <2>3
<1>6. ASSUME NEW t \in Thread, NEW s \in Sem, V(t, s) PROVE Abs!ANext
  BY <1>3, <1>6 DEF V
<1>7. ASSUME NEW s \in Sem, Interrupt(s) PROVE Abs!ANext
  BY <1>3, <1>7 DEF Interrupt
<1>8. ASSUME \/ \E t, u \in Thread : Fork(t, u)
             \/ \E t \in Thread : Yield(t) \/ Finish(t)
             \/ \E t \in Thread, s \in Sem : Request(t, s)
             \/ IdleReturn \/ Halt \/ UNCHANGED vars
      PROVE  UNCHANGED <<value, on>>
  BY <1>8 DEF Fork, Yield, Finish, Request, IdleReturn, Halt, vars
<1> QED
  BY <1>4, <1>5, <1>6, <1>7, <1>8 DEF Next, Halted, Abs!avars

\* The kernel's ready list, wait queues and re-testing P implement the
\* semaphore that synch.h describes.
THEOREM SemaphoresRefined == Spec => ImplementsSemaphores
<1>1. Init => Abs!AInit
  BY DEF Init, Abs!AInit
<1> QED BY <1>1, StepRefines, Inductive, PTL
        DEF Spec, ImplementsSemaphores, Abs!ASpec
=============================================================================
