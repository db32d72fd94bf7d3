------------------------------ MODULE Threads ------------------------------
(***************************************************************************)
(* The Nachos kernel threads: Thread (threads/thread.cc), Scheduler        *)
(* (threads/scheduler.cc), Semaphore (threads/synch.cc) and the part of    *)
(* Interrupt (machine/interrupt.cc) that decides when threads run.         *)
(*                                                                         *)
(* There is one processor, so every step is a step of currentThread or of  *)
(* an interrupt handler running on its stack.  Kernel code can only be     *)
(* interrupted where simulated time advances, which is where SetLevel      *)
(* re-enables interrupts: at the end of P, V, Fork and Yield and at the    *)
(* start of a new thread.  A thread in its "body" is at such a point; each *)
(* operation below runs from one of these points to the next, or to the    *)
(* SWITCH that takes the processor away.                                   *)
(***************************************************************************)
EXTENDS Naturals, Sequences, FiniteSets, Functions

CONSTANTS Thread,        \* every thread object the run will create
          Main,          \* the thread that Initialize turns main() into
          Sem,           \* every semaphore
          InitialValue,  \* InitialValue[s]: s's constructor argument
          NULL,          \* the null pointer
          MaxValue       \* bound: V is not called on a semaphore this high

ASSUME ThreadsAssumption == /\ IsFiniteSet(Thread)
                            /\ Main \in Thread
                            /\ NULL \notin Thread \cup Sem
                            /\ MaxValue \in Nat
                            /\ InitialValue \in [Sem -> Nat]

VARIABLES
  status,               \* Thread::status; "DELETED" once the destructor ran
  at,                   \* where the thread continues when it next runs
  on,                   \* the semaphore whose P the thread is inside
  currentThread,        \* the thread holding the processor
  readyList,            \* Scheduler::readyList
  threadToBeDestroyed,  \* the finished thread whose carcass waits for delete
  value, queue,         \* Semaphore::value, Semaphore::queue
  pending,              \* semaphores that a pending device interrupt will V
  mode                  \* "running", "idle" (in Interrupt::Idle) or "halted"

vars == <<status, at, on, currentThread, readyList, threadToBeDestroyed,
          value, queue, pending, mode>>

Status == {"JUST_CREATED", "RUNNING", "READY", "BLOCKED", "DELETED"}

\* "new": will start in ThreadRoot; "body": between two kernel calls;
\* "P": inside the loop of Semaphore::P; "finished": in Finish, for good.
Where == {"new", "body", "P", "finished"}

TypeOK == /\ status \in [Thread -> Status]
          /\ at \in [Thread -> Where]
          /\ on \in [Thread -> Sem \cup {NULL}]
          /\ currentThread \in Thread
          /\ readyList \in Seq(Thread)
          /\ threadToBeDestroyed \in Thread \cup {NULL}
          /\ value \in [Sem -> Nat]
          /\ queue \in [Sem -> Seq(Thread)]
          /\ pending \in SUBSET Sem
          /\ mode \in {"running", "idle", "halted"}

\* Initialize: main() becomes the running thread, interrupts are enabled.
Init == /\ status = [t \in Thread |->
                       IF t = Main THEN "RUNNING" ELSE "JUST_CREATED"]
        /\ at = [t \in Thread |-> IF t = Main THEN "body" ELSE "new"]
        /\ on = [t \in Thread |-> NULL]
        /\ currentThread = Main
        /\ readyList = <<>>
        /\ threadToBeDestroyed = NULL
        /\ value = InitialValue
        /\ queue = [s \in Sem |-> <<>>]
        /\ pending = {}
        /\ mode = "running"
-----------------------------------------------------------------------------
(* Scheduler *)

\* t runs between two kernel calls, with interrupts enabled.
InBody(t) == mode = "running" /\ currentThread = t /\ at[t] = "body"

\* A new thread enters through ThreadRoot, not through the end of
\* Scheduler::Run, so nobody deletes the carcass on its behalf.
ReapsCarcass(next) == at[next] # "new"

\* Mutant: threadToBeDestroyed is not reset after the delete.
RunForgetsReset(next, rl, st, tbd) ==
  /\ mode' = "running"
  /\ currentThread' = next
  /\ readyList' = rl
  /\ status' = IF ReapsCarcass(next) /\ tbd # NULL
                 THEN [st EXCEPT ![next] = "RUNNING", ![tbd] = "DELETED"]
                 ELSE [st EXCEPT ![next] = "RUNNING"]
  /\ threadToBeDestroyed' = tbd

\* Scheduler::Run(next), called by a thread that has set the statuses to st,
\* the ready list to rl and threadToBeDestroyed to tbd.  The code after
\* SWITCH runs in next's context.
Run(next, rl, st, tbd) ==
  /\ mode' = "running"
  /\ currentThread' = next
  /\ readyList' = rl
  /\ IF ReapsCarcass(next) /\ tbd # NULL
       THEN /\ status' = [st EXCEPT ![next] = "RUNNING", ![tbd] = "DELETED"]
            /\ threadToBeDestroyed' = NULL
       ELSE /\ status' = [st EXCEPT ![next] = "RUNNING"]
            /\ threadToBeDestroyed' = tbd

\* Thread::Sleep by t: run the next ready thread, or call Interrupt::Idle
\* (on t's stack, with t still the current thread).
Sleep(t, tbd) ==
  LET st == [status EXCEPT ![t] = "BLOCKED"] IN
  IF readyList # <<>>
    THEN Run(Head(readyList), Tail(readyList), st, tbd)
    ELSE /\ status' = st
         /\ threadToBeDestroyed' = tbd
         /\ mode' = "idle"
         /\ UNCHANGED <<currentThread, readyList>>

\* Where the threads continue once next has been given the processor: a new
\* thread is past ThreadRoot's InterruptEnable.
Started(a, next) == [a EXCEPT ![next] = IF @ = "new" THEN "body" ELSE @]

\* Sleep, together with the place t will resume at.
SleepAt(t, where, tbd) ==
  LET a == [at EXCEPT ![t] = where] IN
  /\ Sleep(t, tbd)
  /\ at' = IF readyList # <<>> THEN Started(a, Head(readyList)) ELSE a
-----------------------------------------------------------------------------
(* Thread *)

\* Thread::Fork of u by t.
Fork(t, u) ==
  /\ InBody(t)
  /\ status[u] = "JUST_CREATED"
  /\ status' = [status EXCEPT ![u] = "READY"]
  /\ readyList' = Append(readyList, u)
  /\ UNCHANGED <<at, on, currentThread, threadToBeDestroyed, value, queue,
                 pending, mode>>

\* Mutants: the yielding thread is not put back; it is put back in front.
YieldDropsSelf(t) ==
  /\ InBody(t) /\ readyList # <<>>
  /\ Run(Head(readyList), Tail(readyList), [status EXCEPT ![t] = "READY"],
         threadToBeDestroyed)
  /\ at' = Started(at, Head(readyList))
  /\ UNCHANGED <<on, value, queue, pending>>
YieldPrepends(t) ==
  /\ InBody(t) /\ readyList # <<>>
  /\ Run(Head(readyList), <<t>> \o Tail(readyList),
         [status EXCEPT ![t] = "READY"], threadToBeDestroyed)
  /\ at' = Started(at, Head(readyList))
  /\ UNCHANGED <<on, value, queue, pending>>

\* Thread::Yield, called by the thread itself or by OneTick after a timer
\* interrupt.  With an empty ready list it does nothing.
Yield(t) ==
  /\ InBody(t)
  /\ readyList # <<>>
  /\ Run(Head(readyList), Append(Tail(readyList), t),
         [status EXCEPT ![t] = "READY"], threadToBeDestroyed)
  /\ at' = Started(at, Head(readyList))
  /\ UNCHANGED <<on, value, queue, pending>>

\* Thread::Finish.
Finish(t) ==
  /\ InBody(t)
  /\ SleepAt(t, "finished", t)
  /\ UNCHANGED <<on, value, queue, pending>>
-----------------------------------------------------------------------------
(* Semaphore *)

\* One turn of the loop of P(s) that finds the value zero.
PSleep(t, s) ==
  /\ queue' = [queue EXCEPT ![s] = Append(@, t)]
  /\ on' = [on EXCEPT ![t] = s]
  /\ SleepAt(t, "P", threadToBeDestroyed)
  /\ UNCHANGED <<value, pending>>

\* The loop of P(s) is left and one unit taken.
PTake(t, s) ==
  /\ value' = [value EXCEPT ![s] = @ - 1]
  /\ at' = [at EXCEPT ![t] = "body"]
  /\ on' = [on EXCEPT ![t] = NULL]
  /\ UNCHANGED <<status, currentThread, readyList, threadToBeDestroyed, queue,
                 pending, mode>>

\* Semaphore::P, up to the SWITCH if it has to wait.
P(t, s) == /\ InBody(t)
           /\ IF value[s] = 0 THEN PSleep(t, s) ELSE PTake(t, s)

\* Mutant: "if" for "while" in P: a woken thread does not test again.
PResumeIf(t) ==
  /\ mode = "running" /\ currentThread = t /\ at[t] = "P"
  /\ PTake(t, on[t])

\* A thread woken inside P tests the value again: another thread may have
\* taken the unit since V.
PResume(t) ==
  /\ mode = "running"
  /\ currentThread = t
  /\ at[t] = "P"
  /\ IF value[on[t]] = 0 THEN PSleep(t, on[t]) ELSE PTake(t, on[t])

\* Mutant: V wakes a waiter only when the value was zero.
VWakesAtZero(s) ==
  /\ value' = [value EXCEPT ![s] = @ + 1]
  /\ IF queue[s] = <<>> \/ value[s] > 0
       THEN UNCHANGED <<queue, status, readyList>>
       ELSE /\ queue' = [queue EXCEPT ![s] = Tail(@)]
            /\ status' = [status EXCEPT ![Head(queue[s])] = "READY"]
            /\ readyList' = Append(readyList, Head(queue[s]))

\* The body of Semaphore::V.
DoV(s) ==
  /\ value' = [value EXCEPT ![s] = @ + 1]
  /\ IF queue[s] = <<>>
       THEN UNCHANGED <<queue, status, readyList>>
       ELSE /\ queue' = [queue EXCEPT ![s] = Tail(@)]
            /\ status' = [status EXCEPT ![Head(queue[s])] = "READY"]
            /\ readyList' = Append(readyList, Head(queue[s]))

\* The value s will have once its pending interrupt, if any, has fired; no
\* operation that would raise it beyond MaxValue is tried.
Outstanding(s) == value[s] + IF s \in pending THEN 1 ELSE 0

\* Semaphore::V called by a thread.
V(t, s) == /\ InBody(t)
           /\ Outstanding(s) < MaxValue
           /\ DoV(s)
           /\ UNCHANGED <<at, on, currentThread, threadToBeDestroyed, pending,
                          mode>>
-----------------------------------------------------------------------------
(* Interrupts *)

\* A thread starts a device operation (Console::PutChar, Disk::ReadRequest,
\* Network::Send): Interrupt::Schedule of a handler that will V(s).
Request(t, s) ==
  /\ InBody(t)
  /\ s \notin pending
  /\ Outstanding(s) < MaxValue
  /\ pending' = pending \cup {s}
  /\ UNCHANGED <<status, at, on, currentThread, readyList,
                 threadToBeDestroyed, value, queue, mode>>

\* CheckIfDue fires a device handler, from OneTick while a thread is in its
\* body or from Idle.
Interrupt(s) ==
  /\ s \in pending
  /\ \/ InBody(currentThread)
     \/ mode = "idle"
  /\ pending' = pending \ {s}
  /\ DoV(s)
  /\ UNCHANGED <<at, on, currentThread, threadToBeDestroyed, mode>>

\* Sleep's loop after Idle returned: a handler has made a thread ready.
IdleReturn ==
  /\ mode = "idle"
  /\ readyList # <<>>
  /\ Run(Head(readyList), Tail(readyList), status, threadToBeDestroyed)
  /\ at' = Started(at, Head(readyList))
  /\ UNCHANGED <<on, value, queue, pending>>

\* Mutant: Idle gives up although a device has yet to interrupt.
HaltEarly ==
  /\ mode = "idle" /\ readyList = <<>>
  /\ mode' = "halted"
  /\ UNCHANGED <<status, at, on, currentThread, readyList,
                 threadToBeDestroyed, value, queue, pending>>

\* Idle finds nothing pending but, at most, the timer.
Halt ==
  /\ mode = "idle"
  /\ readyList = <<>>
  /\ pending = {}
  /\ mode' = "halted"
  /\ UNCHANGED <<status, at, on, currentThread, readyList,
                 threadToBeDestroyed, value, queue, pending>>

\* The simulator has exited.
Halted == mode = "halted" /\ UNCHANGED vars

Next == \/ \E t, u \in Thread : Fork(t, u)
        \/ \E t \in Thread : Yield(t) \/ Finish(t) \/ PResume(t)
        \/ \E t \in Thread, s \in Sem : P(t, s) \/ V(t, s) \/ Request(t, s)
        \/ \E s \in Sem : Interrupt(s)
        \/ IdleReturn
        \/ Halt
        \/ Halted

Spec == Init /\ [][Next]_vars

(***************************************************************************)
(* Fairness.  The processor keeps executing kernel code once it is in it   *)
(* (PResume, IdleReturn); a scheduled interrupt becomes due; and under -rs *)
(* the timer never stops interrupting, so a thread in its body is made to  *)
(* yield.                                                                  *)
(***************************************************************************)
Fairness == /\ WF_vars(\E t \in Thread : PResume(t))
            /\ WF_vars(IdleReturn)
            /\ \A s \in Sem : WF_vars(Interrupt(s))
            /\ WF_vars(\E t \in Thread : Yield(t))

FairSpec == Spec /\ Fairness
-----------------------------------------------------------------------------
(* Correctness *)

\* Threads that V has taken off s's queue and that have not yet tested the
\* value of s again.
Woken(s) == {t \in Thread : /\ at[t] = "P"
                            /\ on[t] = s
                            /\ status[t] \in {"READY", "RUNNING"}}

\* The ready list and the semaphore queues hold exactly the threads whose
\* status says so, each once: a thread is never in two queues, and never in
\* none while somebody could still want to run it (Append and Remove in
\* ReadyToRun, FindNextToRun, P and V against the status assignments).
OnePlace ==
  /\ \A t \in Thread : status[t] = "RUNNING" <=> /\ t = currentThread
                                                 /\ mode = "running"
  /\ IsInjective(readyList)
  /\ Range(readyList) = {t \in Thread : status[t] = "READY"}
  /\ \A s \in Sem :
       /\ IsInjective(queue[s])
       /\ Range(queue[s]) = {t \in Thread : /\ status[t] = "BLOCKED"
                                            /\ at[t] = "P"
                                            /\ on[t] = s}

\* The statuses a thread may have, given where it will continue.
StatusesAt(where) ==
  CASE where = "new"      -> {"JUST_CREATED", "READY"}
    [] where = "body"     -> {"READY", "RUNNING"}
    [] where = "P"        -> {"READY", "RUNNING", "BLOCKED"}
    [] where = "finished" -> {"BLOCKED", "DELETED"}

\* A thread that has not started or has finished is never given the
\* processor; only a thread inside P names a semaphore.
StatusFits == \A t \in Thread : /\ status[t] \in StatusesAt(at[t])
                                /\ at[t] = "P" <=> on[t] # NULL

\* A deleted thread is one that finished, and a carcass is deleted from
\* another thread's stack: it is neither the current thread of a running
\* machine (the ASSERT in ~Thread) nor runnable.
NoUseAfterDelete ==
  /\ \A t \in Thread : status[t] = "DELETED" => at[t] = "finished"
  /\ threadToBeDestroyed # NULL =>
       /\ status[threadToBeDestroyed] = "BLOCKED"
       /\ at[threadToBeDestroyed] = "finished"
       /\ mode = "running" => threadToBeDestroyed # currentThread

\* No lost wake-up: while threads sleep in P(s), every unit of s has a woken
\* thread on its way to take it.  V wakes one thread per unit, but the woken
\* thread may find the unit taken and go back to sleep.
NoLostWakeup ==
  \A s \in Sem : queue[s] # <<>> => value[s] <= Cardinality(Woken(s))

\* The machine stops by itself (Interrupt::Idle) only when no thread can ever
\* run again: nothing is ready, no device will interrupt, and every thread
\* asleep in P waits for a unit that does not exist.
HaltsOnlyWhenStuck ==
  mode = "halted" =>
    /\ pending = {}
    /\ \A t \in Thread : /\ status[t] \notin {"READY", "RUNNING"}
                         /\ at[t] = "P" => value[on[t]] = 0

\* The strengthening that makes the safety properties inductive.
IInv == /\ TypeOK
        /\ OnePlace
        /\ StatusFits
        /\ NoUseAfterDelete
        /\ NoLostWakeup
        /\ mode = "halted" => pending = {} /\ readyList = <<>>

\* The queues of threads implement the semaphores of synch.h.
Abs == INSTANCE SemaphoreSpec WITH val <- value, wants <- on, NoSem <- NULL
ImplementsSemaphores == Abs!ASpec

\* The ready list is fair: a ready thread gets the processor (ReadyToRun
\* appends, FindNextToRun removes from the front, the timer makes the running
\* thread yield).
ReadyRuns == \A t \in Thread : status[t] = "READY" ~> status[t] = "RUNNING"

\* Units and sleepers do not coexist for ever: they are matched up, or more
\* threads take the units.
UnitsReachSleepers ==
  \A s \in Sem : (value[s] > 0 /\ queue[s] # <<>>)
                   ~> (value[s] = 0 \/ queue[s] = <<>>)
=============================================================================
