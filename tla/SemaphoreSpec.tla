--------------------------- MODULE SemaphoreSpec ---------------------------
(***************************************************************************)
(* What threads/synch.h promises of a Semaphore, without saying how:       *)
(* "a non-negative integer" on which P waits until it is positive and then *)
(* takes one unit, and V adds one.  There is no ready list and no wait     *)
(* queue here: a thread is either outside the semaphores or wants one.     *)
(* The modules of the user-program kernel use semaphores at this level.    *)
(***************************************************************************)
EXTENDS Naturals

CONSTANTS Thread,        \* the kernel threads
          Sem,           \* the semaphores
          NoSem,         \* "wants no semaphore"
          InitialValue   \* the value each semaphore is constructed with

VARIABLES val,           \* val[s]: units available in semaphore s
          wants          \* wants[t]: the semaphore whose P has made t wait

avars == <<val, wants>>

AInit == /\ val = InitialValue
         /\ wants = [t \in Thread |-> NoSem]

\* P(s) with a unit available, whether or not the caller had to wait for it.
Take(t, s) == /\ wants[t] \in {NoSem, s}
              /\ val[s] > 0
              /\ val' = [val EXCEPT ![s] = @ - 1]
              /\ wants' = [wants EXCEPT ![t] = NoSem]

\* P(s) with no unit available: the caller waits.
Wait(t, s) == /\ wants[t] = NoSem
              /\ val[s] = 0
              /\ wants' = [wants EXCEPT ![t] = s]
              /\ UNCHANGED val

\* V(s), by a thread or by an interrupt handler.
Give(s) == /\ val' = [val EXCEPT ![s] = @ + 1]
           /\ UNCHANGED wants

ANext == \E s \in Sem : \/ Give(s)
                        \/ \E t \in Thread : Take(t, s) \/ Wait(t, s)

ASpec == AInit /\ [][ANext]_avars
=============================================================================
