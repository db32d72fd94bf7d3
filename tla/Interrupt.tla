------------------------------ MODULE Interrupt ------------------------------
(***************************************************************************)
(* The simulated clock and the interrupts that devices have scheduled      *)
(* (machine/interrupt.cc, with the sorted lists of threads/list.cc) and    *)
(* the time-slice timer (machine/timer.cc).  A module that EXTENDS this    *)
(* one models a device and threads; it says when a thread can run, and     *)
(* joins Take with the handler of the interrupt that was taken.            *)
(*                                                                         *)
(* The loops around CheckIfDue in OneTick and Idle are the two phases in   *)
(* which interrupts are taken one by one; threads run in phase "run".      *)
(***************************************************************************)
EXTENDS Integers, Sequences, SequencesExt, FiniteSetsExt

CONSTANTS UserTick, SystemTick,   \* 1 and 10
          TimerTicks              \* 100

ASSUME InterruptAssumption == {UserTick, SystemTick, TimerTicks} \subseteq Nat \ {0}

VARIABLES
  totalTicks,      \* stats->totalTicks
  pending,         \* Interrupt::pending, records [type, when] sorted by when
  phase,           \* "run", in the loop of "OneTick", or in that of "Idle"
  yieldOnReturn,   \* Interrupt::yieldOnReturn
  halted           \* Interrupt::Halt was called

clock == <<totalTicks, pending, phase, yieldOnReturn, halted>>

\* Mutant: the new element goes before the first that is not smaller, and the
\* walk starts at the second element.
SortedInsertSkipsFirst(list, e) ==
  LET later == {i \in 2 .. Len(list) : e.when <= list[i].when}
  IN  IF later = {} THEN Append(list, e) ELSE InsertAt(list, Min(later), e)

\* List::SortedInsert: before the first element with a larger key.
SortedInsert(list, e) ==
  LET later == {i \in DOMAIN list : e.when < list[i].when}
  IN  IF later = {} THEN Append(list, e) ELSE InsertAt(list, Min(later), e)

\* List::SortedRemove: what is left when the first element is taken.
SortedRemove(list) == Tail(list)

\* Interrupt::Schedule, called at time now.
Schedule(list, type, now, fromNow) ==
  SortedInsert(list, [type |-> type, when |-> now + fromNow])

\* Timer::TimeOfNextInterrupt; the timer exists only with random time slices.
TimeOfNextInterrupt == 1 .. 2 * TimerTicks

\* Interrupt::Interrupt, and Timer::Timer if the simulator was started with -rs.
InterruptInit ==
  /\ totalTicks = 0
  /\ \/ pending = <<>>
     \/ \E n \in TimeOfNextInterrupt : pending = Schedule(<<>>, "TimerInt", 0, n)
  /\ phase = "run" /\ yieldOnReturn = FALSE /\ halted = FALSE
-----------------------------------------------------------------------------
\* The part of Interrupt::OneTick before its loop; status says which tick.
OneTick ==
  /\ phase = "run" /\ ~ halted
  /\ \E tick \in {UserTick, SystemTick} : totalTicks' = totalTicks + tick
  /\ phase' = "OneTick"
  /\ UNCHANGED <<pending, yieldOnReturn, halted>>

\* Only the timer is pending: an idle machine has nothing to wait for.
OnlyTimer == Len(pending) = 1 /\ pending[1].type = "TimerInt"

\* CheckIfDue takes the first interrupt, in a loop if its time has come, and
\* at the start of Idle (phase "run") by moving the clock to its time.
Take ==
  /\ ~ halted /\ pending # <<>>
  /\ phase # "OneTick" => ~ OnlyTimer
  /\ IF phase = "run" THEN totalTicks' = Max({totalTicks, pending[1].when})
                      ELSE pending[1].when <= totalTicks /\ UNCHANGED totalTicks
  /\ phase' = IF phase = "run" THEN "Idle" ELSE phase
  /\ UNCHANGED halted

\* Timer::TimerExpired schedules the next interrupt of the timer, then calls
\* TimerInterruptHandler; in a handler the machine is in system mode, so that
\* always asks for a yield.
TimerExpired ==
  /\ pending[1].type = "TimerInt"
  /\ \E n \in TimeOfNextInterrupt :
       pending' = Schedule(SortedRemove(pending), "TimerInt", totalTicks', n)
  /\ yieldOnReturn' = TRUE

\* CheckIfDue(FALSE) finds nothing to take and the loop ends.  An interrupt
\* that is not due, or an idle machine's timer, was removed and is put back,
\* now after the others of its time.  The yield that a handler asked for is
\* made (OneTick) or not needed (Idle).
LoopEnds ==
  /\ phase # "run"
  /\ pending # <<>> => pending[1].when > totalTicks \/ (phase = "Idle" /\ OnlyTimer)
  /\ pending' = IF pending = <<>> THEN <<>> ELSE SortedInsert(SortedRemove(pending), pending[1])
  /\ phase' = "run"
  /\ yieldOnReturn' = FALSE
  /\ UNCHANGED <<totalTicks, halted>>

\* Mutant: an idle machine does not halt while the timer is pending.
IdleHaltsEmpty ==
  /\ phase = "run" /\ ~ halted
  /\ pending = <<>>
  /\ halted' = TRUE
  /\ UNCHANGED <<totalTicks, pending, phase, yieldOnReturn>>

\* Interrupt::Idle when CheckIfDue(TRUE) takes nothing; the clock has been
\* moved to the time of the timer.
IdleHalts ==
  /\ phase = "run" /\ ~ halted
  /\ pending = <<>> \/ OnlyTimer
  /\ totalTicks' = IF OnlyTimer THEN Max({totalTicks, pending[1].when}) ELSE totalTicks
  /\ halted' = TRUE
  /\ UNCHANGED <<pending, phase, yieldOnReturn>>
=============================================================================
