------------------------------ MODULE SynchDisk ------------------------------
(***************************************************************************)
(* The simulated disk (machine/disk.cc) and the synchronous interface to   *)
(* it (filesys/synchdisk.cc): the time a request takes, the track buffer,  *)
(* the interrupt at the end of a request, and threads that wait for it.    *)
(*                                                                         *)
(* Time is the clock of the simulation, which advances between the steps   *)
(* of the threads (module Interrupt).  The data of a sector is moved when  *)
(* the request is made and is not modelled.  Lock has empty bodies         *)
(* (threads/synch.cc), so the two calls of the lock in ReadSector and      *)
(* WriteSector do nothing.                                                 *)
(***************************************************************************)
EXTENDS Interrupt

CONSTANTS Thread,
          SectorsPerTrack, NumTracks,   \* 32 and 32
          RotationTime, SeekTime,       \* 500 and 500
          MaxTime                       \* bound: no request starts later

ASSUME SynchDiskAssumption ==
  /\ SectorsPerTrack \in Nat \ {0} /\ NumTracks \in Nat \ {0}
  /\ RotationTime \in Nat \ {0} /\ SeekTime \in Nat \ {0}
  /\ MaxTime \in Nat

Sector == 0 .. SectorsPerTrack * NumTracks - 1

VARIABLES
  active,       \* Disk::active
  lastSector,   \* Disk::lastSector
  bufferInit,   \* Disk::bufferInit: when the track buffer began to fill
  value,        \* the value of SynchDisk::semaphore
  pc,           \* "idle" outside the disk, "P" waiting for it, or "done"
  requester,    \* history: threads whose request the disk has not finished
  early,        \* history: threads whose call returned before that
  overlap,      \* history: a call began before another had returned
  aborted       \* an assertion failed and the simulator stopped

disk == <<active, lastSector, bufferInit>>
vars == <<clock, disk, value, pc, requester, early, overlap, aborted>>

Abs(x) == IF x < 0 THEN -x ELSE x

\* The longest a request takes: a seek over the disk, the rest of a sector,
\* a revolution and the transfer.
MaxLatency == NumTracks * SeekTime + (SectorsPerTrack + 2) * RotationTime

\* Disk::Disk and SynchDisk::SynchDisk, at the start of the simulation.
Init ==
  /\ InterruptInit
  /\ active = FALSE /\ lastSector = 0 /\ bufferInit = 0
  /\ value = 0
  /\ pc = [t \in Thread |-> "idle"]
  /\ requester = {} /\ early = {}
  /\ overlap = FALSE /\ aborted = FALSE
-----------------------------------------------------------------------------
(* The time of a request *)

\* Disk::TimeToSeek: its result, and what it stores in "rotation".
Seek(s) == Abs((s \div SectorsPerTrack) - (lastSector \div SectorsPerTrack)) * SeekTime
Rotation(s) == LET over == (totalTicks + Seek(s)) % RotationTime
               IN  IF over > 0 THEN RotationTime - over ELSE 0

\* Mutant: the difference is not brought into the track.
ModuloDiffRaw(to, from) == Abs((to % SectorsPerTrack) - (from % SectorsPerTrack))

\* Disk::ModuloDiff.
ModuloDiff(to, from) ==
  ((to % SectorsPerTrack) - (from % SectorsPerTrack) + SectorsPerTrack) % SectorsPerTrack

TimeAfter(s) == totalTicks + Seek(s) + Rotation(s)

\* The test of ComputeLatency whether the track buffer has sector s.
InTrackBuffer(s) ==
  /\ Seek(s) = 0
  /\ (TimeAfter(s) - bufferInit) \div RotationTime
       > ModuloDiff(s, bufferInit \div RotationTime)

\* Disk::ComputeLatency.
ComputeLatency(s, writing) ==
  IF ~ writing /\ InTrackBuffer(s)
  THEN RotationTime
  ELSE Seek(s) + Rotation(s)
         + ModuloDiff(s, TimeAfter(s) \div RotationTime) * RotationTime + RotationTime

\* Disk::UpdateLast.
UpdateLast(s) ==
  /\ bufferInit' = IF Seek(s) # 0 THEN TimeAfter(s) ELSE bufferInit
  /\ lastSector' = s
-----------------------------------------------------------------------------
(* Requests and interrupts *)

\* Thread t may run: no interrupt is being taken.
Runs(t) == ~ aborted /\ ~ halted /\ phase = "run"

\* ReadSector or WriteSector is called; nothing keeps other threads out.
Called == overlap' = (overlap \/ \E u \in Thread : pc[u] = "P")

\* Disk::ReadRequest and WriteRequest, for a sector of the disk (both assert that
\* it is one; their callers take it from the free map or a file header).
StartRequest(s, writing) ==
  /\ ~ active
  /\ active' = TRUE
  /\ pending' = Schedule(pending, "DiskInt", totalTicks, ComputeLatency(s, writing))
  /\ UpdateLast(s)

\* Mutant: the call returns without waiting for the interrupt.
RequestNoWait(t, s, writing) ==
  /\ Runs(t) /\ pc[t] = "idle"
  /\ totalTicks <= MaxTime
  /\ StartRequest(s, writing)
  /\ Called
  /\ requester' = requester \cup {t}
  /\ early' = early \cup {t}
  /\ UNCHANGED <<totalTicks, phase, yieldOnReturn, halted, value, pc, aborted>>

\* ReadSector and WriteSector as far as the semaphore.
Request(t, s, writing) ==
  /\ Runs(t) /\ pc[t] = "idle"
  /\ totalTicks <= MaxTime
  /\ StartRequest(s, writing)
  /\ pc' = [pc EXCEPT ![t] = "P"]
  /\ Called
  /\ requester' = requester \cup {t}
  /\ early' = early \ {t}
  /\ UNCHANGED <<totalTicks, phase, yieldOnReturn, halted, value, aborted>>

\* A request while another is in progress fails the assertion ~ active.
RequestFails(t) ==
  /\ Runs(t) /\ pc[t] = "idle" /\ active
  /\ totalTicks <= MaxTime
  /\ Called
  /\ aborted' = TRUE
  /\ UNCHANGED <<clock, disk, value, pc, requester, early>>

\* A thread passes semaphore->P() and returns.
Return(t) ==
  /\ Runs(t) /\ pc[t] = "P" /\ value > 0
  /\ value' = value - 1
  /\ pc' = [pc EXCEPT ![t] = "idle"]
  /\ early' = IF t \in requester THEN early \cup {t} ELSE early
  /\ UNCHANGED <<clock, disk, requester, overlap, aborted>>

\* A thread that uses the disk ends.
Finish(t) ==
  /\ Runs(t) /\ pc[t] = "idle"
  /\ pc' = [pc EXCEPT ![t] = "done"]
  /\ UNCHANGED <<clock, disk, value, requester, early, overlap, aborted>>

\* Some thread can run, so that the scheduler does not call Idle.
SomeReady == \E t \in Thread : pc[t] = "idle" \/ (pc[t] = "P" /\ value > 0)

\* A thread runs for a tick.
Tick ==
  /\ ~ aborted /\ SomeReady
  /\ active \/ totalTicks < MaxTime
  /\ OneTick
  /\ UNCHANGED <<disk, value, pc, requester, early, overlap, aborted>>

\* Interrupts are taken after a tick, or while no thread can run.
Interrupted == ~ aborted /\ (phase = "run" => ~ SomeReady) /\ Take

TimerInterrupt ==
  /\ Interrupted
  /\ TimerExpired
  /\ UNCHANGED <<disk, value, pc, requester, early, overlap, aborted>>

\* Mutant: the handler does not wake the thread.
HandleInterruptNoWake ==
  /\ Interrupted
  /\ pending[1].type = "DiskInt"
  /\ pending' = SortedRemove(pending)
  /\ active' = FALSE
  /\ requester' = {}
  /\ UNCHANGED <<yieldOnReturn, value, lastSector, bufferInit, pc, early, overlap, aborted>>

\* Disk::HandleInterrupt and SynchDisk::RequestDone.  There is one request at
\* a time, so the disk has then finished all there are.
HandleInterrupt ==
  /\ Interrupted
  /\ pending[1].type = "DiskInt"
  /\ pending' = SortedRemove(pending)
  /\ active' = FALSE
  /\ value' = value + 1
  /\ requester' = {}
  /\ UNCHANGED <<yieldOnReturn, lastSector, bufferInit, pc, early, overlap, aborted>>

NothingDue ==
  /\ LoopEnds
  /\ UNCHANGED <<disk, value, pc, requester, early, overlap, aborted>>

Halt ==
  /\ ~ aborted /\ ~ SomeReady
  /\ IdleHalts
  /\ UNCHANGED <<disk, value, pc, requester, early, overlap, aborted>>

Next == \/ \E t \in Thread : \/ \E s \in Sector : Request(t, s, TRUE) \/ Request(t, s, FALSE)
                             \/ RequestFails(t)
                             \/ Return(t)
                             \/ Finish(t)
        \/ Tick \/ TimerInterrupt \/ HandleInterrupt \/ NothingDue \/ Halt

Spec == Init /\ [][Next]_vars

\* The clock goes on and interrupts are taken, a thread that can run does, and
\* the programs that use the disk end.
Fairness == /\ WF_vars(Tick) /\ WF_vars(TimerInterrupt \/ HandleInterrupt \/ NothingDue \/ Halt)
            /\ \A t \in Thread : WF_vars(Return(t)) /\ WF_vars(Finish(t))

FairSpec == Spec /\ Fairness
-----------------------------------------------------------------------------
(* Correctness *)

\* In the k-th rotation period the sector at k % SectorsPerTrack of its track
\* passes under the head.
PassesIn(k, s) == k % SectorsPerTrack = s % SectorsPerTrack
Period == 0 .. (totalTicks + MaxLatency) \div RotationTime

\* Latency = seek time + rotational latency + transfer time: a write, or a
\* read that is not in the track buffer, ends with the first period that
\* starts after the seek and in which the sector passes under the head.
FirstPassAfterSeek ==
  \A s \in Sector : \E k \in Period :
    /\ totalTicks + ComputeLatency(s, TRUE) = (k + 1) * RotationTime
    /\ PassesIn(k, s) /\ k * RotationTime >= totalTicks + Seek(s)
    /\ \A j \in Period : PassesIn(j, s) /\ j * RotationTime >= totalTicks + Seek(s) => k <= j

\* The head has read sector s into the track buffer by time t.
Loaded(s, t) == \E k \in Period : /\ PassesIn(k, s)
                                  /\ k * RotationTime >= bufferInit
                                  /\ (k + 1) * RotationTime <= t

\* The track buffer answers exactly the reads it can: a read is fast only if
\* its sector has passed under the head since the last seek by the time the
\* transfer ends, and is fast if it has passed when the read starts.
TrackBufferHolds ==
  ~ active => \A s \in Sector :
                /\ InTrackBuffer(s) => Loaded(s, totalTicks + RotationTime)
                /\ Seek(s) = 0 /\ Loaded(s, totalTicks) => InTrackBuffer(s)

\* The latency that ComputeLatency charges is that of a rotating disk: the
\* sector of a write, or of a read from the platter, has passed under the head
\* when the request ends and no earlier pass was missed, and a read is fast
\* exactly when the head has been over its sector since the last seek.
LatencyIsPhysical == FirstPassAfterSeek /\ TrackBufferHolds

\* synchdisk.cc:65-66 "Return only after the data has been read": a call
\* returns after the interrupt of its own request, as long as the callers keep
\* their calls apart, which the lock of SynchDisk does not do.
ReturnsWhenDone == ~ overlap => early = {}

\* Interrupts come at the first chance after their time, also those that a
\* handler schedules, and the clock never skips one: when a thread runs nothing
\* is due, no yield that an earlier handler asked for is left over, and the
\* disk's own interrupt is still to come.  The one exception is a timer due at
\* the moment another interrupt ends an idle period: it waits for the next tick.
NoneOverdue ==
  phase = "run" /\ ~ halted =>
    /\ \A i \in DOMAIN pending : \/ pending[i].when > totalTicks
                                 \/ pending[i] = [type |-> "TimerInt", when |-> totalTicks]
    /\ ~ yieldOnReturn
    /\ active <=> \E i \in DOMAIN pending : pending[i].type = "DiskInt"

\* interrupt.cc:286 "If the pending interrupt is just the time-slice daemon,
\* however, then we're done": when all threads have ended the machine halts and
\* the timer does not keep it alive, and it halts only when no thread waits
\* for an interrupt that is still to come.
HaltsWhenDone ==
  /\ (\A t \in Thread : pc[t] = "done") ~> halted
  /\ [](halted => ~ active /\ ~ SomeReady)

\* A thread that waits for the disk goes on, also when calls overlap, unless
\* the simulator stops.
RequestsReturn == \A t \in Thread : pc[t] = "P" ~> pc[t] # "P" \/ aborted
=============================================================================
