\* Two threads, a disk of three tracks of three sectors; the seek time differs from the rotation time. No deadlock check: the simulator may abort, and time is bounded.
CONSTANTS
  t1 = t1
  t2 = t2
  Thread = {t1, t2}
  SectorsPerTrack = 3
  NumTracks = 3
  RotationTime = 3
  SeekTime = 4
  UserTick = 1
  SystemTick = 2
  TimerTicks = 1
  MaxTime = 12
SPECIFICATION FairSpec
INVARIANTS LatencyIsPhysical ReturnsWhenDone NoneOverdue
PROPERTIES HaltsWhenDone RequestsReturn
CHECK_DEADLOCK FALSE
