\* Three processes, three names, two slots.  No deadlock check: all processes may wait in Down.
CONSTANTS
  p1 = p1
  p2 = p2
  p3 = p3
  scanners = scanners
  passengers = passengers
  long = long
  NULL = NULL
  Proc = {p1, p2, p3}
  Name = {scanners, passengers, long}
  Length <- MCLength
  Prefix <- MCPrefix
  NameLimit = 33
  MAX_SEMAPHORE = 2
  InitialValue <- Values
  MaxValue = 3
SPECIFICATION STSpec
SYMMETRY Symmetry
INVARIANTS NonNegative UnitsAccounted
CHECK_DEADLOCK FALSE
