\* Two threads write and read, up to two calls each. No deadlock check: readers may wait for ever for the keyboard.
CONSTANTS
  t1 = t1
  t2 = t2
  t3 = t3
  a = a
  b = b
  nl = nl
  soh = soh
  xff = xff
  Thread = {t1, t2}
  Char = {a, b, nl, soh, xff}
  Newline = nl
  CtrlA = soh
  EOF = xff
  Text <- MCText
  Typed <- MCTyped
  NumBytes = {0, 1, 2}
  MaxCalls = 2
SPECIFICATION FairSpec
INVARIANTS WholeLines InputInOrder
PROPERTIES CallsFinish ReturnsCount
CHECK_DEADLOCK FALSE
