\* A file that can be written and one that cannot, there or not at the start, two free slots. No deadlock check: an aborted simulator does nothing more.
CONSTANTS
  a = a
  b = b
  x = x
  NUL = NUL
  NULL = NULL
  Name = {a, b}
  Writable = {a}
  N_FILES_IN_TABLE = 4
  Fd = {0, 1, 2, 3, 4}
  Char = {x}
  Data <- MCData
  Preexisting <- MCPreexisting
  ReadSize = {1, 2}
  MaxLen = 3
SPECIFICATION Spec
INVARIANTS HandlesMatchTable EofMeansAllRead CopiesOwnText
CHECK_DEADLOCK FALSE
