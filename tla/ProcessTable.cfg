\* Three created processes compete for two slots beside process 0.
\* No deadlock check: a process that joins an exited one may sleep for ever.
CONSTANTS
  main = main
  p1 = p1
  p2 = p2
  p3 = p3
  progA = progA
  progB = progB
  noFile = noFile
  NULL = NULL
  Main = main
  Proc = {main, p1, p2, p3}
  Program = {progA, progB, noFile}
  Openable = {progA, progB}
  Vanishing = {progB}
  MaxProcess = 3
SPECIFICATION FairSpec
INVARIANTS SlotsOwned OneInExecUpdate JoinSeesExit
PROPERTIES BmsemComesBack ExitCompletes JoinCompletes
CHECK_DEADLOCK FALSE
