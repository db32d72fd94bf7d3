\* Four programs of two or three pages compete for eight bits, six of them frames.
CONSTANTS
  main = main
  p1 = p1
  p2 = p2
  p3 = p3
  NULL = NULL
  Main = main
  Proc = {main, p1, p2, p3}
  Code <- One
  Data <- None
  Bss <- None
  Stack <- OneOrTwo
  NumPhysPages = 6
  NumBits = 8
SPECIFICATION Spec
INVARIANTS FramesOwned Isolation
