\* A program with initialised data, loaded into frames that are not consecutive.
CONSTANTS
  main = main
  p1 = p1
  p2 = p2
  p3 = p3
  NULL = NULL
  Main = main
  Proc = {main, p1, p2, p3}
  Code <- OneOrTwo
  Data <- OneData
  Bss <- None
  Stack <- One
  NumPhysPages = 8
  NumBits = 8
SPECIFICATION Spec
INVARIANT SegmentsInPlace
