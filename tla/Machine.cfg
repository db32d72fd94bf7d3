\* Words of four bits, bytes of one; two processes execute any two instructions. No deadlock check: the number of instructions is bounded, and the machine halts.
SPECIFICATION CPUSpec
CONSTANTS
  W = 4
  Procs = {p1, p2}
  FirstProc = p1
  Instructions <- MCInstructions
  Syscalls <- MCCalls
  SC_Halt = 0
  SC_Exit = 1
  SC_PrintFloat = 7
  ReadCalls <- MCReadCalls
  Answer <- MCAnswer
  Deliveries <- MCDeliveries
  Inputs <- MCInputs
  CodeLen = 3
  MemSize = 8
  MaxSteps = 2
INVARIANT NoLoadInKernel
PROPERTY ImplementsISA
CHECK_DEADLOCK FALSE
