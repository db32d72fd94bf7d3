------------------------------- MODULE Machine -------------------------------
(***************************************************************************)
(* The MIPS simulator (machine/mipssim.cc) as several processes share it:  *)
(* one set of registers, saved and restored at context switches, with the  *)
(* loads that take effect one instruction late and the traps into the      *)
(* kernel.  Address spaces are those of module AddrSpace; here every       *)
(* process has its code, in bytes 0 .. 4 * CodeLen - 1, and apart from it  *)
(* its data; any instruction may follow another.  All pages are valid and  *)
(* writable, so that neither PageFaultException nor ReadOnlyException      *)
(* occurs.                                                                 *)
(***************************************************************************)
EXTENDS Opcodes, Sequences

CONSTANTS Procs, FirstProc, Instructions, CodeLen, MemSize,
          Syscalls,    \* numbers of system calls for which ExceptionHandler has a case
          SC_Halt, SC_Exit, SC_PrintFloat,
          ReadCalls,   \* SC_ReadString and SC_ReadFile, which write into the caller's memory
          Answer, Deliveries,
          Inputs,      \* values of r1 and r2 that the first process starts with
          MaxSteps     \* bound on the instructions executed

ASSUME MachineAssumption ==
  /\ FirstProc \in Procs /\ Instructions \subseteq Decoded
  /\ {SC_Halt, SC_Exit, SC_PrintFloat} \cup ReadCalls \subseteq Syscalls
  /\ Deliveries \subseteq Seq(Byte)
  /\ Answer \in [Word -> [Word -> Word]] /\ Inputs \subseteq Word
  /\ {CodeLen, MemSize, MaxSteps} \subseteq Nat \ {0}

VARIABLES
  registers,       \* Machine::registers
  userRegisters,   \* Thread::userRegisters of every process
  currentThread,   \* the process whose registers these are
  trapped,         \* of every process: "user" code, the handler of a "syscall" or of another
                   \* "exception", or "ended" by SC_Exit
  mem,             \* data of every process
  instr,           \* the last instruction of every process that was completed
  stuck,           \* processes that do not get past their instruction
  defined,         \* processes that did nothing of which MipsISA says nothing
  halted,          \* the kernel called Interrupt::Halt, or the host stopped the simulator
  steps

cpuVars == <<registers, userRegisters, currentThread, trapped, mem, instr, stuck, defined, halted, steps>>

Names == GPR \cup {"hi", "lo", "pc", "next"}

\* AddrSpace::InitRegisters, and Machine::Machine for the pending load.
InitRegisters ==
  [n \in Names \cup {"loadReg", "loadValue"} |->
     CASE n = "next" -> 4 [] n = "loadReg" -> "r0" [] OTHER -> 0]

\* Mutant: the load that was pending is lost.
DelayedLoadLost(r, nextReg, nextValue) ==
  [r EXCEPT !.loadReg = nextReg, !.loadValue = nextValue, !.r0 = 0]

\* Machine::DelayedLoad
DelayedLoad(r, nextReg, nextValue) ==
  [r EXCEPT ![r.loadReg] = r.loadValue, !.loadReg = nextReg, !.loadValue = nextValue, !.r0 = 0]

\* The end of OneInstruction, with the registers it has written in r.
Finish(r, nextReg, nextValue, pcAfter) ==
  registers' = [DelayedLoad(r, nextReg, nextValue) EXCEPT !.pc = r.next, !.next = pcAfter]

\* An instruction that only writes registers.
Write(r) == Finish(r, "r0", 0, Wrap(r.next + 4)) /\ UNCHANGED <<mem, trapped, halted>>
-----------------------------------------------------------------------------
\* Mutant: the exception leaves the pending load to whatever runs next.
RaiseKeepsLoad ==
  /\ trapped' = [trapped EXCEPT ![currentThread] = "exception"]
  /\ UNCHANGED <<registers, mem, halted>>

\* RaiseException for OverflowException, AddressErrorException and
\* IllegalInstrException: a pending load is completed, nothing else changes.
Raise ==
  /\ registers' = DelayedLoad(registers, "r0", 0)
  /\ trapped' = [trapped EXCEPT ![currentThread] = "exception"]
  /\ UNCHANGED <<mem, halted>>

\* ExceptionHandler has no case for them: it returns, and the same instruction
\* is executed again.
ExceptionReturns ==
  /\ trapped[currentThread] = "exception"
  /\ trapped' = [trapped EXCEPT ![currentThread] = "user"]
  /\ UNCHANGED <<registers, userRegisters, currentThread, mem, instr, stuck, defined, halted, steps>>

\* OP_ADD and OP_ADDI: operands of one sign and a sum of the other.
AddOverflows(x, y) ==
  ~ SignBit(BitXor(x, y)) /\ SignBit(BitXor(x, Wrap(x + y)))

SubOverflows(x, y) ==
  SignBit(BitXor(x, y)) /\ SignBit(BitXor(x, Wrap(x - y)))

\* ADD, ADDI, ADDU, ADDIU, SUB and SUBU.
AddOrSubtract(i) ==
  LET x == registers[i.rs]
      y == IF i.op \in Immediate THEN i.extra ELSE registers[i.rt]
      d == IF i.op \in Immediate THEN i.rt ELSE i.rd
  IN  /\ i.op \in Adds \cup Subtracts
      /\ \/ /\ i.op \in {"ADD", "ADDI"} /\ AddOverflows(x, y)
            /\ Raise
         \/ /\ i.op = "SUB" /\ SubOverflows(x, y)
            /\ Raise
         \/ /\ ~ (i.op \in {"ADD", "ADDI"} /\ AddOverflows(x, y))
            /\ ~ (i.op = "SUB" /\ SubOverflows(x, y))
            /\ Write([registers EXCEPT ![d] = Wrap(IF i.op \in Adds THEN x + y ELSE x - y)])

\* The bit by bit operations; OR has rs twice.
Logical(i) ==
  LET x == registers[i.rs]
      y == IF i.op \in Immediate THEN BitAnd(i.extra, Mask(2)) ELSE registers[i.rt]
  IN  CASE i.op \in {"AND", "ANDI"} -> BitAnd(x, y)
        [] i.op = "OR"              -> BitOr(x, x)
        [] i.op = "ORI"             -> BitOr(x, y)
        [] i.op \in {"XOR", "XORI"} -> BitXor(x, y)
        [] i.op = "NOR"             -> BitNot(BitOr(x, y))

\* Shifts and comparisons; SRL and SRLV shift a signed int.
ShiftOrCompare(i) ==
  LET x == registers[i.rs]
      y == IF i.op \in Immediate THEN i.extra ELSE registers[i.rt]
      amount == IF i.op \in {"SLLV", "SRLV", "SRAV"} THEN BitAnd(x, W - 1) ELSE i.extra
      truth(t) == IF t THEN 1 ELSE 0
  IN  CASE i.op \in {"SLT", "SLTI"}   -> truth(x < y)
        [] i.op \in {"SLTU", "SLTIU"} -> truth(Unsigned(x) < Unsigned(y))
        [] i.op \in {"SLL", "SLLV"}   -> ShiftLeft(y, amount)
        [] i.op \in {"SRL", "SRLV", "SRA", "SRAV"} -> ShiftRight(y, amount)

\* All computations but ADD to SUBU.
Calculate(i) ==
  /\ i.op \in Computes \ (Adds \cup Subtracts)
  /\ Write([registers EXCEPT ![IF i.op \in Immediate THEN i.rt ELSE i.rd] =
              CASE i.op \in Logic -> Logical(i)
                [] i.op = "LUI" -> ShiftLeft(i.extra, Bits(2))
                [] OTHER -> ShiftOrCompare(i)])

\* Mult: shift and add on unsigned words, the sign apart.  The loop's early
\* end skips only steps that add nothing.
Mult(x, y, signedArith) ==
  LET negative == signedArith /\ (x < 0) # (y < 0)
      abs(n) == IF signedArith /\ n < 0 THEN Wrap(-n) ELSE n
      loop[k \in 0 .. W] ==
        IF k = 0 THEN [a |-> abs(x), bLo |-> Unsigned(abs(y)), bHi |-> 0, lo |-> 0, hi |-> 0]
        ELSE LET s == loop[k - 1]
                 lo == (s.lo + s.bLo) % 2^W
                 carry == IF lo < s.bLo THEN 1 ELSE 0
                 odd == Bit(s.a, 0) = 1
             IN  [a   |-> ShiftRight(s.a, 1),
                  bLo |-> (2 * s.bLo) % 2^W,
                  bHi |-> ((2 * s.bHi) % 2^W) + s.bLo \div 2^(W - 1),
                  lo  |-> IF odd THEN lo ELSE s.lo,
                  hi  |-> IF odd THEN (s.hi + carry + s.bHi) % 2^W ELSE s.hi]
      lo == loop[W].lo
      hi == loop[W].hi
  IN  CASE x = 0 \/ y = 0 -> [hi |-> 0, lo |-> 0]
        [] negative /\ ~ (x = 0 \/ y = 0) ->
             [hi |-> Wrap(BitNot(hi) + IF lo = 0 THEN 1 ELSE 0), lo |-> Wrap(-lo)]
        [] OTHER -> [hi |-> Wrap(hi), lo |-> Wrap(lo)]

\* Division of C: the quotient towards zero and the remainder it leaves.
Div(x, y) ==
  LET abs(n) == IF n < 0 THEN -n ELSE n
      q == IF (x < 0) # (y < 0) THEN -(abs(x) \div abs(y)) ELSE abs(x) \div abs(y)
  IN  IF y = 0 THEN [hi |-> 0, lo |-> 0] ELSE [hi |-> Wrap(x - q * y), lo |-> Wrap(q)]

\* The quotient of OP_DIV does not fit into an int: the host stops the simulator.
HostTraps(i) ==
  i.op = "DIV" /\ registers[i.rt] = -1 /\ registers[i.rs] = -(2^(W - 1))

HiLo(i) ==
  LET r == registers
      put(v) == [r EXCEPT !.hi = v.hi, !.lo = v.lo]
  IN  /\ i.op \in HiLoOps
      /\ \/ /\ HostTraps(i)
            /\ halted' = TRUE
            /\ UNCHANGED <<registers, mem, trapped>>
         \/ /\ ~ HostTraps(i)
            /\ Write(CASE i.op = "MULT"  -> put(Mult(r[i.rs], r[i.rt], TRUE))
                       [] i.op = "MULTU" -> put(Mult(r[i.rs], r[i.rt], FALSE))
                       [] i.op = "DIV"   -> put(Div(r[i.rs], r[i.rt]))
                       [] i.op = "DIVU"  -> put(Div(Unsigned(r[i.rs]), Unsigned(r[i.rt])))
                       [] i.op = "MFHI"  -> [r EXCEPT ![i.rd] = r.hi]
                       [] i.op = "MFLO"  -> [r EXCEPT ![i.rd] = r.lo]
                       [] i.op = "MTHI"  -> [r EXCEPT !.hi = r[i.rs]]
                       [] i.op = "MTLO"  -> [r EXCEPT !.lo = r[i.rs]])

\* Branches and jumps; the link is written before the condition or the
\* target is read.  A jump to an odd address is found out at the next fetch.
\* Code is in the lowest 2^28 bytes, whose addresses J and JAL complete.
Branch(i) ==
  LET link == IF i.op = "JALR" THEN i.rd ELSE "r31"
      r == IF i.op \in Links THEN [registers EXCEPT ![link] = Wrap(registers.next + 4)]
                             ELSE registers
      taken == CASE i.op = "BEQ"  -> r[i.rs] = r[i.rt]
                 [] i.op = "BNE"  -> r[i.rs] # r[i.rt]
                 [] i.op = "BGTZ" -> r[i.rs] > 0
                 [] i.op = "BLEZ" -> r[i.rs] <= 0
                 [] i.op \in {"BGEZ", "BGEZAL"} -> ~ SignBit(r[i.rs])
                 [] i.op \in {"BLTZ", "BLTZAL"} -> SignBit(r[i.rs])
                 [] i.op \in Jumps -> TRUE
      target == CASE i.op \in {"J", "JAL"}   -> 4 * i.extra
                  [] i.op \in {"JR", "JALR"} -> r[i.rs]
                  [] OTHER -> Wrap(r.next + 4 * i.extra)
  IN  /\ i.op \in Branches \cup Jumps
      /\ Finish(r, "r0", 0, IF taken THEN target ELSE Wrap(r.next + 4))
      /\ UNCHANGED <<mem, trapped, halted>>
-----------------------------------------------------------------------------
\* registers[rs] + extra; the test for alignment is made on this int, that
\* for the end of the address space on its unsigned value.
Addr(i) == Wrap(registers[i.rs] + i.extra)
Misaligned(i) == i.op \notin Partials /\ BitAnd(Addr(i), Size(i.op) - 1) # 0
Translated(i) == ~ Misaligned(i) /\ Unsigned(Addr(i)) < MemSize

\* Machine::ReadMem and WriteMem; a byte is read as a signed char.
ReadMem(a, n) ==
  LET v == MapThenSumSet(LAMBDA k : mem[currentThread][Unsigned(a) + k] * 2^Bits(k), 0 .. n - 1)
  IN  IF n = 1 /\ v >= 2^(Bits(1) - 1) THEN v - 2^Bits(1) ELSE Wrap(v)

WriteMem(a, n, value) ==
  mem' = [mem EXCEPT ![currentThread] = [b \in DOMAIN @ |->
            IF b - Unsigned(a) \in 0 .. n - 1
            THEN (Unsigned(value) \div 2^Bits(b - Unsigned(a))) % 2^Bits(1) ELSE @[b]]]

\* LB, LBU, LH and LHU extend what was read by setting or clearing the bits above.
Extend(op, value) ==
  LET n == Size(op)
  IN  CASE n = 4 -> value
        [] op \in {"LB", "LH"} /\ Bit(value, Bits(n) - 1) = 1 -> BitOr(value, BitNot(Mask(n)))
        [] OTHER -> BitAnd(value, Mask(n))

Load(i) ==
  /\ i.op \in Loads /\ Translated(i)
  /\ Finish(registers, i.rt, Extend(i.op, ReadMem(Addr(i), Size(i.op))), Wrap(registers.next + 4))
  /\ UNCHANGED <<mem, trapped, halted>>

Store(i) ==
  /\ i.op \in Stores /\ Translated(i)
  /\ WriteMem(Addr(i), Size(i.op), registers[i.rt])
  /\ Finish(registers, "r0", 0, Wrap(registers.next + 4))
  /\ UNCHANGED <<trapped, halted>>

\* LWL and LWR assert an aligned address, which leaves one of their four cases.
PartialLoad(i) ==
  LET value == ReadMem(Addr(i), 4)
      old == IF registers.loadReg = i.rt THEN registers.loadValue ELSE registers[i.rt]
      high == BitAnd(ShiftRight(value, Bits(3)), Mask(1))
      merged == IF i.op = "LWL" THEN value ELSE BitOr(BitAnd(old, BitNot(Mask(1))), high)
  IN  /\ i.op \in {"LWL", "LWR"} /\ BitAnd(Addr(i), 3) = 0 /\ Translated(i)
      /\ Finish(registers, i.rt, merged, Wrap(registers.next + 4))
      /\ UNCHANGED <<mem, trapped, halted>>

\* SWL and SWR, likewise.
PartialStore(i) ==
  LET value == registers[i.rt]
      merged == BitOr(BitAnd(ReadMem(Addr(i), 4), Mask(3)), ShiftLeft(value, Bits(3)))
  IN  /\ i.op \in {"SWL", "SWR"} /\ BitAnd(Addr(i), 3) = 0 /\ Translated(i)
      /\ WriteMem(Addr(i), 4, IF i.op = "SWL" THEN value ELSE merged)
      /\ Finish(registers, "r0", 0, Wrap(registers.next + 4))
      /\ UNCHANGED <<trapped, halted>>

\* A failed assertion ends the simulator as the host's trap does.
PartialAsserts(i) ==
  /\ i.op \in Partials /\ BitAnd(Addr(i), 3) # 0
  /\ halted' = TRUE
  /\ UNCHANGED <<registers, mem, trapped>>

Fault(i) ==
  /\ \/ i.op \in Illegal
     \/ i.op \in Loads \cup Stores /\ ~ Translated(i)
     \/ i.op \in Partials /\ BitAnd(Addr(i), 3) = 0 /\ ~ Translated(i)
  /\ Raise

\* OP_SYSCALL: RaiseException completes a pending load and calls the handler.
Syscall(i) ==
  /\ i.op = "SYSCALL"
  /\ registers' = DelayedLoad(registers, "r0", 0)
  /\ trapped' = [trapped EXCEPT ![currentThread] = "syscall"]
  /\ UNCHANGED <<mem, halted>>
-----------------------------------------------------------------------------
\* The registers of a process as its program sees them: with its pending
\* load done.
View(r) == [n \in Names |-> IF n = r.loadReg /\ n # "r0" THEN r.loadValue ELSE r[n]]

\* Cases of which MipsISA says nothing.  A program that touches the target
\* of a load in its delay slot, divides by zero or links through the
\* register it tests or jumps to has no defined meaning.
Unpredictable(i) ==
  \/ /\ registers.loadReg # "r0" /\ i.op # "SYSCALL"
     /\ registers.loadReg \in {i.rs, i.rt, i.rd} \cup (IF i.op \in Links THEN {"r31"} ELSE {})
  \/ i.op \in {"DIV", "DIVU"} /\ registers[i.rt] = 0
  \/ i.op \in Links \ {"JAL"} /\ i.rs = (IF i.op = "JALR" THEN i.rd ELSE "r31")

\* handle_SC_PrintFloat of zero calls IncrementR, and its caller does so again.
PrintsZero(r) == r.r2 = SC_PrintFloat /\ r.r1 = 0

\* Cases in which the simulator is not the processor that it simulates: OR of
\* different operands, a logical shift of a negative word, a quotient that
\* overflows, accesses to parts of words, and PrintFloat of zero.
Deviates(i) ==
  \/ i.op = "OR" /\ BitOr(registers[i.rs], registers[i.rt]) # registers[i.rs]
  \/ i.op \in {"SRL", "SRLV"} /\ registers[i.rt] < 0
  \/ HostTraps(i)
  \/ i.op \in Partials
  \/ i.op = "SYSCALL" /\ PrintsZero(View(registers))

\* ReadMem of the instruction succeeds.
Fetched == Unsigned(registers.pc) < 4 * CodeLen /\ Unsigned(registers.pc) % 4 = 0

\* Machine::OneInstruction.  After an exception the program counter is still
\* at the same instruction.
OneInstruction(i) ==
  LET p == currentThread
  IN  /\ ~ halted /\ trapped[p] = "user" /\ Fetched /\ steps < MaxSteps
      /\ stuck[p] => i = instr[p]
      /\ \/ AddOrSubtract(i) \/ Calculate(i) \/ HiLo(i) \/ Branch(i)
         \/ Load(i) \/ Store(i) \/ PartialLoad(i) \/ PartialStore(i)
         \/ PartialAsserts(i) \/ Fault(i) \/ Syscall(i)
      /\ defined' = [defined EXCEPT ![p] = @ /\ ~ Unpredictable(i) /\ ~ Deviates(i)]
      /\ instr' = IF trapped'[p] = "syscall" THEN instr ELSE [instr EXCEPT ![p] = i]
      /\ stuck' = IF trapped'[p] = "syscall" THEN stuck
                  ELSE [stuck EXCEPT ![p] = trapped'[p] = "exception"]
      /\ steps' = steps + 1
      /\ UNCHANGED <<userRegisters, currentThread>>

\* Its early return when the instruction cannot be read.
FetchFails ==
  /\ ~ halted /\ trapped[currentThread] = "user" /\ ~ Fetched
  /\ Raise
  /\ stuck' = [stuck EXCEPT ![currentThread] = TRUE]
  /\ UNCHANGED <<userRegisters, currentThread, instr, defined, steps>>
-----------------------------------------------------------------------------
\* IncrementR
IncrementR(r) == [r EXCEPT !.pc = r.next, !.next = Wrap(r.next + 4)]

\* SC_Halt, and SC_Exit of the first process.
CallHalts(r) ==
  /\ \/ r.r2 = SC_Halt
     \/ r.r2 = SC_Exit /\ r.r1 = 0 /\ currentThread = FirstProc
  /\ halted' = TRUE
  /\ UNCHANGED <<registers, trapped, mem, stuck>>

\* SC_Exit of another process with status 0: its thread is finished.
CallEnds(r) ==
  /\ r.r2 = SC_Exit /\ r.r1 = 0 /\ currentThread # FirstProc
  /\ trapped' = [trapped EXCEPT ![currentThread] = "ended"]
  /\ stuck' = [stuck EXCEPT ![currentThread] = TRUE]
  /\ UNCHANGED <<registers, mem, halted>>

\* The switch has no default: without IncrementR the call is made again.
CallUnknown(r) ==
  /\ r.r2 \notin Syscalls
  /\ trapped' = [trapped EXCEPT ![currentThread] = "user"]
  /\ stuck' = [stuck EXCEPT ![currentThread] = TRUE]
  /\ UNCHANGED <<registers, mem, halted>>

\* Machine::System2User, one WriteMem for every byte; those that are not
\* translated are lost.
System2User(old, a, data) ==
  [b \in DOMAIN old |-> IF \E k \in DOMAIN data : b = Unsigned(a + k - 1)
                        THEN data[CHOOSE k \in DOMAIN data : b = Unsigned(a + k - 1)]
                        ELSE old[b]]

\* The other calls: what they write into memory, their result and IncrementR.
CallReturns(r) ==
  /\ r.r2 \in Syscalls \ {SC_Halt} /\ ~ (r.r2 = SC_Exit /\ r.r1 = 0)
  /\ LET answered == [r EXCEPT !.r2 = Answer[r.r2][r.r1]]
     IN  registers' = IncrementR(IF PrintsZero(r) THEN IncrementR(answered) ELSE answered)
  /\ \/ r.r2 \notin ReadCalls /\ mem' = mem
     \/ /\ r.r2 \in ReadCalls
        /\ \E data \in Deliveries :
             mem' = [mem EXCEPT ![currentThread] = System2User(@, r.r1, data)]
  /\ trapped' = [trapped EXCEPT ![currentThread] = "user"]
  /\ UNCHANGED <<stuck, halted>>

\* The end of the handler of a system call, which may have slept before.
SyscallReturns ==
  /\ trapped[currentThread] = "syscall" /\ ~ halted
  /\ \/ CallHalts(registers) \/ CallEnds(registers)
     \/ CallUnknown(registers) \/ CallReturns(registers)
  /\ instr' = [instr EXCEPT ![currentThread] = [Nop EXCEPT !.op = "SYSCALL"]]
  /\ UNCHANGED <<userRegisters, currentThread, defined, steps>>

\* An interrupt is taken (CheckIfDue completes a pending load), a system call
\* sleeps or a process has ended, and another one runs: SaveUserState,
\* RestoreUserState.
Switch(p) ==
  LET r == DelayedLoad(registers, "r0", 0)
  IN  /\ ~ halted /\ p # currentThread
      /\ trapped[currentThread] # "exception" /\ trapped[p] # "ended"
      /\ userRegisters' = [userRegisters EXCEPT ![currentThread] = r]
      /\ registers' = userRegisters[p]
      /\ currentThread' = p
      /\ UNCHANGED <<trapped, mem, instr, stuck, defined, halted, steps>>

\* An interrupt after which the same process goes on.
Interrupted ==
  /\ ~ halted /\ registers.loadReg # "r0"
  /\ registers' = DelayedLoad(registers, "r0", 0)
  /\ UNCHANGED <<userRegisters, currentThread, trapped, mem, instr, stuck, defined, halted, steps>>

CPUInit ==
  /\ currentThread = FirstProc
  /\ \E x, y \in Inputs : registers = [InitRegisters EXCEPT !.r1 = x, !.r2 = y]
  /\ userRegisters = [p \in Procs |-> InitRegisters]
  /\ trapped = [p \in Procs |-> "user"]
  /\ mem = [p \in Procs |-> [a \in 0 .. MemSize - 1 |-> a % 2^Bits(1)]]
  /\ instr = [p \in Procs |-> Nop]
  /\ stuck = [p \in Procs |-> FALSE]
  /\ defined = [p \in Procs |-> TRUE]
  /\ halted = FALSE /\ steps = 0

CPUNext ==
  \/ \E i \in Instructions : OneInstruction(i)
  \/ FetchFails
  \/ ExceptionReturns
  \/ SyscallReturns
  \/ Interrupted
  \/ \E p \in Procs : Switch(p)

CPUSpec == CPUInit /\ [][CPUNext]_cpuVars
-----------------------------------------------------------------------------
RegistersOf(p) == IF p = currentThread THEN registers ELSE userRegisters[p]

ISA == INSTANCE MipsISA WITH stopped <- stuck, cpu <- [p \in Procs |-> View(RegistersOf(p))]

\* Every process sees a processor of its own that executes its instructions
\* as the manual defines them, whatever the others do and wherever
\* interrupts, context switches, exceptions and system calls fall (mipssim.cc:
\* OneInstruction, DelayedLoad, Mult; machine.cc: RaiseException; thread.cc:
\* SaveUserState), up to an instruction that is Unpredictable or Deviates.
ImplementsISA == ISA!ISASpec

\* "any delayed load must get applied before we trap to the kernel"
\* (mipssim.cc, DelayedLoad): a process that does not run user code has no
\* load pending, whether it left by a system call, by another exception or by
\* an interrupt.
NoLoadInKernel ==
  \A p \in Procs : p # currentThread \/ trapped[p] # "user" => RegistersOf(p).loadReg = "r0"
=============================================================================
