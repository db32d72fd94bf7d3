------------------------------- MODULE MipsISA -------------------------------
(***************************************************************************)
(* What a program may expect of a MIPS R2/3000 processor of its own: the   *)
(* instructions as arithmetic on words, in program order but for the one   *)
(* delay slot of a branch, loads complete at once, a system call that      *)
(* behaves like one instruction, and an instruction that cannot be         *)
(* executed as the last one of its process and of no other.  Machine, the  *)
(* simulator shared by several processes, is shown to implement it.        *)
(*                                                                         *)
(* Any instruction may follow another, so that a behaviour is that of some *)
(* program.                                                                *)
(***************************************************************************)
EXTENDS Opcodes, Sequences

CONSTANTS
  Procs,
  FirstProc,     \* the process with whose Exit everything ends
  CodeLen,       \* instructions of a program
  MemSize,       \* bytes of data
  Syscalls, SC_Halt, SC_Exit, ReadCalls,
  Answer,        \* r2 after system call r2 with the argument in r1
  Deliveries     \* what a reading call may put at the address in r1

VARIABLES
  cpu,           \* of every process: r0, r1, r2, r31, hi, lo, pc, next
  mem,           \* of every process: its data
  instr,         \* of every process: the instruction it executed last
  defined,       \* processes all of whose instructions had a defined effect
  stopped,       \* processes that execute nothing more
  halted         \* nothing is executed any more

isaVars == <<cpu, mem, instr, defined, stopped, halted>>

\* Where an instruction puts its result.
Target(i) == CASE i.op \in {"BGEZAL", "BLTZAL", "JAL"} -> "r31"
               [] i.op \in Immediate \cup Loads -> i.rt
               [] OTHER -> i.rd

\* r0 is always zero.
Set(c, r, v) == IF r = "r0" THEN c ELSE [c EXCEPT ![r] = v]

Advance(c, target) == [c EXCEPT !.pc = c.next, !.next = target]

\* The sum or difference that a computation with a trap must represent.
Exact(i, a, b) == IF i.op \in Adds THEN a + b ELSE a - b

\* The second operand of a computation.
Operand(i, c) == CASE i.op \in Logic \cap Immediate -> i.extra % 2^Bits(2)
                   [] i.op \in Immediate -> i.extra
                   [] OTHER -> c[i.rt]

Amount(i, c) == IF i.op \in {"SLLV", "SRLV", "SRAV"} THEN c[i.rs] % W ELSE i.extra

Result(i, c) ==
  LET a == c[i.rs]
      b == Operand(i, c)
      truth(t) == IF t THEN 1 ELSE 0
  IN  CASE i.op \in Adds \cup Subtracts -> Wrap(Exact(i, a, b))
        [] i.op \in {"AND", "ANDI"} -> BitAnd(a, b)
        [] i.op \in {"OR", "ORI"}   -> BitOr(a, b)
        [] i.op \in {"XOR", "XORI"} -> BitXor(a, b)
        [] i.op = "NOR"             -> BitNot(BitOr(a, b))
        [] i.op \in {"SLT", "SLTI"} -> truth(a < b)
        [] i.op \in {"SLTU", "SLTIU"} -> truth(Unsigned(a) < Unsigned(b))
        [] i.op \in {"SLL", "SLLV"} -> Wrap(b * 2^Amount(i, c))
        [] i.op \in {"SRL", "SRLV"} -> Wrap(Unsigned(b) \div 2^Amount(i, c))
        [] i.op \in {"SRA", "SRAV"} -> b \div 2^Amount(i, c)
        [] i.op = "LUI"             -> Wrap(b * 2^Bits(2))

Compute(c, i) == Advance(Set(c, Target(i), Result(i, c)), Wrap(c.next + 4))

\* High and low word of a product; quotient towards zero and its remainder.
HiLo(i, c) ==
  LET view(w) == IF i.op \in {"MULTU", "DIVU"} THEN Unsigned(w) ELSE w
      a == view(c[i.rs])
      b == view(c[i.rt])
      abs(n) == IF n < 0 THEN -n ELSE n
      q == CHOOSE q \in -(2^W) .. 2^W :
             /\ abs(a - q * b) < abs(b)
             /\ (a - q * b) * a >= 0
  IN  CASE i.op \in {"MULT", "MULTU"} -> [c EXCEPT !.hi = Wrap((a * b) \div 2^W), !.lo = Wrap(a * b)]
        [] i.op \in {"DIV", "DIVU"}   -> [c EXCEPT !.hi = Wrap(a - q * b), !.lo = Wrap(q)]
        [] i.op = "MFHI" -> Set(c, i.rd, c.hi)
        [] i.op = "MFLO" -> Set(c, i.rd, c.lo)
        [] i.op = "MTHI" -> [c EXCEPT !.hi = c[i.rs]]
        [] i.op = "MTLO" -> [c EXCEPT !.lo = c[i.rs]]

Taken(i, c) == CASE i.op = "BEQ"  -> c[i.rs] = c[i.rt]
                 [] i.op = "BNE"  -> c[i.rs] # c[i.rt]
                 [] i.op = "BGTZ" -> c[i.rs] > 0
                 [] i.op = "BLEZ" -> c[i.rs] <= 0
                 [] i.op \in {"BGEZ", "BGEZAL"} -> c[i.rs] >= 0
                 [] i.op \in {"BLTZ", "BLTZAL"} -> c[i.rs] < 0

\* Where the program goes on after the instruction in the delay slot.
Destination(i, c) == CASE i.op \in {"J", "JAL"}   -> 4 * i.extra
                       [] i.op \in {"JR", "JALR"} -> c[i.rs]
                       [] OTHER -> Wrap(c.next + 4 * (IF Taken(i, c) THEN i.extra ELSE 1))

Transfer(c, i) ==
  LET linked == IF i.op \in Links THEN Set(c, Target(i), Wrap(c.next + 4)) ELSE c
  IN  Advance(linked, Destination(i, c))

Address(i, c) == Unsigned(c[i.rs] + i.extra)
Addressable(i, c) == Address(i, c) < MemSize /\ Address(i, c) % Size(i.op) = 0

\* The little-endian value of the bytes at the address.
Loaded(i, c, data) ==
  LET n == Size(i.op)
      v == MapThenSumSet(LAMBDA k : data[Address(i, c) + k] * 2^Bits(k), 0 .. n - 1)
      negative == i.op \in {"LB", "LH", "LW"} /\ v >= 2^(Bits(n) - 1)
  IN  IF negative THEN v - 2^Bits(n) ELSE v

Stored(i, c, data) ==
  [a \in DOMAIN data |-> IF a \in Address(i, c) .. Address(i, c) + Size(i.op) - 1
                         THEN (Unsigned(c[i.rt]) \div 2^Bits(a - Address(i, c))) % 2^Bits(1)
                         ELSE data[a]]
-----------------------------------------------------------------------------
Goes(p, c) == cpu' = [cpu EXCEPT ![p] = c] /\ UNCHANGED <<defined, stopped, halted>>

Calculates(p, i) ==
  \/ /\ i.op \in Computes
     /\ i.op \in {"ADD", "ADDI", "SUB"} => Exact(i, cpu[p][i.rs], Operand(i, cpu[p])) \in Word
     /\ Goes(p, Compute(cpu[p], i))
     /\ UNCHANGED mem
  \/ /\ i.op \in HiLoOps
     /\ i.op \in {"DIV", "DIVU"} => cpu[p][i.rt] # 0
     /\ Goes(p, Advance(HiLo(i, cpu[p]), Wrap(cpu[p].next + 4)))
     /\ UNCHANGED mem

Transfers(p, i) ==
  /\ i.op \in Branches \cup Jumps
  /\ Goes(p, Transfer(cpu[p], i))
  /\ UNCHANGED mem

Accesses(p, i) ==
  /\ i.op \in Loads \cup Stores /\ Addressable(i, cpu[p])
  /\ \/ /\ i.op \in Loads
        /\ Goes(p, Advance(Set(cpu[p], i.rt, Loaded(i, cpu[p], mem[p])), Wrap(cpu[p].next + 4)))
        /\ UNCHANGED mem
     \/ /\ i.op \in Stores
        /\ Goes(p, Advance(cpu[p], Wrap(cpu[p].next + 4)))
        /\ mem' = [mem EXCEPT ![p] = Stored(i, cpu[p], mem[p])]

\* The process executes nothing more, and its processor stays as it is.
Stops(p) == stopped' = [stopped EXCEPT ![p] = TRUE] /\ UNCHANGED <<cpu, mem, defined, halted>>

Halts == halted' = TRUE /\ UNCHANGED <<cpu, mem, defined, stopped>>

\* Bytes that a call puts into the data of its process, from address a on.
Delivered(data, a, s) ==
  [b \in DOMAIN data |-> LET k == Unsigned(b - a) + 1 IN IF k \in DOMAIN s THEN s[k] ELSE data[b]]

\* Halt; Exit with status 0; no such call; and the others, with the answer in
\* r2, after which the program goes on.
Syscall(p, i) ==
  LET call == cpu[p].r2
      arg == cpu[p].r1
      exits == call = SC_Exit /\ arg = 0
  IN  /\ i.op = "SYSCALL"
      /\ \/ call = SC_Halt /\ Halts
         \/ exits /\ p = FirstProc /\ Halts
         \/ exits /\ p # FirstProc /\ Stops(p)
         \/ call \notin Syscalls /\ Stops(p)
         \/ /\ call \in Syscalls \ {SC_Halt} /\ ~ exits
            /\ Goes(p, Advance(Set(cpu[p], "r2", Answer[call][arg]), Wrap(cpu[p].next + 4)))
            /\ \/ call \notin ReadCalls /\ UNCHANGED mem
               \/ /\ call \in ReadCalls
                  /\ \E s \in Deliveries : mem' = [mem EXCEPT ![p] = Delivered(@, arg, s)]

\* A program counter at an instruction.
InCode(pc) == Unsigned(pc) % 4 = 0 /\ Unsigned(pc) \div 4 < CodeLen

\* The cases in which the processor does not execute the instruction.
Raises(p, i) ==
  \/ ~ InCode(cpu[p].pc)
  \/ i.op \in {"ADD", "ADDI", "SUB"} /\ Exact(i, cpu[p][i.rs], Operand(i, cpu[p])) \notin Word
  \/ i.op \in Loads \cup Stores /\ ~ Addressable(i, cpu[p])
  \/ i.op \in {"RES", "UNIMP"}

\* The process stays at this instruction for ever; the others go on.
Exception(p, i) == Raises(p, i) /\ Stops(p)

\* The call is one instruction of the program.
Executes(p, i) ==
  \/ Exception(p, i)
  \/ /\ InCode(cpu[p].pc)
     /\ \/ Calculates(p, i) \/ Transfers(p, i) \/ Accesses(p, i) \/ Syscall(p, i)

\* An instruction of p; if its effect is not defined nothing more is said of p.
Step(p) ==
  /\ ~ halted
  /\ instr' \in [Procs -> Decoded] /\ \A q \in Procs \ {p} : instr'[q] = instr[q]
  /\ \/ defined[p] /\ ~ stopped[p] /\ Executes(p, instr'[p])
     \/ /\ ~ defined'[p]
        /\ \A q \in Procs \ {p} :
             /\ cpu'[q] = cpu[q] /\ mem'[q] = mem[q]
             /\ defined'[q] = defined[q] /\ stopped'[q] = stopped[q]

ISAInit ==
  /\ cpu \in [Procs -> [GPR \cup {"hi", "lo", "pc", "next"} -> Int]]
  /\ \A p \in Procs : cpu[p].r0 = 0 /\ cpu[p].pc = 0 /\ cpu[p].next = 4
  /\ mem \in [Procs -> [0 .. MemSize - 1 -> Byte]]
  /\ instr \in [Procs -> Decoded]
  /\ defined = [p \in Procs |-> TRUE] /\ stopped = [p \in Procs |-> FALSE]
  /\ halted = FALSE

ISASpec == ISAInit /\ [][\E p \in Procs : Step(p)]_isaVars
=============================================================================
