------------------------------- MODULE Opcodes -------------------------------
(***************************************************************************)
(* The instructions that Instruction::Decode tells apart (opTable and      *)
(* specialTable of machine/mipssim.h), as records [op, rs, rt, rd, extra]. *)
(* Of the 32 registers there are r0, which is always zero, two ordinary    *)
(* ones and r31, which links.                                              *)
(***************************************************************************)
EXTENDS Words

Adds      == {"ADD", "ADDI", "ADDU", "ADDIU"}
Subtracts == {"SUB", "SUBU"}
Logic     == {"AND", "ANDI", "OR", "ORI", "XOR", "XORI", "NOR"}
Compares  == {"SLT", "SLTI", "SLTU", "SLTIU"}
Shifts    == {"SLL", "SLLV", "SRL", "SRLV", "SRA", "SRAV"}
Immediate == {"ADDI", "ADDIU", "ANDI", "ORI", "XORI", "SLTI", "SLTIU", "LUI"}
Computes  == Adds \cup Subtracts \cup Logic \cup Compares \cup Shifts \cup {"LUI"}
Branches  == {"BEQ", "BNE", "BGEZ", "BGEZAL", "BGTZ", "BLEZ", "BLTZ", "BLTZAL"}
Jumps     == {"J", "JAL", "JR", "JALR"}
Links     == {"BGEZAL", "BLTZAL", "JAL", "JALR"}
Loads     == {"LB", "LBU", "LH", "LHU", "LW"}
Stores    == {"SB", "SH", "SW"}

HiLoOps   == {"MULT", "MULTU", "DIV", "DIVU", "MFHI", "MFLO", "MTHI", "MTLO"}
Partials  == {"LWL", "LWR", "SWL", "SWR"}
Illegal   == {"RES", "UNIMP"}

\* All of them: OP_ADD to OP_RES.
Op == Computes \cup HiLoOps \cup Branches \cup Jumps \cup Loads \cup Stores
        \cup Partials \cup Illegal \cup {"SYSCALL"}

\* The bytes that an instruction reads or writes.
Size(op) == CASE op \in {"LB", "LBU", "SB"} -> 1
              [] op \in {"LH", "LHU", "SH"} -> 2
              [] OTHER -> 4

GPR == {"r0", "r1", "r2", "r31"}

\* The range of Instruction::extra, by the format of the instruction.
Signed16 == -(2^(Bits(2) - 1)) .. 2^(Bits(2) - 1) - 1
Extra(op) ==
  CASE op \in {"J", "JAL"} -> Nat                                     \* JFMT
    [] op \in (Computes \ Immediate) \cup HiLoOps \cup {"JR", "JALR", "SYSCALL"}
         -> 0 .. W - 1                                                \* RFMT
    [] OTHER -> Signed16                                              \* IFMT

\* What Instruction::Decode makes of a word.
Decoded == {i \in [op : Op, rs : GPR, rt : GPR, rd : GPR, extra : Int] : i.extra \in Extra(i.op)}

Nop == [op |-> "SLL", rs |-> "r0", rt |-> "r0", rd |-> "r0", extra |-> 0]
=============================================================================
