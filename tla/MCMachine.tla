------------------------------ MODULE MCMachine ------------------------------
(***************************************************************************)
(* One instruction of every kind, most of them on r1 and r2.               *)
(***************************************************************************)
EXTENDS Machine

Uses(ops, rs, rt, rd, extra) ==
  [op : ops, rs : {rs}, rt : {rt}, rd : {rd}, extra : {extra}]

MCInstructions ==
  UNION {Uses(Computes \ (Immediate \cup {"SLL", "SRL", "SRA"}), "r1", "r2", "r1", 0),
         Uses({"SLL", "SRL", "SRA"}, "r0", "r2", "r1", 1),
         Uses(Immediate \ {"LUI"}, "r1", "r1", "r0", -2),
         Uses({"LUI"}, "r0", "r2", "r0", 1),
         Uses({"ADDI"}, "r1", "r1", "r0", 1),
         Uses({"MULT", "MULTU", "DIV", "DIVU", "MTHI", "MTLO"}, "r1", "r2", "r0", 0),
         Uses({"MFHI", "MFLO"}, "r0", "r0", "r1", 0),
         Uses({"BEQ", "BNE"}, "r1", "r2", "r0", 1),
         Uses(Branches \ {"BEQ", "BNE"}, "r1", "r0", "r0", -2),
         Uses({"JR"}, "r1", "r0", "r0", 0), Uses({"JALR"}, "r1", "r0", "r31", 0), Uses({"JALR"}, "r1", "r0", "r1", 0),
         Uses({"J", "JAL"}, "r0", "r0", "r0", 2),
         Uses(Loads, "r1", "r2", "r0", 1), Uses({"LW", "LB"}, "r0", "r31", "r0", 0),
         Uses(Stores, "r1", "r2", "r0", 1),
         Uses(Partials, "r1", "r31", "r0", 0),
         Uses({"UNIMP", "SYSCALL"}, "r0", "r0", "r0", 0)}

MCInputs == {-8, -7, -1, 0, 1, 7}

\* PrintFloat and Exit leave r2 alone; the others answer.
MCAnswer ==
  [n \in Word |-> [w \in Word |-> IF n \in {SC_PrintFloat, SC_Exit} THEN n ELSE BitNot(w)]]

\* Up to two bytes, of one bit each, that go up to a zero.
MCDeliveries == {<<0>>, <<1, 0>>}

\* Numbers without a case: -7 of the inputs, and others that instructions
\* compute.
MCCalls == {-8, -1, 0, 1, 7}
MCReadCalls == {-8}
=============================================================================
