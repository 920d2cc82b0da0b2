------------------------------- MODULE Insn --------------------------------
(***************************************************************************)
(* The instructions of the trv32p3 core, as its nML rules (alu.n, ldst.n,  *)
(* ctrl.n) describe them.  An instruction is a record whose kind selects   *)
(* the rule; encodings and assembly syntax are left out.                   *)
(*                                                                         *)
(* The primitive functions of trv32p3.p are parameters: what the pipeline  *)
(* must get right does not depend on what they compute.                    *)
(***************************************************************************)
EXTENDS Integers

CONSTANTS
    WordLimit,          \* words are 0 .. WordLimit - 1 (2^32 in the core)
    Reg,                \* the register numbers; 0 is the zero register
    Alu(_, _, _),       \* Alu(fn, a, b): add, sub, slt ... (trv32p3.p)
    Cmp(_, _, _),       \* Cmp(fn, a, b): eq, ne, lt ... (trv32p3.p)
    LoadValue(_, _),    \* LoadValue(sgn, bytes): sext or zext of loaded bytes
    StoreBytes(_, _)    \* StoreBytes(word, sz): the sz low bytes of a word

Words == 0 .. WordLimit - 1

AluFn == {"add", "sub", "slt", "sltu", "xor", "or", "and", "sll", "srl", "sra"}
CmpFn == {"eq", "ne", "lt", "ge", "ltu", "geu"}

\* One set per rule: alu_*_instr, load_instr, store_instr, br_instr, jal_instr
\* and jalr_instr.  Immediates are given as words, in two's complement; branch
\* offsets are multiples of 2.
Offset == { i \in Words : i % 2 = 0 }
AluInsn == [kind : {"alu"}, fn : AluFn, a : {"x", "pc", "zero"}, b : {"x", "imm"},
            rd : Reg, rs1 : Reg, rs2 : Reg, imm : Words]
LdInsn == [kind : {"ld"}, sz : {1, 2, 4}, sgn : BOOLEAN, rd : Reg, rs1 : Reg, imm : Words]
StInsn == [kind : {"st"}, sz : {1, 2, 4}, rs1 : Reg, rs2 : Reg, imm : Words]
BrInsn == [kind : {"br"}, fn : CmpFn, rs1 : Reg, rs2 : Reg, imm : Offset]
JalInsn == [kind : {"jal"}, rd : Reg, imm : Offset]
JalrInsn == [kind : {"jalr"}, rd : Reg, rs1 : Reg, imm : Words]
Insns == AluInsn \cup LdInsn \cup StInsn \cup BrInsn \cup JalInsn \cup JalrInsn

\* Words have at least three bits, and addresses 2 and 4 apart stay even.
ASSUME WordLimitOK == WordLimit \in Nat /\ WordLimit % 8 = 0 /\ WordLimit > 0
ASSUME RegOK == Reg \subseteq Nat /\ 0 \in Reg
ASSUME AluOK == \A fn \in AluFn, a, b \in Words : Alu(fn, a, b) \in Words
ASSUME CmpOK == \A fn \in CmpFn, a, b \in Words : Cmp(fn, a, b) \in BOOLEAN

\* Fault: an address is not reduced to the word size.
Plus_unbounded(a, b) == a + b

\* Addition of w32 and addr, modulo the word size.  Negative offsets are
\* given as their two's complement.
Plus(a, b) == (a + b) % WordLimit

\* jalr forces the LSB of its target to zero.
ClearLSB(a) == 2 * (a \div 2)

Bubble == [kind |-> "bubble"]

\* Rules that have a destination register; X[0] is never written (w1_dead).
Writes(i) == i.kind \in {"alu", "ld", "jal", "jalr"} /\ i.rd # 0

\* Rules that read X through port r3 in stage ID, for the address unit.
ReadsInID(i) == i.kind \in {"ld", "st"}

\* Fault: jal does not hold back the next instruction.
IssueDelay_none(i) == IF i.kind = "jalr" THEN 2 ELSE 0

\* cycles(N) of a rule, less one: the cycles in which the next instruction
\* cannot be issued.  A conditional branch costs its cycles only if taken.
IssueDelay(i) == IF i.kind = "jal" THEN 1 ELSE IF i.kind = "jalr" THEN 2 ELSE 0

\* The two operands of the ALU: a register, the PC (auipc) or zero (lui);
\* a register or an immediate.
OperandA(i, X, pc) == IF i.a = "x" THEN X[i.rs1] ELSE IF i.a = "pc" THEN pc ELSE 0
OperandB(i, X) == IF i.b = "x" THEN X[i.rs2] ELSE i.imm

AluResult(i, X, pc) == Alu(i.fn, OperandA(i, X, pc), OperandB(i, X))
Taken(i, X) == i.kind = "br" /\ Cmp(i.fn, X[i.rs1], X[i.rs2])
=============================================================================
