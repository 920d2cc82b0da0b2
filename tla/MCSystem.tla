------------------------------ MODULE MCSystem ------------------------------
(* Bounds of the model-checked instances of System: bytes of one bit, so   *)
(* words of four and PC values 0 .. 15; three registers; and all programs  *)
(* of four words over a set of instructions.  The program memory wraps, so *)
(* every program is a loop.                                                *)
EXTENDS System, Prims

MCByte == 0 .. 1
MCReg == 0 .. 2
MCInitialDM == { [r \in 0 .. NumRows - 1 |-> [l \in 0 .. 3 |-> 0]] }

rrr(fn, rd, rs1, rs2) == [kind |-> "alu", fn |-> fn, a |-> "x", b |-> "x",
                          rd |-> rd, rs1 |-> rs1, rs2 |-> rs2, imm |-> 0]
rri(fn, rd, rs1, imm) == [kind |-> "alu", fn |-> fn, a |-> "x", b |-> "imm",
                          rd |-> rd, rs1 |-> rs1, rs2 |-> 0, imm |-> imm]
lui(rd, imm) == [rri("add", rd, 0, imm) EXCEPT !.a = "zero"]
auipc(rd, imm) == [rri("add", rd, 0, imm) EXCEPT !.a = "pc"]
load(sz, sgn, rd, imm, rs1) == [kind |-> "ld", sz |-> sz, sgn |-> sgn,
                                rd |-> rd, rs1 |-> rs1, imm |-> imm]
store(sz, rs2, imm, rs1) == [kind |-> "st", sz |-> sz, rs1 |-> rs1, rs2 |-> rs2, imm |-> imm]
branch(fn, rs1, rs2, imm) == [kind |-> "br", fn |-> fn, rs1 |-> rs1, rs2 |-> rs2, imm |-> imm]
jal(rd, imm) == [kind |-> "jal", rd |-> rd, imm |-> imm]
jalr(rd, rs1, imm) == [kind |-> "jalr", rd |-> rd, rs1 |-> rs1, imm |-> imm]

\* Loads and stores of every size between producers and users of their
\* registers, and a branch that depends on them.
MemInsns ==
    { rri("add", 1, 1, 4), rri("xor", 2, 2, 15),
      load(4, TRUE, 1, 0, 1), load(1, TRUE, 2, 1, 1), load(2, FALSE, 1, 0, 1),
      load(1, FALSE, 1, 3, 0), store(4, 2, 0, 1), store(1, 1, 1, 1),
      store(2, 2, 2, 0), branch("ne", 1, 2, 8), branch("ltu", 1, 2, 12) }

\* Branches, jumps and links in every order.
CtrlInsns ==
    { rri("add", 1, 1, 4), rrr("sub", 2, 1, 2), auipc(1, 4), lui(2, 8),
      branch("eq", 1, 2, 8), branch("lt", 0, 1, 12),
      jal(1, 8), jal(0, 12), jalr(1, 1, 0), jalr(2, 1, 4), store(1, 2, 1, 1), load(1, TRUE, 1, 0, 1) }

MemPrograms == [0 .. NumWords - 1 -> MemInsns]
CtrlPrograms == [0 .. NumWords - 1 -> CtrlInsns]
=============================================================================
