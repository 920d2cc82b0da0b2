-------------------------------- MODULE Isa --------------------------------
(***************************************************************************)
(* The programmer's view of the core: one instruction per step, as the     *)
(* instruction-accurate simulator executes it (trv32p3_iapcu.h and the     *)
(* nML rules under __programmers_view__).  There is no pipeline: every     *)
(* instruction sees the registers and the memory its predecessor left.     *)
(***************************************************************************)
EXTENDS Insn

CONSTANT NumWords      \* the number of instruction words of the program memory

VARIABLES PM,   \* the program
          pc,   \* the address of the next instruction
          X,    \* the registers
          mem   \* the data memory, byte by byte

isaVars == <<PM, pc, X, mem>>

Fetched == PM[(pc \div 4) % NumWords]

Set(rd, v) == IF rd = 0 THEN X ELSE [X EXCEPT ![rd] = v]

\* The bytes of an access, and the memory after a store.
Bytes(a, sz) == [n \in 0 .. sz - 1 |-> mem[a + n]]
Stored(a, d, sz) == [b \in DOMAIN mem |-> IF b \in a .. a + sz - 1 THEN d[b - a] ELSE mem[b]]

\* user_next_pc of the instruction-accurate model.
Goto(a) == pc' = ClearLSB(a)

IsaAlu(i) ==
    /\ i.kind = "alu"
    /\ X' = Set(i.rd, AluResult(i, X, pc))
    /\ Goto(Plus(pc, 4))
    /\ UNCHANGED mem

IsaLoad(i) ==
    /\ i.kind = "ld"
    /\ X' = Set(i.rd, LoadValue(i.sgn, Bytes(Plus(X[i.rs1], i.imm), i.sz)))
    /\ Goto(Plus(pc, 4))
    /\ UNCHANGED mem

IsaStore(i) ==
    /\ i.kind = "st"
    /\ mem' = Stored(Plus(X[i.rs1], i.imm), StoreBytes(X[i.rs2], i.sz), i.sz)
    /\ Goto(Plus(pc, 4))
    /\ UNCHANGED X

IsaBranch(i) ==
    /\ i.kind = "br"
    /\ Goto(IF Taken(i, X) THEN Plus(pc, i.imm) ELSE Plus(pc, 4))
    /\ UNCHANGED <<X, mem>>

IsaJal(i) ==
    /\ i.kind = "jal"
    /\ X' = Set(i.rd, Plus(pc, 4))
    /\ Goto(Plus(pc, i.imm))
    /\ UNCHANGED mem

IsaJalr(i) ==
    /\ i.kind = "jalr"
    /\ X' = Set(i.rd, Plus(pc, 4))
    /\ Goto(Plus(X[i.rs1], i.imm))
    /\ UNCHANGED mem

IsaNext ==
    LET i == Fetched
    IN  /\ UNCHANGED PM
        /\ \/ IsaAlu(i) \/ IsaLoad(i) \/ IsaStore(i)
           \/ IsaBranch(i) \/ IsaJal(i) \/ IsaJalr(i)

IsaInit == pc = 0 /\ X = [r \in Reg |-> 0]

IsaSpec == IsaInit /\ [][IsaNext]_isaVars
=============================================================================
