-------------------------------- MODULE Core --------------------------------
(***************************************************************************)
(* The three-stage pipeline of the trv32p3 core: the program control unit  *)
(* (trv32p3_pcu.p), the stage-by-stage behaviour of the instruction rules  *)
(* (alu.n, ldst.n, ctrl.n), the hardware stall (hzrd.n) and the program    *)
(* memory port (pm.p).  The data memory is a parameter of the cycle.       *)
(*                                                                         *)
(* CoreCycle is one clock cycle: stage EX completes exi, stage ID works on *)
(* id, and the PCU issues the fetched word into ID and fetches the next.   *)
(* All three read the registers as the previous cycle left them.           *)
(***************************************************************************)
EXTENDS Insn

CONSTANTS NumWords,     \* instruction words of the program memory
          Programs      \* the programs considered

ASSUME NumWordsOK == NumWords \in Nat \ {0}
ASSUME ProgramsOK == Programs \subseteq [0 .. NumWords - 1 -> Insns]

VARIABLES
    PM,                 \* the program
    PC, pif_PC, pid_PC, \* address to issue next; of the instruction in ID, in EX
    pid_D1,             \* link value on its way from ID to EX (jal)
    X,                  \* the register file
    r_booting,          \* first cycle after reset
    issue_blk,          \* cycles for which issue_sig() stays false
    pm_addr,            \* the address of the fetch in flight
    id, exi,            \* the instructions in ID and EX, or Bubble
    idpc, expc          \* auxiliary: the addresses they were fetched from

pcuVars == <<PC, pif_PC, r_booting, issue_blk, pm_addr>>
coreVars == <<PM, pcuVars, pid_PC, pid_D1, X, id, exi, idpc, expc>>

----------------------------------------------------------------------------
(* Signals of the cycle.                                                   *)

\* jump_of13_cd_sig: a taken branch is in EX.  It kills ID and flushes IF.
br_EX == Taken(exi, X)

\* Fault: the stall rule covers results of the ALU only.
hw_stall_alu == Writes(exi) /\ exi.kind = "alu" /\ ReadsInID(id) /\ id.rs1 = exi.rd

\* Fault: ID waits for a register whether or not EX is writing it.
hw_stall_held == ReadsInID(id) /\ id.rs1 # 0

\* hw_stall_sig: EX writes the register that ID needs for an address.
hw_stall == Writes(exi) /\ ReadsInID(id) /\ id.rs1 = exi.rd

\* The instruction in ID moves on to EX, with its effects in stage ID.
Advances == id # Bubble /\ ~ hw_stall /\ ~ br_EX

\* Fault: a jal that is being killed still redirects the PC.
jal_ID_killed == id.kind = "jal" /\ ~ hw_stall

jalr_EX == exi.kind = "jalr"
jal_ID == id.kind = "jal" /\ ~ hw_stall /\ ~ br_EX

\* Fault: a taken branch does not flush the word that was fetched behind it.
issue_ins_no_flush == ~ r_booting /\ issue_blk = 0 /\ ~ (hw_stall /\ ~ br_EX)

\* user_issue: issue_ins.
issue_ins == ~ r_booting /\ ~ br_EX /\ issue_blk = 0 /\ ~ (hw_stall /\ ~ br_EX)

\* pm.p: the word that the fetch of the previous cycle delivers.
pm_rd == PM[(pm_addr \div 4) % NumWords]

\* Fault: an instruction that is being killed still announces its access.
dm_request_killed ==
    IF id # Bubble /\ ~ hw_stall /\ ReadsInID(id)
    THEN [op |-> id.kind, sz |-> id.sz, addr |-> Plus(X[id.rs1], id.imm)]
    ELSE [op |-> "nop", sz |-> 1, addr |-> 0]

\* The data memory access that ID announces, and the data that EX drives.
dm_request ==
    IF Advances /\ ReadsInID(id)
    THEN [op |-> id.kind, sz |-> id.sz, addr |-> Plus(X[id.rs1], id.imm)]
    ELSE [op |-> "nop", sz |-> 1, addr |-> 0]

dm_wr == IF exi.kind = "st" THEN StoreBytes(X[exi.rs2], exi.sz) ELSE [n \in 0 .. 0 |-> 0]

----------------------------------------------------------------------------
(* The stages.                                                             *)

\* Stage EX; ld is what the data memory delivers for a load.
ExResult(ld) ==
    IF exi.kind = "alu" THEN AluResult(exi, X, pid_PC)
    ELSE IF exi.kind = "ld" THEN LoadValue(exi.sgn, ld)
    ELSE IF exi.kind = "jal" THEN pid_D1
    ELSE PC                                            \* jalr: lnk_ex = pcr

StageEX(ld) == X' = IF Writes(exi) THEN [X EXCEPT ![exi.rd] = ExResult(ld)] ELSE X

\* Stage ID: branches and auipc save their address, jal its link value.
StageID ==
    /\ exi' = IF Advances THEN id ELSE Bubble
    /\ expc' = IF Advances THEN idpc ELSE expc
    /\ pid_PC' = IF Advances /\ (id.kind = "br" \/ (id.kind = "alu" /\ id.a = "pc"))
                 THEN pif_PC ELSE pid_PC
    /\ pid_D1' = IF Advances /\ id.kind = "jal" THEN PC ELSE pid_D1

\* Fault: pif_PC follows the PC although nothing is issued.
user_issue_pif ==
    IF issue_ins
    THEN /\ id' = pm_rd /\ idpc' = pm_addr
         /\ pif_PC' = PC
         /\ issue_blk' = IssueDelay(pm_rd)
    ELSE /\ id' = IF hw_stall /\ ~ br_EX THEN id ELSE Bubble
         /\ pif_PC' = PC
         /\ UNCHANGED idpc
         /\ issue_blk' = IF issue_blk > 0 THEN issue_blk - 1 ELSE 0

\* user_issue.  Whether kill_instr also ends the issue delay of the killed
\* instruction is a matter of the generated controller.
user_issue ==
    IF issue_ins
    THEN /\ id' = pm_rd /\ idpc' = pm_addr
         /\ pif_PC' = PC
         /\ issue_blk' = IssueDelay(pm_rd)
    ELSE /\ id' = IF hw_stall /\ ~ br_EX THEN id ELSE Bubble
         /\ UNCHANGED <<idpc, pif_PC>>
         /\ \/ issue_blk' = IF issue_blk > 0 THEN issue_blk - 1 ELSE 0
            \/ br_EX /\ issue_blk' = 0

\* user_next_pc.
jump_pc ==
    IF br_EX THEN Plus(pid_PC, exi.imm)
    ELSE IF jal_ID THEN Plus(pif_PC, id.imm)
    ELSE IF jalr_EX THEN ClearLSB(Plus(X[exi.rs1], exi.imm))
    ELSE PC

next_pc ==
    IF br_EX \/ jal_ID \/ jalr_EX \/ r_booting THEN jump_pc
    ELSE IF issue_ins THEN Plus(PC, 4) ELSE PC

user_next_pc ==
    /\ PC' = next_pc
    /\ pm_addr' = next_pc
    /\ r_booting' = FALSE

CoreCycle(ld) ==
    /\ StageEX(ld)
    /\ StageID
    /\ user_issue
    /\ user_next_pc
    /\ UNCHANGED PM

CoreInit ==
    /\ PM \in Programs
    /\ PC = 0 /\ pif_PC = 0 /\ pid_PC = 0 /\ pid_D1 = 0
    /\ X = [r \in Reg |-> 0]
    /\ r_booting = TRUE /\ issue_blk = 0 /\ pm_addr = 0
    /\ id = Bubble /\ exi = Bubble /\ idpc = 0 /\ expc = 0

----------------------------------------------------------------------------
(* Properties of the pipeline.                                             *)

\* PDG_ASSERT in user_next_pc: at most one of the three jumps is taken.
OneJump == ~ (br_EX /\ jalr_EX) /\ ~ (br_EX /\ jal_ID) /\ ~ (jal_ID /\ jalr_EX)

\* The word that is issued was fetched from the address it is issued with,
\* whatever redirected, held or advanced the PC in the cycle before; and
\* pif_PC and pid_PC are the addresses of the instructions that use them.
PcPipeline ==
    /\ pm_addr = PC
    /\ id # Bubble => pif_PC = idpc
    /\ exi.kind = "br" \/ (exi.kind = "alu" /\ exi.a = "pc") => pid_PC = expc

\* While jal is in ID and while jalr is in EX nothing is issued behind them,
\* so PC still holds the link value, the address of the next instruction.
LinkIsNext ==
    /\ id.kind = "jal" => PC = Plus(idpc, 4)
    /\ exi.kind = "jalr" => PC = Plus(expc, 4) /\ id = Bubble
    /\ exi.kind = "jal" => pid_D1 = Plus(expc, 4) /\ id = Bubble

\* The stages hold consecutive instructions of the program, in order.
InsnAt(p) == PM[(p \div 4) % NumWords]

InOrder ==
    /\ id # Bubble => id = InsnAt(idpc) /\ PC = Plus(idpc, 4)
    /\ exi # Bubble => exi = InsnAt(expc)
    /\ id # Bubble /\ exi # Bubble => idpc = Plus(expc, 4)
    /\ exi # Bubble /\ id = Bubble => exi.kind \in {"jal", "jalr"}
    /\ exi.kind = "jal" => PC = Plus(expc, exi.imm)

\* How long a jump holds back the issue of the next instruction.
IssueBlocked ==
    /\ id.kind = "jal" => issue_blk = 1
    /\ id.kind = "jalr" => issue_blk = 2
    /\ id # Bubble /\ id.kind \notin {"jal", "jalr"} => issue_blk = 0
    /\ exi.kind = "jal" => issue_blk = 0
    /\ exi.kind = "jalr" => issue_blk = 1
    /\ r_booting => id = Bubble /\ exi = Bubble

\* Instructions are at even addresses (jalr clears the LSB).
EvenPC == PC % 2 = 0 /\ idpc % 2 = 0 /\ expc % 2 = 0

\* The address of the oldest instruction that has not completed.
ArchPC == IF exi # Bubble THEN expc ELSE IF id # Bubble THEN idpc ELSE PC
=============================================================================
