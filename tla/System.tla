------------------------------- MODULE System -------------------------------
(***************************************************************************)
(* The core with its data memory: the pipeline of Core drives the memory   *)
(* interface of DataMem in every cycle, and stage EX of a load takes its   *)
(* answer in the same cycle.                                               *)
(***************************************************************************)
EXTENDS Core, DataMem

\* The data memory takes every address of the core.
ASSUME AddrIsWord == WordLimit = 4 * NumRows
ASSUME LoadValueOK ==
    \A sgn \in BOOLEAN, sz \in Size : \A d \in Data(sz) : LoadValue(sgn, d) \in Words
ASSUME StoreBytesOK == \A w \in Words, sz \in Size : StoreBytes(w, sz) \in Data(sz)

vars == <<coreVars, dmVars>>

Init == CoreInit /\ DmInit

\* dm_merge supports only aligned addresses, and programs only use those.
AccessAligned == dm_request.addr % dm_request.sz = 0

ClockCycle ==
    /\ AccessAligned
    /\ Cycle(dm_request, dm_wr)
    /\ CoreCycle(IF ex.op = "ld" THEN resp'.val ELSE <<>>)

Next == ClockCycle

Spec == Init /\ [][Next]_vars /\ WF_vars(Next)

----------------------------------------------------------------------------

\* Types: PC values and registers stay words through every addition of the
\* PCU and the address unit, and each stage holds an instruction or nothing.
TypeOK ==
    /\ PM \in Programs
    /\ PC \in Words /\ pif_PC \in Words /\ pid_PC \in Words /\ pid_D1 \in Words
    /\ X \in [Reg -> Words]
    /\ r_booting \in BOOLEAN
    /\ issue_blk \in 0 .. 2
    /\ pm_addr \in Words /\ idpc \in Words /\ expc \in Words
    /\ id \in Insns \cup {Bubble}
    /\ exi \in Insns \cup {Bubble}
    /\ DmTypeOK

\* The access that the memory completes is the one of the instruction in EX:
\* a stalled or killed instruction has announced none, and the register that
\* its address was computed from in ID has not been written since.
AccessIsEX ==
    IF exi.kind \in {"ld", "st"}
    THEN ex = [op |-> exi.kind, sz |-> exi.sz, addr |-> Plus(X[exi.rs1], exi.imm)]
    ELSE ex.op = "nop"

\* The inductive invariant: what each stage holds, where it came from, and
\* why no jump, stall or kill can part an instruction from its address.
SysInv ==
    /\ TypeOK /\ DmIInv
    /\ PcPipeline /\ LinkIsNext /\ InOrder /\ IssueBlocked /\ EvenPC
    /\ AccessIsEX

ISA == INSTANCE Isa WITH pc <- ArchPC, mem <- ArchMem

\* Whatever is stalled, killed, redirected, buffered or bypassed, registers
\* and memory change as if the instructions were executed one by one.
ImplementsISA == ISA!IsaSpec

\* The pipeline never stops: some instruction always moves on to EX again.
Progress == []<>(Advances \/ ~ AccessAligned)
=============================================================================
