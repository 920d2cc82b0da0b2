------------------------------ MODULE DataMem ------------------------------
(***************************************************************************)
(* The data memory interface of the trv32p3 core (lib/dm.p): dm_merge,     *)
(* which maps byte, half and word accesses to rows of four byte lanes, and *)
(* dm_wbb, the write-back buffer in front of the single-port array eDM.    *)
(*                                                                         *)
(* A store announces its address in stage ID and its data one cycle later, *)
(* in EX.  By then the following instruction may need the array for a load *)
(* address; the data then waits in the buffer for a cycle without a load.  *)
(* One action Cycle is one clock cycle: process_result and process_request *)
(* of both interfaces read the flip-flops as the previous cycle left them. *)
(***************************************************************************)
EXTENDS Integers

CONSTANTS
    Byte,       \* the values of one byte
    NumRows,    \* the number of rows of the array
    Access,     \* the accesses that the program makes
    InitialDM,  \* the contents the array may start with
    DbgAddr     \* the byte addresses that the debugger looks at

VARIABLES
    ex,                \* the core's access in stage EX
    resp,              \* the answer of the last step
    col_ff, st_ff,     \* dm_merge: column of the access, size of the store
    edm_addr_ff, edm_strb_ff, st_edm_ff,       \* dm_wbb: the delayed store
    edm_data_ff, edm_wbb_ff,                   \* dm_wbb: the buffer
    edm_addr_match_ff,                         \* dm_wbb: load hits the buffer
    edm_rd_addr,       \* the row the array reads in this cycle
    eDM                \* the array

mergeVars == <<col_ff, st_ff>>
delayVars == <<edm_addr_ff, edm_strb_ff, st_edm_ff, edm_wbb_ff, edm_addr_match_ff>>
dmVars == <<ex, resp, mergeVars, delayVars, edm_data_ff, edm_rd_addr, eDM>>

Lane == 0 .. 3
Row == 0 .. NumRows - 1
Word == [Lane -> Byte]
Addr == 0 .. 4 * NumRows - 1
Size == {1, 2, 4}        \* bytes of an access: DMb, DMh, DMw
Data(sz) == [0 .. sz - 1 -> Byte]

\* The core drives at most one of the ld_* and st_* signals; dm_addr carries
\* some address in a cycle without an access.
Request == { r \in [op : {"ld", "st", "nop"}, sz : Size, addr : Addr] :
                 r.addr % r.sz = 0 }

ASSUME NumRowsPositive == NumRows \in Nat \ {0}
ASSUME ZeroIsByte == 0 \in Byte
ASSUME InitialDMIsArray == InitialDM \subseteq [Row -> Word]
ASSUME AccessIsRequest == Access \subseteq Request
ASSUME DbgAddrIsAddr == DbgAddr \subseteq Addr

NoResp == [to |-> "none"]
CoreResp(d) == [to |-> "core", val |-> d]
DbgResp(b) == [to |-> "dbg", val |-> [n \in 0 .. 0 |-> b]]
Response == {NoResp} \cup [to : {"core", "dbg"}, val : UNION { Data(sz) : sz \in Size }]

RowOf(a) == a \div 4
ColOf(a) == a % 4

----------------------------------------------------------------------------
(* dm_merge: signals of one cycle.                                         *)

\* st_wdm, the byte write mask, as the set of lanes it enables.
st_wdm(req) ==
    IF req.op # "st"   THEN {}
    ELSE IF req.sz = 4 THEN Lane
    ELSE IF req.sz = 2 THEN { 2 * (ColOf(req.addr) \div 2), 2 * (ColOf(req.addr) \div 2) + 1 }
    ELSE { ColOf(req.addr) }

\* The write data, replicated over the lanes for the size of the store that
\* was announced in the cycle before.  The core drives no defined value in
\* a cycle that follows none: wr is then any byte.
wdm_wr(wr) == [l \in Lane |-> IF st_ff = 4 THEN wr[l]
                              ELSE IF st_ff = 2 THEN wr[l % 2] ELSE wr[0]]

\* dmb_rd, dmh_rd and dmw_rd, out of the row that dm_wbb delivers.
merge_rd(wdm_rd, sz) ==
    LET b0 == wdm_rd[col_ff]
        b1 == wdm_rd[2 * (col_ff \div 2) + 1]
    IN  [i \in 0 .. sz - 1 |-> IF i = 0 THEN b0 ELSE IF i = 1 THEN b1 ELSE wdm_rd[i]]

\* Fault: the column keeps the row bits of the address.
merge_request_raw_col(req) ==
    /\ col_ff' = req.addr
    /\ st_ff' = IF req.op = "st" THEN req.sz ELSE 0

merge_request(req) ==
    /\ col_ff' = ColOf(req.addr)
    /\ st_ff' = IF req.op = "st" THEN req.sz ELSE 0

----------------------------------------------------------------------------
(* dm_wbb.                                                                 *)

\* Fault: the bypass ignores the byte strobes.
wbb_result_no_strobe(edm_rd) ==
    IF edm_wbb_ff /\ edm_addr_match_ff THEN edm_data_ff ELSE edm_rd

\* process_result: bytes of a pending store that the load must see.
wbb_result(edm_rd) ==
    LET sel == IF edm_wbb_ff /\ edm_addr_match_ff THEN edm_strb_ff ELSE {}
    IN  [l \in Lane |-> IF l \in sel THEN edm_data_ff[l] ELSE edm_rd[l]]

\* The array after a write of row data to the delayed address.
Written(data) ==
    [eDM EXCEPT ![edm_addr_ff] = [l \in Lane |-> IF l \in edm_strb_ff THEN data[l]
                                                                      ELSE @[l]]]

\* Fault: the address is compared with the buffer only if the buffer is full
\* already, not if it is filled in this cycle.
wbb_load_late_match(req, data) ==
    /\ req.op = "ld"
    /\ edm_rd_addr' = RowOf(req.addr)
    /\ edm_addr_match_ff' = (edm_wbb_ff /\ RowOf(req.addr) = edm_addr_ff)
    /\ IF st_edm_ff THEN edm_data_ff' = data /\ edm_wbb_ff' = TRUE
                    ELSE UNCHANGED <<edm_data_ff, edm_wbb_ff>>
    /\ st_edm_ff' = FALSE
    /\ UNCHANGED <<edm_addr_ff, edm_strb_ff, eDM>>

\* process_request in a cycle with a load: the array is busy, a store whose
\* data arrives now is buffered.
wbb_load(req, data) ==
    /\ req.op = "ld"
    /\ edm_rd_addr' = RowOf(req.addr)
    /\ edm_addr_match_ff' = (RowOf(req.addr) = edm_addr_ff)
    /\ IF st_edm_ff THEN edm_data_ff' = data /\ edm_wbb_ff' = TRUE
                    ELSE UNCHANGED <<edm_data_ff, edm_wbb_ff>>
    /\ st_edm_ff' = FALSE
    /\ UNCHANGED <<edm_addr_ff, edm_strb_ff, eDM>>

\* Fault: the buffer is written back but stays marked full.
wbb_no_load_stays_full(req, data) ==
    /\ req.op # "ld"
    /\ eDM' = IF edm_wbb_ff THEN Written(edm_data_ff)
              ELSE IF st_edm_ff THEN Written(data) ELSE eDM
    /\ edm_wbb_ff' = edm_wbb_ff
    /\ IF st_wdm(req) # {}
       THEN edm_addr_ff' = RowOf(req.addr) /\ edm_strb_ff' = st_wdm(req)
       ELSE UNCHANGED <<edm_addr_ff, edm_strb_ff>>
    /\ st_edm_ff' = (st_wdm(req) # {})
    /\ UNCHANGED <<edm_data_ff, edm_addr_match_ff, edm_rd_addr>>

\* process_request in a cycle without one: the buffer drains, or else the
\* store of the previous cycle is written, and a new store is delayed.
wbb_no_load(req, data) ==
    /\ req.op # "ld"
    /\ eDM' = IF edm_wbb_ff THEN Written(edm_data_ff)
              ELSE IF st_edm_ff THEN Written(data) ELSE eDM
    /\ edm_wbb_ff' = FALSE
    /\ IF st_wdm(req) # {}
       THEN edm_addr_ff' = RowOf(req.addr) /\ edm_strb_ff' = st_wdm(req)
       ELSE UNCHANGED <<edm_addr_ff, edm_strb_ff>>
    /\ st_edm_ff' = (st_wdm(req) # {})
    /\ UNCHANGED <<edm_data_ff, edm_addr_match_ff, edm_rd_addr>>

wbb_request(req, data) == wbb_load(req, data) \/ wbb_no_load(req, data)

----------------------------------------------------------------------------
(* The actions.  Cycle(req, wr): the core announces req in ID, and drives  *)
(* wr for the access that is in EX.  The array may serve the read of a     *)
(* cycle before or after the write of the same cycle.                      *)

Cycle(req, wr) ==
    /\ merge_request(req)
    /\ wbb_request(req, wdm_wr(wr))
    /\ ex' = req
    /\ IF ex.op = "ld"
       THEN \E edm_rd \in {eDM[edm_rd_addr], eDM'[edm_rd_addr]} :
                resp' = CoreResp(merge_rd(wbb_result(edm_rd), ex.sz))
       ELSE resp' = NoResp

\* dbg_access_DMb and dbg_access_wDM, between two cycles.
DbgHit(a) == edm_wbb_ff /\ edm_addr_ff = RowOf(a) /\ ColOf(a) \in edm_strb_ff

DbgRead(a) ==
    /\ resp' = DbgResp(IF DbgHit(a) THEN edm_data_ff[ColOf(a)]
                                    ELSE eDM[RowOf(a)][ColOf(a)])
    /\ UNCHANGED <<ex, mergeVars, delayVars, edm_data_ff, edm_rd_addr, eDM>>

DbgWrite(a, b) ==
    /\ edm_data_ff' = IF DbgHit(a) THEN [edm_data_ff EXCEPT ![ColOf(a)] = b]
                                   ELSE edm_data_ff
    /\ eDM' = [eDM EXCEPT ![RowOf(a)] = [@ EXCEPT ![ColOf(a)] = b]]
    /\ resp' = NoResp
    /\ UNCHANGED <<ex, mergeVars, delayVars, edm_rd_addr>>

\* The core drives data for a store, and leaves the bus undefined otherwise.
CoreData == IF ex.op = "st" THEN Data(ex.sz) ELSE Data(1)

DmInit ==
    /\ eDM \in InitialDM
    /\ ex = [op |-> "nop", sz |-> 1, addr |-> 0]
    /\ resp = NoResp
    /\ col_ff = 0 /\ st_ff = 0
    /\ edm_addr_ff = 0 /\ edm_strb_ff = {} /\ st_edm_ff = FALSE
    /\ edm_data_ff = [l \in Lane |-> 0]
    /\ edm_wbb_ff = FALSE /\ edm_addr_match_ff = FALSE
    /\ edm_rd_addr = 0

DmNext ==
    \/ \E req \in Access : \E wr \in CoreData : Cycle(req, wr)
    \/ \E a \in DbgAddr : DbgRead(a)
    \/ \E a \in DbgAddr, b \in Byte : DbgWrite(a, b)

DmSpec == DmInit /\ [][DmNext]_dmVars

----------------------------------------------------------------------------
(* Properties.                                                             *)

\* Types: the column fits its two bits, rows are inside the array, and the
\* size flip-flop names one kind of store (registers of dm_merge and dm_wbb).
DmTypeOK ==
    /\ ex \in Request
    /\ resp \in Response
    /\ col_ff \in Lane
    /\ st_ff \in Size \cup {0}
    /\ edm_addr_ff \in Row
    /\ edm_strb_ff \in SUBSET Lane
    /\ st_edm_ff \in BOOLEAN
    /\ edm_data_ff \in Word
    /\ edm_wbb_ff \in BOOLEAN
    /\ edm_addr_match_ff \in BOOLEAN
    /\ edm_rd_addr \in Row
    /\ eDM \in [Row -> Word]

\* The one buffer is never asked to hold two stores: while it is full no
\* other store is waiting for its data, so process_request loses neither.
OneStorePending == ~ (edm_wbb_ff /\ st_edm_ff)

\* The delayed address and strobe belong to the store whose data arrives now,
\* and dm_merge replicates that data for its size.
DelayedStoreIsEx ==
    /\ st_edm_ff <=> ex.op = "st"
    /\ st_ff = IF ex.op = "st" THEN ex.sz ELSE 0
    /\ st_edm_ff => edm_addr_ff = RowOf(ex.addr) /\ edm_strb_ff = st_wdm(ex)

\* A load is answered for the address it named, with the buffer's bytes
\* exactly if the buffer holds its row.
LoadIsEx ==
    ex.op = "ld" =>
        /\ col_ff = ColOf(ex.addr)
        /\ edm_rd_addr = RowOf(ex.addr)
        /\ edm_wbb_ff => (edm_addr_match_ff <=> edm_addr_ff = RowOf(ex.addr))

\* The inductive invariant: the flip-flops always describe the one access in
\* EX, and the comparison made for a load is still right when it is used.
DmIInv == DmTypeOK /\ OneStorePending /\ DelayedStoreIsEx /\ LoadIsEx

\* The contents of the memory as its users see them: the array, overlaid by
\* the buffered store.
ArchMem == [a \in Addr |-> IF DbgHit(a) THEN edm_data_ff[ColOf(a)]
                                        ELSE eDM[RowOf(a)][ColOf(a)]]

Flat == INSTANCE FlatMem WITH mem <- ArchMem

\* The two interfaces implement the unbuffered byte memory that trv32p3.n
\* declares, for the core and for the debugger.
FlatMemory == Flat!FlatSpec
=============================================================================
