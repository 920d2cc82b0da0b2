--------------------------- MODULE System_proofs ---------------------------
(***************************************************************************)
(* Proofs about the data memory interface, for every size of the array,    *)
(* every set of byte values and every program of aligned accesses; and     *)
(* about the pipeline with its data memory, for every program, every word  *)
(* and memory size and whatever the primitive functions compute.           *)
(***************************************************************************)
EXTENDS System, TLAPS

----------------------------------------------------------------------------
(* Addresses.                                                              *)

\* The split of dm_addr into row and column loses nothing.
LEMMA AddrSplit ==
    ASSUME NEW a \in Addr
    PROVE  /\ RowOf(a) \in Row
           /\ ColOf(a) \in Lane
           /\ a = 4 * RowOf(a) + ColOf(a)
  BY NumRowsPositive DEF Addr, RowOf, ColOf, Row, Lane

\* The split determines the address.
LEMMA AddrJoin ==
    ASSUME NEW r \in Row, NEW c \in Lane
    PROVE  /\ 4 * r + c \in Addr
           /\ RowOf(4 * r + c) = r
           /\ ColOf(4 * r + c) = c
  BY NumRowsPositive DEF Addr, RowOf, ColOf, Row, Lane

\* All bytes of an aligned access are in one row, in consecutive columns.
LEMMA AlignedAccess ==
    ASSUME NEW r \in Request, NEW i \in 0 .. r.sz - 1
    PROVE  /\ r.addr + i \in Addr
           /\ RowOf(r.addr + i) = RowOf(r.addr)
           /\ ColOf(r.addr + i) = ColOf(r.addr) + i
  <1>1. r.addr \in Addr /\ r.sz \in Size /\ r.addr % r.sz = 0
    BY DEF Request
  <1>2. CASE r.sz = 4
    BY <1>1, <1>2, NumRowsPositive DEF Addr, RowOf, ColOf
  <1>3. CASE r.sz = 2
    BY <1>1, <1>3, NumRowsPositive DEF Addr, RowOf, ColOf
  <1>4. CASE r.sz = 1
    BY <1>1, <1>4, NumRowsPositive DEF Addr, RowOf, ColOf
  <1> QED BY <1>1, <1>2, <1>3, <1>4 DEF Size

\* The byte write mask of a store enables the lanes of its bytes.
LEMMA StoreMask ==
    ASSUME NEW r \in Request, r.op = "st"
    PROVE  /\ st_wdm(r) \in SUBSET Lane
           /\ st_wdm(r) # {}
           /\ \A l \in Lane : l \in st_wdm(r) <=>
                  l \in ColOf(r.addr) .. ColOf(r.addr) + r.sz - 1
  <1>1. r.addr \in Addr /\ r.sz \in Size /\ r.addr % r.sz = 0
    BY DEF Request
  <1>2. ColOf(r.addr) \in Lane
    BY <1>1, AddrSplit
  <1>3. CASE r.sz = 4
    <2>1. ColOf(r.addr) = 0
      BY <1>1, <1>3, NumRowsPositive DEF Addr, ColOf
    <2> QED BY <1>3, <2>1 DEF st_wdm, Lane
  <1>4. CASE r.sz = 2
    <2>1. ColOf(r.addr) \in {0, 2}
      BY <1>1, <1>4, NumRowsPositive DEF Addr, ColOf
    <2>2. 2 * (ColOf(r.addr) \div 2) = ColOf(r.addr)
      BY <2>1
    <2>3. st_wdm(r) = { ColOf(r.addr), ColOf(r.addr) + 1 }
      BY <1>4, <2>2 DEF st_wdm
    <2> QED BY <1>4, <2>1, <2>3 DEF Lane
  <1>5. CASE r.sz = 1
    BY <1>2, <1>5 DEF st_wdm, Lane
  <1> QED BY <1>1, <1>3, <1>4, <1>5 DEF Size

----------------------------------------------------------------------------
(* The inductive invariant.                                                *)

\* wdm_wr is a row of bytes whenever the core drives what it must.
LEMMA WriteDataType ==
    ASSUME DmTypeOK, DelayedStoreIsEx, NEW wr \in CoreData
    PROVE  wdm_wr(wr) \in Word
  <1>1. ex \in Request /\ ex.sz \in Size
    BY DEF DmTypeOK, Request
  <1>2. CASE ex.op = "st"
    <2>1. st_ff = ex.sz /\ wr \in [0 .. ex.sz - 1 -> Byte]
      BY <1>2 DEF DelayedStoreIsEx, CoreData, Data
    <2> QED BY <1>1, <2>1 DEF wdm_wr, Word, Lane, Size
  <1>3. CASE ex.op # "st"
    <2>1. st_ff = 0 /\ wr \in [0 .. 0 -> Byte]
      BY <1>3 DEF DelayedStoreIsEx, CoreData, Data
    <2> QED BY <2>1 DEF wdm_wr, Word, Lane
  <1> QED BY <1>2, <1>3

\* What dm_merge answers to a load is a datum of the load's size.
LEMMA ReadDataType ==
    ASSUME DmTypeOK, NEW edm_rd \in Word, ex.op = "ld"
    PROVE  /\ merge_rd(wbb_result(edm_rd), ex.sz) \in Data(ex.sz)
           /\ CoreResp(merge_rd(wbb_result(edm_rd), ex.sz)) \in Response
  <1>1. ex.sz \in Size /\ col_ff \in Lane
    BY DEF DmTypeOK, Request
  <1>2. wbb_result(edm_rd) \in Word
    BY DEF DmTypeOK, wbb_result, Word
  <1>3. 2 * (col_ff \div 2) + 1 \in Lane
    BY <1>1 DEF Lane
  <1>4. merge_rd(wbb_result(edm_rd), ex.sz) \in Data(ex.sz)
    <2> DEFINE d == wbb_result(edm_rd)
    <2>1. d \in Word  BY <1>2
    <2> HIDE DEF d
    <2>2. \A i \in 0 .. ex.sz - 1 : i \in Lane
      BY <1>1 DEF Size, Lane
    <2>3. merge_rd(d, ex.sz) \in Data(ex.sz)
      BY <1>1, <1>3, <2>1, <2>2 DEF merge_rd, Data, Word
    <2> QED BY <2>3 DEF d
  <1> QED BY <1>1, <1>4 DEF Response, CoreResp

\* Writing a row keeps the array an array.
LEMMA WrittenType ==
    ASSUME DmTypeOK, NEW data \in Word
    PROVE  Written(data) \in [Row -> Word]
  BY DEF DmTypeOK, Written, Word

\* The initial state satisfies the invariant.
LEMMA DmInitIInv == DmInit => DmIInv
  <1> SUFFICES ASSUME DmInit PROVE DmIInv
    OBVIOUS
  <1>1. 0 \in Row /\ 0 \in Addr /\ 0 \in Lane
    BY NumRowsPositive DEF Row, Addr, Lane
  <1>2. ex \in Request
    BY <1>1 DEF DmInit, Request, Size
  <1>3. DmTypeOK
    BY <1>1, <1>2, ZeroIsByte, InitialDMIsArray
       DEF DmInit, DmTypeOK, Response, Word
  <1> QED BY <1>3 DEF DmInit, DmIInv, OneStorePending, DelayedStoreIsEx, LoadIsEx

\* One clock cycle preserves the invariant.
LEMMA DmCycleIInv ==
    ASSUME DmIInv, NEW req \in Request, NEW wr \in CoreData, Cycle(req, wr)
    PROVE  DmIInv'
  <1> DEFINE data == wdm_wr(wr)
  <1>1. req \in Request /\ req.addr \in Addr /\ req.op \in {"ld", "st", "nop"} /\ req.sz \in Size
    BY DEF Request
  <1>2. RowOf(req.addr) \in Row /\ ColOf(req.addr) \in Lane
    BY <1>1, AddrSplit
  <1>3. data \in Word
    BY WriteDataType DEF DmIInv
  <1>4. /\ req.op # "st" => st_wdm(req) = {}
        /\ req.op = "st" => st_wdm(req) # {}
        /\ st_wdm(req) \in SUBSET Lane
    BY <1>1, StoreMask DEF st_wdm
  <1>5. /\ Written(edm_data_ff) \in [Row -> Word]
        /\ Written(data) \in [Row -> Word]
    BY <1>3, WrittenType DEF DmIInv, DmTypeOK
  <1>6. ex' = req /\ merge_request(req) /\ wbb_request(req, data)
    BY DEF Cycle
  <1> HIDE DEF data
  <1>7. (eDM \in [Row -> Word])' /\ eDM \in [Row -> Word] /\ edm_rd_addr \in Row
    BY <1>5, <1>6 DEF DmIInv, DmTypeOK, wbb_request, wbb_load, wbb_no_load
  <1>8. resp' \in Response
    <2>1. CASE ex.op = "ld"
      <3>1. PICK edm_rd \in {eDM[edm_rd_addr], eDM'[edm_rd_addr]} :
                resp' = CoreResp(merge_rd(wbb_result(edm_rd), ex.sz))
        BY <2>1 DEF Cycle
      <3>2. edm_rd \in Word
        BY <1>7
      <3> QED BY <2>1, <3>1, <3>2, ReadDataType DEF DmIInv
    <2>2. CASE ex.op # "ld"
      BY <2>2 DEF Cycle, Response
    <2> QED BY <2>1, <2>2
  <1>9. CASE wbb_load(req, data)
    <2>1. DmTypeOK'
      BY <1>1, <1>2, <1>3, <1>6, <1>7, <1>8, <1>9
         DEF wbb_load, merge_request, DmIInv, DmTypeOK, Response
    <2>2. OneStorePending' /\ DelayedStoreIsEx' /\ LoadIsEx'
      BY <1>6, <1>9 DEF wbb_load, merge_request, OneStorePending, DelayedStoreIsEx, LoadIsEx
    <2> QED BY <2>1, <2>2 DEF DmIInv
  <1>10. CASE wbb_no_load(req, data)
    <2>1. DmTypeOK'
      BY <1>1, <1>2, <1>3, <1>4, <1>6, <1>7, <1>8, <1>10
         DEF wbb_no_load, merge_request, DmIInv, DmTypeOK, Response
    <2>2. OneStorePending' /\ LoadIsEx'
      BY <1>6, <1>10 DEF wbb_no_load, merge_request, OneStorePending, LoadIsEx
    <2>3. DelayedStoreIsEx'
      <3>1. st_wdm(ex)' = st_wdm(req)
        BY <1>6 DEF st_wdm
      <3> QED BY <1>1, <1>4, <1>6, <1>10, <3>1
              DEF wbb_no_load, merge_request, DelayedStoreIsEx
    <2> QED BY <2>1, <2>2, <2>3 DEF DmIInv
  <1> QED BY <1>6, <1>9, <1>10 DEF wbb_request

\* A debug access preserves the invariant: it changes data only.
LEMMA DmDbgIInv ==
    ASSUME DmIInv,
           \/ \E a \in DbgAddr : DbgRead(a)
           \/ \E a \in DbgAddr, b \in Byte : DbgWrite(a, b)
    PROVE  DmIInv'
  <1>1. CASE \E a \in DbgAddr : DbgRead(a)
    <2>1. PICK a \in DbgAddr : DbgRead(a)
      BY <1>1
    <2>2. RowOf(a) \in Row /\ ColOf(a) \in Lane
      BY AddrSplit, DbgAddrIsAddr
    <2>3. resp' \in Response
      <3>1. PICK b \in Byte : resp' = DbgResp(b)
        BY <2>1, <2>2 DEF DbgRead, DmIInv, DmTypeOK, Word
      <3>2. [n \in 0 .. 0 |-> b] \in Data(1) /\ 1 \in Size
        BY DEF Data, Size
      <3> QED BY <3>1, <3>2 DEF DbgResp, Response
    <2> QED BY <2>1, <2>3 DEF DbgRead, mergeVars, delayVars, Response, st_wdm,
            DmIInv, DmTypeOK, OneStorePending, DelayedStoreIsEx, LoadIsEx
  <1>2. CASE \E a \in DbgAddr, b \in Byte : DbgWrite(a, b)
    <2>1. PICK a \in DbgAddr, b \in Byte : DbgWrite(a, b)
      BY <1>2
    <2>2. RowOf(a) \in Row /\ ColOf(a) \in Lane
      BY AddrSplit, DbgAddrIsAddr
    <2>3. (eDM \in [Row -> Word])' /\ (edm_data_ff \in Word)'
      BY <2>1, <2>2 DEF DbgWrite, DmIInv, DmTypeOK, Word
    <2> QED BY <2>1, <2>3 DEF DbgWrite, mergeVars, delayVars, Response, st_wdm,
            DmIInv, DmTypeOK, OneStorePending, DelayedStoreIsEx, LoadIsEx
  <1> QED BY <1>1, <1>2

\* Every step of the specification preserves the invariant.
LEMMA DmNextIInv == DmIInv /\ [DmNext]_dmVars => DmIInv'
  <1> SUFFICES ASSUME DmIInv, [DmNext]_dmVars PROVE DmIInv'
    OBVIOUS
  <1>1. CASE UNCHANGED dmVars
    BY <1>1 DEF dmVars, mergeVars, delayVars, Response, st_wdm,
       DmIInv, DmTypeOK, OneStorePending, DelayedStoreIsEx, LoadIsEx
  <1>2. CASE DmNext
    BY <1>2, DmCycleIInv, DmDbgIInv, AccessIsRequest DEF DmNext
  <1> QED BY <1>1, <1>2

\* In every reachable state the flip-flops of dm_merge and dm_wbb agree with
\* the access in EX, and at most one store is pending.
THEOREM DmInvariant == DmSpec => []DmIInv
  BY DmInitIInv, DmNextIInv, PTL DEF DmSpec

\* Every flip-flop, the array and the answers stay in their ranges.
THEOREM DmTypeCorrect == DmSpec => []DmTypeOK
  <1>1. DmIInv => DmTypeOK
    BY DEF DmIInv
  <1> QED BY <1>1, DmInvariant, PTL

\* process_request never finds the buffer full when the data of another
\* store arrives: no store is lost.
THEOREM NoStoreLost == DmSpec => []OneStorePending
  <1>1. DmIInv => OneStorePending
    BY DEF DmIInv
  <1> QED BY <1>1, DmInvariant, PTL

----------------------------------------------------------------------------
(* Refinement of the unbuffered memory.                                    *)

\* Lane l of row r as the users see it: ArchMem by rows.
View(r, l) == IF edm_wbb_ff /\ edm_addr_ff = r /\ l \in edm_strb_ff
              THEN edm_data_ff[l] ELSE eDM[r][l]

\* ArchMem is the byte-addressed form of View.
LEMMA ArchMemView ==
    /\ \A a \in Addr : ArchMem[a] = View(RowOf(a), ColOf(a))
    /\ \A a \in Addr : ArchMem'[a] = View(RowOf(a), ColOf(a))'
  BY DEF ArchMem, View, DbgHit, RowOf, ColOf, Addr

\* A cycle in which no store is in EX leaves the contents as they are, even
\* if the buffer drains in it.
LEMMA NoStoreKeepsMem ==
    ASSUME DmIInv, NEW req \in Request, NEW data, wbb_request(req, data), ex.op # "st"
    PROVE  ArchMem' = ArchMem
  <1>1. ~ st_edm_ff
    BY DEF DmIInv, DelayedStoreIsEx
  <1>2. ASSUME NEW r \in Row, NEW l \in Lane
        PROVE  View(r, l)' = View(r, l)
    <2>1. CASE wbb_load(req, data)
      BY <1>1, <2>1 DEF wbb_load, View
    <2>2. CASE wbb_no_load(req, data) /\ edm_wbb_ff
      BY <1>2, <2>2 DEF wbb_no_load, View, Written, DmIInv, DmTypeOK, Word
    <2>3. CASE wbb_no_load(req, data) /\ ~ edm_wbb_ff
      BY <1>1, <2>3 DEF wbb_no_load, View
    <2> QED BY <2>1, <2>2, <2>3 DEF wbb_request
  <1>3. \A a \in Addr : ArchMem'[a] = ArchMem[a]
    BY <1>2, ArchMemView, AddrSplit
  <1> QED BY <1>3 DEF ArchMem

\* A cycle in which a store is in EX writes its lanes of its row, whether the
\* data goes to the array or to the buffer.
LEMMA StoreView ==
    ASSUME DmIInv, NEW req \in Request, NEW data \in Word, wbb_request(req, data),
           ex.op = "st", NEW r \in Row, NEW l \in Lane
    PROVE  View(r, l)' = IF r = RowOf(ex.addr) /\ l \in st_wdm(ex)
                         THEN data[l] ELSE View(r, l)
  <1>1. /\ st_edm_ff /\ ~ edm_wbb_ff
        /\ edm_addr_ff = RowOf(ex.addr) /\ edm_strb_ff = st_wdm(ex)
    BY DEF DmIInv, DelayedStoreIsEx, OneStorePending
  <1>2. CASE wbb_load(req, data)
    BY <1>1, <1>2 DEF wbb_load, View
  <1>3. CASE wbb_no_load(req, data)
    BY <1>1, <1>3 DEF wbb_no_load, View, Written, DmIInv, DmTypeOK, Word
  <1> QED BY <1>2, <1>3 DEF wbb_request

\* The lanes that a store enables carry the bytes the core drives.
LEMMA StoreData ==
    ASSUME DmIInv, ex.op = "st", NEW wr \in CoreData, NEW a \in Addr
    PROVE  /\ a \in ex.addr .. ex.addr + ex.sz - 1 <=>
                  RowOf(a) = RowOf(ex.addr) /\ ColOf(a) \in st_wdm(ex)
           /\ a \in ex.addr .. ex.addr + ex.sz - 1 =>
                  wdm_wr(wr)[ColOf(a)] = wr[a - ex.addr]
  <1>1. /\ ex \in Request /\ ex.addr \in Addr /\ ex.sz \in Size
        /\ ex.addr % ex.sz = 0 /\ st_ff = ex.sz
    BY DEF DmIInv, DmTypeOK, Request, DelayedStoreIsEx
  <1>2. /\ RowOf(a) \in Row /\ ColOf(a) \in Lane /\ a = 4 * RowOf(a) + ColOf(a)
        /\ RowOf(ex.addr) \in Row /\ ColOf(ex.addr) \in Lane
        /\ ex.addr = 4 * RowOf(ex.addr) + ColOf(ex.addr)
    BY <1>1, AddrSplit
  <1>3. a \in ex.addr .. ex.addr + ex.sz - 1 =>
            RowOf(a) = RowOf(ex.addr) /\ ColOf(a) = ColOf(ex.addr) + (a - ex.addr)
    <2> SUFFICES ASSUME a \in ex.addr .. ex.addr + ex.sz - 1
                 PROVE  RowOf(a) = RowOf(ex.addr) /\ ColOf(a) = ColOf(ex.addr) + (a - ex.addr)
      OBVIOUS
    <2>1. a - ex.addr \in 0 .. ex.sz - 1 /\ ex.addr + (a - ex.addr) = a
      BY <1>1 DEF Addr, Size
    <2> QED BY <1>1, <2>1, AlignedAccess
  <1>4. ColOf(a) \in st_wdm(ex) <=> ColOf(a) \in ColOf(ex.addr) .. ColOf(ex.addr) + ex.sz - 1
    BY <1>1, <1>2, StoreMask
  <1>5. a \in ex.addr .. ex.addr + ex.sz - 1 <=>
            RowOf(a) = RowOf(ex.addr) /\ ColOf(a) \in st_wdm(ex)
    <2>1. ASSUME a \in ex.addr .. ex.addr + ex.sz - 1
          PROVE  RowOf(a) = RowOf(ex.addr) /\ ColOf(a) \in st_wdm(ex)
      <3>1. a - ex.addr \in 0 .. ex.sz - 1
        BY <1>1, <2>1 DEF Addr, Size
      <3>2. ColOf(a) \in ColOf(ex.addr) .. ColOf(ex.addr) + ex.sz - 1
        BY <1>1, <1>2, <1>3, <2>1, <3>1 DEF Size, Lane
      <3> QED BY <1>3, <1>4, <2>1, <3>2
    <2>2. ASSUME RowOf(a) = RowOf(ex.addr), ColOf(a) \in st_wdm(ex)
          PROVE  a \in ex.addr .. ex.addr + ex.sz - 1
      <3> DEFINE r == RowOf(a)  c == ColOf(a)  d == ColOf(ex.addr)
      <3>1. /\ r \in Nat /\ c \in Nat /\ d \in Nat /\ ex.sz \in Nat
            /\ a = 4 * r + c /\ ex.addr = 4 * r + d /\ c \in d .. d + ex.sz - 1
        BY <1>1, <1>2, <1>4, <2>2, NumRowsPositive DEF Row, Lane, Size
      <3> HIDE DEF r, c, d
      <3> QED BY <3>1
    <2> QED BY <2>1, <2>2
  <1>6. ASSUME a \in ex.addr .. ex.addr + ex.sz - 1
        PROVE  wdm_wr(wr)[ColOf(a)] = wr[a - ex.addr]
    <2>1. a - ex.addr \in 0 .. ex.sz - 1 /\ ColOf(a) = ColOf(ex.addr) + (a - ex.addr)
      BY <1>1, <1>3, <1>6 DEF Addr, Size
    <2>2. CASE ex.sz = 4
      <3>1. ColOf(ex.addr) = 0
        BY <1>1, <2>2, NumRowsPositive DEF Addr, ColOf
      <3> QED BY <1>1, <1>2, <2>1, <2>2, <3>1 DEF wdm_wr, Lane
    <2>3. CASE ex.sz = 2
      <3>1. ColOf(ex.addr) % 2 = 0
        BY <1>1, <2>3, NumRowsPositive DEF Addr, ColOf
      <3>2. ColOf(a) % 2 = a - ex.addr
        BY <1>2, <2>1, <2>3, <3>1 DEF Lane
      <3> QED BY <1>1, <1>2, <2>3, <3>2 DEF wdm_wr
    <2>4. CASE ex.sz = 1
      BY <1>1, <1>2, <2>1, <2>4 DEF wdm_wr, Addr
    <2> QED BY <1>1, <2>2, <2>3, <2>4 DEF Size
  <1> QED BY <1>5, <1>6

\* A cycle in which a store is in EX changes the bytes of the store.
LEMMA StoreChangesMem ==
    ASSUME DmIInv, NEW req \in Request, NEW wr \in CoreData, wbb_request(req, wdm_wr(wr)),
           ex.op = "st"
    PROVE  ArchMem' = [a \in Addr |-> IF a \in ex.addr .. ex.addr + ex.sz - 1
                                      THEN wr[a - ex.addr] ELSE ArchMem[a]]
  <1> DEFINE data == wdm_wr(wr)
  <1>1. data \in Word
    BY WriteDataType DEF DmIInv
  <1>2. ASSUME NEW a \in Addr
        PROVE  ArchMem'[a] = IF a \in ex.addr .. ex.addr + ex.sz - 1
                             THEN wr[a - ex.addr] ELSE ArchMem[a]
    <2>1. RowOf(a) \in Row /\ ColOf(a) \in Lane
      BY AddrSplit
    <2>2. View(RowOf(a), ColOf(a))' =
              IF RowOf(a) = RowOf(ex.addr) /\ ColOf(a) \in st_wdm(ex)
              THEN data[ColOf(a)] ELSE View(RowOf(a), ColOf(a))
      BY <1>1, <2>1, StoreView DEF RowOf, ColOf
    <2> QED BY <2>2, StoreData, ArchMemView
  <1> QED BY <1>2 DEF ArchMem

\* The row that the bypass delivers for a load is the row the users see,
\* whether the array serves the read before or after the write of the cycle.
LEMMA BypassView ==
    ASSUME DmIInv, NEW req \in Request, NEW data, wbb_request(req, data), ex.op = "ld",
           NEW edm_rd \in {eDM[edm_rd_addr], eDM'[edm_rd_addr]}, NEW l \in Lane
    PROVE  wbb_result(edm_rd)[l] = View(RowOf(ex.addr), l)
  <1>1. /\ ~ st_edm_ff /\ edm_rd_addr = RowOf(ex.addr)
        /\ edm_wbb_ff => (edm_addr_match_ff <=> edm_addr_ff = RowOf(ex.addr))
    BY DEF DmIInv, DelayedStoreIsEx, LoadIsEx
  <1>2. \/ edm_rd[l] = eDM[edm_rd_addr][l]
        \/ edm_wbb_ff /\ edm_addr_ff = edm_rd_addr /\ l \in edm_strb_ff
    <2>1. CASE wbb_load(req, data)
      BY <2>1 DEF wbb_load
    <2>2. CASE wbb_no_load(req, data)
      BY <1>1, <2>2 DEF wbb_no_load, Written, DmIInv, DmTypeOK, Word
    <2> QED BY <2>1, <2>2 DEF wbb_request
  <1> QED BY <1>1, <1>2 DEF wbb_result, View

\* A load is answered with the bytes that the users see at its address.
LEMMA LoadAnswer ==
    ASSUME DmIInv, NEW req \in Request, NEW data, wbb_request(req, data), ex.op = "ld",
           NEW edm_rd \in {eDM[edm_rd_addr], eDM'[edm_rd_addr]}
    PROVE  merge_rd(wbb_result(edm_rd), ex.sz) = [i \in 0 .. ex.sz - 1 |-> ArchMem[ex.addr + i]]
  <1> DEFINE d == wbb_result(edm_rd)
  <1>1. /\ ex \in Request /\ ex.addr \in Addr /\ ex.sz \in Size
        /\ ex.addr % ex.sz = 0 /\ col_ff = ColOf(ex.addr)
    BY DEF DmIInv, DmTypeOK, Request, LoadIsEx
  <1>2. \A l \in Lane : d[l] = View(RowOf(ex.addr), l)
    BY BypassView
  <1> HIDE DEF d
  <1>3. ASSUME NEW i \in 0 .. ex.sz - 1
        PROVE  /\ ColOf(ex.addr) + i \in Lane
               /\ ArchMem[ex.addr + i] = d[ColOf(ex.addr) + i]
    <2>1. /\ ex.addr + i \in Addr /\ RowOf(ex.addr + i) = RowOf(ex.addr)
          /\ ColOf(ex.addr + i) = ColOf(ex.addr) + i
      BY <1>1, <1>3, AlignedAccess
    <2>2. ColOf(ex.addr) + i \in Lane
      BY <2>1, AddrSplit
    <2> QED BY <1>2, <2>1, <2>2, ArchMemView
  <1>4. ASSUME NEW i \in 0 .. ex.sz - 1
        PROVE  merge_rd(d, ex.sz)[i] = d[ColOf(ex.addr) + i]
    <2>1. ColOf(ex.addr) \in Lane
      BY <1>1, AddrSplit
    <2>2. CASE ex.sz = 4
      <3>1. ColOf(ex.addr) = 0
        BY <1>1, <2>2, NumRowsPositive DEF Addr, ColOf
      <3>2. 2 * (col_ff \div 2) + 1 = 1
        BY <1>1, <3>1
      <3> QED BY <1>1, <1>4, <2>2, <3>1, <3>2 DEF merge_rd
    <2>3. CASE ex.sz = 2
      <3>1. ColOf(ex.addr) \in {0, 2}
        BY <1>1, <2>3, NumRowsPositive DEF Addr, ColOf
      <3>2. 2 * (col_ff \div 2) + 1 = ColOf(ex.addr) + 1
        BY <1>1, <3>1
      <3> QED BY <1>1, <1>4, <2>3, <3>1, <3>2 DEF merge_rd
    <2>4. CASE ex.sz = 1
      BY <1>1, <1>4, <2>1, <2>4 DEF merge_rd, Lane
    <2> QED BY <1>1, <2>2, <2>3, <2>4 DEF Size
  <1>5. merge_rd(d, ex.sz) = [i \in 0 .. ex.sz - 1 |-> ArchMem[ex.addr + i]]
    BY <1>3, <1>4 DEF merge_rd
  <1> QED BY <1>5 DEF d

\* Initially the users see some contents.
LEMMA DmInitRefines == DmInit => Flat!FlatInit
  <1> SUFFICES ASSUME DmInit PROVE Flat!FlatInit
    OBVIOUS
  <1>1. DmIInv
    BY DmInitIInv
  <1>2. ArchMem \in [Addr -> Byte]
    <2>1. \A a \in Addr : View(RowOf(a), ColOf(a)) \in Byte
      BY <1>1, AddrSplit DEF View, DmIInv, DmTypeOK, Word
    <2> QED BY <2>1, ArchMemView DEF ArchMem
  <1>3. ex \in Request /\ ex.op = "nop" /\ resp = NoResp
    BY <1>1 DEF DmInit, DmIInv, DmTypeOK
  <1> QED BY <1>2, <1>3 DEF Flat!FlatInit, Flat!Addr, Flat!Request, Flat!Size, Flat!NoResp,
          Addr, Request, Size, NoResp

\* A clock cycle is one step of the unbuffered memory.
LEMMA CycleRefines ==
    ASSUME DmIInv, NEW req \in Request, NEW wr \in CoreData, Cycle(req, wr)
    PROVE  Flat!FlatNext
  <1>1. /\ ex' \in Flat!Request /\ wbb_request(req, wdm_wr(wr))
        /\ wdm_wr(wr) \in Word
    BY WriteDataType
       DEF Cycle, DmIInv, Flat!Request, Flat!Size, Flat!Addr, Request, Size, Addr
  <1>2. ex.op \in {"ld", "st", "nop"}
    BY DEF DmIInv, DmTypeOK, Request
  <1>3. CASE ex.op = "ld"
    <2>1. PICK edm_rd \in {eDM[edm_rd_addr], eDM'[edm_rd_addr]} :
              resp' = CoreResp(merge_rd(wbb_result(edm_rd), ex.sz))
      BY <1>3 DEF Cycle
    <2>2. resp' = CoreResp([i \in 0 .. ex.sz - 1 |-> ArchMem[ex.addr + i]])
      BY <1>1, <1>3, <2>1, LoadAnswer
    <2>3. ArchMem' = ArchMem
      BY <1>1, <1>3, NoStoreKeepsMem
    <2> QED BY <1>1, <1>3, <2>2, <2>3
            DEF Flat!FlatNext, Flat!FlatLoad, Flat!Bytes, Flat!CoreResp, CoreResp
  <1>4. CASE ex.op = "nop"
    <2>1. ArchMem' = ArchMem /\ resp' = NoResp
      BY <1>1, <1>4, NoStoreKeepsMem DEF Cycle
    <2> QED BY <1>1, <1>4, <2>1 DEF Flat!FlatNext, Flat!FlatIdle, Flat!NoResp, NoResp
  <1>5. CASE ex.op = "st"
    <2>1. wr \in Flat!Data(ex.sz) /\ resp' = NoResp
      BY <1>5 DEF CoreData, Cycle, Data, Flat!Data
    <2>3. ArchMem' = [a \in Addr |-> IF a \in ex.addr .. ex.addr + ex.sz - 1
                                     THEN wr[a - ex.addr] ELSE ArchMem[a]]
      BY <1>1, <1>5, StoreChangesMem
    <2> QED BY <1>1, <1>5, <2>1, <2>3
            DEF Flat!FlatNext, Flat!FlatStore, Flat!NoResp, NoResp, Flat!Addr, Addr
  <1> QED BY <1>2, <1>3, <1>4, <1>5

\* A debug read sees the users' contents.
LEMMA DbgReadRefines ==
    ASSUME DmIInv, NEW a \in DbgAddr, DbgRead(a)
    PROVE  Flat!FlatNext
  <1>1. a \in Addr
    BY DbgAddrIsAddr
  <1>2. ArchMem' = ArchMem /\ ex' = ex
    BY DEF DbgRead, ArchMem, DbgHit, delayVars
  <1>3. resp' = DbgResp(ArchMem[a])
    BY <1>1 DEF DbgRead, ArchMem
  <1> QED BY <1>1, <1>2, <1>3
          DEF Flat!FlatNext, Flat!FlatDbgRead, Flat!DbgResp, DbgResp, Flat!Addr, Addr

\* A debug write changes one byte of the users' contents, even if the byte
\* is in the buffer.
LEMMA DbgWriteRefines ==
    ASSUME DmIInv, NEW a \in DbgAddr, NEW b \in Byte, DbgWrite(a, b)
    PROVE  Flat!FlatNext
  <1>1. a \in Addr /\ RowOf(a) \in Row /\ ColOf(a) \in Lane
    BY DbgAddrIsAddr, AddrSplit
  <1>2. ASSUME NEW r \in Row, NEW l \in Lane
        PROVE  View(r, l)' = IF r = RowOf(a) /\ l = ColOf(a) THEN b ELSE View(r, l)
    <2>1. /\ edm_wbb_ff' = edm_wbb_ff /\ edm_addr_ff' = edm_addr_ff
          /\ edm_strb_ff' = edm_strb_ff
      BY DEF DbgWrite, delayVars
    <2>2. eDM'[r][l] = IF r = RowOf(a) /\ l = ColOf(a) THEN b ELSE eDM[r][l]
      BY <1>1, <1>2 DEF DbgWrite, DmIInv, DmTypeOK, Word
    <2>3. edm_data_ff'[l] = IF DbgHit(a) /\ l = ColOf(a) THEN b ELSE edm_data_ff[l]
      BY <1>1, <1>2 DEF DbgWrite, DmIInv, DmTypeOK, Word
    <2> QED BY <2>1, <2>2, <2>3 DEF View, DbgHit
  <1>3. ASSUME NEW c \in Addr
        PROVE  ArchMem'[c] = IF c = a THEN b ELSE ArchMem[c]
    <2>1. c = a <=> RowOf(c) = RowOf(a) /\ ColOf(c) = ColOf(a)
      BY <1>1, <1>3, AddrSplit
    <2>2. RowOf(c) \in Row /\ ColOf(c) \in Lane
      BY <1>3, AddrSplit
    <2>3. View(RowOf(c), ColOf(c))' = IF RowOf(c) = RowOf(a) /\ ColOf(c) = ColOf(a)
                                      THEN b ELSE View(RowOf(c), ColOf(c))
      BY <1>2, <2>2 DEF RowOf, ColOf
    <2> QED BY <1>3, <2>1, <2>3, ArchMemView
  <1>4. ArchMem' = [ArchMem EXCEPT ![a] = b]
    BY <1>1, <1>3 DEF ArchMem
  <1>5. resp' = NoResp /\ ex' = ex
    BY DEF DbgWrite
  <1> QED BY <1>1, <1>4, <1>5
          DEF Flat!FlatNext, Flat!FlatDbgWrite, Flat!NoResp, NoResp, Flat!Addr, Addr

\* The merging interface and the write-back buffer, with the debugger beside
\* them, implement the unbuffered byte memory of trv32p3.n: a load in EX gets
\* the bytes of the latest store to each of them, however the two overlap.
THEOREM DmRefinement == DmSpec => FlatMemory
  <1>1. DmIInv /\ [DmNext]_dmVars => [Flat!FlatNext]_(Flat!flatVars)
    <2> SUFFICES ASSUME DmIInv, [DmNext]_dmVars PROVE [Flat!FlatNext]_(Flat!flatVars)
      OBVIOUS
    <2>1. CASE UNCHANGED dmVars
      <3>1. ArchMem' = ArchMem /\ ex' = ex /\ resp' = resp
        BY <2>1 DEF dmVars, delayVars, ArchMem, DbgHit
      <3> QED BY <3>1 DEF Flat!flatVars
    <2>2. CASE DmNext
      BY <2>2, CycleRefines, DbgReadRefines, DbgWriteRefines, AccessIsRequest DEF DmNext
    <2> QED BY <2>1, <2>2
  <1> QED BY <1>1, DmInitRefines, DmInvariant, PTL DEF DmSpec, FlatMemory, Flat!FlatSpec

----------------------------------------------------------------------------
(* Words and instructions.                                                 *)

\* Addresses are words, and sums of even addresses are even.
LEMMA PlusWord ==
    ASSUME NEW a \in Words, NEW b \in Words
    PROVE  /\ Plus(a, b) \in Words
           /\ a % 2 = 0 /\ b % 2 = 0 => Plus(a, b) % 2 = 0
  <1>1. Plus(a, b) = IF a + b < WordLimit THEN a + b ELSE a + b - WordLimit
    BY WordLimitOK DEF Plus, Words
  <1> QED BY <1>1, WordLimitOK DEF Words

\* Clearing the LSB of a word.
LEMMA ClearLSBWord ==
    ASSUME NEW a \in Words
    PROVE  /\ ClearLSB(a) \in Words /\ ClearLSB(a) % 2 = 0
           /\ a % 2 = 0 => ClearLSB(a) = a
  BY WordLimitOK DEF ClearLSB, Words

\* Four is a word.
LEMMA FourIsWord == 4 \in Words /\ 0 \in Words
  BY WordLimitOK DEF Words

\* What a stage can hold.
LEMMA StageContents ==
    ASSUME NEW i \in Insns \cup {Bubble}
    PROVE  /\ i.kind \in {"alu", "ld", "st", "br", "jal", "jalr", "bubble"}
           /\ i.kind = "bubble" <=> i = Bubble
           /\ i.kind = "alu" => /\ i.fn \in AluFn /\ i.rd \in Reg /\ i.rs1 \in Reg
                                /\ i.rs2 \in Reg /\ i.imm \in Words
           /\ i.kind = "ld" => /\ i.sz \in Size /\ i.sgn \in BOOLEAN /\ i.rd \in Reg
                               /\ i.rs1 \in Reg /\ i.imm \in Words
           /\ i.kind = "st" => /\ i.sz \in Size /\ i.rs1 \in Reg /\ i.rs2 \in Reg
                               /\ i.imm \in Words
           /\ i.kind = "br" => /\ i.fn \in CmpFn /\ i.rs1 \in Reg /\ i.rs2 \in Reg
                               /\ i.imm \in Words /\ i.imm % 2 = 0
           /\ i.kind = "jal" => i.rd \in Reg /\ i.imm \in Words /\ i.imm % 2 = 0
           /\ i.kind = "jalr" => i.rd \in Reg /\ i.rs1 \in Reg /\ i.imm \in Words
  BY DEF Insns, Bubble, AluInsn, LdInsn, StInsn, BrInsn, JalInsn, JalrInsn, Offset, Size

----------------------------------------------------------------------------
(* The core as a user of its data memory.                                  *)

\* The core announces legal accesses only.
LEMMA RequestOK ==
    ASSUME TypeOK, AccessAligned
    PROVE  dm_request \in Request
  <1>1. Addr = Words
    BY AddrIsWord DEF Addr, Words
  <1>2. CASE Advances /\ ReadsInID(id)
    <2>1. /\ id.kind \in {"ld", "st"} /\ id.sz \in Size /\ id.rs1 \in Reg /\ id.imm \in Words
      BY <1>2, StageContents DEF TypeOK, ReadsInID
    <2>2. Plus(X[id.rs1], id.imm) \in Words
      BY <2>1, PlusWord DEF TypeOK
    <2> QED BY <1>1, <1>2, <2>1, <2>2 DEF dm_request, Request, AccessAligned
  <1>3. CASE ~ (Advances /\ ReadsInID(id))
    BY <1>1, <1>3, FourIsWord DEF dm_request, Request, Size
  <1> QED BY <1>2, <1>3

\* The core drives the data of the store that is in EX.
LEMMA WriteOK ==
    ASSUME TypeOK, AccessIsEX
    PROVE  dm_wr \in CoreData
  <1>1. CASE exi.kind = "st"
    <2>1. ex.op = "st" /\ ex.sz = exi.sz /\ exi.sz \in Size /\ exi.rs2 \in Reg
      BY <1>1, StageContents DEF TypeOK, AccessIsEX
    <2> QED BY <1>1, <2>1, StoreBytesOK DEF dm_wr, CoreData, TypeOK
  <1>2. CASE exi.kind # "st"
    <2>1. ex.op # "st"
      BY <1>2 DEF AccessIsEX
    <2> QED BY <1>2, <2>1, ZeroIsByte DEF dm_wr, CoreData, Data
  <1> QED BY <1>1, <1>2

\* What stage EX of a load gets: the bytes that the users see at the address
\* that its base register gives now.
LEMMA LoadOK ==
    ASSUME SysInv, ClockCycle, exi.kind = "ld"
    PROVE  /\ ex.op = "ld"
           /\ resp'.val \in Data(exi.sz)
           /\ resp'.val = [n \in 0 .. exi.sz - 1 |-> ArchMem[Plus(X[exi.rs1], exi.imm) + n]]
  <1>1. /\ ex.op = "ld" /\ ex.sz = exi.sz /\ ex.addr = Plus(X[exi.rs1], exi.imm)
        /\ DmIInv /\ DmTypeOK
    BY DEF SysInv, AccessIsEX, DmIInv
  <1>2. dm_request \in Request /\ Cycle(dm_request, dm_wr)
    BY RequestOK DEF SysInv, ClockCycle
  <1>3. wbb_request(dm_request, wdm_wr(dm_wr)) /\ dm_wr \in CoreData
    BY <1>2, WriteOK DEF Cycle, SysInv
  <1>4. PICK edm_rd \in {eDM[edm_rd_addr], eDM'[edm_rd_addr]} :
            resp' = CoreResp(merge_rd(wbb_result(edm_rd), ex.sz))
    BY <1>1, <1>2 DEF Cycle
  <1>5. edm_rd \in Word
    <2>1. DmIInv'
      BY <1>1, <1>2, <1>3, DmCycleIInv
    <2> QED BY <1>1, <2>1 DEF DmIInv, DmTypeOK
  <1>6. merge_rd(wbb_result(edm_rd), ex.sz) \in Data(ex.sz)
    BY <1>1, <1>5, ReadDataType
  <1>7. merge_rd(wbb_result(edm_rd), ex.sz) = [n \in 0 .. ex.sz - 1 |-> ArchMem[ex.addr + n]]
    BY <1>1, <1>2, <1>3, LoadAnswer
  <1>8. resp'.val = merge_rd(wbb_result(edm_rd), ex.sz)
    BY <1>4 DEF CoreResp
  <1> QED BY <1>1, <1>6, <1>7, <1>8

----------------------------------------------------------------------------
(* The inductive invariant.                                                *)

\* The reset state satisfies it.
LEMMA InitInv == Init => SysInv
  <1> SUFFICES ASSUME Init PROVE SysInv
    OBVIOUS
  <1>1. DmIInv /\ DmTypeOK
    BY DmInitIInv DEF Init, DmIInv
  <1>2. TypeOK
    BY <1>1, FourIsWord DEF Init, CoreInit, TypeOK
  <1>3. ex.op = "nop"
    BY DEF Init, DmInit
  <1> QED BY <1>1, <1>2, <1>3 DEF Init, CoreInit, SysInv, PcPipeline, LinkIsNext, InOrder,
          IssueBlocked, EvenPC, AccessIsEX, Bubble

\* Every address holds an instruction: the program memory wraps.
LEMMA FetchOK ==
    ASSUME TypeOK, NEW p \in Words
    PROVE  InsnAt(p) \in Insns
  <1>1. p \div 4 \in Nat
    BY WordLimitOK DEF Words
  <1>2. (p \div 4) % NumWords \in 0 .. NumWords - 1
    BY <1>1, NumWordsOK
  <1> QED BY <1>2, ProgramsOK DEF TypeOK, InsnAt

\* user_next_pc computes an even word.
LEMMA NextPcOK ==
    ASSUME SysInv
    PROVE  next_pc \in Words /\ next_pc % 2 = 0
  <1>1. /\ PC \in Words /\ pif_PC \in Words /\ pid_PC \in Words /\ X \in [Reg -> Words]
        /\ id \in Insns \cup {Bubble} /\ exi \in Insns \cup {Bubble} /\ PC % 2 = 0
    BY DEF SysInv, TypeOK, EvenPC
  <1>2. CASE br_EX
    <2>1. exi.kind = "br" /\ pid_PC % 2 = 0 /\ exi.imm \in Words /\ exi.imm % 2 = 0
      BY <1>1, <1>2, StageContents DEF br_EX, Taken, SysInv, PcPipeline, EvenPC
    <2>2. next_pc = Plus(pid_PC, exi.imm)
      BY <1>2 DEF next_pc, jump_pc
    <2> QED BY <1>1, <2>1, <2>2, PlusWord
  <1>3. CASE ~ br_EX /\ jal_ID
    <2>1. id.kind = "jal" /\ id # Bubble /\ id.imm \in Words /\ id.imm % 2 = 0
      BY <1>1, <1>3, StageContents DEF jal_ID
    <2>2. pif_PC % 2 = 0
      BY <2>1 DEF SysInv, PcPipeline, EvenPC
    <2>3. next_pc = Plus(pif_PC, id.imm)
      BY <1>3 DEF next_pc, jump_pc
    <2> QED BY <1>1, <2>1, <2>2, <2>3, PlusWord
  <1>4. CASE ~ br_EX /\ ~ jal_ID /\ jalr_EX
    <2>1. exi.rs1 \in Reg /\ exi.imm \in Words
      BY <1>1, <1>4, StageContents DEF jalr_EX
    <2>2. next_pc = ClearLSB(Plus(X[exi.rs1], exi.imm))
      BY <1>4 DEF next_pc, jump_pc
    <2> QED BY <1>1, <2>1, <2>2, PlusWord, ClearLSBWord
  <1>5. CASE ~ br_EX /\ ~ jal_ID /\ ~ jalr_EX
    <2>1. next_pc \in {PC, Plus(PC, 4)}
      BY <1>5 DEF next_pc, jump_pc
    <2> QED BY <1>1, <2>1, PlusWord, FourIsWord
  <1> QED BY <1>2, <1>3, <1>4, <1>5

\* Stage EX writes words.
LEMMA ResultOK ==
    ASSUME SysInv, ClockCycle
    PROVE  X' \in [Reg -> Words]
  <1> DEFINE ld == IF ex.op = "ld" THEN resp'.val ELSE <<>>
  <1>1. StageEX(ld)
    BY DEF ClockCycle, CoreCycle
  <1> HIDE DEF ld
  <1>2. /\ PC \in Words /\ pid_PC \in Words /\ pid_D1 \in Words /\ X \in [Reg -> Words]
        /\ exi \in Insns \cup {Bubble}
    BY DEF SysInv, TypeOK
  <1>3. CASE Writes(exi)
    <2>1. exi.rd \in Reg
      BY <1>2, <1>3, StageContents DEF Writes
    <2>2. ExResult(ld) \in Words
      <3>1. CASE exi.kind = "alu"
        <4>1. OperandA(exi, X, pid_PC) \in Words /\ OperandB(exi, X) \in Words
          BY <1>2, <3>1, StageContents, FourIsWord DEF OperandA, OperandB
        <4>2. exi.fn \in AluFn
          BY <1>2, <3>1, StageContents
        <4> QED BY <3>1, <4>1, <4>2, AluOK DEF ExResult, AluResult
      <3>2. CASE exi.kind = "ld"
        <4>1. ld \in Data(exi.sz)
          BY <3>2, LoadOK DEF ld
        <4>2. exi.sz \in Size /\ exi.sgn \in BOOLEAN
          BY <1>2, <3>2, StageContents
        <4> QED BY <3>2, <4>1, <4>2, LoadValueOK DEF ExResult
      <3>3. CASE exi.kind \in {"jal", "jalr"}
        BY <1>2, <3>3 DEF ExResult
      <3> QED BY <1>3, <3>1, <3>2, <3>3 DEF Writes
    <2> QED BY <1>1, <1>2, <1>3, <2>1, <2>2 DEF StageEX
  <1>4. CASE ~ Writes(exi)
    BY <1>1, <1>2, <1>4 DEF StageEX
  <1> QED BY <1>3, <1>4

\* A cycle keeps all state in range.
LEMMA StepType ==
    ASSUME SysInv, ClockCycle
    PROVE  TypeOK' /\ DmIInv' /\ EvenPC'
  <1>1. TypeOK /\ PcPipeline /\ EvenPC /\ StageID /\ user_issue /\ user_next_pc /\ PM' = PM
    BY DEF SysInv, ClockCycle, CoreCycle
  <1>2. DmIInv' /\ DmTypeOK'
    BY RequestOK, WriteOK, DmCycleIInv DEF SysInv, ClockCycle, DmIInv
  <1>3. next_pc \in Words /\ next_pc % 2 = 0
    BY NextPcOK
  <1>4. pm_rd \in Insns
    BY <1>1, FetchOK DEF TypeOK, pm_rd, InsnAt
  <1>5. IssueDelay(pm_rd) \in 0 .. 2
    BY DEF IssueDelay
  <1>6. /\ id' \in Insns \cup {Bubble} /\ idpc' \in Words /\ pif_PC' \in Words
        /\ issue_blk' \in 0 .. 2 /\ idpc' % 2 = 0
    BY <1>1, <1>4, <1>5 DEF TypeOK, user_issue, PcPipeline, EvenPC
  <1>7. /\ exi' \in Insns \cup {Bubble} /\ expc' \in Words /\ pid_PC' \in Words
        /\ pid_D1' \in Words /\ expc' % 2 = 0
    BY <1>1 DEF TypeOK, StageID, EvenPC
  <1>8. X' \in [Reg -> Words]
    BY ResultOK
  <1> QED BY <1>1, <1>2, <1>3, <1>6, <1>7, <1>8 DEF TypeOK, user_next_pc, EvenPC

\* A cycle keeps instructions, addresses and link values together.
LEMMA StepPipe ==
    ASSUME SysInv, ClockCycle
    PROVE  PcPipeline' /\ LinkIsNext' /\ InOrder' /\ IssueBlocked'
  <1>1. /\ TypeOK /\ PcPipeline /\ LinkIsNext /\ InOrder /\ IssueBlocked
        /\ StageID /\ user_issue /\ user_next_pc /\ PM' = PM
    BY DEF SysInv, ClockCycle, CoreCycle
  <1>2. /\ id.kind \in {"alu", "ld", "st", "br", "jal", "jalr", "bubble"}
        /\ id.kind = "bubble" <=> id = Bubble
        /\ exi.kind \in {"alu", "ld", "st", "br", "jal", "jalr", "bubble"}
        /\ exi.kind = "bubble" <=> exi = Bubble
    BY <1>1, StageContents DEF TypeOK
  <1>3. pm_rd = InsnAt(PC) /\ pm_rd # Bubble /\ pm_rd.kind # "bubble"
    <2>1. pm_rd = InsnAt(PC)
      BY <1>1 DEF pm_rd, InsnAt, PcPipeline
    <2>2. InsnAt(PC) \in Insns
      BY <1>1, FetchOK DEF TypeOK
    <2>3. InsnAt(PC).kind # "bubble"
      BY <2>2 DEF Insns, AluInsn, LdInsn, StInsn, BrInsn, JalInsn, JalrInsn
    <2> QED BY <2>1, <2>3 DEF Bubble
  <1>4. \A p : InsnAt(p)' = InsnAt(p)
    BY <1>1 DEF InsnAt
  <1>5. PC' = next_pc /\ pm_addr' = next_pc /\ r_booting' = FALSE
    BY <1>1 DEF user_next_pc
  <1>6. Bubble.kind = "bubble"
    BY DEF Bubble
  <1>7. hw_stall => id.kind \in {"ld", "st"} /\ exi # Bubble /\ ~ jalr_EX /\ ~ jal_ID /\ ~ r_booting
    BY <1>1, <1>2 DEF hw_stall, ReadsInID, Writes, jalr_EX, jal_ID, LinkIsNext, IssueBlocked
  \* A taken branch empties both stages.
  <1>8. CASE br_EX
    <2>1. id' = Bubble /\ exi' = Bubble
      BY <1>1, <1>8 DEF user_issue, issue_ins, StageID, Advances
    <2> QED BY <1>5, <1>6, <2>1 DEF PcPipeline, LinkIsNext, InOrder, IssueBlocked
  \* A stall holds ID and the PC.
  <1>9. CASE ~ br_EX /\ hw_stall
    <2>1. /\ id' = id /\ idpc' = idpc /\ pif_PC' = pif_PC /\ exi' = Bubble
          /\ issue_blk' = 0
      BY <1>1, <1>2, <1>7, <1>9 DEF user_issue, issue_ins, StageID, Advances, IssueBlocked
    <2>2. next_pc = PC
      BY <1>7, <1>9 DEF next_pc, issue_ins
    <2> QED BY <1>1, <1>2, <1>4, <1>5, <1>6, <1>7, <1>9, <2>1, <2>2
            DEF PcPipeline, LinkIsNext, InOrder, IssueBlocked
  \* A jump moves to EX and nothing is issued behind it.
  <1>10. CASE ~ br_EX /\ ~ hw_stall /\ id.kind \in {"jal", "jalr"}
    <2>1. /\ Advances /\ ~ issue_ins /\ ~ jalr_EX /\ ~ r_booting
          /\ id # Bubble
      BY <1>1, <1>2, <1>10 DEF Advances, issue_ins, jalr_EX, LinkIsNext, IssueBlocked
    <2>2. /\ id' = Bubble /\ exi' = id /\ expc' = idpc
          /\ issue_blk' = issue_blk - 1
          /\ id.kind = "jal" => pid_D1' = PC
      BY <1>1, <1>10, <2>1 DEF user_issue, StageID, IssueBlocked
    <2>3. /\ id.kind = "jal" => next_pc = Plus(pif_PC, id.imm)
          /\ id.kind = "jalr" => next_pc = PC
      BY <1>10, <2>1 DEF next_pc, jump_pc, jal_ID
    <2>4. PcPipeline' /\ IssueBlocked'
      BY <1>1, <1>5, <1>6, <1>10, <2>1, <2>2 DEF PcPipeline, IssueBlocked
    <2>5. PC = Plus(idpc, 4) /\ pif_PC = idpc /\ id = InsnAt(idpc)
      BY <1>1, <2>1 DEF InOrder, PcPipeline
    <2>6. LinkIsNext' /\ InOrder'
      BY <1>4, <1>5, <1>6, <1>10, <2>2, <2>3, <2>5 DEF LinkIsNext, InOrder
    <2> QED BY <2>4, <2>6
  \* Any other instruction moves to EX and its successor is issued.
  <1>11. CASE ~ br_EX /\ ~ hw_stall /\ id # Bubble /\ id.kind \notin {"jal", "jalr"}
    <2>1. Advances /\ issue_ins /\ ~ jalr_EX /\ ~ jal_ID /\ ~ r_booting
      BY <1>1, <1>2, <1>11 DEF Advances, issue_ins, jalr_EX, jal_ID, LinkIsNext, IssueBlocked
    <2>2. /\ id' = pm_rd /\ idpc' = PC /\ pif_PC' = PC /\ issue_blk' = IssueDelay(pm_rd)
          /\ exi' = id /\ expc' = idpc
          /\ id.kind = "br" \/ (id.kind = "alu" /\ id.a = "pc") => pid_PC' = pif_PC
      BY <1>1, <2>1 DEF user_issue, StageID, PcPipeline
    <2>3. next_pc = Plus(PC, 4)
      BY <1>11, <2>1 DEF next_pc
    <2>4. PC = Plus(idpc, 4) /\ pif_PC = idpc /\ id = InsnAt(idpc)
      BY <1>1, <2>1, <1>11 DEF InOrder, PcPipeline
    <2>5. PcPipeline' /\ LinkIsNext'
      BY <1>5, <1>11, <2>2, <2>3, <2>4 DEF PcPipeline, LinkIsNext
    <2>6. InOrder'
      BY <1>3, <1>4, <1>5, <1>11, <2>2, <2>3, <2>4 DEF InOrder
    <2>7. IssueBlocked'
      BY <1>3, <1>5, <1>11, <2>2 DEF IssueBlocked, IssueDelay
    <2> QED BY <2>5, <2>6, <2>7
  \* ID is empty, and something may be issued.
  <1>12. CASE ~ br_EX /\ ~ hw_stall /\ id = Bubble
    <2>1. exi' = Bubble /\ ~ jal_ID
      BY <1>1, <1>6, <1>12 DEF StageID, Advances, jal_ID
    <2>2. CASE issue_ins
      <3>1. /\ id' = pm_rd /\ idpc' = PC /\ pif_PC' = PC /\ issue_blk' = IssueDelay(pm_rd)
        BY <1>1, <2>2 DEF user_issue, PcPipeline
      <3>2. next_pc = Plus(PC, 4)
        BY <1>1, <1>12, <2>1, <2>2 DEF next_pc, issue_ins, jalr_EX, IssueBlocked
      <3>3. PcPipeline' /\ LinkIsNext'
        BY <1>5, <1>6, <2>1, <3>1, <3>2 DEF PcPipeline, LinkIsNext
      <3>4. InOrder'
        BY <1>3, <1>4, <1>5, <1>6, <2>1, <3>1, <3>2 DEF InOrder
      <3>5. IssueBlocked'
        BY <1>3, <1>5, <1>6, <2>1, <3>1 DEF IssueBlocked, IssueDelay
      <3> QED BY <3>3, <3>4, <3>5
    <2>3. CASE ~ issue_ins
      <3>1. id' = Bubble
        BY <1>1, <1>12, <2>3 DEF user_issue
      <3> QED BY <1>5, <1>6, <2>1, <3>1 DEF PcPipeline, LinkIsNext, InOrder, IssueBlocked
    <2> QED BY <2>2, <2>3
  <1> QED BY <1>8, <1>9, <1>10, <1>11, <1>12

\* The access that ID announces is the one that EX will complete: no write of
\* this cycle changes the base register, or else the stall rule held ID.
LEMMA StepAccess ==
    ASSUME SysInv, ClockCycle
    PROVE  AccessIsEX'
  <1>1. /\ TypeOK /\ StageID /\ ex' = dm_request
        /\ X' = X \/ (Writes(exi) /\ \E v : X' = [X EXCEPT ![exi.rd] = v])
    BY DEF SysInv, ClockCycle, CoreCycle, StageEX, Cycle
  <1>2. CASE Advances /\ ReadsInID(id)
    <2>1. /\ exi' = id /\ id.kind \in {"ld", "st"} /\ id.rs1 \in Reg
          /\ ex' = [op |-> id.kind, sz |-> id.sz, addr |-> Plus(X[id.rs1], id.imm)]
      BY <1>1, <1>2, StageContents DEF StageID, ReadsInID, dm_request, TypeOK
    <2>2. X'[id.rs1] = X[id.rs1]
      BY <1>1, <1>2, <2>1 DEF Advances, hw_stall, TypeOK
    <2> QED BY <2>1, <2>2 DEF AccessIsEX, Plus
  <1>3. CASE ~ (Advances /\ ReadsInID(id))
    <2>1. exi'.kind \notin {"ld", "st"}
      BY <1>1, <1>3 DEF StageID, ReadsInID, Bubble
    <2> QED BY <1>1, <1>3, <2>1 DEF AccessIsEX, dm_request
  <1> QED BY <1>2, <1>3

\* Every step preserves the invariant.
LEMMA NextInv == SysInv /\ [Next]_vars => SysInv'
  <1> SUFFICES ASSUME SysInv, [Next]_vars PROVE SysInv'
    OBVIOUS
  <1>1. CASE Next
    BY <1>1, StepType, StepPipe, StepAccess DEF Next, SysInv
  <1>2. CASE UNCHANGED vars
    BY <1>2 DEF vars, coreVars, pcuVars, dmVars, mergeVars, delayVars, SysInv, TypeOK,
       DmIInv, DmTypeOK, OneStorePending, DelayedStoreIsEx, LoadIsEx, st_wdm, Response,
       PcPipeline, LinkIsNext, InOrder, InsnAt, IssueBlocked, EvenPC, AccessIsEX
  <1> QED BY <1>1, <1>2

\* In every reachable state the stages hold consecutive instructions of the
\* program with their addresses, jumps hold back their successors until the
\* PC is redirected, and the memory interface works for the one in EX.
THEOREM Invariant == Spec => []SysInv
  BY InitInv, NextInv, PTL DEF Spec

\* All registers stay in their ranges.
THEOREM TypeCorrect == Spec => []TypeOK
  <1>1. SysInv => TypeOK
    BY DEF SysInv
  <1> QED BY <1>1, Invariant, PTL

\* The PDG_ASSERT of user_next_pc never fails.
THEOREM AssertHolds == Spec => []OneJump
  <1>1. SysInv => OneJump
    BY StageContents DEF SysInv, TypeOK, LinkIsNext, OneJump, br_EX, jalr_EX, jal_ID, Taken
  <1> QED BY <1>1, Invariant, PTL

\* jal and jalr write the address of the instruction behind them.
THEOREM LinkCorrect == Spec => []LinkIsNext
  <1>1. SysInv => LinkIsNext
    BY DEF SysInv
  <1> QED BY <1>1, Invariant, PTL

\* The word that is issued was fetched from the address it is issued with, and
\* pif_PC and pid_PC belong to the instructions that use them, for every program.
THEOREM PipelineCorrect == Spec => []PcPipeline
  <1>1. SysInv => PcPipeline
    BY DEF SysInv
  <1> QED BY <1>1, Invariant, PTL

\* The access that the data memory answers is that of the instruction in EX,
\* although stalled and killed instructions leave their requests out.
THEOREM AccessCorrect == Spec => []AccessIsEX
  <1>1. SysInv => AccessIsEX
    BY DEF SysInv
  <1> QED BY <1>1, Invariant, PTL

----------------------------------------------------------------------------
(* Refinement of the instruction set.                                      *)

\* Two descriptions of the same rules: Isa and Core share them.
LEMMA SameRules ==
    /\ \A a, b : ISA!Plus(a, b) = Plus(a, b)
    /\ \A a : ISA!ClearLSB(a) = ClearLSB(a)
    /\ \A i, R, p : ISA!AluResult(i, R, p) = AluResult(i, R, p)
    /\ \A i, R : ISA!Taken(i, R) = Taken(i, R)
  BY DEF ISA!Plus, Plus, ISA!ClearLSB, ClearLSB, ISA!AluResult, AluResult, ISA!OperandA,
     OperandA, ISA!OperandB, OperandB, ISA!Taken, Taken

\* The memory changes only in a cycle in which a store is in EX.
LEMMA MemStep ==
    ASSUME SysInv, ClockCycle
    PROVE  /\ exi.kind # "st" => ArchMem' = ArchMem
           /\ exi.kind = "st" => ArchMem' =
                  ISA!Stored(Plus(X[exi.rs1], exi.imm), StoreBytes(X[exi.rs2], exi.sz), exi.sz)
  <1>1. /\ DmIInv /\ dm_request \in Request /\ dm_wr \in CoreData
        /\ wbb_request(dm_request, wdm_wr(dm_wr))
    BY RequestOK, WriteOK DEF SysInv, ClockCycle, Cycle
  <1>2. CASE exi.kind # "st"
    <2>1. ex.op # "st"
      BY <1>2 DEF SysInv, AccessIsEX
    <2> QED BY <1>1, <1>2, <2>1, NoStoreKeepsMem
  <1>3. CASE exi.kind = "st"
    <2>1. /\ ex.op = "st" /\ ex.sz = exi.sz /\ ex.addr = Plus(X[exi.rs1], exi.imm)
          /\ dm_wr = StoreBytes(X[exi.rs2], exi.sz)
      BY <1>3 DEF SysInv, AccessIsEX, dm_wr
    <2>2. ArchMem' = [a \in Addr |-> IF a \in ex.addr .. ex.addr + ex.sz - 1
                                     THEN dm_wr[a - ex.addr] ELSE ArchMem[a]]
      BY <1>1, <2>1, StoreChangesMem
    <2>3. DOMAIN ArchMem = Addr
      BY DEF ArchMem
    <2> QED BY <1>3, <2>1, <2>2, <2>3 DEF ISA!Stored
  <1> QED BY <1>2, <1>3

\* A cycle in which EX is empty completes nothing.
LEMMA BubbleStutters ==
    ASSUME SysInv, ClockCycle, exi = Bubble
    PROVE  UNCHANGED ISA!isaVars
  <1>1. /\ TypeOK /\ PcPipeline /\ IssueBlocked
        /\ StageID /\ user_issue /\ user_next_pc /\ PM' = PM
    BY DEF SysInv, ClockCycle, CoreCycle
  <1>2. ~ br_EX /\ ~ hw_stall /\ ~ jalr_EX /\ X' = X /\ ArchMem' = ArchMem
    BY MemStep DEF ClockCycle, CoreCycle, StageEX, Writes, Bubble, br_EX, Taken, hw_stall, jalr_EX
  <1>3. CASE id # Bubble
    <2>1. exi' = id /\ expc' = idpc
      BY <1>1, <1>2, <1>3 DEF StageID, Advances
    <2> QED BY <1>1, <1>2, <1>3, <2>1 DEF ArchPC, ISA!isaVars
  <1>4. CASE id = Bubble /\ issue_ins
    <2>1. pm_rd \in Insns
      BY <1>1, FetchOK DEF TypeOK, pm_rd, InsnAt
    <2>2. pm_rd # Bubble
      BY <2>1 DEF Insns, AluInsn, LdInsn, StInsn, BrInsn, JalInsn, JalrInsn, Bubble
    <2>3. exi' = Bubble /\ id' = pm_rd /\ idpc' = PC
      BY <1>1, <1>4 DEF StageID, Advances, user_issue, PcPipeline
    <2> QED BY <1>1, <1>2, <1>4, <2>2, <2>3 DEF ArchPC, ISA!isaVars
  <1>5. CASE id = Bubble /\ ~ issue_ins
    <2>1. exi' = Bubble /\ id' = Bubble
      BY <1>1, <1>2, <1>5 DEF StageID, Advances, user_issue
    <2>2. PC' = PC
      BY <1>1, <1>2, <1>5 DEF user_next_pc, next_pc, jump_pc, jal_ID, Bubble
    <2> QED BY <1>1, <1>2, <1>5, <2>1, <2>2 DEF ArchPC, ISA!isaVars
  <1> QED BY <1>3, <1>4, <1>5

\* When an instruction completes, the oldest one left is its successor.
LEMMA NextArchPC ==
    ASSUME SysInv, ClockCycle, exi # Bubble
    PROVE  ArchPC' = IF br_EX THEN Plus(expc, exi.imm)
                     ELSE IF exi.kind = "jal" THEN Plus(expc, exi.imm)
                     ELSE IF exi.kind = "jalr" THEN ClearLSB(Plus(X[exi.rs1], exi.imm))
                     ELSE Plus(expc, 4)
  <1>1. /\ TypeOK /\ PcPipeline /\ LinkIsNext /\ InOrder /\ IssueBlocked
        /\ StageID /\ user_issue /\ user_next_pc
    BY DEF SysInv, ClockCycle, CoreCycle
  <1>2. ~ r_booting
    BY <1>1 DEF IssueBlocked
  <1>3. CASE br_EX
    <2>1. exi.kind = "br" /\ pid_PC = expc
      BY <1>1, <1>3 DEF br_EX, Taken, PcPipeline
    <2>2. exi' = Bubble /\ id' = Bubble /\ PC' = Plus(expc, exi.imm)
      BY <1>1, <1>3, <2>1
         DEF StageID, Advances, user_issue, issue_ins, user_next_pc, next_pc, jump_pc
    <2> QED BY <1>3, <2>2 DEF ArchPC
  <1>4. CASE ~ br_EX /\ exi.kind = "jal"
    <2>1. id = Bubble /\ issue_blk = 0 /\ PC = Plus(expc, exi.imm) /\ ~ hw_stall
      BY <1>1, <1>4 DEF LinkIsNext, IssueBlocked, InOrder, hw_stall, ReadsInID, Bubble
    <2>2. pm_rd \in Insns
      BY <1>1, FetchOK DEF TypeOK, pm_rd, InsnAt
    <2>3. pm_rd # Bubble
      BY <2>2 DEF Insns, AluInsn, LdInsn, StInsn, BrInsn, JalInsn, JalrInsn, Bubble
    <2>4. exi' = Bubble /\ id' = pm_rd /\ idpc' = PC
      BY <1>1, <1>2, <1>4, <2>1 DEF StageID, Advances, user_issue, issue_ins, PcPipeline
    <2> QED BY <1>4, <2>1, <2>3, <2>4 DEF ArchPC
  <1>5. CASE ~ br_EX /\ exi.kind = "jalr"
    <2>1. id = Bubble /\ issue_blk = 1 /\ ~ hw_stall /\ ~ jal_ID
      BY <1>1, <1>5 DEF LinkIsNext, IssueBlocked, hw_stall, ReadsInID, jal_ID, Bubble
    <2>2. exi' = Bubble /\ id' = Bubble
      BY <1>1, <1>5, <2>1 DEF StageID, Advances, user_issue, issue_ins
    <2>3. PC' = ClearLSB(Plus(X[exi.rs1], exi.imm))
      BY <1>1, <1>5, <2>1 DEF user_next_pc, next_pc, jump_pc, jalr_EX
    <2> QED BY <1>5, <2>2, <2>3 DEF ArchPC
  <1>6. CASE ~ br_EX /\ exi.kind \notin {"jal", "jalr"}
    <2>1. id # Bubble /\ idpc = Plus(expc, 4)
      BY <1>1, <1>6 DEF InOrder
    <2>2. CASE hw_stall
      <3>1. exi' = Bubble /\ id' = id /\ idpc' = idpc
        BY <1>1, <1>6, <2>2 DEF StageID, Advances, user_issue, issue_ins
      <3> QED BY <1>6, <2>1, <3>1 DEF ArchPC
    <2>3. CASE ~ hw_stall
      <3>1. exi' = id /\ expc' = idpc
        BY <1>1, <1>6, <2>1, <2>3 DEF StageID, Advances
      <3> QED BY <1>6, <2>1, <3>1 DEF ArchPC
    <2> QED BY <2>2, <2>3
  <1> QED BY <1>3, <1>4, <1>5, <1>6

\* A cycle with an instruction in EX executes that instruction.
LEMMA CompletesOne ==
    ASSUME SysInv, ClockCycle, exi # Bubble
    PROVE  ISA!IsaNext
  <1> DEFINE ld == IF ex.op = "ld" THEN resp'.val ELSE <<>>
  <1>1. /\ TypeOK /\ InOrder /\ PcPipeline /\ LinkIsNext /\ EvenPC /\ PM' = PM /\ StageEX(ld)
    BY DEF SysInv, ClockCycle, CoreCycle
  <1>2. ArchPC = expc /\ ISA!Fetched = exi
    BY <1>1 DEF ArchPC, ISA!Fetched, InOrder, InsnAt
  <1>3. /\ expc \in Words /\ expc % 2 = 0 /\ X \in [Reg -> Words]
        /\ exi \in Insns \cup {Bubble}
    BY <1>1 DEF TypeOK, EvenPC
  <1>4. ClearLSB(Plus(expc, 4)) = Plus(expc, 4)
    BY <1>3, PlusWord, ClearLSBWord, FourIsWord
  <1>5. X' = IF Writes(exi) THEN [X EXCEPT ![exi.rd] = ExResult(ld)] ELSE X
    BY <1>1 DEF StageEX
  <1>6. \A v : ISA!Set(exi.rd, v) = IF exi.rd = 0 THEN X ELSE [X EXCEPT ![exi.rd] = v]
    BY DEF ISA!Set
  <1> HIDE DEF ld
  <1>7. CASE exi.kind = "alu"
    <2>1. ArchPC' = Plus(expc, 4) /\ ArchMem' = ArchMem
      BY <1>7, NextArchPC, MemStep DEF br_EX, Taken
    <2>2. X' = ISA!Set(exi.rd, AluResult(exi, X, expc))
      <3>1. AluResult(exi, X, pid_PC) = AluResult(exi, X, expc)
        BY <1>1, <1>7 DEF PcPipeline, AluResult, OperandA
      <3> QED BY <1>5, <1>6, <1>7, <3>1 DEF Writes, ExResult
    <2>3. ISA!IsaAlu(exi)
      BY <1>2, <1>4, <1>7, <2>1, <2>2, SameRules DEF ISA!IsaAlu, ISA!Goto
    <2> QED BY <1>1, <1>2, <2>3 DEF ISA!IsaNext
  <1>8. CASE exi.kind = "ld"
    <2>1. ArchPC' = Plus(expc, 4) /\ ArchMem' = ArchMem
      BY <1>8, NextArchPC, MemStep DEF br_EX, Taken
    <2>2. ld = ISA!Bytes(Plus(X[exi.rs1], exi.imm), exi.sz)
      BY <1>8, LoadOK DEF ld, ISA!Bytes
    <2>3. X' = ISA!Set(exi.rd, LoadValue(exi.sgn, ld))
      BY <1>5, <1>6, <1>8 DEF Writes, ExResult
    <2>4. ISA!IsaLoad(exi)
      BY <1>2, <1>4, <1>8, <2>1, <2>2, <2>3, SameRules DEF ISA!IsaLoad, ISA!Goto
    <2> QED BY <1>1, <1>2, <2>4 DEF ISA!IsaNext
  <1>9. CASE exi.kind = "st"
    <2>1. ArchPC' = Plus(expc, 4) /\ X' = X
      BY <1>5, <1>9, NextArchPC DEF br_EX, Taken, Writes
    <2>2. ArchMem' = ISA!Stored(Plus(X[exi.rs1], exi.imm), StoreBytes(X[exi.rs2], exi.sz), exi.sz)
      BY <1>9, MemStep
    <2>3. ISA!IsaStore(exi)
      BY <1>2, <1>4, <1>9, <2>1, <2>2, SameRules DEF ISA!IsaStore, ISA!Goto
    <2> QED BY <1>1, <1>2, <2>3 DEF ISA!IsaNext
  <1>10. CASE exi.kind = "br"
    <2>1. ArchMem' = ArchMem /\ X' = X
      BY <1>5, <1>10, MemStep DEF Writes
    <2>2. ClearLSB(Plus(expc, exi.imm)) = Plus(expc, exi.imm)
      BY <1>3, <1>10, StageContents, PlusWord, ClearLSBWord
    <2>3. ArchPC' = IF Taken(exi, X) THEN Plus(expc, exi.imm) ELSE Plus(expc, 4)
      BY <1>10, NextArchPC DEF br_EX
    <2>4. ISA!IsaBranch(exi)
      BY <1>2, <1>4, <1>10, <2>1, <2>2, <2>3, SameRules DEF ISA!IsaBranch, ISA!Goto
    <2> QED BY <1>1, <1>2, <2>4 DEF ISA!IsaNext
  <1>11. CASE exi.kind = "jal"
    <2>1. ArchMem' = ArchMem /\ ArchPC' = Plus(expc, exi.imm)
      BY <1>11, MemStep, NextArchPC
    <2>2. ClearLSB(Plus(expc, exi.imm)) = Plus(expc, exi.imm)
      BY <1>3, <1>11, StageContents, PlusWord, ClearLSBWord
    <2>3. X' = ISA!Set(exi.rd, Plus(expc, 4))
      BY <1>1, <1>5, <1>6, <1>11 DEF Writes, ExResult, LinkIsNext
    <2>4. ISA!IsaJal(exi)
      BY <1>2, <1>11, <2>1, <2>2, <2>3, SameRules DEF ISA!IsaJal, ISA!Goto
    <2> QED BY <1>1, <1>2, <2>4 DEF ISA!IsaNext
  <1>12. CASE exi.kind = "jalr"
    <2>1. ArchMem' = ArchMem /\ ArchPC' = ClearLSB(Plus(X[exi.rs1], exi.imm))
      BY <1>12, MemStep, NextArchPC DEF br_EX, Taken
    <2>2. X' = ISA!Set(exi.rd, Plus(expc, 4))
      BY <1>1, <1>5, <1>6, <1>12 DEF Writes, ExResult, LinkIsNext
    <2>3. ISA!IsaJalr(exi)
      BY <1>2, <1>12, <2>1, <2>2, SameRules DEF ISA!IsaJalr, ISA!Goto
    <2> QED BY <1>1, <1>2, <2>3 DEF ISA!IsaNext
  <1> QED BY <1>3, <1>7, <1>8, <1>9, <1>10, <1>11, <1>12, StageContents

\* The pipelined core with its buffered memory implements the sequential
\* instruction set: whatever is stalled, killed, redirected or bypassed,
\* registers, memory and program order are those of the programmer's view.
THEOREM Refinement == Spec => ImplementsISA
  <1>1. Init => ISA!IsaInit
    BY DEF Init, CoreInit, ISA!IsaInit, ArchPC
  <1>2. SysInv /\ [Next]_vars => [ISA!IsaNext]_(ISA!isaVars)
    <2> SUFFICES ASSUME SysInv, [Next]_vars PROVE [ISA!IsaNext]_(ISA!isaVars)
      OBVIOUS
    <2>1. CASE Next
      BY <2>1, BubbleStutters, CompletesOne DEF Next
    <2>2. CASE UNCHANGED vars
      <3>1. UNCHANGED <<PM, ArchPC, X, ArchMem>>
        BY <2>2 DEF vars, coreVars, pcuVars, dmVars, delayVars, ArchPC, ArchMem, DbgHit
      <3> QED BY <3>1 DEF ISA!isaVars
    <2> QED BY <2>1, <2>2
  <1> QED BY <1>1, <1>2, Invariant, PTL DEF Spec, ImplementsISA, ISA!IsaSpec
=============================================================================
