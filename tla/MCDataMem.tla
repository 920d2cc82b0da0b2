----------------------------- MODULE MCDataMem -----------------------------
(* Bounds of the model-checked instance of DataMem: two rows, one bit per  *)
(* byte, and accesses of every size that overlap in row 0 (lanes 1 to 3)   *)
(* and miss it (row 1).                                                    *)
EXTENDS DataMem

MCByte == 0 .. 1

Acc(op, sz, addr) == [op |-> op, sz |-> sz, addr |-> addr]

MCAccess ==
    { Acc("nop", 1, 3),
      Acc("ld", 4, 0), Acc("ld", 2, 2), Acc("ld", 1, 1), Acc("ld", 1, 4),
      Acc("st", 4, 0), Acc("st", 2, 2), Acc("st", 1, 1), Acc("st", 1, 4) }

MCDbgAddr == {1}

MCInitialDM == { [r \in Row |-> [l \in Lane |-> 0]] }
=============================================================================
