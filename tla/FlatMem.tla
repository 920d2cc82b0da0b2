------------------------------ MODULE FlatMem ------------------------------
(***************************************************************************)
(* What the data memory of the trv32p3 core promises its users: the        *)
(* declaration of DMb, DMh and DMw (trv32p3.n), without any buffer.        *)
(*                                                                         *)
(* A byte-addressed memory is accessed in two cycles.  In the first one    *)
(* (stage ID) the core names the access: kind, size and address.  In the   *)
(* second one (stage EX) a load delivers the bytes and a store replaces    *)
(* them.  A debugger may read or write one byte between two cycles.        *)
(***************************************************************************)
EXTENDS Integers

CONSTANTS Byte,     \* the values of one byte
          NumRows   \* the number of 4-byte rows of the memory

VARIABLES mem,   \* [Addr -> Byte], the contents
          ex,    \* the access that is in stage EX
          resp   \* what the last step answered, and to whom

flatVars == <<mem, ex, resp>>

Addr == 0 .. 4 * NumRows - 1
Size == {1, 2, 4}        \* bytes of an access: DMb, DMh, DMw

\* The values that an access of size sz moves, byte 0 first.
Data(sz) == [0 .. sz - 1 -> Byte]

\* The accesses the core can name: aligned ones, or none at all.
Request == { r \in [op : {"ld", "st", "nop"}, sz : Size, addr : Addr] :
                 r.addr % r.sz = 0 }

NoResp == [to |-> "none"]
CoreResp(d) == [to |-> "core", val |-> d]
DbgResp(b) == [to |-> "dbg", val |-> [n \in 0 .. 0 |-> b]]

\* What an access of size sz at address a finds in the memory.
Bytes(a, sz) == [i \in 0 .. sz - 1 |-> mem[a + i]]

FlatInit ==
    /\ mem \in [Addr -> Byte]
    /\ ex \in { r \in Request : r.op = "nop" }
    /\ resp = NoResp

\* One cycle: the access in EX completes, and the next one enters EX.
FlatLoad ==
    /\ ex.op = "ld"
    /\ resp' = CoreResp(Bytes(ex.addr, ex.sz))
    /\ ex' \in Request
    /\ UNCHANGED mem

FlatStore(wr) ==
    /\ ex.op = "st"
    /\ mem' = [a \in Addr |-> IF a \in ex.addr .. ex.addr + ex.sz - 1
                              THEN wr[a - ex.addr] ELSE mem[a]]
    /\ resp' = NoResp
    /\ ex' \in Request

FlatIdle ==
    /\ ex.op = "nop"
    /\ resp' = NoResp
    /\ ex' \in Request
    /\ UNCHANGED mem

\* The debugger, between two cycles.
FlatDbgRead(a) ==
    /\ resp' = DbgResp(mem[a])
    /\ UNCHANGED <<mem, ex>>

FlatDbgWrite(a, b) ==
    /\ mem' = [mem EXCEPT ![a] = b]
    /\ resp' = NoResp
    /\ UNCHANGED ex

FlatNext ==
    \/ FlatLoad
    \/ \E wr \in Data(ex.sz) : FlatStore(wr)
    \/ FlatIdle
    \/ \E a \in Addr : FlatDbgRead(a)
    \/ \E a \in Addr, b \in Byte : FlatDbgWrite(a, b)

FlatSpec == FlatInit /\ [][FlatNext]_flatVars
=============================================================================
