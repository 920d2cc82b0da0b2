------------------------------- MODULE Prims -------------------------------
(***************************************************************************)
(* The primitive functions of trv32p3.p, on words of 4 * ByteBits bits     *)
(* (ByteBits = 8 in the core).  Words are their unsigned values.           *)
(***************************************************************************)
EXTENDS Integers, Bitwise

CONSTANT ByteBits

ASSUME ByteBitsPositive == ByteBits \in Nat \ {0}

XLEN == 4 * ByteBits

\* The signed value of an n-bit pattern, and back to a pattern of XLEN bits.
Signed(a, n) == IF a >= 2^(n - 1) THEN a - 2^n ELSE a
Unsigned(a) == a % 2^XLEN

lt(a, b) == Signed(a, XLEN) < Signed(b, XLEN)
Bool(p) == IF p THEN 1 ELSE 0

\* b[4:0]: the shift amount of a 32-bit word is its low five bits.
Shamt(b) == b % XLEN
sll(a, b) == Unsigned(a * 2^Shamt(b))
srl(a, b) == a \div 2^Shamt(b)
sra(a, b) == Unsigned(Signed(a, XLEN) \div 2^Shamt(b))

AluPrim(fn, a, b) ==
    CASE fn = "add"  -> Unsigned(a + b)
      [] fn = "sub"  -> Unsigned(a - b)
      [] fn = "slt"  -> Bool(lt(a, b))
      [] fn = "sltu" -> Bool(a < b)
      [] fn = "xor"  -> a ^^ b
      [] fn = "or"   -> a | b
      [] fn = "and"  -> a & b
      [] fn = "sll"  -> sll(a, b)
      [] fn = "srl"  -> srl(a, b)
      [] fn = "sra"  -> sra(a, b)

CmpPrim(fn, a, b) ==
    CASE fn = "eq"  -> a = b
      [] fn = "ne"  -> a # b
      [] fn = "lt"  -> lt(a, b)
      [] fn = "ge"  -> ~ lt(a, b)
      [] fn = "ltu" -> a < b
      [] fn = "geu" -> a >= b

\* Little endian: byte 0 is the least significant one.
StorePrim(w, sz) == [n \in 0 .. sz - 1 |-> (w \div 2^(ByteBits * n)) % 2^ByteBits]

\* sext and zext of w08 and w16; a word is taken as it is.
LoadPrim(sgn, d) ==
    LET sz == IF 3 \in DOMAIN d THEN 4 ELSE IF 1 \in DOMAIN d THEN 2 ELSE 1
        v  == d[0] + (IF sz > 1 THEN d[1] * 2^ByteBits ELSE 0)
                   + (IF sz > 2 THEN d[2] * 2^(2 * ByteBits) + d[3] * 2^(3 * ByteBits) ELSE 0)
    IN  IF sgn THEN Unsigned(Signed(v, ByteBits * sz)) ELSE v
=============================================================================
