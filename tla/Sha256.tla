------------------------------- MODULE Sha256 -------------------------------
(***************************************************************************)
(* The message handling of the SHA-256 application (sha256 in sha-256.c):  *)
(* how a message is cut into blocks, padded and passed to sha256_transform.*)
(* The compression function itself is left out: what it was given, in      *)
(* order, stands for the hash.  Byte n of the memory from `data' on is     *)
(* represented by n, so that a byte tells where it was read.               *)
(***************************************************************************)
EXTENDS Integers, Sequences

CONSTANTS BLOCK,    \* bytes of a block (64)
          LENPOS,   \* place of the length in the last block (56)
          LenBits,  \* width of len (32)
          MaxLen    \* bound: length of a message

ASSUME BlockOK == BLOCK \in Nat /\ LENPOS \in 1 .. BLOCK - 1
ASSUME LenOK == LenBits \in Nat /\ MaxLen \in 0 .. 2^LenBits - 1
\* A law of arithmetic, which the proofs cite: the prover knows none of `^'.
ASSUME PowerOK == 2^LenBits \in Nat \ {0}

\* What a byte of the buffer can be, besides a byte of the message.
Mark == -1          \* 0x80
Zero == -2          \* 0x00
Unset == -3         \* never written
LenByte(b) == -4 - b    \* a byte b of the length

VARIABLES pc, len, pdata, block_offset, buf, absorbed
vars == <<pc, len, pdata, block_offset, buf, absorbed>>

datalen == len - block_offset
Cells == 0 .. BLOCK - 1
sha256_transform(b) == absorbed' = Append(absorbed, [j \in 1 .. BLOCK |-> b[j - 1]])

\* n bytes from pdata on replace the first n of the buffer.
Copied(n) == [j \in Cells |-> IF j < n THEN pdata + j ELSE buf[j]]

Goto(l) == pc' = l /\ UNCHANGED len

\* Fault: the pointer is not advanced.
Block_same ==
    /\ pc = "blocks" /\ len - block_offset >= BLOCK
    /\ buf' = Copied(BLOCK) /\ sha256_transform(buf')
    /\ pdata' = pdata
    /\ block_offset' = block_offset + BLOCK
    /\ Goto("blocks")

\* A full block.
Block ==
    /\ pc = "blocks" /\ len - block_offset >= BLOCK
    /\ buf' = Copied(BLOCK) /\ sha256_transform(buf')
    /\ pdata' = pdata + BLOCK
    /\ block_offset' = block_offset + BLOCK
    /\ Goto("blocks")

\* pdata += block_offset, although the loop has advanced it already.
EndBlocks ==
    /\ pc = "blocks" /\ len - block_offset < BLOCK
    /\ pdata' = pdata + block_offset
    /\ UNCHANGED <<block_offset, buf, absorbed>>
    /\ Goto("tail")

Padded == [j \in Cells |-> IF j < datalen THEN pdata + j ELSE IF j = datalen THEN Mark ELSE Zero]

\* The rest, 0x80 and zeros up to the length: buf[LENPOS ..] is not written.
PadShort ==
    /\ pc = "tail" /\ datalen < LENPOS
    /\ buf' = [j \in Cells |-> IF j < LENPOS THEN Padded[j] ELSE buf[j]]
    /\ pdata' = pdata + datalen
    /\ UNCHANGED <<block_offset, absorbed>>
    /\ Goto("length")

\* Fault: the buffer is not cleared for the block of the length.
PadLong_dirty ==
    /\ pc = "tail" /\ datalen >= LENPOS
    /\ sha256_transform(Padded)
    /\ buf' = Padded
    /\ pdata' = pdata + datalen
    /\ UNCHANGED block_offset
    /\ Goto("length")

\* No room for the length: the rest is a block of its own.
PadLong ==
    /\ pc = "tail" /\ datalen >= LENPOS
    /\ sha256_transform(Padded)
    /\ buf' = [j \in Cells |-> IF j < LENPOS THEN Zero ELSE Padded[j]]
    /\ pdata' = pdata + datalen
    /\ UNCHANGED block_offset
    /\ Goto("length")

\* len << 3 is computed in len's width, then stored with its low byte last.
bitlen == (8 * len) % 2^LenBits
LengthAt(n, j) == LenByte((n \div 256^(BLOCK - 1 - j)) % 256)

PutLength ==
    /\ pc = "length"
    /\ buf' = [j \in Cells |-> IF j < LENPOS THEN buf[j] ELSE LengthAt(bitlen, j)]
    /\ sha256_transform(buf')
    /\ UNCHANGED <<pdata, block_offset>>
    /\ Goto("done")

Init ==
    /\ pc = "blocks" /\ len \in 0 .. MaxLen
    /\ pdata = 0 /\ block_offset = 0
    /\ buf = [j \in Cells |-> Unset]
    /\ absorbed = <<>>

Next == Block \/ EndBlocks \/ PadShort \/ PadLong \/ PutLength
Spec == Init /\ [][Next]_vars

----------------------------------------------------------------------------
(* Properties.                                                             *)

\* The standard's padding: 0x80, zeros, and the length in the last bytes of
\* the last block.
NumBlocks == (len + BLOCK - LENPOS) \div BLOCK + 1
Expected(n, j) ==
    LET at == n * BLOCK + j
    IN  IF at < len THEN at
        ELSE IF n = NumBlocks - 1 /\ j >= LENPOS THEN LengthAt(8 * len, j)
        ELSE IF at = len THEN Mark ELSE Zero

Digest(IsByte(_, _)) ==
    /\ Len(absorbed) = NumBlocks
    /\ \A n \in 0 .. NumBlocks - 1, j \in Cells : IsByte(absorbed[n + 1][j + 1], Expected(n, j))

\* A message of any length is absorbed in the right number of blocks, and with
\* the right padding, zeros and length around its bytes: nothing is left over
\* from the block before.
PaddingRight ==
    pc = "done" => Digest(LAMBDA b, e : IF e >= 0 THEN b >= 0 ELSE b = e)

\* Messages of less than a block or of full blocks only, as in the test data,
\* are absorbed byte for byte.
TestedLengths ==
    pc = "done" /\ (len < BLOCK \/ len % BLOCK = 0) => Digest(LAMBDA b, e : b = e)

\* "Pad whatever data is left in the buffer": what is padded is the rest of
\* the message, for a message of any length.
PadsWhatIsLeft == pc = "done" => Digest(LAMBDA b, e : b = e)
=============================================================================
