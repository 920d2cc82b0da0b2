--------------------------- MODULE Sha256_proofs ----------------------------
(***************************************************************************)
(* Proofs about the message handling of sha256, for blocks of every size   *)
(* and messages of every length whose number of bits fits into len's width.*)
(***************************************************************************)
EXTENDS Sha256, TLAPS

----------------------------------------------------------------------------
(* Arithmetic.                                                             *)

\* The bytes of a block come before those of the next blocks.
LEMMA BlocksInOrder ==
    ASSUME NEW k \in Nat, NEW m \in Nat, k < m, NEW j \in Cells
    PROVE  k * BLOCK + j \in Nat /\ k * BLOCK + j < m * BLOCK
  <1>1. PICK d \in Nat : m = k + 1 + d
    <2>1. m - (k + 1) \in Nat /\ m = k + 1 + (m - (k + 1))
      OBVIOUS
    <2> QED BY <2>1
  <1>2. BLOCK \in Nat /\ j \in Nat /\ j < BLOCK
    BY BlockOK DEF Cells
  <1>3. m * BLOCK = k * BLOCK + BLOCK + d * BLOCK
    BY <1>1, <1>2
  <1>4. k * BLOCK \in Nat /\ d * BLOCK \in Nat
    BY <1>2
  <1> QED BY <1>2, <1>3, <1>4

\* The number of blocks, from the full blocks m and the rest of the message.
LEMMA BlocksNeeded ==
    ASSUME NEW m \in Nat, len \in Nat, NEW d \in 0 .. BLOCK - 1, len = m * BLOCK + d
    PROVE  NumBlocks = IF d < LENPOS THEN m + 1 ELSE m + 2
  <1>1. BLOCK \in Nat \ {0} /\ LENPOS \in 1 .. BLOCK - 1
    BY BlockOK
  <1> DEFINE e == d + BLOCK - LENPOS
  <1>2. len + BLOCK - LENPOS = m * BLOCK + e /\ m * BLOCK \in Nat
    BY <1>1
  <1>3. CASE d < LENPOS
    <2>1. e \in 0 .. BLOCK - 1
      BY <1>1, <1>3
    <2> HIDE DEF e
    <2>2. (m * BLOCK + e) \div BLOCK = m
      BY <1>1, <2>1
    <2> QED BY <1>2, <1>3, <2>2 DEF NumBlocks
  <1>4. CASE ~ (d < LENPOS)
    <2>1. e - BLOCK \in 0 .. BLOCK - 1
      BY <1>1, <1>4
    <2>2. m * BLOCK + e = (m + 1) * BLOCK + (e - BLOCK)
      BY <1>1
    <2> HIDE DEF e
    <2>3. (m * BLOCK + e) \div BLOCK = m + 1
      BY <1>1, <2>1, <2>2
    <2> QED BY <1>2, <1>4, <2>3 DEF NumBlocks
  <1> QED BY <1>3, <1>4

----------------------------------------------------------------------------
(* The invariant.                                                          *)

Byte == Int \cup { LengthAt(8 * len, j) : j \in Cells }
Blocks == [1 .. BLOCK -> Byte]

\* Byte j of the rest of the message with its padding, as the code makes it.
Piece(j) == IF j < datalen THEN 2 * block_offset + j ELSE IF j = datalen THEN Mark ELSE Zero

\* The rest is in the buffer, or it is block m and the buffer is clear.
RestPadded(m) ==
    IF datalen < LENPOS
    THEN /\ Len(absorbed) = m
         /\ \A j \in 0 .. LENPOS - 1 : buf[j] = Piece(j)
    ELSE /\ Len(absorbed) = m + 1
         /\ \A j \in Cells : absorbed[m + 1][j + 1] = Piece(j)
         /\ \A j \in 0 .. LENPOS - 1 : buf[j] = Zero

\* The length is at the end of the last block.
AllPadded(m) ==
    IF datalen < LENPOS
    THEN /\ Len(absorbed) = m + 1
         /\ \A j \in Cells : absorbed[m + 1][j + 1] =
                IF j < LENPOS THEN Piece(j) ELSE LengthAt(8 * len, j)
    ELSE /\ Len(absorbed) = m + 2
         /\ \A j \in Cells : absorbed[m + 1][j + 1] = Piece(j)
         /\ \A j \in Cells : absorbed[m + 2][j + 1] =
                IF j < LENPOS THEN Zero ELSE LengthAt(8 * len, j)

\* The message after m full blocks.
Progress(m) ==
    /\ block_offset = m * BLOCK /\ block_offset <= len
    /\ \A k \in 0 .. m - 1, j \in Cells : absorbed[k + 1][j + 1] = k * BLOCK + j
    /\ Len(absorbed) >= m
    /\ pc = "blocks" => Len(absorbed) = m /\ pdata = block_offset
    /\ pc # "blocks" => datalen < BLOCK
    /\ pc = "tail" => Len(absorbed) = m /\ pdata = 2 * block_offset
    /\ pc = "length" => RestPadded(m)
    /\ pc = "done" => AllPadded(m)

\* The inductive invariant.
ShaInv ==
    /\ pc \in {"blocks", "tail", "length", "done"}
    /\ len \in 0 .. MaxLen /\ MaxLen \in Nat
    /\ pdata \in Int
    /\ buf \in [Cells -> Byte] /\ absorbed \in Seq(Blocks)
    /\ \E m \in Nat : Progress(m)

\* One more block: what was absorbed before stays.
LEMMA Absorb ==
    ASSUME absorbed \in Seq(Blocks), NEW b \in [Cells -> Byte], sha256_transform(b), len' = len
    PROVE  /\ absorbed' \in Seq(Blocks)'
           /\ Len(absorbed') = Len(absorbed) + 1 /\ Len(absorbed) \in Nat
           /\ \A k \in 1 .. Len(absorbed) : absorbed'[k] = absorbed[k]
           /\ \A j \in Cells : absorbed'[Len(absorbed) + 1][j + 1] = b[j]
  <1> DEFINE x == [j \in 1 .. BLOCK |-> b[j - 1]]
  <1>1. /\ \A j \in 1 .. BLOCK : j - 1 \in Cells
        /\ \A j \in Cells : j + 1 \in 1 .. BLOCK /\ (j + 1) - 1 = j
    BY BlockOK DEF Cells
  <1>2. x \in Blocks
    BY <1>1 DEF Blocks
  <1>3. \A j \in Cells : x[j + 1] = b[j]
    BY <1>1
  <1>4. absorbed' = Append(absorbed, x)
    BY DEF sha256_transform
  <1> HIDE DEF x
  <1>5. /\ absorbed' \in Seq(Blocks) /\ Len(absorbed') = Len(absorbed) + 1 /\ Len(absorbed) \in Nat
        /\ \A k \in 1 .. Len(absorbed) : absorbed'[k] = absorbed[k]
        /\ absorbed'[Len(absorbed) + 1] = x
    BY <1>2, <1>4
  <1>6. Blocks' = Blocks
    BY DEF Blocks, Byte, LengthAt, LenByte, Cells
  <1> QED BY <1>3, <1>5, <1>6

----------------------------------------------------------------------------
(* The steps.                                                              *)

\* The start of sha256.
LEMMA ShaInit == Init => ShaInv
  <1> SUFFICES ASSUME Init PROVE ShaInv
    OBVIOUS
  <1>1. MaxLen \in Nat /\ BLOCK \in Nat
    BY LenOK, PowerOK, BlockOK
  <1>2. absorbed \in Seq(Blocks) /\ Len(absorbed) = 0
    BY DEF Init
  <1>3. buf \in [Cells -> Byte]
    BY DEF Init, Byte, Unset
  <1>4. 0 * BLOCK = 0 /\ block_offset = 0 /\ pdata = 0 /\ pc = "blocks" /\ len \in 0 .. MaxLen
    BY <1>1 DEF Init
  <1>5. Progress(0)
    BY <1>1, <1>2, <1>4 DEF Progress
  <1> QED BY <1>1, <1>2, <1>3, <1>4, <1>5 DEF ShaInv

\* len is read only, so that the set of bytes stays the same.
LEMMA ByteSame ==
    ASSUME len' = len
    PROVE  Byte' = Byte /\ Blocks' = Blocks
  BY DEF Byte, Blocks, LengthAt, LenByte, Cells

\* A full block.
LEMMA BlockStep ==
    ASSUME ShaInv, Block
    PROVE  ShaInv'
  <1>1. PICK m \in Nat : Progress(m)
    BY DEF ShaInv
  <1>2. /\ pc = "blocks" /\ len - block_offset >= BLOCK /\ buf' = Copied(BLOCK)
        /\ sha256_transform(buf') /\ pdata' = pdata + BLOCK
        /\ block_offset' = block_offset + BLOCK /\ pc' = "blocks" /\ len' = len
    BY DEF Block, Goto
  <1>3. /\ block_offset = m * BLOCK /\ block_offset <= len /\ Len(absorbed) = m /\ pdata = block_offset
        /\ \A k \in 0 .. m - 1, j \in Cells : absorbed[k + 1][j + 1] = k * BLOCK + j
    BY <1>1, <1>2 DEF Progress
  <1>4. BLOCK \in Nat /\ m * BLOCK \in Nat /\ (m + 1) * BLOCK = m * BLOCK + BLOCK /\ len \in Nat
    BY BlockOK DEF ShaInv
  <1>5. \A j \in Cells : j \in Int /\ j < BLOCK
    BY <1>4 DEF Cells
  <1>6. /\ buf' \in [Cells -> Byte]
        /\ \A j \in Cells : buf'[j] = m * BLOCK + j
    <2>1. buf' = [j \in Cells |-> IF j < BLOCK THEN pdata + j ELSE buf[j]]
      BY <1>2 DEF Copied
    <2>2. \A j \in Cells : pdata + j \in Byte /\ pdata + j = m * BLOCK + j
      BY <1>3, <1>4, <1>5 DEF Byte
    <2> QED BY <1>5, <2>1, <2>2
  <1>7. absorbed \in Seq(Blocks)
    BY DEF ShaInv
  <1>8. /\ absorbed' \in Seq(Blocks)'
        /\ Len(absorbed') = m + 1
        /\ \A k \in 1 .. m : absorbed'[k] = absorbed[k]
        /\ \A j \in Cells : absorbed'[m + 1][j + 1] = m * BLOCK + j
    BY <1>2, <1>3, <1>6, <1>7, Absorb
  <1>9. ASSUME NEW k \in 0 .. (m + 1) - 1, NEW j \in Cells
        PROVE  absorbed'[k + 1][j + 1] = k * BLOCK + j
    <2>1. CASE k = m
      BY <1>8, <2>1
    <2>2. CASE k # m
      <3>1. k \in 0 .. m - 1 /\ k + 1 \in 1 .. m
        BY <2>2
      <3> QED BY <1>3, <1>8, <3>1
    <2> QED BY <2>1, <2>2
  <1>10. pdata' = block_offset' /\ block_offset' = (m + 1) * BLOCK /\ block_offset' <= len'
    BY <1>2, <1>3, <1>4
  <1>11. Progress(m + 1)'
    BY <1>2, <1>8, <1>9, <1>10 DEF Progress, Cells
  <1>12. pdata' \in Int /\ buf' \in [Cells -> Byte]'
    BY <1>2, <1>3, <1>4, <1>6, ByteSame DEF Cells
  <1>13. m + 1 \in Nat
    OBVIOUS
  <1> QED BY <1>2, <1>8, <1>11, <1>12, <1>13 DEF ShaInv

\* The end of the loop.
LEMMA EndBlocksStep ==
    ASSUME ShaInv, EndBlocks
    PROVE  ShaInv'
  <1>1. PICK m \in Nat : Progress(m)
    BY DEF ShaInv
  <1>2. /\ pc = "blocks" /\ len - block_offset < BLOCK /\ pdata' = pdata + block_offset
        /\ UNCHANGED <<block_offset, buf, absorbed>> /\ pc' = "tail" /\ len' = len
    BY DEF EndBlocks, Goto
  <1>3. /\ block_offset = m * BLOCK /\ block_offset <= len /\ Len(absorbed) = m /\ pdata = block_offset
    BY <1>1, <1>2 DEF Progress
  <1>4. BLOCK \in Nat /\ block_offset \in Nat
    BY <1>3, BlockOK
  <1>5. pdata' = 2 * block_offset' /\ pdata' \in Int
    BY <1>2, <1>3, <1>4
  <1>6. Progress(m)'
    BY <1>1, <1>2, <1>3, <1>5 DEF Progress, Cells, datalen
  <1> QED BY <1>2, <1>5, <1>6, ByteSame DEF ShaInv, Cells

\* What both paddings start from.
LEMMA TailFacts ==
    ASSUME ShaInv, pc = "tail", NEW m \in Nat, Progress(m)
    PROVE  /\ pdata = 2 * block_offset /\ Len(absorbed) = m
           /\ datalen \in 0 .. BLOCK - 1 /\ block_offset \in Nat /\ BLOCK \in Nat
           /\ LENPOS \in 1 .. BLOCK - 1
           /\ Padded \in [Cells -> Byte] /\ \A j \in Cells : Padded[j] = Piece(j)
  <1>1. /\ pdata = 2 * block_offset /\ Len(absorbed) = m /\ block_offset = m * BLOCK
        /\ block_offset <= len /\ datalen < BLOCK
    BY DEF Progress
  <1>2. BLOCK \in Nat /\ LENPOS \in 1 .. BLOCK - 1 /\ m * BLOCK \in Nat /\ len \in Nat
    BY BlockOK DEF ShaInv
  <1>3. datalen \in 0 .. BLOCK - 1 /\ block_offset \in Nat
    BY <1>1, <1>2 DEF datalen
  <1>4. \A j \in Cells : j \in Int /\ 2 * block_offset + j \in Byte /\ Mark \in Byte /\ Zero \in Byte
    BY <1>2, <1>3 DEF Cells, Byte, Mark, Zero
  <1>5. Padded = [j \in Cells |-> Piece(j)]
    BY <1>1 DEF Padded, Piece
  <1>6. \A j \in Cells : Piece(j) \in Byte
    BY <1>4 DEF Piece
  <1> QED BY <1>1, <1>2, <1>3, <1>5, <1>6

\* The rest and its padding.
LEMMA PadStep ==
    ASSUME ShaInv, PadShort \/ PadLong
    PROVE  ShaInv'
  <1>1. PICK m \in Nat : Progress(m)
    BY DEF ShaInv
  <1>2. /\ pc = "tail" /\ pdata' = pdata + datalen /\ UNCHANGED block_offset
        /\ pc' = "length" /\ len' = len
    BY DEF PadShort, PadLong, Goto
  <1>3. /\ pdata = 2 * block_offset /\ Len(absorbed) = m
        /\ datalen \in 0 .. BLOCK - 1 /\ block_offset \in Nat /\ BLOCK \in Nat
        /\ LENPOS \in 1 .. BLOCK - 1
        /\ Padded \in [Cells -> Byte] /\ \A j \in Cells : Padded[j] = Piece(j)
    BY <1>1, <1>2, TailFacts
  <1>4. /\ block_offset = m * BLOCK /\ block_offset <= len
        /\ \A k \in 0 .. m - 1, j \in Cells : absorbed[k + 1][j + 1] = k * BLOCK + j
    BY <1>1 DEF Progress
  <1>5. datalen' = datalen /\ \A j : Piece(j)' = Piece(j)
    BY <1>2 DEF datalen, Piece, Mark, Zero
  <1>6. absorbed \in Seq(Blocks) /\ buf \in [Cells -> Byte] /\ len \in 0 .. MaxLen /\ MaxLen \in Nat
    BY DEF ShaInv
  <1>7. \A j \in 0 .. LENPOS - 1 : j \in Cells
    BY <1>3 DEF Cells
  <1>8. pdata' \in Int
    BY <1>2, <1>3
  <1>9. CASE PadShort
    <2>1. /\ datalen < LENPOS /\ absorbed' = absorbed
          /\ buf' = [j \in Cells |-> IF j < LENPOS THEN Padded[j] ELSE buf[j]]
      BY <1>9 DEF PadShort
    <2>2. buf' \in [Cells -> Byte] /\ \A j \in 0 .. LENPOS - 1 : buf'[j] = Piece(j)
      <3>1. \A j \in 0 .. LENPOS - 1 : j < LENPOS
        BY <1>3
      <3> QED BY <1>3, <1>6, <1>7, <2>1, <3>1
    <2>3. RestPadded(m)'
      BY <1>3, <1>5, <2>1, <2>2 DEF RestPadded
    <2>4. Progress(m)'
      BY <1>2, <1>3, <1>4, <1>5, <2>1, <2>3 DEF Progress, Cells
    <2> QED BY <1>2, <1>6, <1>8, <2>1, <2>2, <2>4, ByteSame DEF ShaInv, Cells
  <1>10. CASE PadLong
    <2>1. /\ ~ (datalen < LENPOS) /\ sha256_transform(Padded)
          /\ buf' = [j \in Cells |-> IF j < LENPOS THEN Zero ELSE Padded[j]]
      BY <1>3, <1>10 DEF PadLong
    <2>2. buf' \in [Cells -> Byte] /\ \A j \in 0 .. LENPOS - 1 : buf'[j] = Zero
      <3>1. (\A j \in 0 .. LENPOS - 1 : j < LENPOS) /\ Zero \in Byte
        BY <1>3 DEF Zero, Byte
      <3> QED BY <1>3, <1>7, <2>1, <3>1
    <2>3. /\ absorbed' \in Seq(Blocks)'
          /\ Len(absorbed') = m + 1
          /\ \A k \in 1 .. m : absorbed'[k] = absorbed[k]
          /\ \A j \in Cells : absorbed'[m + 1][j + 1] = Piece(j)
      BY <1>2, <1>3, <1>6, <2>1, Absorb
    <2>4. RestPadded(m)'
      BY <1>5, <2>1, <2>2, <2>3 DEF RestPadded, Cells
    <2>5. \A k \in 0 .. m - 1, j \in Cells : absorbed'[k + 1][j + 1] = k * BLOCK + j
      <3>1. \A k \in 0 .. m - 1 : k + 1 \in 1 .. m
        OBVIOUS
      <3> QED BY <1>4, <2>3, <3>1
    <2>6. Progress(m)'
      BY <1>2, <1>3, <1>4, <1>5, <2>3, <2>4, <2>5 DEF Progress, Cells
    <2> QED BY <1>2, <1>6, <1>8, <2>2, <2>3, <2>6, ByteSame DEF ShaInv, Cells
  <1> QED BY <1>9, <1>10

\* The number of bits of a message fits into the width of len.  Beyond it the
\* shift of the code loses bits; a message in the data memory stays below it.
BitsFit == 8 * MaxLen < 2^LenBits

\* The length, and the last block.
LEMMA LengthStep ==
    ASSUME BitsFit, ShaInv, PutLength
    PROVE  ShaInv'
  <1>1. PICK m \in Nat : Progress(m)
    BY DEF ShaInv
  <1>2. /\ pc = "length" /\ sha256_transform(buf') /\ UNCHANGED <<pdata, block_offset>>
        /\ buf' = [j \in Cells |-> IF j < LENPOS THEN buf[j] ELSE LengthAt(bitlen, j)]
        /\ pc' = "done" /\ len' = len
    BY DEF PutLength, Goto
  <1>3. /\ block_offset = m * BLOCK /\ block_offset <= len /\ datalen < BLOCK /\ RestPadded(m)
        /\ \A k \in 0 .. m - 1, j \in Cells : absorbed[k + 1][j + 1] = k * BLOCK + j
    BY <1>1, <1>2 DEF Progress
  <1>4. /\ absorbed \in Seq(Blocks) /\ buf \in [Cells -> Byte]
        /\ len \in 0 .. MaxLen /\ MaxLen \in Nat /\ pdata \in Int
    BY DEF ShaInv
  <1>5. bitlen = 8 * len
    <2> DEFINE P == 2^LenBits
    <2>1. P \in Nat \ {0} /\ 8 * MaxLen < P
      BY PowerOK DEF BitsFit
    <2> HIDE DEF P
    <2>2. (8 * len) % P = 8 * len
      BY <1>4, <2>1
    <2> QED BY <2>2 DEF bitlen, P
  <1>6. LENPOS \in 1 .. BLOCK - 1 /\ BLOCK \in Nat /\ \A j \in Cells : j \in Nat
    BY BlockOK DEF Cells
  <1>7. /\ buf' \in [Cells -> Byte]
        /\ \A j \in Cells : buf'[j] = IF j < LENPOS THEN buf[j] ELSE LengthAt(8 * len, j)
    <2>1. \A j \in Cells : LengthAt(8 * len, j) \in Byte
      BY DEF Byte
    <2> QED BY <1>2, <1>4, <1>5, <2>1
  <1> DEFINE n == Len(absorbed)
  <1>8. /\ absorbed' \in Seq(Blocks)'
        /\ Len(absorbed') = n + 1 /\ n \in Nat
        /\ \A k \in 1 .. n : absorbed'[k] = absorbed[k]
        /\ \A j \in Cells : absorbed'[n + 1][j + 1] =
               IF j < LENPOS THEN buf[j] ELSE LengthAt(8 * len, j)
    BY <1>2, <1>4, <1>7, Absorb
  <1>9. /\ datalen' = datalen /\ \A j : Piece(j)' = Piece(j)
        /\ \A j : LengthAt(8 * len, j)' = LengthAt(8 * len, j)
    BY <1>2 DEF datalen, Piece, Mark, Zero, LengthAt, LenByte
  <1>10. \A j \in Cells : j < LENPOS => j \in 0 .. LENPOS - 1
    BY <1>6
  <1>11. AllPadded(m)' /\ n >= m
    <2>1. CASE datalen < LENPOS
      <3>1. n = m /\ \A j \in 0 .. LENPOS - 1 : buf[j] = Piece(j)
        BY <1>3, <2>1 DEF RestPadded
      <3>2. Len(absorbed') = m + 1
        BY <1>8, <3>1
      <3>3. \A j \in Cells : absorbed'[m + 1][j + 1] =
                IF j < LENPOS THEN Piece(j) ELSE LengthAt(8 * len, j)
        BY <1>8, <1>10, <3>1
      <3> QED BY <1>9, <2>1, <3>1, <3>2, <3>3 DEF AllPadded, Cells
    <2>2. CASE ~ (datalen < LENPOS)
      <3>1. /\ n = m + 1 /\ \A j \in 0 .. LENPOS - 1 : buf[j] = Zero
            /\ \A j \in Cells : absorbed[m + 1][j + 1] = Piece(j)
        BY <1>3, <2>2 DEF RestPadded
      <3>2. Len(absorbed') = m + 2 /\ n + 1 = m + 2 /\ m + 1 \in 1 .. n
        BY <1>8, <3>1
      <3>3. \A j \in Cells : absorbed'[m + 1][j + 1] = Piece(j)
        BY <1>8, <3>1, <3>2
      <3>4. \A j \in Cells : absorbed'[m + 2][j + 1] =
                IF j < LENPOS THEN Zero ELSE LengthAt(8 * len, j)
        BY <1>8, <1>10, <3>1, <3>2
      <3> QED BY <1>9, <2>2, <3>1, <3>2, <3>3, <3>4 DEF AllPadded, Cells, Zero
    <2> QED BY <2>1, <2>2
  <1>12. \A k \in 0 .. m - 1, j \in Cells : absorbed'[k + 1][j + 1] = k * BLOCK + j
    <2>1. \A k \in 0 .. m - 1 : k + 1 \in 1 .. n
      BY <1>8, <1>11
    <2> QED BY <1>3, <1>8, <2>1
  <1>13. Progress(m)'
    BY <1>2, <1>3, <1>8, <1>9, <1>11, <1>12 DEF Progress, Cells
  <1> QED BY <1>2, <1>4, <1>7, <1>8, <1>13, ByteSame DEF ShaInv, Cells

\* The invariant of every reachable state.
LEMMA AlwaysShaInv ==
    ASSUME BitsFit
    PROVE  Spec => []ShaInv
  <1>1. ShaInv /\ [Next]_vars => ShaInv'
    <2> SUFFICES ASSUME ShaInv, [Next]_vars PROVE ShaInv'
      OBVIOUS
    <2>1. CASE UNCHANGED vars
      <3>1. /\ UNCHANGED <<pc, len, pdata, block_offset, buf, absorbed>>
        BY <2>1 DEF vars
      <3>2. \A m \in Nat : Progress(m) => Progress(m)'
        <4>1. \A j : Piece(j)' = Piece(j) /\ LengthAt(8 * len, j)' = LengthAt(8 * len, j)
          BY <3>1 DEF Piece, datalen, Mark, Zero, LengthAt, LenByte
        <4>2. datalen' = datalen
          BY <3>1 DEF datalen
        <4> QED BY <3>1, <4>1, <4>2 DEF Progress, RestPadded, AllPadded, Cells, Zero
      <3> QED BY <3>1, <3>2, ByteSame DEF ShaInv, Cells
    <2>2. CASE Block
      BY <2>2, BlockStep
    <2>3. CASE EndBlocks
      BY <2>3, EndBlocksStep
    <2>4. CASE PadShort \/ PadLong
      BY <2>4, PadStep
    <2>5. CASE PutLength
      BY <2>5, LengthStep
    <2> QED BY <2>1, <2>2, <2>3, <2>4, <2>5 DEF Next
  <1> QED BY <1>1, ShaInit, PTL DEF Spec

----------------------------------------------------------------------------
(* The theorems.                                                           *)

\* What has been absorbed at the end: the standard's blocks, except that the
\* rest of a message is read from twice its offset.
LEMMA Absorbed ==
    ASSUME ShaInv, pc = "done"
    PROVE  /\ Len(absorbed) = NumBlocks /\ NumBlocks \in Nat
           /\ \A n \in 0 .. NumBlocks - 1, j \in Cells :
                  absorbed[n + 1][j + 1] =
                      IF n * BLOCK + j \in block_offset .. len - 1
                      THEN Expected(n, j) + block_offset ELSE Expected(n, j)
           /\ \A n \in 0 .. NumBlocks - 1, j \in Cells :
                  n * BLOCK + j < len => Expected(n, j) = n * BLOCK + j /\ Expected(n, j) \in Nat
           /\ block_offset \in Nat
           /\ len < BLOCK \/ len % BLOCK = 0 => block_offset = 0 \/ block_offset = len
  <1>1. PICK m \in Nat : Progress(m)
    BY DEF ShaInv
  <1> DEFINE d == datalen
  <1>2. /\ block_offset = m * BLOCK /\ block_offset <= len /\ d < BLOCK /\ AllPadded(m)
        /\ \A k \in 0 .. m - 1, j \in Cells : absorbed[k + 1][j + 1] = k * BLOCK + j
    BY <1>1 DEF Progress
  <1>3. /\ BLOCK \in Nat \ {0} /\ LENPOS \in 1 .. BLOCK - 1 /\ len \in Nat /\ m * BLOCK \in Nat
        /\ (m + 1) * BLOCK = m * BLOCK + BLOCK
    BY BlockOK DEF ShaInv
  <1>4. d \in 0 .. BLOCK - 1 /\ len = m * BLOCK + d
    BY <1>2, <1>3 DEF datalen
  <1>5. NumBlocks = IF d < LENPOS THEN m + 1 ELSE m + 2
    BY <1>3, <1>4, BlocksNeeded
  <1> HIDE DEF d
  <1>6. \A j \in Cells : j \in Nat /\ j < BLOCK
    BY <1>3 DEF Cells
  <1>7. Len(absorbed) = NumBlocks /\ NumBlocks \in Nat
    BY <1>2, <1>5 DEF AllPadded, d
  <1>8. \A j : Piece(j) = IF j < d THEN 2 * block_offset + j ELSE IF j = d THEN Mark ELSE Zero
    BY DEF Piece, d
  <1>9. ASSUME NEW n \in 0 .. NumBlocks - 1, NEW j \in Cells
        PROVE  /\ absorbed[n + 1][j + 1] =
                      IF n * BLOCK + j \in block_offset .. len - 1
                      THEN Expected(n, j) + block_offset ELSE Expected(n, j)
               /\ n * BLOCK + j < len => Expected(n, j) = n * BLOCK + j /\ Expected(n, j) \in Nat
    <2> DEFINE at == n * BLOCK + j
    <2>1. at \in Nat /\ n \in Nat
      BY <1>3, <1>5, <1>6
    <2>2. Expected(n, j) = IF at < len THEN at
                           ELSE IF n = NumBlocks - 1 /\ j >= LENPOS THEN LengthAt(8 * len, j)
                           ELSE IF at = len THEN Mark ELSE Zero
      BY DEF Expected
    <2>3. CASE n < m
      <3>1. at < m * BLOCK
        BY <2>1, <2>3, BlocksInOrder
      <3>2. at < len /\ at \notin block_offset .. len - 1
        BY <1>2, <1>3, <2>1, <3>1
      <3>3. absorbed[n + 1][j + 1] = at
        BY <1>2, <2>1, <2>3
      <3> HIDE DEF at
      <3> QED BY <2>1, <2>2, <3>2, <3>3 DEF at
    <2>4. CASE n = m
      <3>1. /\ at < len <=> j < d
            /\ at = len <=> j = d
            /\ at \in block_offset .. len - 1 <=> j < d
        BY <1>2, <1>3, <1>4, <1>6, <2>4
      <3>2. j < d => at + block_offset = 2 * block_offset + j
        BY <1>2, <1>3, <1>6, <2>4
      <3>3. CASE d < LENPOS
        <4>1. n = NumBlocks - 1
          BY <1>5, <2>4, <3>3
        <4>2. absorbed[n + 1][j + 1] = IF j < LENPOS THEN Piece(j) ELSE LengthAt(8 * len, j)
          BY <1>2, <2>4, <3>3 DEF AllPadded, d
        <4>3. j >= LENPOS <=> ~ (j < LENPOS)
          BY <1>3, <1>6
        <4>4. ~ (j < LENPOS) => ~ (j < d)
          BY <1>3, <1>4, <1>6, <3>3
        <4> HIDE DEF at
        <4> QED BY <1>8, <2>1, <2>2, <3>1, <3>2, <4>1, <4>2, <4>3, <4>4 DEF at
      <3>4. CASE ~ (d < LENPOS)
        <4>1. n # NumBlocks - 1
          BY <1>5, <2>1, <2>4, <3>4
        <4>2. absorbed[n + 1][j + 1] = Piece(j)
          BY <1>2, <2>4, <3>4 DEF AllPadded, d
        <4> HIDE DEF at
        <4> QED BY <1>8, <2>1, <2>2, <3>1, <3>2, <4>1, <4>2 DEF at
      <3> QED BY <3>3, <3>4
    <2>5. CASE n > m
      <3>1. ~ (d < LENPOS) /\ n = m + 1 /\ n = NumBlocks - 1
        BY <1>5, <2>1, <2>5
      <3>2. at > len
        BY <1>3, <1>4, <1>6, <3>1
      <3>3. absorbed[n + 1][j + 1] = IF j < LENPOS THEN Zero ELSE LengthAt(8 * len, j)
        <4>1. n + 1 = m + 2
          BY <3>1
        <4> QED BY <1>2, <3>1, <4>1 DEF AllPadded, d
      <3>4. j >= LENPOS <=> ~ (j < LENPOS)
        BY <1>3, <1>6
      <3>5. ~ (at < len) /\ at # len /\ at \notin block_offset .. len - 1
        BY <1>2, <1>3, <2>1, <3>2
      <3> HIDE DEF at
      <3> QED BY <2>2, <3>1, <3>3, <3>4, <3>5 DEF at
    <2> QED BY <2>1, <2>3, <2>4, <2>5
  <1>10. len < BLOCK \/ len % BLOCK = 0 => block_offset = 0 \/ block_offset = len
    <2>1. len % BLOCK = d
      BY <1>3, <1>4
    <2>2. ASSUME len < BLOCK PROVE block_offset = 0
      <3>1. m = 0
        <4> SUFFICES ASSUME 0 < m PROVE FALSE
          OBVIOUS
        <4>1. 0 \in Nat /\ BLOCK - 1 \in Cells
          BY <1>3 DEF Cells
        <4>2. 0 * BLOCK + (BLOCK - 1) < m * BLOCK
          BY <4>1, BlocksInOrder
        <4> QED BY <1>3, <1>4, <2>2, <4>2
      <3> QED BY <1>2, <1>3, <3>1
    <2> QED BY <1>2, <1>3, <1>4, <2>1, <2>2
  <1> QED BY <1>2, <1>3, <1>7, <1>9, <1>10

\* A message whose length in bits fits is absorbed in the right number of
\* blocks with the right padding: nothing is left over from a block before.
THEOREM PadsRight ==
    ASSUME BitsFit
    PROVE  Spec => []PaddingRight
  <1>1. ShaInv => PaddingRight
    <2> SUFFICES ASSUME ShaInv, pc = "done"
                 PROVE  Digest(LAMBDA b, e : IF e >= 0 THEN b >= 0 ELSE b = e)
      BY DEF PaddingRight
    <2>1. Len(absorbed) = NumBlocks
      BY Absorbed
    <2>2. ASSUME NEW n \in 0 .. NumBlocks - 1, NEW j \in Cells
          PROVE  LET b == absorbed[n + 1][j + 1]
                     e == Expected(n, j)
                 IN  IF e >= 0 THEN b >= 0 ELSE b = e
      <3> DEFINE at == n * BLOCK + j
      <3>1. /\ absorbed[n + 1][j + 1] =
                   IF at \in block_offset .. len - 1 THEN Expected(n, j) + block_offset ELSE Expected(n, j)
            /\ at < len => Expected(n, j) = at /\ Expected(n, j) \in Nat
            /\ block_offset \in Nat
        BY Absorbed
      <3>2. len \in Nat
        BY DEF ShaInv
      <3>3. CASE at \in block_offset .. len - 1
        <4>1. at < len
          BY <3>1, <3>2, <3>3
        <4> HIDE DEF at
        <4>2. Expected(n, j) \in Nat /\ absorbed[n + 1][j + 1] = Expected(n, j) + block_offset
          BY <3>1, <3>3, <4>1
        <4> QED BY <3>1, <4>2
      <3>4. CASE at \notin block_offset .. len - 1
        BY <3>1, <3>4
      <3> QED BY <3>3, <3>4
    <2> QED BY <2>1, <2>2 DEF Digest
  <1> QED BY <1>1, AlwaysShaInv, PTL

\* Messages of less than a block, or of full blocks only, are absorbed byte
\* for byte.
THEOREM TestedRight ==
    ASSUME BitsFit
    PROVE  Spec => []TestedLengths
  <1>1. ShaInv => TestedLengths
    <2> SUFFICES ASSUME ShaInv, pc = "done", len < BLOCK \/ len % BLOCK = 0
                 PROVE  Digest(LAMBDA b, e : b = e)
      BY DEF TestedLengths
    <2>1. Len(absorbed) = NumBlocks
      BY Absorbed
    <2>2. ASSUME NEW n \in 0 .. NumBlocks - 1, NEW j \in Cells
          PROVE  absorbed[n + 1][j + 1] = Expected(n, j)
      <3> DEFINE at == n * BLOCK + j
      <3>1. /\ absorbed[n + 1][j + 1] =
                   IF at \in block_offset .. len - 1 THEN Expected(n, j) + block_offset ELSE Expected(n, j)
            /\ at < len => Expected(n, j) = at /\ Expected(n, j) \in Nat
            /\ block_offset \in Nat
        BY Absorbed
      <3>2. len \in Nat
        BY DEF ShaInv
      <3>3. block_offset = 0 \/ block_offset = len
        BY Absorbed
      <3>4. CASE at \in block_offset .. len - 1
        <4>1. at < len /\ block_offset = 0
          BY <3>1, <3>2, <3>3, <3>4
        <4> HIDE DEF at
        <4> QED BY <3>1, <3>4, <4>1
      <3>5. CASE at \notin block_offset .. len - 1
        BY <3>1, <3>5
      <3> QED BY <3>4, <3>5
    <2> QED BY <2>1, <2>2 DEF Digest
  <1> QED BY <1>1, AlwaysShaInv, PTL
=============================================================================
