-------------------------------- MODULE Gcm ---------------------------------
(***************************************************************************)
(* Galois/counter mode of the AES-256-GCM application (aes-gcm.c).  The    *)
(* cipher and the byte values are abstract: a byte of the key stream is    *)
(* named by the counter block that was encrypted and its place, an output  *)
(* byte by what was XORed into it, and a hash by the blocks that entered   *)
(* it.  Multiplication in the field is modelled on short words.            *)
(***************************************************************************)
EXTENDS Integers, Sequences, FiniteSetsExt

CONSTANTS BLOCKSIZE,    \* bytes of a block, AES_BLOCK_SIZE (16)
          CtrBits,      \* bits that inc32 increments (32)
          IvLen,        \* length of an IV that is used as it is (12)
          SizeBits,     \* bits of size_t, in which lengths are computed (32)
          WordBits,     \* bits of each of the four words of a field element (32)
          R             \* the words of the constant R (0xe1 << 24, 0, 0, 0)

ASSUME GcmSizes ==
    /\ BLOCKSIZE \in Nat \ {0} /\ CtrBits \in Nat \ {0} /\ WordBits \in Nat \ {0} /\ SizeBits \in Nat
    /\ IvLen \in 0 .. BLOCKSIZE - 1
ASSUME ROK == R \in [1 .. 4 -> 0 .. 2^WordBits - 1]
\* Laws of arithmetic, which the proofs cite: the prover knows none of `^'.
ASSUME GcmPowers ==
    /\ 2^CtrBits \in Nat /\ 2^CtrBits > 1 /\ 2^SizeBits \in Nat \ {0}
    /\ \A m \in 0 .. WordBits : 2^m \in Nat \ {0} /\ \A k \in 0 .. m : 2^m = 2^k * 2^(m - k)

----------------------------------------------------------------------------
(* The field.  An element is four words, the first bit of the first word   *)
(* the coefficient of x^0.                                                 *)

XorBit(a, b) == (a + b) % 2
xor_word(a, b) ==
    LET x[n \in 0 .. WordBits] ==
            IF n = 0 THEN 0
            ELSE x[n - 1] + 2^(n - 1) * XorBit(a \div 2^(n - 1), b \div 2^(n - 1))
    IN  x[WordBits]

xor_block(a, b) == [k \in 1 .. 4 |-> xor_word(a[k], b[k])]

\* Fault: no bit goes from one word to the next.
shift_right_block_words(v) == [k \in 1 .. 4 |-> v[k] \div 2]

\* Each word takes the last bit of the word before it.
shift_right_block(v) ==
    [k \in 1 .. 4 |-> v[k] \div 2 + IF k > 1 /\ v[k - 1] % 2 = 1 THEN 2^(WordBits - 1) ELSE 0]

\* Bit i of an element, counted from 0 at the left.
BitOf(x, i) == (x[i \div WordBits + 1] \div 2^(WordBits - 1 - (i % WordBits))) % 2

\* gf_mult: z collects the v whose bit is set in x; v is multiplied by x.
gf_mult(x, y) ==
    LET zero == [k \in 1 .. 4 |-> 0]
        turn[i \in 0 .. 4 * WordBits] ==
            IF i = 0 THEN [z |-> zero, v |-> y]
            ELSE LET t == turn[i - 1]
                     s == shift_right_block(t.v)
                 IN  [z |-> IF BitOf(x, i - 1) = 1 THEN xor_block(t.z, t.v) ELSE t.z,
                      v |-> IF t.v[4] % 2 = 1 THEN xor_block(s, R) ELSE s]
    IN  turn[4 * WordBits].z

----------------------------------------------------------------------------
(* Hash and counter mode.                                                  *)

Zero == [is |-> "zero"]
One == [is |-> "one"]
Bytes(name, n) == [k \in 1 .. n |-> [is |-> name, at |-> k]]

\* ghash: y with the full blocks of x, then the rest padded with zeros.
ghash(x, y) ==
    LET m == Len(x) \div BLOCKSIZE
        full == [i \in 1 .. m |-> SubSeq(x, (i - 1) * BLOCKSIZE + 1, i * BLOCKSIZE)]
        rest == SubSeq(x, m * BLOCKSIZE + 1, Len(x))
        pad == [k \in 1 .. BLOCKSIZE - Len(rest) |-> Zero]
    IN  y \o full \o IF rest = <<>> THEN <<>> ELSE <<rest \o pad>>

\* A block that holds the numbers a and b.
Numbers(a, b) == [k \in 1 .. BLOCKSIZE |-> [is |-> "numbers", at |-> k, a |-> a, b |-> b]]

\* len_buf: the lengths a and b in bits, computed in size_t.
len_buf(a, b) == Numbers((8 * a) % 2^SizeBits, (8 * b) % 2^SizeBits)

inc32(cb) == (cb + 1) % 2^CtrBits

Keyed(x, cb) == [k \in 1 .. Len(x) |-> [of |-> x[k], cb |-> cb, at |-> k]]

\* aes_gctr: full blocks, the counter incremented after each, and the rest.
aes_gctr(icb, x) ==
    LET n == Len(x) \div BLOCKSIZE
        full[i \in 0 .. n] ==
            IF i = 0 THEN [y |-> <<>>, cb |-> icb]
            ELSE LET t == full[i - 1]
                 IN  [y |-> t.y \o Keyed(SubSeq(x, (i - 1) * BLOCKSIZE + 1, i * BLOCKSIZE), t.cb),
                      cb |-> inc32(t.cb)]
    IN  full[n].y \o Keyed(SubSeq(x, n * BLOCKSIZE + 1, Len(x)), full[n].cb)

\* aes_gcm_prepare_j0: the block J0 itself, or the blocks whose hash it is, and
\* its counter.  The counter of a hashed J0 can be any: `hash' is its value.
aes_gcm_prepare_j0(iv_len, hash) ==
    LET iv == Bytes("iv", iv_len)
        zeros == [k \in 1 .. BLOCKSIZE - iv_len |-> Zero]
    IN  IF iv_len = IvLen THEN [block |-> [iv \o zeros EXCEPT ![BLOCKSIZE] = One], ctr |-> 1]
        ELSE [hash_of |-> ghash(len_buf(0, iv_len), ghash(iv, <<>>)), ctr |-> hash]

aes_gcm_ghash(aad, crypt) ==
    ghash(len_buf(Len(aad), Len(crypt)), ghash(crypt, ghash(aad, <<>>)))

\* aes_gcm_ae: nothing but -1 if there is no memory for the cipher's key
\* schedule; otherwise J0, the cipher text, what the hash S is made of, and the tag.
aes_gcm_ae(aes, iv_len, hash, plain_len, aad_len) ==
    LET J0 == aes_gcm_prepare_j0(iv_len, hash)
        crypt == aes_gctr(inc32(J0.ctr), Bytes("plain", plain_len))
    IN  IF ~aes THEN [ret |-> -1]
        ELSE [ret |-> 0, j0 |-> J0, crypt |-> crypt,
              S |-> aes_gcm_ghash(Bytes("aad", aad_len), crypt),
              tag |-> aes_gctr(J0.ctr, Bytes("S", BLOCKSIZE))]

----------------------------------------------------------------------------
(* What they should compute.                                               *)

\* The exponents of a polynomial over GF(2); the exponents that a product has
\* an odd number of times; reduction by x^n = (the polynomial R).
Poly(x) == { i \in 0 .. 4 * WordBits - 1 : BitOf(x, i) = 1 }
Product(X, Y) ==
    { k \in 0 .. 8 * WordBits : Cardinality({ i \in X : k - i \in Y }) % 2 = 1 }

Reduce(X) ==
    LET n == 4 * WordBits
        below[d \in 0 .. n + 1] ==         \* after the d highest exponents
            IF d = 0 THEN X
            ELSE LET Y == below[d - 1]
                     top == 2 * n + 1 - d
                 IN  IF top \in Y THEN SymDiff(Y \ {top}, { top - n + i : i \in Poly(R) }) ELSE Y
    IN  below[n + 1]

\* A text in blocks, the last one filled with zeros.
InBlocks(x) ==
    LET at(i) == IF i <= Len(x) THEN x[i] ELSE Zero
    IN  [b \in 1 .. (Len(x) + BLOCKSIZE - 1) \div BLOCKSIZE |->
            [k \in 1 .. BLOCKSIZE |-> at((b - 1) * BLOCKSIZE + k)]]

\* A || 0* || C || 0* || lengths in bits, in blocks.
HashInput(aad, crypt) ==
    InBlocks(aad) \o InBlocks(crypt) \o <<Numbers(8 * Len(aad), 8 * Len(crypt))>>

\* J0 is IV || 0* || 1 and its counter is 1, or it is the hash of the IV and
\* its length, like additional data and cipher text.
IsJ0(j0, iv_len) ==
    IF iv_len = IvLen
    THEN /\ j0.ctr = 1
         /\ j0.block = [k \in 1 .. BLOCKSIZE |-> IF k <= IvLen THEN [is |-> "iv", at |-> k]
                                                 ELSE IF k < BLOCKSIZE THEN Zero ELSE One]
    ELSE j0.hash_of = InBlocks(Bytes("iv", iv_len)) \o <<Numbers(0, 8 * iv_len)>>

\* Byte k of the plain text meets byte k of the key stream that starts after
\* J0, and J0 itself is left to the tag: no counter block is used twice.
IsGcm(res, iv_len, plain_len, aad_len) ==
    /\ res.ret = 0
    /\ IsJ0(res.j0, iv_len)
    /\ \A k \in 1 .. plain_len :
           res.crypt[k] = [of |-> [is |-> "plain", at |-> k],
                           cb |-> (res.j0.ctr + 1 + (k - 1) \div BLOCKSIZE) % 2^CtrBits,
                           at |-> ((k - 1) % BLOCKSIZE) + 1]
    /\ Len(res.crypt) = plain_len
    /\ res.S = HashInput(Bytes("aad", aad_len), res.crypt)
    /\ \A k \in 1 .. BLOCKSIZE : res.tag[k] = [of |-> [is |-> "S", at |-> k], cb |-> res.j0.ctr, at |-> k]
    /\ \A j, k \in 1 .. plain_len :
           /\ res.crypt[j].cb # res.j0.ctr
           /\ (res.crypt[j].cb = res.crypt[k].cb /\ res.crypt[j].at = res.crypt[k].at) => j = k
=============================================================================
