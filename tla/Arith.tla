------------------------------- MODULE Arith --------------------------------
(***************************************************************************)
(* The compiler's run-time arithmetic: division by the restoring method    *)
(* (trv32p3_div.c), multiplication by shift and add (trv32p3_mul.c) and    *)
(* long long as a pair of words (trv32p3_longlong.h).  Words have W bits,  *)
(* and are the numbers 0 .. 2^W - 1.                                       *)
(***************************************************************************)
EXTENDS Integers

CONSTANT W          \* width of a word (32)
ASSUME WidthOK == W \in Nat /\ W > 1

\* The operators below take the width n as a parameter where the code has a
\* version for int and one for long long.
ToInt(x, n) == IF x >= 2^(n - 1) THEN x - 2^n ELSE x
ToWord(i, n) == i % 2^n
Words == 0 .. 2^W - 1
Double == 2 * W

\* A law of arithmetic, which the proofs cite: the prover knows none of `^'.
ASSUME PowersOfTwo == \A m, n \in 0 .. Double : 2^m \in Nat \ {0} /\ 2^(m + n) = 2^m * 2^n

----------------------------------------------------------------------------
(* trv32p3_div.c.  A result is [q, r], quotient and remainder.             *)

\* One turn of the loop of div_pos: x gives its top bit to r.
div_turn(p, d, n) ==
    LET r == ((2 * p.r) % 2^n) + (p.q \div 2^(n - 1))
        x == (2 * p.q) % 2^n
    IN  IF r >= d THEN [q |-> x + 1, r |-> r - d] ELSE [q |-> x, r |-> r]

\* A divisor with the top bit set goes at most once into x.
div_pos(x, d, n) ==
    LET turn[i \in 0 .. n] == IF i = 0 THEN [q |-> x, r |-> 0] ELSE div_turn(turn[i - 1], d, n)
    IN  IF d < 2^(n - 1) THEN turn[n]
        ELSE IF x >= d THEN [q |-> 1, r |-> x - d] ELSE [q |-> 0, r |-> x]

\* Signed division, on the absolute values.
div_called(x, d, n) ==
    LET neg(v) == ToInt(v, n) < 0
        mag(v) == IF neg(v) THEN ToWord(- v, n) ELSE v
        u == div_pos(mag(x), mag(d), n)
    IN  [q |-> IF neg(x) # neg(d) THEN ToWord(- u.q, n) ELSE u.q,
         r |-> IF neg(x) THEN ToWord(- u.r, n) ELSE u.r]

----------------------------------------------------------------------------
(* trv32p3_mul.c: p collects a, shifted, for every bit of b.               *)

mul_called(a, b, n) ==
    LET turn[i \in 0 .. n] ==
            IF i = 0 THEN [p |-> 0, a |-> a, b |-> b]
            ELSE LET t == turn[i - 1]
                 IN  [p |-> IF t.b % 2 = 1 THEN ToWord(t.p + t.a, n) ELSE t.p,
                      a |-> ToWord(2 * t.a, n), b |-> t.b \div 2]
    IN  turn[n].p

----------------------------------------------------------------------------
(* trv32p3_longlong.h.  A dint is [low, high].  The shortcut for a low word*)
(* 0 is compiled in where the operand is a constant: `known'.              *)

dint == [low : Words, high : Words]
Value(a) == a.high * 2^W + a.low
Pair(v) == [low |-> v % 2^W, high |-> (v \div 2^W) % 2^W]
Bit(b) == IF b THEN 1 ELSE 0

\* Fault: a high word 0 is taken for a shortcut too.
l_add_high(a, b, known) ==
    LET low == ToWord(a.low + b.low, W)
    IN  IF known /\ a.high = 0 THEN [low |-> low, high |-> b.high]
        ELSE [low |-> low, high |-> ToWord(a.high + b.high + Bit(low < a.low), W)]

l_add(a, b, known) ==
    LET high == ToWord(a.high + b.high, W)
        low == ToWord(a.low + b.low, W)
    IN  IF known /\ a.low = 0 THEN [low |-> b.low, high |-> high]
        ELSE IF known /\ b.low = 0 THEN [low |-> a.low, high |-> high]
        ELSE [low |-> low, high |-> ToWord(high + Bit(low < a.low), W)]

l_sub(a, b, known) ==
    LET high == ToWord(a.high - b.high, W)
    IN  IF known /\ b.low = 0 THEN [low |-> a.low, high |-> high]
        ELSE [low |-> ToWord(a.low - b.low, W), high |-> ToWord(high - Bit(a.low < b.low), W)]

\* l_lts and l_ltu, l_les and l_leu: the high words, as ints or as unsigneds,
\* decide unless they are equal.
l_lt(a, b, signed) ==
    LET h(x) == IF signed THEN ToInt(x.high, W) ELSE x.high
    IN  h(a) < h(b) \/ (a.high = b.high /\ a.low < b.low)

l_le(a, b, signed) ==
    LET h(x) == IF signed THEN ToInt(x.high, W) ELSE x.high
    IN  h(a) < h(b) \/ (a.high = b.high /\ a.low <= b.low)

\* Shifts of one word, by less than W.
shl(x, f) == ToWord(x * 2^f, W)
shr(x, f) == x \div 2^f
sar(x, f) == ToWord(ToInt(x, W) \div 2^f, W)

l_lsl(a, f) ==
    IF f = 0 THEN a
    ELSE IF f < W THEN [low |-> shl(a.low, f), high |-> shl(a.high, f) + shr(a.low, W - f)]
    ELSE [low |-> 0, high |-> shl(a.low, f - W)]

l_asr(a, f) ==
    IF f = 0 THEN a
    ELSE IF f < W THEN [low |-> shr(a.low, f) + shl(a.high, W - f), high |-> sar(a.high, f)]
    ELSE LET carries == sar(a.high, f - W)
         IN  [low |-> carries, high |-> sar(carries, W - 1)]

l_lsr(a, f) ==
    IF f = 0 THEN a
    ELSE IF f < W THEN [low |-> shr(a.low, f) + shl(a.high, W - f), high |-> shr(a.high, f)]
    ELSE [low |-> shr(a.high, f - W), high |-> 0]

----------------------------------------------------------------------------
(* What they should compute.                                               *)

Abs(i) == IF i < 0 THEN - i ELSE i

\* Division with rounding towards zero; the remainder has the sign of the
\* dividend, and the quotient of the least number by -1 wraps.
SignedDivision(x, d, n) ==
    LET a == ToInt(x, n)
        b == ToInt(d, n)
        mag == Abs(a) \div Abs(b)
        q == IF (a < 0) = (b < 0) THEN mag ELSE - mag
    IN  [q |-> ToWord(q, n), r |-> ToWord(a - q * b, n)]

UnsignedDivision(x, d) == [q |-> x \div d, r |-> x % d]
=============================================================================
