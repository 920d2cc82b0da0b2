------------------------------- MODULE Strtol -------------------------------
(***************************************************************************)
(* strtol and strtoul (strtol.c, strtoul.c).  A string is a sequence of    *)
(* characters that ends with NUL.  A digit or letter is its value as a     *)
(* digit, 0 .. 35, in either case; the other characters are negative.      *)
(***************************************************************************)
EXTENDS Integers, Sequences

CONSTANT LONG       \* width of a long (32)
ASSUME LongOK == LONG \in Nat /\ LONG > 1
\* A law of arithmetic, which the proofs cite.
ASSUME LongRange == 2^(LONG - 1) \in Nat \ {0} /\ 2^LONG = 2 * 2^(LONG - 1)

Space == -1
Minus == -2
Plus  == -3
NUL   == -4
LetterX == 33

LONG_MAX == 2^(LONG - 1) - 1
LONG_MIN == - 2^(LONG - 1)
ULONG_MAX == 2^LONG - 1

----------------------------------------------------------------------------
(* The common part: white space, sign and prefix.  The result has the base,*)
(* the sign and the index of the first digit.                              *)

\* The index of the first character after i - 1 that is no space, and that is
\* no digit of the base: where the loops end.
AfterSpaces(s, i) == CHOOSE j \in i .. Len(s) : s[j] # Space /\ \A k \in i .. j - 1 : s[k] = Space
AfterDigits(s, i, base) ==
    CHOOSE j \in i .. Len(s) : s[j] \notin 0 .. base - 1 /\ \A k \in i .. j - 1 : s[k] \in 0 .. base - 1

prefix(s, base) ==
    LET i == AfterSpaces(s, 1)
        j == IF s[i] \in {Minus, Plus} THEN i + 1 ELSE i
        hex == base \in {0, 16} /\ s[j] = 0 /\ s[j + 1] = LetterX
    IN  [neg |-> s[i] = Minus,
         start |-> IF hex THEN j + 2 ELSE j,
         base |-> IF hex THEN 16 ELSE IF base # 0 THEN base ELSE IF s[j] = 0 THEN 8 ELSE 10]

\* C's / and %, which round towards zero.
cdiv(x, b) == IF x < 0 THEN - ((- x) \div b) ELSE x \div b
cmod(x, b) == x - b * cdiv(x, b)

\* Fault: the number at the cutoff is taken whatever its last digit.
too_big_cutoff(acc, c, base, limit, sgn) == sgn * acc > sgn * cdiv(limit, base)

\* Whether acc with one more digit c would pass the limit: cutoff and cutlim.
too_big(acc, c, base, limit, sgn) ==
    LET cutoff == cdiv(limit, base)
        cutlim == sgn * cmod(limit, base)
    IN  sgn * acc > sgn * cutoff \/ (acc = cutoff /\ c > cutlim)

\* One turn of the digit loop: once a digit is too many, acc stays at the limit
\* while the rest is skipped.
digit(t, c, base, limit, sgn) ==
    IF t.any < 0 THEN t
    ELSE IF too_big(t.acc, c, base, limit, sgn) THEN [acc |-> limit, any |-> -1]
    ELSE [acc |-> t.acc * base + sgn * c, any |-> 1]

digits(s, start, base, limit, sgn) ==
    LET e == AfterDigits(s, start, base)
        turn[i \in start - 1 .. e - 1] ==
            IF i < start THEN [acc |-> 0, any |-> 0] ELSE digit(turn[i - 1], s[i], base, limit, sgn)
    IN  [acc |-> turn[e - 1].acc, any |-> turn[e - 1].any, end |-> e]

Parsed(d, val) ==
    [val |-> val, end |-> IF d.any # 0 THEN d.end ELSE 1, erange |-> d.any < 0]

\* strtol: a negative number is accumulated downwards, to LONG_MIN.
strtol(s, base) ==
    LET p == prefix(s, base)
        d == IF p.neg THEN digits(s, p.start, p.base, LONG_MIN, -1)
                      ELSE digits(s, p.start, p.base, LONG_MAX, 1)
    IN  Parsed(d, d.acc)

\* strtoul: the number is negated at the end, modulo 2^LONG, unless it was
\* too large.
strtoul(s, base) ==
    LET p == prefix(s, base)
        d == digits(s, p.start, p.base, ULONG_MAX, 1)
    IN  Parsed(d, IF p.neg /\ d.any > 0 THEN (- d.acc) % 2^LONG ELSE d.acc)

----------------------------------------------------------------------------
(* What they should compute, as C defines it: the longest sequence of      *)
(* digits after the prefix, its value, and the limit if that is not in the *)
(* range.  A prefix 0x without a digit is consumed with nothing, although  *)
(* C takes the 0 alone for the number.                                     *)

Numeral(s, base) ==
    LET p == prefix(s, base)
        e == AfterDigits(s, p.start, p.base)
        value[i \in p.start - 1 .. e - 1] == IF i < p.start THEN 0 ELSE value[i - 1] * p.base + s[i]
    IN  [neg |-> p.neg, val |-> value[e - 1], end |-> IF e > p.start THEN e ELSE 1]

StrtolSpec(s, base) ==
    LET n == Numeral(s, base)
        v == IF n.neg THEN - n.val ELSE n.val
    IN  [val |-> IF v > LONG_MAX THEN LONG_MAX ELSE IF v < LONG_MIN THEN LONG_MIN ELSE v,
         end |-> n.end, erange |-> v \notin LONG_MIN .. LONG_MAX]

StrtoulSpec(s, base) ==
    LET n == Numeral(s, base)
        v == IF n.neg THEN - n.val ELSE n.val
    IN  [val |-> IF n.val > ULONG_MAX THEN ULONG_MAX ELSE v % 2^LONG,
         end |-> n.end, erange |-> n.val > ULONG_MAX]
=============================================================================
