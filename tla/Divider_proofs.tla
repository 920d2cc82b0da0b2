--------------------------- MODULE Divider_proofs ---------------------------
(***************************************************************************)
(* Proofs about the divide unit, for words of every width and all operands.*)
(***************************************************************************)
EXTENDS Divider, TLAPS

----------------------------------------------------------------------------
(* Arithmetic.                                                             *)

\* Products of naturals grow with their factors.
LEMMA Grows ==
    ASSUME NEW a \in Nat, NEW b \in Nat, NEW c \in Nat, a <= b
    PROVE  a * c <= b * c /\ a * c \in Nat /\ b * c \in Nat
  <1>1. PICK d \in Nat : b = a + d
    <2>1. b - a \in Nat /\ b = a + (b - a)
      OBVIOUS
    <2> QED BY <2>1
  <1>2. a * c \in Nat /\ b * c \in Nat /\ d * c \in Nat
    OBVIOUS
  <1>3. b * c = a * c + d * c
    BY <1>1
  <1> QED BY <1>2, <1>3

\* Quotient and remainder are determined by what they satisfy.
LEMMA DivMod ==
    ASSUME NEW x \in Int, NEW n \in Nat \ {0}, NEW q \in Int, NEW r \in 0 .. n - 1, x = q * n + r
    PROVE  x \div n = q /\ x % n = r
  OBVIOUS

\* Two digits of base n stay below n * n.
LEMMA TwoDigits ==
    ASSUME NEW n \in Nat \ {0}, NEW m \in Nat \ {0}, NEW h \in 0 .. m - 1, NEW l \in 0 .. n - 1
    PROVE  h * n + l \in 0 .. m * n - 1
  <1>1. h + 1 \in Nat /\ h + 1 <= m /\ m \in Nat /\ n \in Nat
    OBVIOUS
  <1>2. (h + 1) * n <= m * n /\ m * n \in Nat
    BY <1>1, Grows
  <1>3. (h + 1) * n = h * n + n /\ h * n \in Nat
    OBVIOUS
  <1> QED BY <1>2, <1>3

\* The powers of two that the unit uses.
LEMMA Powers ==
    /\ 2^0 = 1 /\ 2^1 = 2
    /\ 2^W \in Nat \ {0} /\ 2^(W + 1) = 2 * 2^W /\ 2^(2 * W) = 2^W * 2^W
    /\ 2^(W - 1) \in Nat \ {0} /\ 2^W = 2 * 2^(W - 1)
  <1>1. 2^0 = 1 /\ 2^1 = 2
    OBVIOUS
  <1>2. 0 \in 0 .. W + 1 /\ 1 \in 0 .. W + 1 /\ W - 1 \in 0 .. W + 1 /\ W \in 0 .. W + 1
    BY WidthOK
  <1>3. 2^W \in Nat \ {0} /\ 2^(W - 1) \in Nat \ {0}
    BY <1>2, PowersOfTwo
  <1>4. 2^(W + 1) = 2^W * 2^1 /\ 2^((W - 1) + 1) = 2^(W - 1) * 2^1 /\ 2^(W + W) = 2^W * 2^W
    BY <1>2, PowersOfTwo
  <1>5. (W - 1) + 1 = W /\ W + W = 2 * W
    BY WidthOK
  <1> QED BY <1>1, <1>3, <1>4, <1>5

\* The word is the part of the dividend that is done and the part to come.
LEMMA SplitWord ==
    ASSUME NEW t \in 0 .. W
    PROVE  /\ 2^t \in Nat \ {0} /\ 2^(W - t) \in Nat \ {0}
           /\ 2^t * 2^(W - t) = 2^W
           /\ t > 0 => 2^t = 2 * 2^(t - 1) /\ 2^(W - (t - 1)) = 2 * 2^(W - t)
  <1>1. t \in 0 .. W + 1 /\ W - t \in 0 .. W + 1 /\ t + (W - t) = W /\ 1 \in 0 .. W + 1
    BY WidthOK
  <1>2. 2^t \in Nat \ {0} /\ 2^(W - t) \in Nat \ {0} /\ 2^(t + (W - t)) = 2^t * 2^(W - t)
    BY <1>1, PowersOfTwo
  <1>3. ASSUME t > 0
        PROVE  2^t = 2 * 2^(t - 1) /\ 2^(W - (t - 1)) = 2 * 2^(W - t)
    <2>1. t - 1 \in 0 .. W + 1 /\ (t - 1) + 1 = t /\ W - (t - 1) = (W - t) + 1
      BY <1>3, WidthOK
    <2>2. 2^((t - 1) + 1) = 2^(t - 1) * 2^1 /\ 2^((W - t) + 1) = 2^(W - t) * 2^1
      BY <1>1, <2>1, PowersOfTwo
    <2>3. 2^1 = 2 /\ 2^(t - 1) \in Nat
      BY <2>1, PowersOfTwo
    <2> QED BY <1>2, <2>1, <2>2, <2>3
  <1> QED BY <1>1, <1>2, <1>3

----------------------------------------------------------------------------
(* The division steps.                                                     *)

\* With t bits of the dividend a to come, PA holds the remainder h and the
\* quotient q of the bits before them, and these bits, r, in between.
Holds(pa, b, a, t, h, r, q) ==
    /\ pa = (h * 2^t + r) * 2^(W - t) + q
    /\ q < 2^(W - t) /\ r < 2^t
    /\ b # 0 => (q * b + h) * 2^t + r = a /\ h < b
    /\ b = 0 => h * 2^t + r = a

Partial(pa, b, a, t) == \E h, r, q \in Nat : Holds(pa, b, a, t, h, r, q)

\* What Hi and Lo read of a value of 2W bits.
LEMMA Halves ==
    ASSUME NEW h \in Words, NEW l \in Words
    PROVE  /\ Hi(h * 2^W + l) = h /\ Lo(h * 2^W + l) = l
           /\ h * 2^W + l \in 0 .. 2^(2 * W) - 1
  <1> DEFINE P == 2^W
  <1>1. P \in Nat \ {0} /\ 2^(2 * W) = P * P /\ h \in 0 .. P - 1 /\ l \in 0 .. P - 1
    BY Powers DEF Words
  <1>2. Hi(h * 2^W + l) = (h * P + l) \div P /\ Lo(h * 2^W + l) = (h * P + l) % P
    BY DEF Hi, Lo
  <1> HIDE DEF P
  <1>3. (h * P + l) \div P = h /\ (h * P + l) % P = l
    BY <1>1, DivMod
  <1>4. h * P + l \in 0 .. P * P - 1
    BY <1>1, TwoDigits
  <1> QED BY <1>1, <1>2, <1>3, <1>4 DEF P

\* The partial remainder is a word, and PA has its 2W bits.
LEMMA PartialIsWord ==
    ASSUME NEW a \in Words, NEW b \in Words, NEW t \in 0 .. W, NEW pa,
           NEW h \in Nat, NEW r \in Nat, NEW q \in Nat, Holds(pa, b, a, t, h, r, q)
    PROVE  /\ h \in Words /\ r * 2^(W - t) + q \in Words
           /\ pa = h * 2^W + (r * 2^(W - t) + q)
  <1> DEFINE P == 2^W
             T == 2^t
             N == 2^(W - t)
  <1>1. P \in Nat \ {0} /\ T \in Nat \ {0} /\ N \in Nat \ {0} /\ T * N = P
    BY Powers, SplitWord
  <1>2. a \in 0 .. P - 1 /\ b \in 0 .. P - 1
    BY DEF Words
  <1>3. /\ pa = (h * T + r) * N + q /\ q < N /\ r < T
        /\ b # 0 => (q * b + h) * T + r = a
        /\ b = 0 => h * T + r = a
    BY DEF Holds
  <1> HIDE DEF P, T, N
  <1>4. r * N + q \in 0 .. P - 1
    <2>1. r \in 0 .. T - 1 /\ q \in 0 .. N - 1
      BY <1>1, <1>3
    <2> QED BY <1>1, <2>1, TwoDigits
  <1>5. pa = h * P + (r * N + q)
    <2>1. (h * T + r) * N + q = h * (T * N) + (r * N + q)
      BY <1>1
    <2> QED BY <1>1, <1>3, <2>1
  <1>6. h * T + r <= a
    <2>1. CASE b = 0
      BY <1>1, <1>2, <1>3, <2>1
    <2>2. CASE b # 0
      <3>1. q * b \in Nat /\ (q * b) * T \in Nat /\ h * T \in Nat
        BY <1>1, <1>2
      <3>2. (q * b + h) * T + r = (q * b) * T + (h * T + r)
        BY <1>1, <1>2, <3>1
      <3> QED BY <1>2, <1>3, <2>2, <3>1, <3>2
    <2> QED BY <2>1, <2>2
  <1>7. h \in 0 .. P - 1
    <2>1. 1 * h <= T * h /\ T * h \in Nat
      BY <1>1, Grows
    <2>2. h <= h * T
      BY <1>1, <2>1
    <2> QED BY <1>1, <1>2, <1>6, <2>1, <2>2
  <1> QED BY <1>4, <1>5, <1>7 DEF Words, P, N

\* div_step takes one more bit of the dividend.
LEMMA OneStep ==
    ASSUME NEW a \in Words, NEW b \in Words, NEW t \in 1 .. W, NEW pa, Partial(pa, b, a, t)
    PROVE  Partial(div_step(pa, b), b, a, t - 1)
  <1> DEFINE P == 2^W
             T == 2^t
             N == 2^(W - t)
             T1 == 2^(t - 1)
             N1 == 2^(W - (t - 1))
  <1>1. t \in 0 .. W /\ t - 1 \in 0 .. W
    BY WidthOK
  <1>2. /\ P \in Nat \ {0} /\ T \in Nat \ {0} /\ N \in Nat \ {0}
        /\ T1 \in Nat \ {0} /\ N1 \in Nat \ {0}
        /\ T * N = P /\ T1 * N1 = P /\ T = 2 * T1 /\ N1 = 2 * N
    BY <1>1, Powers, SplitWord
  <1>3. a \in 0 .. P - 1 /\ b \in 0 .. P - 1
    BY DEF Words
  <1>4. PICK h \in Nat, r \in Nat, q \in Nat : Holds(pa, b, a, t, h, r, q)
    BY DEF Partial
  <1>5. /\ pa = (h * T + r) * N + q /\ q < N /\ r < T
        /\ b # 0 => (q * b + h) * T + r = a /\ h < b
        /\ b = 0 => h * T + r = a
    BY <1>4 DEF Holds
  <1>6. h \in Nat /\ r \in Nat /\ q \in Nat
    OBVIOUS
  <1> DEFINE r1 == IF r < T1 THEN 0 ELSE 1
             r0 == r - r1 * T1
             g == 2 * h + r1
             lo == r0 * N1 + 2 * q
  <1> HIDE DEF P, T, N, T1, N1
  <1>7. r1 \in {0, 1} /\ r0 \in 0 .. T1 - 1 /\ r = r1 * T1 + r0
    BY <1>2, <1>5
  <1> HIDE DEF r1, r0
  <1>8. g \in Nat /\ lo \in 0 .. P - 1
    <2>1. 2 * q \in 0 .. N1 - 1
      BY <1>2, <1>5
    <2>2. r0 * N1 + 2 * q \in 0 .. T1 * N1 - 1
      BY <1>2, <1>7, <2>1, TwoDigits
    <2>3. g \in Nat
      BY <1>6, <1>7
    <2>4. r0 * N1 + 2 * q \in 0 .. P - 1
      BY <1>2, <2>2, Zenon
    <2> QED BY <2>3, <2>4
  <1>9. h * T + r = g * T1 + r0
    BY <1>2, <1>6, <1>7
  <1>10. 2 * pa = g * P + lo
    <2>1. 2 * pa = (h * T + r) * N1 + 2 * q
      BY <1>2, <1>5, <1>6
    <2>2. 2 * pa = (g * T1 + r0) * N1 + 2 * q
      BY <1>9, <2>1
    <2>3. (g * T1 + r0) * N1 = g * (T1 * N1) + r0 * N1
      BY <1>2, <1>7, <1>8
    <2>4. g * P \in Int /\ r0 * N1 \in Int
      BY <1>2, <1>7, <1>8
    <2> HIDE DEF g
    <2>5. 2 * pa = (g * P + r0 * N1) + 2 * q
      BY <1>2, <2>2, <2>3, Zenon
    <2> QED BY <1>6, <2>4, <2>5
  <1> DEFINE hb == IF g >= b THEN g - b ELSE g
             qb == IF g >= b THEN 2 * q + 1 ELSE 2 * q
  <1>11. /\ hb \in Nat /\ qb \in Nat /\ qb < N1
         /\ b # 0 => (qb * b + hb) * T1 + r0 = a /\ hb < b
         /\ b = 0 => hb * T1 + r0 = a
    <2>1. hb \in Nat /\ qb \in Nat /\ qb < N1
      BY <1>2, <1>3, <1>5, <1>6, <1>8
    <2>2. b = 0 => hb * T1 + r0 = a
      BY <1>5, <1>8, <1>9
    <2>3. ASSUME b # 0
          PROVE  (qb * b + hb) * T1 + r0 = a /\ hb < b
      <3>1. hb < b
        BY <1>3, <1>5, <1>6, <1>7, <2>3
      <3>2. qb * b + hb = 2 * (q * b) + g
        <4>1. CASE g >= b
          <5>1. (2 * q + 1) * b + (g - b) = 2 * (q * b) + g
            BY <1>3, <1>6, <1>8
          <5> QED BY <4>1, <5>1
        <4>2. CASE ~ (g >= b)
          <5>1. (2 * q) * b + g = 2 * (q * b) + g
            BY <1>3, <1>6, <1>8
          <5> QED BY <4>2, <5>1
        <4> QED BY <4>1, <4>2
      <3>3. (2 * (q * b) + g) * T1 + r0 = (q * b) * T + (g * T1 + r0)
        BY <1>2, <1>3, <1>6, <1>7, <1>8
      <3>4. (q * b) * T + (h * T + r) = (q * b + h) * T + r
        BY <1>2, <1>3, <1>6
      <3> QED BY <1>5, <1>9, <2>3, <3>1, <3>2, <3>3, <3>4
    <2> QED BY <2>1, <2>2, <2>3
  <1>12. div_step(pa, b) = hb * P + (r0 * N1 + qb)
    <2>1. g \in 0 .. P - 1
      <3>1. h \in Words
        BY <1>1, <1>4, PartialIsWord
      <3>2. g * T1 + r0 <= a
        <4>1. CASE b = 0
          BY <1>3, <1>5, <1>9, <4>1
        <4>2. CASE b # 0
          <5>1. q * b \in Nat /\ (q * b) * T \in Nat /\ h * T \in Nat
            BY <1>2, <1>3, <1>6
          <5>2. (q * b + h) * T + r = (q * b) * T + (h * T + r)
            BY <1>2, <1>3, <1>6, <5>1
          <5> QED BY <1>3, <1>5, <1>6, <1>9, <4>2, <5>1, <5>2
        <4> QED BY <4>1, <4>2
      <3>3. 1 * g <= T1 * g /\ T1 * g \in Nat
        BY <1>2, <1>8, Grows
      <3>4. g <= g * T1 /\ g * T1 \in Nat
        BY <1>2, <1>8, <3>3
      <3> HIDE DEF g
      <3> QED BY <1>2, <1>3, <1>7, <1>8, <3>2, <3>4
    <2>2. g \in Words /\ lo \in Words
      BY <1>8, <2>1 DEF Words, P
    <2>3. Hi(2 * pa) = g /\ Lo(2 * pa) = lo /\ 2 * pa \in 0 .. 2^(2 * W) - 1
      <3> HIDE DEF g, lo
      <3>1. /\ Hi(g * 2^W + lo) = g /\ Lo(g * 2^W + lo) = lo
            /\ g * 2^W + lo \in 0 .. 2^(2 * W) - 1
        BY <2>2, Halves
      <3> QED BY <1>10, <3>1 DEF P
    <2>4. (2 * pa) % 2^(2 * W) = 2 * pa
      <3>1. 2^(2 * W) \in Nat \ {0}
        <4>1. P * P \in Nat \ {0}
          BY <1>2
        <4> QED BY <4>1, Powers DEF P
      <3>2. \A x, m \in Nat : x <= m - 1 => x % m = x
        OBVIOUS
      <3> QED BY <2>3, <3>1, <3>2
    <2>5. 2^(W + 1) = 2 * P
      BY Powers DEF P
    <2>6. div_step(pa, b) = LET diff == (g - b) % (2 * P)
                            IN  IF diff < P THEN diff * P + lo + 1 ELSE 2 * pa
      BY <2>3, <2>4, <2>5 DEF div_step, P
    <2> HIDE DEF g, lo
    <2>7. CASE g >= b
      <3>1. g - b \in 0 .. 2 * P - 1 /\ 2 * P \in Nat \ {0} /\ g - b < P
        BY <1>2, <1>3, <2>1, <2>7
      <3>2. (g - b) % (2 * P) = g - b
        BY <3>1
      <3>3. div_step(pa, b) = (g - b) * P + lo + 1
        BY <2>6, <3>1, <3>2
      <3>4. (g - b) * P \in Int /\ lo = r0 * N1 + 2 * q /\ r0 * N1 \in Int
        BY <1>2, <1>7, <3>1 DEF lo
      <3> QED BY <1>6, <2>7, <3>3, <3>4
    <2>8. CASE ~ (g >= b)
      <3>1. g - b + 2 * P \in 0 .. 2 * P - 1 /\ 2 * P \in Nat \ {0} /\ g - b + 2 * P >= P
        BY <1>2, <1>3, <2>1, <2>8
      <3>2. g - b = (-1) * (2 * P) + (g - b + 2 * P) /\ g - b \in Int
        BY <1>2, <1>3, <2>1
      <3>3. (g - b) % (2 * P) = g - b + 2 * P
        BY <3>1, <3>2, DivMod
      <3>4. div_step(pa, b) = g * P + lo
        BY <1>2, <1>10, <2>6, <3>1, <3>3
      <3> QED BY <2>8, <3>4 DEF lo
    <2> QED BY <2>7, <2>8
  <1> HIDE DEF hb, qb
  <1>13. hb * P + (r0 * N1 + qb) = (hb * T1 + r0) * N1 + qb
    <2>1. (hb * T1 + r0) * N1 = hb * (T1 * N1) + r0 * N1
      BY <1>2, <1>7, <1>11
    <2>2. hb * P \in Int /\ r0 * N1 \in Int
      BY <1>2, <1>7, <1>11
    <2> QED BY <1>2, <1>11, <2>1, <2>2
  <1>14. Holds(div_step(pa, b), b, a, t - 1, hb, r0, qb)
    BY <1>7, <1>11, <1>12, <1>13 DEF Holds, T1, N1
  <1> QED BY <1>7, <1>11, <1>14 DEF Partial

----------------------------------------------------------------------------
(* Signs.                                                                  *)

IsSigned(op) == op \in {"divs", "rems"}

\* The operand that the unit divides: Start's value of PA and of B.
Magnitude(op, x) == IF IsSigned(op) /\ Neg(x) THEN Minus(x) ELSE x

\* Making an operand positive gives its absolute value.
LEMMA MagnitudeIsAbs ==
    ASSUME NEW x \in Words, NEW op
    PROVE  /\ Magnitude(op, x) \in Words
           /\ Magnitude(op, x) = IF IsSigned(op) THEN Abs(Signed(x)) ELSE x
           /\ Signed(x) \in Int
           /\ Signed(x) < 0 <=> Neg(x)
           /\ Magnitude(op, x) = 0 <=> x = 0
  <1> DEFINE P == 2^W
             H == 2^(W - 1)
  <1>1. P \in Nat \ {0} /\ H \in Nat \ {0} /\ P = 2 * H
    BY Powers
  <1>2. x \in 0 .. P - 1 /\ (Neg(x) <=> x >= H)
    BY DEF Words, Neg
  <1>3. Signed(x) = IF x >= H THEN x - P ELSE x
    BY <1>2 DEF Signed
  <1>4. Minus(x) = (P - x) % P
    BY DEF Minus
  <1> HIDE DEF P, H
  <1>5. x >= H => Minus(x) = P - x /\ P - x \in 0 .. P - 1
    BY <1>1, <1>2, <1>4
  <1>6. Signed(x) \in Int /\ (Signed(x) < 0 <=> Neg(x))
    BY <1>1, <1>2, <1>3
  <1>7. CASE IsSigned(op) /\ Neg(x)
    <2>1. Magnitude(op, x) = P - x /\ Abs(Signed(x)) = P - x /\ P - x # 0 /\ x # 0
      BY <1>1, <1>2, <1>3, <1>5, <1>7 DEF Magnitude, Abs
    <2> QED BY <1>2, <1>5, <1>6, <1>7, <2>1 DEF Words, P
  <1>8. CASE ~ (IsSigned(op) /\ Neg(x))
    <2>1. Magnitude(op, x) = x
      BY <1>8 DEF Magnitude
    <2>2. IsSigned(op) => Abs(Signed(x)) = x
      BY <1>1, <1>2, <1>3, <1>8 DEF Abs
    <2> QED BY <1>6, <2>1, <2>2
  <1> QED BY <1>7, <1>8

\* Negation of a word, as the unit and as the reference compute it.
LEMMA Negation ==
    ASSUME NEW x \in Words
    PROVE  /\ Minus(x) = Word(- x) /\ Minus(x) \in Words
           /\ Word(x) = x /\ Minus(Minus(x)) = x /\ Word(-1) \in Words
  <1> DEFINE P == 2^W
  <1>1. P \in Nat \ {0} /\ x \in 0 .. P - 1
    BY Powers DEF Words
  <1>2. Minus(x) = (P - x) % P /\ Minus(Minus(x)) = (P - ((P - x) % P)) % P
    BY DEF Minus
  <1>3. Word(- x) = (- x) % P /\ Word(x) = x % P /\ Word(-1) = (-1) % P
    BY DEF Word
  <1> HIDE DEF P
  <1>4. /\ (P - x) % P = IF x = 0 THEN 0 ELSE P - x
        /\ (- x) % P = IF x = 0 THEN 0 ELSE P - x
        /\ x % P = x /\ (-1) % P = P - 1
    <2>1. CASE x = 0
      BY <1>1, <2>1
    <2>2. CASE x # 0
      BY <1>1, <2>2
    <2>3. x % P = x /\ (-1) % P = P - 1
      BY <1>1
    <2> QED BY <2>1, <2>2, <2>3
  <1>5. (P - ((P - x) % P)) % P = x
    <2>1. CASE x = 0
      BY <1>1, <1>4, <2>1
    <2>2. CASE x # 0
      <3>1. P - (P - x) = x
        BY <1>1
      <3> QED BY <1>4, <2>2, <3>1
    <2> QED BY <2>1, <2>2
  <1> QED BY <1>1, <1>2, <1>3, <1>4, <1>5 DEF Words, P

\* C's quotient and remainder, from those of the absolute values.
LEMMA Rounding ==
    ASSUME NEW x \in Int, NEW y \in Int, y # 0, NEW q \in Nat, NEW h \in Nat,
           Abs(x) = q * Abs(y) + h, h < Abs(y)
    PROVE  /\ Quot(x, y) = IF (x < 0) = (y < 0) THEN q ELSE - q
           /\ Rem(x, y) = IF x < 0 THEN - h ELSE h
  <1>1. Abs(x) \in Nat /\ Abs(y) \in Nat \ {0}
    BY DEF Abs
  <1>2. Abs(x) \div Abs(y) = q
    BY <1>1, DivMod
  <1>3. Quot(x, y) = IF (x < 0) = (y < 0) THEN q ELSE - q
    BY <1>2 DEF Quot
  <1>4. y * Quot(x, y) = IF x < 0 THEN - (q * Abs(y)) ELSE q * Abs(y)
    <2>1. CASE y < 0
      <3>1. Abs(y) = - y
        BY <2>1 DEF Abs
      <3>2. y * q = - (q * (- y)) /\ y * (- q) = q * (- y)
        OBVIOUS
      <3> QED BY <1>3, <2>1, <3>1, <3>2
    <2>2. CASE ~ (y < 0)
      <3>1. Abs(y) = y
        BY <2>2 DEF Abs
      <3>2. y * q = q * y /\ y * (- q) = - (q * y)
        OBVIOUS
      <3> QED BY <1>3, <2>2, <3>1, <3>2
    <2> QED BY <2>1, <2>2
  <1>5. q * Abs(y) \in Nat
    BY <1>1
  <1>6. x = IF x < 0 THEN - (q * Abs(y) + h) ELSE q * Abs(y) + h
    BY DEF Abs
  <1> DEFINE m == q * Abs(y)
  <1> HIDE DEF m
  <1>7. Rem(x, y) = IF x < 0 THEN - h ELSE h
    <2>1. Rem(x, y) = x - (IF x < 0 THEN - m ELSE m)
      BY <1>4 DEF Rem, m
    <2>2. x = (IF x < 0 THEN - (m + h) ELSE m + h) /\ m \in Nat
      BY <1>5, <1>6 DEF m
    <2> QED BY <2>1, <2>2
  <1> QED BY <1>3, <1>7

----------------------------------------------------------------------------
(* The unit.                                                               *)

\* The sign that Start records for the result.
NegResult(req) == IsSigned(req.op) /\ ~(Neg(req.a) <=> Neg(req.b) /\ req.op = "divs")

\* The registers of the unit while it works on the accepted request.
WorkInv ==
    LET req == accepted
    IN  cnt # 0 =>
            /\ req \in Requests
            /\ Q_addr_reg = req.wad
            /\ is_div <=> req.op \in {"divs", "divu"}
            /\ is_neg <=> NegResult(req)
            /\ B = Magnitude(req.op, req.b)
            /\ Partial(PA, B, Magnitude(req.op, req.a), cnt - 1)

WriteInv == w1 # NoWrite => w1 = [addr |-> accepted.wad, val |-> Reference(accepted)]

SeenInv == seen = IF cnt = 1 THEN Q_addr_reg ELSE NoReg

\* The inductive invariant.
DivInv == DivTypeOK /\ WorkInv /\ WriteInv /\ SeenInv

\* Before the first step all bits of the dividend are to come.
LEMMA FirstPartial ==
    ASSUME NEW a \in Words, NEW b \in Words
    PROVE  Partial(a, b, a, W)
  <1>1. 2^W \in Nat \ {0} /\ W - W = 0 /\ 2^0 = 1 /\ a \in 0 .. 2^W - 1 /\ b \in Nat
    BY Powers, WidthOK DEF Words
  <1> DEFINE P == 2^W
  <1>2. 2^(W - W) = 1
    BY <1>1
  <1>3. /\ a = (0 * P + a) * 1 + 0 /\ 0 < 1 /\ a < P
        /\ b # 0 => (0 * b + 0) * P + a = a /\ 0 < b
        /\ b = 0 => 0 * P + a = a
    BY <1>1
  <1>4. Holds(a, b, a, W, 0, a, 0)
    BY <1>2, <1>3 DEF Holds
  <1>5. 0 \in Nat /\ a \in Nat
    BY <1>1
  <1> QED BY <1>4, <1>5 DEF Partial

\* After the last step PA holds remainder and quotient.
LEMMA LastPartial ==
    ASSUME NEW a \in Words, NEW b \in Words, NEW pa, Partial(pa, b, a, 0)
    PROVE  /\ Hi(pa) \in Words /\ Lo(pa) \in Words
           /\ b # 0 => a = Lo(pa) * b + Hi(pa) /\ Hi(pa) < b
           /\ b = 0 => Hi(pa) = a
  <1>1. PICK h \in Nat, r \in Nat, q \in Nat : Holds(pa, b, a, 0, h, r, q)
    BY DEF Partial
  <1>2. W - 0 = W /\ 2^0 = 1 /\ 2^W \in Nat \ {0} /\ 0 \in 0 .. W /\ b \in Nat
    BY WidthOK, Powers DEF Words
  <1>3. /\ h \in Words /\ r * 2^(W - 0) + q \in Words
        /\ pa = h * 2^W + (r * 2^(W - 0) + q)
    BY <1>1, <1>2, PartialIsWord
  <1>4. /\ r < 1
        /\ b # 0 => (q * b + h) * 1 + r = a /\ h < b
        /\ b = 0 => h * 1 + r = a
    BY <1>1, <1>2 DEF Holds
  <1>5. r = 0
    BY <1>4
  <1>6. r * 2^(W - 0) + q = q
    BY <1>2, <1>5
  <1>7. Hi(pa) = h /\ Lo(pa) = q /\ q \in Words
    BY <1>3, <1>6, Halves
  <1>8. q * b \in Nat
    BY <1>2
  <1> DEFINE m == q * b
  <1>9. b # 0 => (m + h) * 1 + r = a /\ h < b
    BY <1>4 DEF m
  <1>10. m \in Nat
    BY <1>8 DEF m
  <1> HIDE DEF m
  <1>11. (b # 0 => a = m + h /\ h < b) /\ (b = 0 => h = a)
    BY <1>4, <1>5, <1>9, <1>10
  <1> QED BY <1>3, <1>7, <1>11 DEF m

\* The sign given to the result makes it that of the behavioural model.
LEMMA ResultIsReference ==
    ASSUME NEW req \in Requests, NEW q \in Words, NEW h \in Words, NEW a, NEW b,
           a = Magnitude(req.op, req.a), b = Magnitude(req.op, req.b),
           b # 0 => a = q * b + h /\ h < b,
           b = 0 => h = a,
           NEW dv \in BOOLEAN, dv <=> req.op \in {"divs", "divu"},
           NEW ng \in BOOLEAN, ng <=> NegResult(req)
    PROVE  LET res == IF dv THEN q ELSE h
               val == IF ng THEN Minus(res) ELSE res
           IN  (IF b = 0 /\ dv THEN Word(-1) ELSE val) = Reference(req)
  <1> DEFINE x == req.a
             y == req.b
  <1>1. req.op \in {"divs", "divu", "rems", "remu"} /\ x \in Words /\ y \in Words
    BY DEF Requests
  <1>2. /\ a \in Words /\ b \in Words
        /\ IsSigned(req.op) => a = Abs(Signed(x)) /\ b = Abs(Signed(y))
        /\ ~IsSigned(req.op) => a = x /\ b = y
        /\ Signed(x) \in Int /\ (Signed(x) < 0 <=> Neg(x))
        /\ Signed(y) \in Int /\ (Signed(y) < 0 <=> Neg(y))
        /\ b = 0 <=> y = 0
    <2>1. /\ a \in Words
          /\ a = IF IsSigned(req.op) THEN Abs(Signed(x)) ELSE x
          /\ Signed(x) \in Int
          /\ Signed(x) < 0 <=> Neg(x)
      BY <1>1, MagnitudeIsAbs, Zenon
    <2>2. /\ b \in Words
          /\ b = IF IsSigned(req.op) THEN Abs(Signed(y)) ELSE y
          /\ Signed(y) \in Int
          /\ Signed(y) < 0 <=> Neg(y)
          /\ b = 0 <=> y = 0
      BY <1>1, MagnitudeIsAbs, Zenon
    <2> QED BY <2>1, <2>2, Zenon
  <1>3. a \in Nat /\ b \in Nat /\ q \in Nat /\ h \in Nat
    BY <1>2, Powers DEF Words
  <1>4. /\ Minus(q) = Word(- q) /\ Word(q) = q /\ Minus(h) = Word(- h) /\ Word(h) = h
    BY Negation
  <1>5. CASE b = 0
    <2>1. y = 0
      BY <1>2, <1>5
    <2>2. CASE req.op \in {"divs", "divu"}
      BY <1>5, <2>1, <2>2 DEF Reference
    <2>3. CASE req.op = "remu"
      <3>1. ~IsSigned(req.op) /\ ~ng /\ ~dv
        BY <2>3 DEF IsSigned, NegResult
      <3> QED BY <1>2, <1>5, <2>1, <2>3, <3>1 DEF Reference
    <2>4. CASE req.op = "rems"
      <3>1. IsSigned(req.op) /\ (ng <=> Neg(x)) /\ ~dv
        BY <2>4, Zenon DEF IsSigned, NegResult
      <3>2. CASE Neg(x)
        <4>1. h = Minus(x)
          BY <1>5, <3>1, <3>2 DEF Magnitude
        <4>2. Minus(h) = x
          BY <1>1, <4>1, Negation
        <4> QED BY <2>1, <2>4, <3>1, <3>2, <4>2 DEF Reference
      <3>3. CASE ~Neg(x)
        <4>1. h = x
          BY <1>5, <3>3 DEF Magnitude
        <4> QED BY <2>1, <2>4, <3>1, <3>3, <4>1 DEF Reference
      <3> QED BY <3>2, <3>3
    <2> QED BY <1>1, <2>2, <2>3, <2>4
  <1>6. CASE b # 0
    <2>1. y # 0
      BY <1>2, <1>6
    <2>2. CASE ~IsSigned(req.op)
      <3>1. x \div y = q /\ x % y = h
        <4>1. x = q * y + h /\ h \in 0 .. y - 1 /\ y \in Nat \ {0} /\ x \in Int
          BY <1>2, <1>3, <1>6, <2>2
        <4> HIDE DEF x, y
        <4>2. q \in Int
          BY <1>3
        <4> QED BY <4>1, <4>2, DivMod, Zenon
      <3>2. ~ng /\ req.op \in {"divu", "remu"}
        BY <1>1, <2>2 DEF IsSigned, NegResult
      <3>3. CASE req.op = "divu"
        BY <1>4, <1>6, <2>1, <3>1, <3>2, <3>3 DEF Reference
      <3>4. CASE req.op = "remu"
        BY <1>4, <1>6, <2>1, <3>1, <3>2, <3>4 DEF Reference
      <3> QED BY <3>2, <3>3, <3>4
    <2>3. CASE IsSigned(req.op)
      <3> DEFINE sx == Signed(x)
                 sy == Signed(y)
      <3>1. sx \in Int /\ sy \in Int /\ Abs(sx) = q * Abs(sy) + h /\ h < Abs(sy)
        BY <1>2, <1>6, <2>3
      <3>2. sy # 0
        BY <1>2, <1>3, <1>6, <2>3 DEF Abs
      <3>3. (sx < 0 <=> Neg(x)) /\ (sy < 0 <=> Neg(y))
        BY <1>2
      <3> HIDE DEF sx, sy
      <3>4. /\ Quot(sx, sy) = IF (sx < 0) = (sy < 0) THEN q ELSE - q
            /\ Rem(sx, sy) = IF sx < 0 THEN - h ELSE h
        BY <1>3, <3>1, <3>2, Rounding
      <3>5. CASE req.op = "divs"
        <4>1. (ng <=> ~(Neg(x) <=> Neg(y))) /\ dv
          BY <2>3, <3>5, Zenon DEF NegResult
        <4>2. Reference(req) = Word(Quot(sx, sy))
          BY <2>1, <3>5 DEF Reference, sx, sy
        <4>3. Quot(sx, sy) = IF ng THEN - q ELSE q
          <5>1. (ng <=> ~((sx < 0) <=> (sy < 0)))
            BY <3>3, <4>1, Zenon
          <5>2. ((sx < 0) = (sy < 0)) <=> ((sx < 0) <=> (sy < 0))
            BY <3>1
          <5> QED BY <3>4, <5>1, <5>2, Zenon
        <4> QED BY <1>4, <1>6, <4>1, <4>2, <4>3
      <3>6. CASE req.op = "rems"
        <4>1. (ng <=> Neg(x)) /\ ~dv
          BY <2>3, <3>6, Zenon DEF NegResult
        <4>2. Reference(req) = Word(Rem(sx, sy))
          BY <2>1, <3>6 DEF Reference, sx, sy
        <4>3. Rem(sx, sy) = IF ng THEN - h ELSE h
          BY <3>3, <3>4, <4>1
        <4> QED BY <1>4, <1>6, <4>1, <4>2, <4>3
      <3> QED BY <2>3, <3>5, <3>6 DEF IsSigned
    <2> QED BY <2>2, <2>3
  <1> QED BY <1>5, <1>6

\* Zero is a word, and it fits into PA.
LEMMA ZeroFits == 0 \in Words /\ Words \subseteq 0 .. 2^(2 * W) - 1
  <1> DEFINE P == 2^W
  <1>1. P \in Nat \ {0} /\ 2^(2 * W) = P * P /\ Words = 0 .. P - 1
    BY Powers DEF Words
  <1> HIDE DEF P
  <1>2. 1 * P <= P * P /\ P * P \in Nat
    BY <1>1, Grows
  <1> QED BY <1>1, <1>2

\* NoWrite is not the write of a register.
LEMMA NoWriteType == /\ NoWrite \in [addr : Nat \cup {NoReg}, val : Words]
                     /\ NoWrite.addr = NoReg /\ NoReg \notin Nat
  BY ZeroFits DEF NoWrite, NoReg

\* The unit after reset.
LEMMA DivInit == Init => DivInv
  <1> SUFFICES ASSUME Init PROVE DivInv
    OBVIOUS
  <1>1. 0 \in Words /\ 0 \in 0 .. 2^(2 * W) - 1
    BY ZeroFits
  <1>2. DivTypeOK
    <2>1. cnt \in 0 .. W + 1 /\ PA \in 0 .. 2^(2 * W) - 1 /\ B \in Words
      BY <1>1, WidthOK DEF Init
    <2>2. w1 \in [addr : Nat \cup {NoReg}, val : Words]
      BY NoWriteType DEF Init
    <2> QED BY <2>1, <2>2 DEF Init, DivTypeOK
  <1> QED BY <1>2 DEF Init, DivInv, WorkInv, WriteInv, SeenInv

\* A request is taken.
LEMMA StartInv ==
    ASSUME DivInv, NEW req \in Requests \cup {NoRequest}, Start(req),
           seen' = IF div_wnc THEN div_adr ELSE NoReg
    PROVE  DivInv' /\ w1'.addr = seen
  <1>1. /\ cnt = 0 /\ req.op # "none" /\ req.wad # 0
    BY DEF Start, div_start
  <1>2. req \in Requests
    BY <1>1 DEF NoRequest
  <1>3. req.a \in Words /\ req.b \in Words /\ req.wad \in Nat
    BY <1>2, RegsOK DEF Requests
  <1> DEFINE a == Magnitude(req.op, req.a)
             b == Magnitude(req.op, req.b)
  <1>4. a \in Words /\ b \in Words
    BY <1>3, MagnitudeIsAbs
  <1>5. /\ PA' = a /\ B' = b /\ Q_addr_reg' = req.wad /\ cnt' = W + 1
        /\ w1' = NoWrite /\ accepted' = req
        /\ is_div' = (req.op \in {"divs", "divu"})
    BY DEF Start, Magnitude, IsSigned
  <1>6. is_neg' \in BOOLEAN /\ (is_neg' <=> NegResult(req))
    <2>1. is_neg' = (IsSigned(req.op) /\ Neg(req.a) # (Neg(req.b) /\ req.op = "divs"))
      BY Zenon DEF Start, IsSigned
    <2>2. Neg(req.a) \in BOOLEAN
      BY DEF Neg
    <2> QED BY <2>1, <2>2, Zenon DEF NegResult
  <1>7. cnt' \in 0 .. W + 1 /\ cnt' - 1 = W /\ cnt' # 1 /\ cnt' # 0 /\ cnt # 2 /\ cnt # 1
    BY <1>1, <1>5, WidthOK
  <1>8. seen' = NoReg /\ seen = NoReg
    BY <1>7 DEF div_wnc, DivInv, SeenInv
  <1> HIDE DEF a, b
  <1>9. Partial(PA', B', a, cnt' - 1)
    BY <1>4, <1>5, <1>7, FirstPartial
  <1>10. PA' \in 0 .. 2^(2 * W) - 1
    BY <1>4, <1>5, ZeroFits
  <1>11. DivTypeOK'
    BY <1>2, <1>3, <1>4, <1>5, <1>6, <1>7, <1>8, <1>10, NoWriteType DEF DivTypeOK
  <1>12. WorkInv'
    BY <1>2, <1>5, <1>6, <1>9 DEF WorkInv, a, b
  <1>13. WriteInv' /\ SeenInv'
    BY <1>5, <1>7, <1>8 DEF WriteInv, SeenInv
  <1> QED BY <1>5, <1>8, <1>11, <1>12, <1>13, NoWriteType DEF DivInv

\* One division step.
LEMMA StepInv ==
    ASSUME DivInv, Step, seen' = IF div_wnc THEN div_adr ELSE NoReg
    PROVE  DivInv' /\ w1'.addr = seen
  <1>1. /\ cnt > 1 /\ cnt \in 0 .. W + 1 /\ cnt' = cnt - 1 /\ w1' = NoWrite
        /\ PA' = div_step(PA, B)
        /\ UNCHANGED <<B, Q_addr_reg, is_div, is_neg, accepted>>
    BY DEF Step, DivInv, DivTypeOK
  <1>2. cnt # 0 /\ cnt # 1 /\ cnt' # 0 /\ cnt' \in 0 .. W + 1 /\ cnt - 1 \in 1 .. W /\ (cnt = 2 <=> cnt' = 1)
    BY <1>1, WidthOK
  <1> DEFINE a == Magnitude(accepted.op, accepted.a)
  <1>3. /\ accepted \in Requests /\ Q_addr_reg = accepted.wad
        /\ is_div <=> accepted.op \in {"divs", "divu"}
        /\ is_neg <=> NegResult(accepted)
        /\ B = Magnitude(accepted.op, accepted.b)
        /\ Partial(PA, B, a, cnt - 1)
    BY <1>2 DEF DivInv, WorkInv
  <1>4. a \in Words /\ B \in Words
    BY <1>3, MagnitudeIsAbs DEF Requests
  <1> HIDE DEF a
  <1>5. Partial(PA', B, a, cnt' - 1)
    <2>1. Partial(div_step(PA, B), B, a, (cnt - 1) - 1)
      BY <1>2, <1>3, <1>4, OneStep
    <2> QED BY <1>1, <2>1
  <1>6. PA' \in 0 .. 2^(2 * W) - 1
    <2>1. cnt' - 1 \in 0 .. W
      BY <1>1, WidthOK
    <2>2. PICK h \in Nat, r \in Nat, q \in Nat : Holds(PA', B, a, cnt' - 1, h, r, q)
      BY <1>5 DEF Partial
    <2> DEFINE l == r * 2^(W - (cnt' - 1)) + q
    <2>3. h \in Words /\ l \in Words /\ PA' = h * 2^W + l
      BY <1>4, <2>1, <2>2, PartialIsWord
    <2> HIDE DEF l
    <2> QED BY <2>3, Halves
  <1>7. seen = NoReg /\ seen' = IF cnt' = 1 THEN Q_addr_reg ELSE NoReg
    BY <1>2 DEF DivInv, SeenInv, div_wnc, div_adr
  <1>8. DivTypeOK'
    BY <1>1, <1>2, <1>6, <1>7, NoWriteType DEF DivInv, DivTypeOK
  <1>9. WorkInv'
    BY <1>1, <1>3, <1>5 DEF WorkInv, a
  <1>10. WriteInv' /\ SeenInv'
    BY <1>1, <1>7 DEF WriteInv, SeenInv
  <1> QED BY <1>1, <1>7, <1>8, <1>9, <1>10, NoWriteType DEF DivInv

\* The result is written.
LEMMA FinishInv ==
    ASSUME DivInv, Finish, seen' = IF div_wnc THEN div_adr ELSE NoReg
    PROVE  DivInv' /\ w1'.addr = seen
  <1> DEFINE res == IF is_div THEN Lo(PA) ELSE Hi(PA)
             val == IF is_neg THEN Minus(res) ELSE res
             out == IF B = 0 /\ is_div THEN Word(-1) ELSE val
             a == Magnitude(accepted.op, accepted.a)
  <1>1. /\ cnt = 1 /\ cnt' = 0 /\ w1' = [addr |-> Q_addr_reg, val |-> out]
        /\ UNCHANGED <<PA, B, Q_addr_reg, is_div, is_neg, accepted>>
    BY DEF Finish
  <1>2. cnt # 0 /\ cnt - 1 = 0 /\ cnt # 2 /\ cnt' # 1 /\ cnt' \in 0 .. W + 1
    BY <1>1, WidthOK
  <1>3. /\ accepted \in Requests /\ Q_addr_reg = accepted.wad
        /\ is_div \in BOOLEAN /\ (is_div <=> accepted.op \in {"divs", "divu"})
        /\ is_neg \in BOOLEAN /\ (is_neg <=> NegResult(accepted))
        /\ B = Magnitude(accepted.op, accepted.b)
        /\ Partial(PA, B, a, 0)
    BY <1>2 DEF DivInv, WorkInv, DivTypeOK
  <1>4. a \in Words /\ B \in Words
    BY <1>3, MagnitudeIsAbs DEF Requests
  <1>5. /\ Hi(PA) \in Words /\ Lo(PA) \in Words
        /\ B # 0 => a = Lo(PA) * B + Hi(PA) /\ Hi(PA) < B
        /\ B = 0 => Hi(PA) = a
    BY <1>3, <1>4, LastPartial
  <1>6. out = Reference(accepted)
    BY <1>3, <1>5, ResultIsReference
  <1>7. out \in Words
    BY <1>5, ZeroFits, Negation
  <1> HIDE DEF out
  <1>8. w1'.addr = Q_addr_reg /\ Q_addr_reg \in Nat /\ w1' \in [addr : Nat \cup {NoReg}, val : Words]
    BY <1>1, <1>7 DEF DivInv, DivTypeOK
  <1>9. seen = Q_addr_reg /\ seen' = NoReg
    BY <1>1, <1>2 DEF DivInv, SeenInv, div_wnc
  <1>10. DivTypeOK'
    BY <1>1, <1>2, <1>8, <1>9 DEF DivInv, DivTypeOK
  <1>11. WorkInv' /\ SeenInv'
    BY <1>1, <1>2, <1>9 DEF WorkInv, SeenInv
  <1>12. WriteInv'
    BY <1>1, <1>3, <1>6 DEF WriteInv
  <1> QED BY <1>8, <1>9, <1>10, <1>11, <1>12 DEF DivInv

\* The unit has nothing to do.
LEMMA IdleInv ==
    ASSUME DivInv, NEW req, Idle(req), seen' = IF div_wnc THEN div_adr ELSE NoReg
    PROVE  DivInv' /\ w1'.addr = seen
  <1>1. cnt = 0 /\ w1' = NoWrite /\ UNCHANGED <<cnt, PA, B, Q_addr_reg, is_div, is_neg, accepted>>
    BY DEF Idle, regs
  <1>2. seen = NoReg /\ seen' = NoReg
    BY <1>1 DEF DivInv, SeenInv, div_wnc
  <1>3. DivTypeOK'
    BY <1>1, <1>2, NoWriteType DEF DivInv, DivTypeOK
  <1>4. WorkInv' /\ WriteInv' /\ SeenInv'
    BY <1>1, <1>2 DEF WorkInv, WriteInv, SeenInv
  <1> QED BY <1>1, <1>2, <1>3, <1>4, NoWriteType DEF DivInv

\* Every clock cycle keeps the invariant and writes what was announced.
LEMMA CycleInv ==
    ASSUME DivInv, Cycle
    PROVE  DivInv' /\ w1'.addr = seen
  <1>1. seen' = IF div_wnc THEN div_adr ELSE NoReg
    BY DEF Cycle
  <1>2. CASE \E req \in Requests \cup {NoRequest} : Start(req) \/ Idle(req)
    BY <1>1, <1>2, StartInv, IdleInv
  <1>3. CASE Step
    BY <1>1, <1>3, StepInv
  <1>4. CASE Finish
    BY <1>1, <1>4, FinishInv
  <1> QED BY <1>2, <1>3, <1>4 DEF Cycle

\* The invariant of every reachable state.
LEMMA AlwaysDivInv == Spec => []DivInv
  <1>1. DivInv /\ [Cycle]_vars => DivInv'
    <2>1. CASE Cycle
      BY <2>1, CycleInv
    <2>2. CASE UNCHANGED vars
      BY <2>2 DEF vars, regs, DivInv, DivTypeOK, WorkInv, WriteInv, SeenInv
    <2> QED BY <2>1, <2>2
  <1> QED BY <1>1, DivInit, PTL DEF Spec

----------------------------------------------------------------------------
(* The theorems.                                                           *)

\* Every register keeps its width.
THEOREM DivTypeCorrect == Spec => []DivTypeOK
  BY AlwaysDivInv, PTL DEF DivInv

\* Quotient and remainder are right after every step, and the unit writes what
\* the behavioural model of the instruction computes: for every word width and
\* all operands, zero divisors and the most negative dividend included.
THEOREM DividesRight == Spec => []DivResult
  <1>1. DivInv => DivResult
    <2> SUFFICES ASSUME DivInv PROVE DivResult
      OBVIOUS
    <2>1. ASSUME cnt # 0
          PROVE  LET todo == cnt - 1
                     quot == PA % 2^(W - todo)
                     rest == Lo(PA) \div 2^(W - todo)
                     a == IF accepted.op \in {"divs", "rems"} THEN Abs(Signed(accepted.a)) ELSE accepted.a
                 IN  /\ B # 0 => (quot * B + Hi(PA)) * 2^todo + rest = a /\ Hi(PA) < B
                     /\ B = 0 => Hi(PA) * 2^todo + rest = a
      <3> DEFINE todo == cnt - 1
                 a == Magnitude(accepted.op, accepted.a)
                 T == 2^todo
                 N == 2^(W - todo)
      <3>1. /\ accepted \in Requests
            /\ B = Magnitude(accepted.op, accepted.b)
            /\ Partial(PA, B, a, todo)
        BY <2>1 DEF DivInv, WorkInv
      <3>2. /\ a \in Words /\ B \in Words
            /\ a = IF accepted.op \in {"divs", "rems"} THEN Abs(Signed(accepted.a)) ELSE accepted.a
        BY <3>1, MagnitudeIsAbs DEF Requests, IsSigned
      <3>3. todo \in 0 .. W
        BY <2>1, WidthOK DEF DivInv, DivTypeOK
      <3> HIDE DEF a, todo
      <3>4. PICK h \in Nat, r \in Nat, q \in Nat : Holds(PA, B, a, todo, h, r, q)
        BY <3>1 DEF Partial
      <3>5. h \in Words /\ r * N + q \in Words /\ PA = h * 2^W + (r * N + q)
        BY <3>2, <3>3, <3>4, PartialIsWord
      <3>6. Hi(PA) = h /\ Lo(PA) = r * N + q
        <4> DEFINE l == r * N + q
        <4> HIDE DEF l
        <4>1. l \in Words /\ PA = h * 2^W + l
          BY <3>5 DEF l
        <4>2. Hi(PA) = h /\ Lo(PA) = l
          BY <3>5, <4>1, Halves
        <4> QED BY <4>2 DEF l
      <3>7. T \in Nat \ {0} /\ N \in Nat \ {0}
        BY <3>3, SplitWord
      <3>8. /\ PA = (h * T + r) * N + q /\ q < N
            /\ B # 0 => (q * B + h) * T + r = a /\ h < B
            /\ B = 0 => h * T + r = a
        BY <3>4 DEF Holds
      <3> HIDE DEF T, N
      <3>9. PA % N = q
        <4>1. h * T + r \in Int /\ PA \in Int /\ q \in 0 .. N - 1
          BY <3>7, <3>8
        <4> QED BY <3>7, <3>8, <4>1, DivMod
      <3>10. (r * N + q) \div N = r
        <4>1. r * N + q \in Int /\ q \in 0 .. N - 1 /\ r \in Int
          BY <3>7, <3>8
        <4> QED BY <3>7, <4>1, DivMod, Zenon
      <3> QED BY <3>2, <3>6, <3>8, <3>9, <3>10 DEF T, N, todo
    <2> QED BY <2>1 DEF DivInv, WriteInv, DivResult
  <1> QED BY <1>1, AlwaysDivInv, PTL

\* The port w1 is written exactly in the cycles that were announced.
THEOREM WritesAnnounced == Spec => WriteAnnounced
  <1>1. DivInv /\ [Cycle]_vars => [w1'.addr = seen]_vars
    BY CycleInv
  <1> QED BY <1>1, AlwaysDivInv, PTL DEF Spec, WriteAnnounced
=============================================================================
