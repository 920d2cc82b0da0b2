--------------------------- MODULE Library_proofs ---------------------------
(***************************************************************************)
(* Proofs about the library's functions, for words and longs of every      *)
(* width, texts and memories of every size.  A loop of the code is a       *)
(* function on the numbers of its turns; a lemma says what it holds after  *)
(* each of them, by induction over a set of indices.                       *)
(***************************************************************************)
EXTENDS Library, FiniteSetTheorems, FunctionTheorems, SequenceTheorems, WellFoundedInduction, TLAPS

----------------------------------------------------------------------------
(* Induction and recursion, without operators as parameters.               *)

LessThan == { p \in Nat \X Nat : p[1] < p[2] }

\* A nonempty set of numbers has a least one.
LEMMA Least ==
    ASSUME NEW S, S \subseteq Nat, S # {}
    PROVE  \E x \in S : \A y \in S : x <= y
  <1>1. IsWellFoundedOn(LessThan, Nat)
    BY NatLessThanWellFounded DEF LessThan, OpToRel
  <1>2. PICK x \in S : \A y \in S : ~(<<y, x>> \in LessThan)
    BY <1>1, WFMin, Zenon
  <1>3. \A y \in S : ~(y < x)
    BY <1>2 DEF LessThan
  <1> QED BY <1>3

\* A set that holds a and with each number the next, up to b, holds all of them.
LEMMA UpTo ==
    ASSUME NEW a \in Int, NEW b \in Int, NEW P, a \in P,
           \A i \in a .. b - 1 : i \in P => i + 1 \in P
    PROVE  \A i \in a .. b : i \in P
  <1> DEFINE D == { n \in Nat : a + n <= b /\ a + n \notin P }
  <1> SUFFICES ASSUME NEW i \in a .. b, i \notin P PROVE FALSE
    OBVIOUS
  <1>1. i - a \in D
    <2>1. i - a \in Nat /\ a + (i - a) = i
      OBVIOUS
    <2> QED BY <2>1
  <1>2. PICK d \in D : \A e \in D : d <= e
    <2>1. D \subseteq Nat /\ D # {}
      BY <1>1
    <2> QED BY <2>1, Least
  <1>3. d \in Nat /\ a + d <= b /\ a + d \notin P
    OBVIOUS
  <1> HIDE DEF D
  <1>4. d # 0
    BY <1>3
  <1>5. d - 1 \in Nat /\ ~(d <= d - 1) /\ a + (d - 1) <= b /\ (a + (d - 1)) + 1 = a + d
        /\ a + (d - 1) \in a .. b - 1
    BY <1>3, <1>4
  <1>6. d - 1 \notin D
    BY <1>2, <1>5
  <1>7. a + (d - 1) \in P
    BY <1>5, <1>6 DEF D
  <1> QED BY <1>3, <1>5, <1>7

\* The first index of a nonempty set of indices.
LEMMA FirstIndex ==
    ASSUME NEW i \in Int, NEW n \in Int, NEW S, n \in S, i <= n, 0 <= i
    PROVE  \E j \in i .. n : j \in S /\ \A k \in i .. j - 1 : k \notin S
  <1> DEFINE T == { j \in Nat : j \in i .. n /\ j \in S }
  <1>1. n \in T /\ T \subseteq Nat
    OBVIOUS
  <1>2. PICK j \in T : \A k \in T : j <= k
    BY <1>1, Least
  <1>3. j \in i .. n /\ j \in S /\ j \in Nat
    OBVIOUS
  <1>4. ASSUME NEW k \in i .. j - 1, k \in S PROVE FALSE
    <2>1. k \in Nat /\ k \in i .. n /\ ~(j <= k)
      BY <1>3
    <2> QED BY <1>2, <1>4, <2>1
  <1> QED BY <1>3, <1>4

\* Functions on an interval can be defined by recursion from its lower end: F
\* gives the value at i from the one at i - 1.
Recursive(f, a, b, x, F) == f = [i \in a .. b |-> IF i = a THEN x ELSE F[i][f[i - 1]]]

\* There is a function on the interval that satisfies the recursion.
LEMMA Recursion ==
    ASSUME NEW a \in Int, NEW b \in Int, a <= b, NEW S, NEW x \in S, NEW F \in [a + 1 .. b -> [S -> S]]
    PROVE  \E f \in [a .. b -> S] : Recursive(f, a, b, x, F)
  <1> DEFINE Upto(c, f) == f = [i \in a .. c |-> IF i = a THEN x ELSE F[i][f[i - 1]]]
             P == { c \in a .. b : \E f \in [a .. c -> S] : Upto(c, f) }
  <1>1. a \in P
    <2> DEFINE f == [i \in a .. a |-> x]
    <2>1. f \in [a .. a -> S] /\ Upto(a, f)
      <3>1. \A i \in a .. a : i = a
        OBVIOUS
      <3> QED BY <3>1
    <2>2. a \in a .. b
      OBVIOUS
    <2> QED BY <2>1, <2>2
  <1>2. ASSUME NEW c \in a .. b - 1, c \in P
        PROVE  c + 1 \in P
    <2>1. PICK f \in [a .. c -> S] : Upto(c, f)
      BY <1>2
    <2>2. /\ c + 1 \in a .. b /\ c + 1 \in a + 1 .. b /\ c \in a .. c /\ (c + 1) - 1 = c /\ c + 1 # a
          /\ \A i \in a .. c : i # c + 1 /\ i \in a .. c + 1
          /\ \A i \in a .. c + 1 : i = c + 1 \/ i \in a .. c
          /\ \A i \in a .. c : i # a => i - 1 \in a .. c
      OBVIOUS
    <2> DEFINE g == [i \in a .. c + 1 |-> IF i = c + 1 THEN F[c + 1][f[c]] ELSE f[i]]
    <2>3. F[c + 1][f[c]] \in S
      BY <2>2
    <2>4. g \in [a .. c + 1 -> S]
      BY <2>2, <2>3
    <2>5. g[c + 1] = F[c + 1][f[c]] /\ \A i \in a .. c : g[i] = f[i]
      BY <2>2
    <2>6. \A i \in a .. c : f[i] = IF i = a THEN x ELSE F[i][f[i - 1]]
      BY <2>1
    <2> HIDE DEF g
    <2>7. ASSUME NEW i \in a .. c + 1 PROVE g[i] = IF i = a THEN x ELSE F[i][g[i - 1]]
      <3>1. CASE i = c + 1
        <4>1. g[i - 1] = f[c] /\ g[i] = F[i][f[c]] /\ i # a
          BY <2>2, <2>5, <3>1
        <4> QED BY <4>1
      <3>2. CASE i \in a .. c
        <4>1. i # a => g[i - 1] = f[i - 1]
          BY <2>2, <2>5, <3>2
        <4>2. g[i] = f[i]
          BY <2>5, <3>2
        <4> QED BY <2>6, <3>2, <4>1, <4>2
      <3> QED BY <2>2, <3>1, <3>2
    <2>8. Upto(c + 1, g)
      BY <2>4, <2>7, Zenon
    <2> QED BY <2>2, <2>4, <2>8
  <1> HIDE DEF P
  <1>3. b \in P
    <2>1. \A i \in a .. b : i \in P
      BY <1>1, <1>2, UpTo
    <2> QED BY <2>1
  <1> QED BY <1>3 DEF P, Recursive

----------------------------------------------------------------------------
(* Arithmetic.                                                             *)

\* Products of naturals grow with their factors.
LEMMA Grows ==
    ASSUME NEW a \in Nat, NEW b \in Nat, NEW c \in Nat, a <= b
    PROVE  a * c <= b * c /\ a * c \in Nat /\ b * c \in Nat
  <1>1. PICK d \in Nat : b = a + d
    <2>1. b - a \in Nat /\ b = a + (b - a)
      OBVIOUS
    <2> QED BY <2>1
  <1>2. a * c \in Nat /\ b * c \in Nat /\ d * c \in Nat
    OBVIOUS
  <1>3. b * c = a * c + d * c
    BY <1>1
  <1> QED BY <1>2, <1>3

\* Quotient and remainder are determined by what they satisfy, and exist.
LEMMA DivMod ==
    ASSUME NEW x \in Int, NEW n \in Nat \ {0}, NEW q \in Int, NEW r \in 0 .. n - 1, x = q * n + r
    PROVE  x \div n = q /\ x % n = r
  OBVIOUS

\* Quotient and remainder of every number satisfy it.
LEMMA DivModIs ==
    ASSUME NEW x \in Int, NEW n \in Nat \ {0}
    PROVE  /\ x \div n \in Int /\ x % n \in 0 .. n - 1 /\ x = (x \div n) * n + (x % n)
           /\ x \in Nat => x \div n \in Nat
  OBVIOUS

\* Two digits of base n stay below n * n.
LEMMA TwoDigits ==
    ASSUME NEW n \in Nat \ {0}, NEW m \in Nat \ {0}, NEW h \in 0 .. m - 1, NEW l \in 0 .. n - 1
    PROVE  h * n + l \in 0 .. m * n - 1
  <1>1. h + 1 \in Nat /\ h + 1 <= m /\ m \in Nat /\ n \in Nat
    OBVIOUS
  <1>2. (h + 1) * n <= m * n /\ m * n \in Nat
    BY <1>1, Grows
  <1>3. (h + 1) * n = h * n + n /\ h * n \in Nat
    OBVIOUS
  <1> QED BY <1>2, <1>3

\* Numbers that differ by a multiple of n have the same remainder.
Differ(x, y, k, n) == x = y + k * n

\* Adding a multiple of n changes no remainder by n.
LEMMA ModSame ==
    ASSUME NEW x \in Int, NEW y \in Int, NEW n \in Nat \ {0}, NEW k \in Int, Differ(x, y, k, n)
    PROVE  x % n = y % n
  <1>1. y \div n \in Int /\ y % n \in 0 .. n - 1 /\ y = (y \div n) * n + (y % n)
    BY DivModIs
  <1> DEFINE q == y \div n
             r == y % n
  <1>2. q + k \in Int /\ x = (q + k) * n + r /\ r \in 0 .. n - 1
    <2> HIDE DEF q, r
    <2>1. q \in Int /\ r \in 0 .. n - 1 /\ y = q * n + r
      BY <1>1 DEF q, r
    <2> QED BY <2>1 DEF Differ
  <1> HIDE DEF q, r
  <1>3. x % n = r
    BY <1>2, DivMod
  <1> QED BY <1>3 DEF r

----------------------------------------------------------------------------
(* Arith: powers of two.                                                   *)

\* Powers of two are positive.
LEMMA Power ==
    ASSUME NEW m \in 0 .. Double
    PROVE  2^m \in Nat \ {0}
  BY PowersOfTwo

\* They multiply as their exponents add.
LEMMA PowerSum ==
    ASSUME NEW m \in 0 .. Double, NEW n \in 0 .. Double
    PROVE  2^(m + n) = 2^m * 2^n
  BY PowersOfTwo

\* Each is twice the one before.
LEMMA PowerNext ==
    ASSUME NEW m \in 1 .. Double
    PROVE  2^m = 2 * 2^(m - 1) /\ 2^(m - 1) \in Nat \ {0} /\ 2^m \in Nat \ {0}
  <1>1. m - 1 \in 0 .. Double /\ 1 \in 0 .. Double /\ m \in 0 .. Double /\ (m - 1) + 1 = m
    BY WidthOK DEF Double
  <1>2. 2^((m - 1) + 1) = 2^(m - 1) * 2^1
    BY <1>1, PowerSum
  <1>3. 2^1 = 2
    OBVIOUS
  <1>4. 2^(m - 1) \in Nat \ {0} /\ 2^m \in Nat \ {0}
    BY <1>1, Power
  <1> QED BY <1>1, <1>2, <1>3, <1>4

\* The range of a double word is the square of the range of a word.
LEMMA Widths ==
    /\ W \in 1 .. Double /\ Double \in 1 .. Double /\ 0 \in 0 .. Double /\ W - 1 \in 0 .. Double
    /\ Double - 1 \in 0 .. Double /\ W \in 0 .. Double /\ Double \in 0 .. Double
    /\ 2^0 = 1
    /\ 2^W \in Nat \ {0} /\ 2^(W - 1) \in Nat \ {0} /\ 2^W = 2 * 2^(W - 1)
    /\ 2^Double \in Nat \ {0} /\ 2^(Double - 1) \in Nat \ {0} /\ 2^Double = 2 * 2^(Double - 1)
    /\ 2^Double = 2^W * 2^W
  <1>1. /\ W \in 1 .. Double /\ Double \in 1 .. Double /\ 0 \in 0 .. Double /\ W - 1 \in 0 .. Double
        /\ Double - 1 \in 0 .. Double /\ W \in 0 .. Double /\ Double \in 0 .. Double /\ W + W = Double
    BY WidthOK DEF Double
  <1>2. 2^0 = 1
    OBVIOUS
  <1>3. 2^(W + W) = 2^W * 2^W
    BY <1>1, PowerSum
  <1>4. /\ 2^W \in Nat \ {0} /\ 2^(W - 1) \in Nat \ {0} /\ 2^W = 2 * 2^(W - 1)
        /\ 2^Double \in Nat \ {0} /\ 2^(Double - 1) \in Nat \ {0} /\ 2^Double = 2 * 2^(Double - 1)
    BY <1>1, PowerNext
  <1> QED BY <1>1, <1>2, <1>3, <1>4

----------------------------------------------------------------------------
(* Arith: division.                                                        *)

\* What a turn of div_pos does, in numbers: 2 * A * B is the range of words, B
\* the part of it that the turns before have used.
LEMMA Restore ==
    ASSUME NEW A \in Nat \ {0}, NEW B \in Nat \ {0}, NEW d \in Nat \ {0}, d < A * B,
           NEW x \in 0 .. 2 * (A * B) - 1
    PROVE  LET X == x \div (2 * A)
               q == (x % (2 * A)) * B + X \div d
               r == ((2 * (X % d)) % (2 * (A * B))) + (q \div (A * B))
               y == (2 * q) % (2 * (A * B))
               Z == x \div A
           IN  /\ r >= d => (x % A) * (2 * B) + Z \div d = y + 1 /\ Z % d = r - d
               /\ ~(r >= d) => (x % A) * (2 * B) + Z \div d = y /\ Z % d = r
  <1> DEFINE X == x \div (2 * A)
             L == x % (2 * A)
             q1 == X \div d
             r1 == X % d
             q == L * B + q1
             b == L \div A
             L0 == L % A
             M == A * B
             rest == L0 * B + q1
             r == ((2 * r1) % (2 * M)) + (q \div M)
             y == (2 * q) % (2 * M)
             Z == x \div A
  <1>1. A \in Nat \ {0} /\ 2 * A \in Nat \ {0} /\ M \in Nat \ {0} /\ 2 * M \in Nat \ {0} /\ x \in Nat
    OBVIOUS
  <1>2. X \in Nat /\ L \in 0 .. 2 * A - 1 /\ x = X * (2 * A) + L
    <2> DEFINE A2 == 2 * A
    <2>1. A2 \in Nat \ {0} /\ x \in Int
      BY <1>1
    <2> HIDE DEF A2
    <2>2. x \div A2 \in Nat /\ x % A2 \in 0 .. A2 - 1 /\ x = (x \div A2) * A2 + (x % A2)
      BY <1>1, <2>1, DivModIs
    <2> QED BY <2>2 DEF A2
  <1>3. X < B
    <2> SUFFICES ASSUME B <= X PROVE FALSE
      BY <1>2
    <2>1. B * (2 * A) <= X * (2 * A)
      BY <1>1, <1>2, Grows
    <2>2. B * (2 * A) = 2 * (A * B)
      OBVIOUS
    <2> QED BY <1>2, <2>1, <2>2
  <1>4. q1 \in Nat /\ r1 \in 0 .. d - 1 /\ X = q1 * d + r1
    <2> HIDE DEF X
    <2>1. X \in Int
      BY <1>2
    <2> QED BY <1>2, <2>1, DivModIs
  <1>5. b \in Nat /\ L0 \in 0 .. A - 1 /\ L = b * A + L0
    <2> HIDE DEF L
    <2>1. L \in Int /\ L \in Nat
      BY <1>2
    <2> QED BY <2>1, DivModIs
  <1> HIDE DEF L, X, q1, r1, b, L0, Z
  <1>6. b \in {0, 1}
    <2> SUFFICES ASSUME 2 <= b PROVE FALSE
      BY <1>5
    <2>1. 2 * A <= b * A
      BY <1>5, Grows
    <2> QED BY <1>2, <1>5, <2>1
  <1>7. q1 < B
    <2>1. 1 * q1 <= d * q1
      BY <1>4, Grows
    <2> QED BY <1>3, <1>4, <2>1
  <1>8. rest \in 0 .. M - 1
    BY <1>4, <1>5, <1>7, TwoDigits
  <1>9. q = b * M + rest
    <2>1. L * B = b * (A * B) + L0 * B
      BY <1>5
    <2>2. L0 * B \in Int /\ q1 \in Int /\ b * (A * B) \in Int
      BY <1>4, <1>5
    <2> QED BY <2>1, <2>2
  <1>10. q \div M = b
    <2>1. q \in Int /\ b \in Int
      BY <1>1, <1>2, <1>4, <1>5
    <2> HIDE DEF q, M, rest
    <2> QED BY <1>1, <1>8, <1>9, <2>1, DivMod
  <1>11. y = 2 * rest
    <2>1. 2 * q = b * (2 * M) + 2 * rest
      BY <1>9, <1>5, <1>1, <1>8
    <2>2. 2 * q \in Int /\ b \in Int /\ 2 * rest \in 0 .. 2 * M - 1
      BY <1>1, <1>2, <1>4, <1>5, <1>8
    <2> HIDE DEF q, M, rest
    <2> QED BY <1>1, <2>1, <2>2, DivMod
  <1>12. (2 * r1) % (2 * M) = 2 * r1
    <2>1. 2 * r1 \in 0 .. 2 * M - 1 /\ 2 * r1 = 0 * (2 * M) + 2 * r1
      BY <1>1, <1>4
    <2> HIDE DEF M
    <2> QED BY <1>1, <2>1, DivMod
  <1>13. r = 2 * r1 + b
    BY <1>10, <1>12
  <1>14. Z = 2 * X + b /\ x % A = L0
    <2>1. x = (2 * X + b) * A + L0
      BY <1>1, <1>2, <1>5
    <2>2. 2 * X + b \in Int /\ x \in Int
      BY <1>2, <1>5
    <2> QED BY <1>1, <1>5, <2>1, <2>2, DivMod DEF Z
  <1>15. Z = (2 * q1) * d + (2 * r1 + b)
    BY <1>4, <1>5, <1>14
  <1>16. L0 * (2 * B) + 2 * q1 = 2 * rest
    BY <1>4, <1>5
  <1> HIDE DEF y, r, q, rest, M
  <1>17. CASE r >= d
    <2>1. Z = (2 * q1 + 1) * d + (r - d) /\ r - d \in 0 .. d - 1 /\ 2 * q1 + 1 \in Int /\ Z \in Int
      BY <1>2, <1>4, <1>6, <1>13, <1>14, <1>15, <1>17
    <2>2. Z \div d = 2 * q1 + 1 /\ Z % d = r - d
      BY <2>1, DivMod
    <2>3. (x % A) * (2 * B) + Z \div d = y + 1
      BY <1>4, <1>5, <1>11, <1>14, <1>16, <2>2
    <2> QED BY <1>17, <2>2, <2>3 DEF L, X, q1, r1, M, q, r, y, Z
  <1>18. CASE ~(r >= d)
    <2>1. Z = (2 * q1) * d + r /\ r \in 0 .. d - 1 /\ 2 * q1 \in Int /\ Z \in Int
      BY <1>2, <1>4, <1>6, <1>13, <1>14, <1>15, <1>18
    <2>2. Z \div d = 2 * q1 /\ Z % d = r
      BY <2>1, DivMod
    <2>3. (x % A) * (2 * B) + Z \div d = y
      BY <1>4, <1>5, <1>11, <1>14, <1>16, <2>2
    <2> QED BY <1>18, <2>2, <2>3 DEF L, X, q1, r1, M, q, r, y, Z
  <1> QED BY <1>17, <1>18

\* Quotient and remainder after i turns of div_pos: of the i top bits of x by d,
\* and above the quotient the bits of x to come.
AfterTurns(x, d, n, i) ==
    [q |-> (x % 2^(n - i)) * 2^i + (x \div 2^(n - i)) \div d, r |-> (x \div 2^(n - i)) % d]

\* A turn of the loop of div_pos goes from one of them to the next.
LEMMA DivTurn ==
    ASSUME NEW n \in 1 .. Double, NEW x \in 0 .. 2^n - 1, NEW d \in Nat \ {0}, d < 2^(n - 1),
           NEW i \in 1 .. n
    PROVE  div_turn(AfterTurns(x, d, n, i - 1), d, n) = AfterTurns(x, d, n, i)
  <1> DEFINE A == 2^(n - i)
             B == 2^(i - 1)
             X == x \div (2 * A)
             q == (x % (2 * A)) * B + X \div d
             r == ((2 * (X % d)) % (2 * (A * B))) + (q \div (A * B))
             y == (2 * q) % (2 * (A * B))
             Z == x \div A
  <1>1. /\ i \in 1 .. Double /\ n - i \in 0 .. Double /\ i - 1 \in 0 .. Double
        /\ n - (i - 1) \in 1 .. Double /\ (n - (i - 1)) - 1 = n - i /\ (n - i) + (i - 1) = n - 1
    BY WidthOK DEF Double
  <1>2. A \in Nat \ {0} /\ B \in Nat \ {0} /\ 2^i = 2 * B /\ 2^(n - (i - 1)) = 2 * A
    BY <1>1, Power, PowerNext
  <1>3. A * B = 2^(n - 1) /\ 2^n = 2 * (A * B)
    <2>1. 2^((n - i) + (i - 1)) = A * B
      BY <1>1, PowerSum
    <2>2. 2^n = 2 * 2^(n - 1)
      BY PowerNext
    <2> QED BY <1>1, <2>1, <2>2
  <1>4. /\ r >= d => (x % A) * (2 * B) + Z \div d = y + 1 /\ Z % d = r - d
        /\ ~(r >= d) => (x % A) * (2 * B) + Z \div d = y /\ Z % d = r
    <2>1. x \in 0 .. 2 * (A * B) - 1 /\ d < A * B
      BY <1>3
    <2> HIDE DEF A, B
    <2> QED BY <1>2, <2>1, Restore
  <1>5. AfterTurns(x, d, n, i - 1) = [q |-> q, r |-> X % d]
    BY <1>2 DEF AfterTurns
  <1>6. AfterTurns(x, d, n, i) = [q |-> (x % A) * (2 * B) + Z \div d, r |-> Z % d]
    BY <1>2 DEF AfterTurns
  <1>7. div_turn([q |-> q, r |-> X % d], d, n)
            = IF r >= d THEN [q |-> y + 1, r |-> r - d] ELSE [q |-> y, r |-> r]
    BY <1>3 DEF div_turn
  <1> HIDE DEF A, B, X, q, r, y, Z
  <1> QED BY <1>4, <1>5, <1>6, <1>7

\* div_pos divides.
LEMMA DivPos ==
    ASSUME NEW n \in 1 .. Double, NEW x \in 0 .. 2^n - 1, NEW d \in 1 .. 2^n - 1
    PROVE  div_pos(x, d, n) = UnsignedDivision(x, d)
  <1> DEFINE Step(f) == [i \in 0 .. n |-> IF i = 0 THEN [q |-> x, r |-> 0] ELSE div_turn(f[i - 1], d, n)]
             turn == CHOOSE f : f = Step(f)
             g == [i \in 0 .. n |-> AfterTurns(x, d, n, i)]
  <1>1. div_pos(x, d, n) = IF d < 2^(n - 1) THEN turn[n]
                           ELSE IF x >= d THEN [q |-> 1, r |-> x - d] ELSE [q |-> 0, r |-> x]
    BY DEF div_pos
  <1>2. n \in Nat /\ 2^0 = 1 /\ 2^n \in Nat \ {0} /\ n - 0 = n /\ n - n = 0 /\ 2^n = 2 * 2^(n - 1)
        /\ 2^(n - 1) \in Nat
    BY PowerNext
  <1>3. d \in Nat \ {0} /\ x \in Int /\ x \in Nat
    BY <1>2
  <1>4. CASE d < 2^(n - 1)
    <2>1. AfterTurns(x, d, n, 0) = [q |-> x, r |-> 0]
      <3>1. x \div 2^n = 0 /\ x % 2^n = x
        <4>1. x = 0 * 2^n + x
          BY <1>2, <1>3
        <4> DEFINE N == 2^n
        <4> HIDE DEF N
        <4> QED BY <1>2, <1>3, <4>1, DivMod DEF N
      <3>2. 0 \div d = 0 /\ 0 % d = 0
        BY <1>3
      <3>3. AfterTurns(x, d, n, 0) = [q |-> x * 1 + 0, r |-> 0]
        BY <1>2, <3>1, <3>2 DEF AfterTurns
      <3> QED BY <1>3, <3>3
    <2>2. ASSUME NEW i \in 0 .. n
          PROVE  g[i] = IF i = 0 THEN [q |-> x, r |-> 0] ELSE div_turn(g[i - 1], d, n)
      <3>1. CASE i = 0
        BY <2>1, <3>1
      <3>2. CASE i # 0
        <4>1. i \in 1 .. n /\ i - 1 \in 0 .. n
          BY <1>2, <3>2
        <4>2. div_turn(AfterTurns(x, d, n, i - 1), d, n) = AfterTurns(x, d, n, i)
          BY <1>3, <1>4, <4>1, DivTurn
        <4> QED BY <3>2, <4>1, <4>2
      <3> QED BY <3>1, <3>2
    <2>3. g = Step(g)
      BY <2>2, Zenon
    <2>4. turn = Step(turn)
      BY <2>3, Zenon
    <2> HIDE DEF turn
    <2>5. \A i \in 0 .. n : turn[i] = IF i = 0 THEN [q |-> x, r |-> 0] ELSE div_turn(turn[i - 1], d, n)
      BY <2>4, Zenon
    <2> DEFINE P == { i \in 0 .. n : turn[i] = g[i] }
    <2>6. 0 \in P
      <3>1. 0 \in 0 .. n
        BY <1>2
      <3>2. turn[0] = [q |-> x, r |-> 0] /\ g[0] = [q |-> x, r |-> 0]
        BY <2>2, <2>5, <3>1
      <3> QED BY <3>1, <3>2
    <2>7. ASSUME NEW i \in 0 .. n - 1, i \in P PROVE i + 1 \in P
      <3>1. i + 1 \in 0 .. n /\ (i + 1) - 1 = i /\ i + 1 # 0 /\ i \in 0 .. n
        BY <1>2
      <3>2. turn[i + 1] = div_turn(turn[i], d, n) /\ g[i + 1] = div_turn(g[i], d, n)
        BY <2>2, <2>5, <3>1
      <3> QED BY <2>7, <3>1, <3>2
    <2> HIDE DEF P
    <2>8. n \in P
      <3>1. 0 \in Int /\ n \in Int /\ n \in 0 .. n
        BY <1>2
      <3> QED BY <2>6, <2>7, <3>1, UpTo
    <2>9. turn[n] = AfterTurns(x, d, n, n)
      BY <1>2, <2>8 DEF P
    <2>10. AfterTurns(x, d, n, n) = [q |-> x \div d, r |-> x % d]
      <3>1. x % 1 = 0 /\ x \div 1 = x /\ x \div d \in Nat
        BY <1>3
      <3>2. AfterTurns(x, d, n, n) = [q |-> 0 * 2^n + (x \div d), r |-> x % d]
        BY <1>2, <3>1 DEF AfterTurns
      <3> QED BY <1>2, <3>1, <3>2
    <2> QED BY <1>1, <1>4, <2>9, <2>10 DEF UnsignedDivision
  <1>5. CASE ~(d < 2^(n - 1))
    <2> DEFINE top == 2^(n - 1)
    <2>1. x < 2 * d /\ top \in Nat
      BY <1>2, <1>5
    <2>2. CASE x >= d
      <3>1. x = 1 * d + (x - d) /\ x - d \in 0 .. d - 1
        BY <1>3, <2>1, <2>2
      <3>2. x \div d = 1 /\ x % d = x - d
        BY <1>3, <3>1, DivMod
      <3> QED BY <1>1, <1>5, <2>2, <3>2 DEF UnsignedDivision
    <2>3. CASE ~(x >= d)
      <3>1. x = 0 * d + x /\ x \in 0 .. d - 1
        BY <1>3, <2>3
      <3>2. x \div d = 0 /\ x % d = x
        BY <1>3, <3>1, DivMod
      <3> QED BY <1>1, <1>5, <2>3, <3>2 DEF UnsignedDivision
    <2> QED BY <2>2, <2>3
  <1> QED BY <1>4, <1>5

\* The magnitude that div_called takes of a word is that of the number it stands
\* for.
LEMMA Magnitude ==
    ASSUME NEW n \in 1 .. Double, NEW x \in 0 .. 2^n - 1
    PROVE  LET a == ToInt(x, n)
           IN  /\ a \in Int /\ Abs(a) \in 0 .. 2^(n - 1) /\ (x # 0 => Abs(a) # 0)
               /\ (IF a < 0 THEN ToWord(- x, n) ELSE x) = Abs(a)
               /\ Abs(a) \in 0 .. 2^n - 1
  <1> DEFINE H == 2^(n - 1)
  <1>1. H \in Nat \ {0} /\ 2^n = 2 * H
    BY PowerNext
  <1>2. x \in 0 .. 2 * H - 1
    BY <1>1
  <1>3. ToInt(x, n) = IF x >= H THEN x - 2 * H ELSE x
    BY <1>1 DEF ToInt
  <1>4. ToWord(- x, n) = (- x) % (2 * H)
    BY <1>1 DEF ToWord
  <1> HIDE DEF H
  <1>5. CASE x >= H
    <2>1. (- x) = (- 1) * (2 * H) + (2 * H - x) /\ 2 * H - x \in 0 .. 2 * H - 1 /\ 2 * H \in Nat \ {0} /\ - x \in Int
      BY <1>1, <1>2, <1>5
    <2> DEFINE N == 2 * H
    <2>2. (- x) % N = N - x
      <3> HIDE DEF N
      <3>1. N \in Nat \ {0} /\ - x \in Int /\ N - x \in 0 .. N - 1 /\ (- x) = (- 1) * N + (N - x) /\ -1 \in Int
        BY <2>1 DEF N
      <3> QED BY <3>1, DivMod
    <2> QED BY <1>1, <1>2, <1>3, <1>4, <1>5, <2>2 DEF Abs, H
  <1>6. CASE ~(x >= H)
    BY <1>1, <1>2, <1>3, <1>6 DEF Abs, H
  <1> QED BY <1>5, <1>6

\* A number within the range of words is its own word.
LEMMA WordOfWord ==
    ASSUME NEW n \in 1 .. Double, NEW x \in 0 .. 2^n - 1
    PROVE  ToWord(x, n) = x
  <1> DEFINE N == 2^n
  <1>1. N \in Nat \ {0}
    BY PowerNext
  <1>2. x = 0 * N + x /\ x \in Int /\ x \in 0 .. N - 1
    BY <1>1
  <1> HIDE DEF N
  <1>3. x % N = x
    BY <1>1, <1>2, DivMod
  <1> QED BY <1>3 DEF ToWord, N

\* Division of magnitudes, with the signs put back.
LEMMA Signs ==
    ASSUME NEW a \in Int, NEW b \in Int, b # 0
    PROVE  LET u == Abs(a) \div Abs(b)
               v == Abs(a) % Abs(b)
               q == IF (a < 0) = (b < 0) THEN u ELSE - u
           IN  /\ u \in 0 .. Abs(a) /\ v \in 0 .. Abs(a)
               /\ a - q * b = IF a < 0 THEN - v ELSE v
  <1> DEFINE A == Abs(a)
             B == Abs(b)
             u == A \div B
             v == A % B
             q == IF (a < 0) = (b < 0) THEN u ELSE - u
  <1>1. A \in Nat /\ B \in Nat \ {0} /\ A \in Int /\ a = (IF a < 0 THEN - A ELSE A) /\ b = (IF b < 0 THEN - B ELSE B)
    BY DEF Abs
  <1> HIDE DEF A, B
  <1>2. u \in Nat /\ v \in 0 .. B - 1 /\ A = u * B + v
    BY <1>1, DivModIs
  <1> HIDE DEF u, v
  <1>3. u \in 0 .. A /\ v \in 0 .. A
    <2>1. 1 * u <= B * u
      BY <1>1, <1>2, Grows
    <2>2. u * B \in Nat
      BY <1>1, <1>2
    <2> QED BY <1>1, <1>2, <2>1, <2>2
  <1>4. a - q * b = IF a < 0 THEN - v ELSE v
    <2>1. CASE a < 0 /\ b < 0
      <3>1. a = - A /\ b = - B /\ q = u
        BY <1>1, <2>1
      <3>2. a - q * b = u * B - A
        BY <1>1, <1>2, <3>1
      <3> QED BY <1>1, <1>2, <2>1, <3>2
    <2>2. CASE a < 0 /\ ~(b < 0)
      <3>1. a = - A /\ b = B /\ q = - u
        BY <1>1, <2>2
      <3>2. a - q * b = u * B - A
        BY <1>1, <1>2, <3>1
      <3> QED BY <1>1, <1>2, <2>2, <3>2
    <2>3. CASE ~(a < 0) /\ b < 0
      <3>1. a = A /\ b = - B /\ q = - u
        BY <1>1, <2>3
      <3>2. a - q * b = A - u * B
        BY <1>1, <1>2, <3>1
      <3> QED BY <1>1, <1>2, <2>3, <3>2
    <2>4. CASE ~(a < 0) /\ ~(b < 0)
      <3>1. a = A /\ b = B /\ q = u
        BY <1>1, <2>4
      <3>2. a - q * b = A - u * B
        BY <1>1, <1>2, <3>1
      <3> QED BY <1>1, <1>2, <2>4, <3>2
    <2> QED BY <2>1, <2>2, <2>3, <2>4
  <1> QED BY <1>3, <1>4 DEF A, B, u, v

\* div_called divides signed numbers.
LEMMA DivCalled ==
    ASSUME NEW n \in 1 .. Double, NEW x \in 0 .. 2^n - 1, NEW d \in 1 .. 2^n - 1
    PROVE  div_called(x, d, n) = SignedDivision(x, d, n)
  <1> DEFINE a == ToInt(x, n)
             b == ToInt(d, n)
             u == Abs(a) \div Abs(b)
             v == Abs(a) % Abs(b)
             q == IF (a < 0) = (b < 0) THEN u ELSE - u
             mag(w) == IF ToInt(w, n) < 0 THEN ToWord(- w, n) ELSE w
             D == div_pos(mag(x), mag(d), n)
  <1>1. 2^n \in Nat \ {0} /\ 2^(n - 1) \in Nat \ {0} /\ 2^n = 2 * 2^(n - 1) /\ d \in 0 .. 2^n - 1 /\ d # 0
    BY PowerNext
  <1>2. /\ a \in Int /\ mag(x) = Abs(a) /\ Abs(a) \in 0 .. 2^n - 1 /\ Abs(a) \in 0 .. 2^(n - 1)
        /\ b \in Int /\ mag(d) = Abs(b) /\ Abs(b) \in 0 .. 2^n - 1 /\ Abs(b) # 0
    BY <1>1, Magnitude
  <1>3. Abs(b) \in 1 .. 2^n - 1 /\ b # 0
    BY <1>1, <1>2 DEF Abs
  <1>4. D = [q |-> u, r |-> v]
    BY <1>2, <1>3, DivPos DEF UnsignedDivision
  <1>5. div_called(x, d, n) = [q |-> IF (a < 0) # (b < 0) THEN ToWord(- D.q, n) ELSE D.q,
                               r |-> IF a < 0 THEN ToWord(- D.r, n) ELSE D.r]
    BY DEF div_called
  <1>6. SignedDivision(x, d, n) = [q |-> ToWord(q, n), r |-> ToWord(a - q * b, n)]
    BY DEF SignedDivision
  <1>7. /\ u \in 0 .. Abs(a) /\ v \in 0 .. Abs(a)
        /\ a - q * b = IF a < 0 THEN - v ELSE v
    BY <1>2, <1>3, Signs
  <1>8. u \in 0 .. 2^n - 1 /\ v \in 0 .. 2^n - 1
    BY <1>1, <1>2, <1>7
  <1>9. ToWord(u, n) = u /\ ToWord(v, n) = v
    BY <1>8, WordOfWord
  <1>10. D.q = u /\ D.r = v
    BY <1>4
  <1> HIDE DEF a, b, u, v, D
  <1> QED BY <1>5, <1>6, <1>7, <1>9, <1>10

----------------------------------------------------------------------------
(* Arith: multiplication.                                                  *)

\* The remainder of a sum and of a double from those of its parts.
LEMMA ModParts ==
    ASSUME NEW x \in Int, NEW y \in Int, NEW n \in Nat \ {0}
    PROVE  ((x % n) + (y % n)) % n = (x + y) % n /\ (2 * (x % n)) % n = (2 * x) % n
  <1> DEFINE p == x \div n
             q == y \div n
             r == x % n
             s == y % n
  <1>1. p \in Int /\ r \in 0 .. n - 1 /\ x = p * n + r /\ q \in Int /\ s \in 0 .. n - 1 /\ y = q * n + s
    BY DivModIs
  <1> HIDE DEF p, q, r, s
  <1>2. Differ(r + s, x + y, - (p + q), n) /\ Differ(2 * r, 2 * x, - (2 * p), n)
    BY <1>1 DEF Differ
  <1>3. r + s \in Int /\ x + y \in Int /\ - (p + q) \in Int /\ 2 * r \in Int /\ 2 * x \in Int /\ - (2 * p) \in Int
    BY <1>1
  <1>4. (r + s) % n = (x + y) % n
    <2> DEFINE u == r + s
               w == x + y
               k == - (p + q)
    <2>1. u \in Int /\ w \in Int /\ k \in Int /\ Differ(u, w, k, n)
      BY <1>2, <1>3
    <2> HIDE DEF u, w, k
    <2>2. u % n = w % n
      BY <2>1, ModSame
    <2> QED BY <2>2 DEF u, w
  <1>5. (2 * r) % n = (2 * x) % n
    <2> DEFINE u == 2 * r
               w == 2 * x
               k == - (2 * p)
    <2>1. u \in Int /\ w \in Int /\ k \in Int /\ Differ(u, w, k, n)
      BY <1>2, <1>3
    <2> HIDE DEF u, w, k
    <2>2. u % n = w % n
      BY <2>1, ModSame
    <2> QED BY <2>2 DEF u, w
  <1> QED BY <1>4, <1>5 DEF r, s

\* What a turn of mul_called adds, in numbers: B is the weight of the bit, N
\* the range of words.
BitAdded(a, b, B, N) ==
    LET t == b \div B
    IN  /\ (a * (b % (2 * B))) % N
              = IF t % 2 = 1 THEN (((a * (b % B)) % N) + ((a * B) % N)) % N ELSE (a * (b % B)) % N
        /\ b \div (2 * B) = t \div 2
        /\ (2 * ((a * B) % N)) % N = (a * (2 * B)) % N

\* The sum, the rest of b and the shifted a after a turn are those of one bit more.
LEMMA AddBit ==
    ASSUME NEW a \in Nat, NEW b \in Nat, NEW B \in Nat \ {0}, NEW N \in Nat \ {0}
    PROVE  BitAdded(a, b, B, N)
  <1> DEFINE t == b \div B
             l == b % B
             h == t \div 2
             c == t % 2
             B2 == 2 * B
  <1>1. t \in Nat /\ l \in 0 .. B - 1 /\ b = t * B + l
    BY DivModIs
  <1> HIDE DEF l, t
  <1>2. h \in Nat /\ c \in {0, 1} /\ t = h * 2 + c
    BY <1>1
  <1> HIDE DEF h, c
  <1>3. b \div B2 = h /\ b % B2 = c * B + l
    <2>1. B2 \in Nat \ {0} /\ c * B + l \in 0 .. B2 - 1 /\ h \in Int /\ b \in Int
      BY <1>1, <1>2
    <2>2. b = h * B2 + (c * B + l)
      BY <1>1, <1>2
    <2> HIDE DEF B2
    <2> QED BY <2>1, <2>2, DivMod
  <1>4. (a * (c * B + l)) % N = IF c = 1 THEN (((a * l) % N) + ((a * B) % N)) % N ELSE (a * l) % N
    <2>1. CASE c = 1
      <3>1. a * l \in Int /\ a * B \in Int
        BY <1>1
      <3>2. a * (c * B + l) = a * l + a * B
        BY <1>1, <2>1
      <3>3. (((a * l) % N) + ((a * B) % N)) % N = (a * l + a * B) % N
        <4> DEFINE u == a * l
                   v == a * B
        <4> HIDE DEF u, v
        <4>1. u \in Int /\ v \in Int
          BY <3>1 DEF u, v
        <4>2. ((u % N) + (v % N)) % N = (u + v) % N
          BY <4>1, ModParts
        <4> QED BY <4>2 DEF u, v
      <3> QED BY <2>1, <3>2, <3>3
    <2>2. CASE c = 0
      <3>1. a * (c * B + l) = a * l
        BY <1>1, <2>2
      <3> QED BY <2>2, <3>1
    <2> QED BY <1>2, <2>1, <2>2
  <1>5. (2 * ((a * B) % N)) % N = (a * (2 * B)) % N
    <2> DEFINE v == a * B
    <2>1. v \in Int /\ a * (2 * B) = 2 * v
      OBVIOUS
    <2> HIDE DEF v
    <2>2. (2 * (v % N)) % N = (2 * v) % N
      BY <2>1, ModParts
    <2>3. (2 * (v % N)) % N = (a * (2 * B)) % N
      BY <2>1, <2>2
    <2> QED BY <2>3 DEF v
  <1> QED BY <1>3, <1>4, <1>5 DEF t, l, h, c, BitAdded

\* The state of mul_called after i turns.
AfterBits(a, b, n, i) ==
    [p |-> (a * (b % 2^i)) % 2^n, a |-> (a * 2^i) % 2^n, b |-> b \div 2^i]

\* mul_called multiplies.
LEMMA MulCalled ==
    ASSUME NEW n \in 1 .. Double, NEW a \in 0 .. 2^n - 1, NEW b \in 0 .. 2^n - 1
    PROVE  mul_called(a, b, n) = (a * b) % 2^n
  <1> DEFINE Turn(t) == [p |-> IF t.b % 2 = 1 THEN ToWord(t.p + t.a, n) ELSE t.p,
                         a |-> ToWord(2 * t.a, n), b |-> t.b \div 2]
             First == [p |-> 0, a |-> a, b |-> b]
             Step(f) == [i \in 0 .. n |-> IF i = 0 THEN First ELSE Turn(f[i - 1])]
             turn == CHOOSE f : f = Step(f)
             g == [i \in 0 .. n |-> AfterBits(a, b, n, i)]
             N == 2^n
  <1>1. mul_called(a, b, n) = turn[n].p
    BY DEF mul_called
  <1>2. n \in Nat /\ 2^0 = 1 /\ N \in Nat \ {0} /\ a \in Nat /\ b \in Nat
    BY PowerNext
  <1>3. AfterBits(a, b, n, 0) = First
    <2>1. b % 1 = 0 /\ b \div 1 = b /\ a * 0 = 0 /\ a * 1 = a
      BY <1>2
    <2>2. 0 % N = 0
      BY <1>2
    <2>3. a % N = a
      <3>1. ToWord(a, n) = a
        BY WordOfWord
      <3> QED BY <3>1 DEF ToWord
    <2> HIDE DEF N
    <2>4. AfterBits(a, b, n, 0) = [p |-> (a * (b % 1)) % N, a |-> (a * 1) % N, b |-> b \div 1]
      BY <1>2 DEF AfterBits, N
    <2> QED BY <2>1, <2>2, <2>3, <2>4
  <1>4. ASSUME NEW i \in 1 .. n PROVE Turn(AfterBits(a, b, n, i - 1)) = AfterBits(a, b, n, i)
    <2> DEFINE B == 2^(i - 1)
               t == b \div B
               p == (a * (b % B)) % N
               v == (a * B) % N
    <2>1. B \in Nat \ {0} /\ 2^i = 2 * B
      <3>1. i \in 1 .. Double
        BY WidthOK DEF Double
      <3> QED BY <3>1, PowerNext
    <2>2. /\ (a * (b % (2 * B))) % N = IF t % 2 = 1 THEN (p + v) % N ELSE p
          /\ b \div (2 * B) = t \div 2
          /\ (2 * v) % N = (a * (2 * B)) % N
      <3> HIDE DEF B, N
      <3>1. a \in Nat /\ b \in Nat /\ B \in Nat \ {0} /\ N \in Nat \ {0}
        BY <1>2, <2>1
      <3>2. BitAdded(a, b, B, N)
        BY <3>1, AddBit
      <3> QED BY <3>2 DEF BitAdded
    <2>3. AfterBits(a, b, n, i - 1) = [p |-> p, a |-> v, b |-> t]
      BY DEF AfterBits
    <2>4. AfterBits(a, b, n, i) = [p |-> (a * (b % (2 * B))) % N, a |-> (a * (2 * B)) % N, b |-> b \div (2 * B)]
      BY <2>1 DEF AfterBits
    <2>5. Turn([p |-> p, a |-> v, b |-> t]) = [p |-> IF t % 2 = 1 THEN (p + v) % N ELSE p,
                                              a |-> (2 * v) % N, b |-> t \div 2]
      BY DEF ToWord
    <2> HIDE DEF B, t, p, v, N, Turn
    <2> QED BY <2>2, <2>3, <2>4, <2>5
  <1> HIDE DEF Turn, First
  <1>5. ASSUME NEW i \in 0 .. n PROVE g[i] = IF i = 0 THEN First ELSE Turn(g[i - 1])
    <2>1. CASE i = 0
      BY <1>3, <2>1
    <2>2. CASE i # 0
      <3>1. i \in 1 .. n /\ i - 1 \in 0 .. n
        BY <1>2, <2>2
      <3> QED BY <1>4, <2>2, <3>1
    <2> QED BY <2>1, <2>2
  <1>6. g = Step(g)
    BY <1>5, Zenon
  <1>7. turn = Step(turn)
    BY <1>6, Zenon
  <1> HIDE DEF turn, g
  <1>8. \A i \in 0 .. n : turn[i] = IF i = 0 THEN First ELSE Turn(turn[i - 1])
    BY <1>7, Zenon
  <1> DEFINE P == { i \in 0 .. n : turn[i] = g[i] }
  <1>9. 0 \in P
    <2>1. 0 \in 0 .. n
      BY <1>2
    <2>2. turn[0] = First /\ g[0] = First
      BY <1>5, <1>8, <2>1
    <2> QED BY <2>1, <2>2
  <1>10. ASSUME NEW i \in 0 .. n - 1, i \in P PROVE i + 1 \in P
    <2>1. i + 1 \in 0 .. n /\ (i + 1) - 1 = i /\ i + 1 # 0 /\ i \in 0 .. n
      BY <1>2
    <2>2. turn[i + 1] = Turn(turn[i]) /\ g[i + 1] = Turn(g[i])
      BY <1>5, <1>8, <2>1
    <2> QED BY <1>10, <2>1, <2>2
  <1> HIDE DEF P
  <1>11. n \in P
    <2>1. 0 \in Int /\ n \in Int /\ n \in 0 .. n
      BY <1>2
    <2> QED BY <1>9, <1>10, <2>1, UpTo
  <1>12. turn[n] = AfterBits(a, b, n, n)
    BY <1>2, <1>11 DEF P, g
  <1>13. AfterBits(a, b, n, n).p = (a * b) % 2^n
    <2>1. b % 2^n = b
      <3>1. ToWord(b, n) = b
        BY WordOfWord
      <3> QED BY <3>1 DEF ToWord
    <2> QED BY <2>1 DEF AfterBits
  <1> QED BY <1>1, <1>12, <1>13

----------------------------------------------------------------------------
(* Arith: pairs of words.                                                  *)

\* A number with the digits h and l of base 2^W.
Digits(v, h, l) == v = h * 2^W + l

\* The pair of words of a number, and of its remainder in the double range.
LEMMA PairIs ==
    ASSUME NEW v \in Int, NEW h \in Int, NEW l \in Words, Digits(v, h, l)
    PROVE  /\ Pair(v) = [low |-> l, high |-> h % 2^W]
           /\ Pair(v % 2^Double) = [low |-> l, high |-> h % 2^W]
  <1> DEFINE B == 2^W
             q == h \div B
             r == h % B
             w == r * B + l
  <1>1. B \in Nat \ {0} /\ 2^Double = B * B /\ B * B \in Nat \ {0} /\ l \in 0 .. B - 1 /\ v = h * B + l
    BY Widths DEF Digits, Words
  <1>2. Pair(v) = [low |-> v % B, high |-> (v \div B) % B]
    BY DEF Pair
  <1>3. Pair(v % 2^Double) = [low |-> (v % (B * B)) % B, high |-> ((v % (B * B)) \div B) % B]
    BY <1>1 DEF Pair
  <1> HIDE DEF B
  <1>4. v \div B = h /\ v % B = l
    BY <1>1, DivMod
  <1>5. q \in Int /\ r \in 0 .. B - 1 /\ h = q * B + r
    BY <1>1, DivModIs
  <1> HIDE DEF q, r
  <1>6. w \in 0 .. B * B - 1
    BY <1>1, <1>5, TwoDigits
  <1>7. v = q * (B * B) + w
    BY <1>1, <1>5
  <1>8. v % (B * B) = w
    <2> DEFINE BB == B * B
    <2>1. BB \in Nat \ {0} /\ w \in 0 .. BB - 1 /\ v = q * BB + w
      BY <1>1, <1>6, <1>7
    <2> HIDE DEF BB, w
    <2>2. v % BB = w
      BY <1>5, <2>1, DivMod
    <2> QED BY <2>2 DEF BB
  <1>9. w \div B = r /\ w % B = l
    <2>1. w \in Int /\ r \in Int
      BY <1>5, <1>6, <1>1
    <2>2. w = r * B + l
      OBVIOUS
    <2> HIDE DEF w
    <2> QED BY <1>1, <2>1, <2>2, DivMod
  <1>10. r % B = r
    <2>1. r = 0 * B + r /\ r \in Int
      BY <1>1, <1>5
    <2> QED BY <1>1, <1>5, <2>1, DivMod
  <1> HIDE DEF w
  <1> QED BY <1>2, <1>3, <1>4, <1>8, <1>9, <1>10 DEF B, r

\* The number that a pair stands for has its words as digits.
LEMMA ValueIs ==
    ASSUME NEW a \in dint
    PROVE  /\ a.low \in Words /\ a.high \in Words /\ Digits(Value(a), a.high, a.low)
           /\ Value(a) \in 0 .. 2^Double - 1
           /\ a = [low |-> a.low, high |-> a.high]
  <1> DEFINE B == 2^W
  <1>1. B \in Nat \ {0} /\ 2^Double = B * B /\ Words = 0 .. B - 1
    BY Widths DEF Words
  <1>2. a.low \in Words /\ a.high \in Words /\ a = [low |-> a.low, high |-> a.high]
    BY DEF dint
  <1>3. a.high * B + a.low \in 0 .. B * B - 1
    <2> HIDE DEF B
    <2> QED BY <1>1, <1>2, TwoDigits
  <1> QED BY <1>1, <1>2, <1>3 DEF Digits, Value

\* l_add adds.
LEMMA LongAdd ==
    ASSUME NEW a \in dint, NEW b \in dint, NEW known \in BOOLEAN
    PROVE  l_add(a, b, known) = Pair((Value(a) + Value(b)) % 2^Double)
  <1> DEFINE B == 2^W
             al == a.low
             ah == a.high
             bl == b.low
             bh == b.high
             s == al + bl
             c == IF s < B THEN 0 ELSE 1
             v == Value(a) + Value(b)
             low == s - c * B
  <1>1. B \in Nat \ {0} /\ Words = 0 .. B - 1
    BY Widths DEF Words
  <1>2. /\ al \in 0 .. B - 1 /\ ah \in 0 .. B - 1 /\ bl \in 0 .. B - 1 /\ bh \in 0 .. B - 1
        /\ Value(a) = ah * B + al /\ Value(b) = bh * B + bl
    BY <1>1, ValueIs DEF Digits
  <1>3. l_add(a, b, known) =
            IF known /\ al = 0 THEN [low |-> bl, high |-> (ah + bh) % B]
            ELSE IF known /\ bl = 0 THEN [low |-> al, high |-> (ah + bh) % B]
            ELSE [low |-> s % B, high |-> (((ah + bh) % B) + Bit(s % B < al)) % B]
    BY DEF l_add, ToWord
  <1>4. low \in 0 .. B - 1 /\ c \in {0, 1} /\ v = (ah + bh + c) * B + low
    <2> HIDE DEF B, al, ah, bl, bh
    <2>1. low \in 0 .. B - 1 /\ c \in {0, 1}
      BY <1>1, <1>2
    <2> HIDE DEF c
    <2>2. (ah + bh + c) * B = ah * B + bh * B + c * B /\ ah * B \in Int /\ bh * B \in Int /\ c * B \in Int
      BY <1>1, <1>2, <2>1
    <2> QED BY <1>1, <1>2, <2>1, <2>2
  <1>5. Pair(v % 2^Double) = [low |-> low, high |-> (ah + bh + c) % B]
    <2>1. v \in Int /\ ah + bh + c \in Int /\ low \in Words /\ Digits(v, ah + bh + c, low)
      <3>1. v \in Int
        BY ValueIs, Widths
      <3>2. Digits(v, ah + bh + c, low)
        BY <1>4 DEF Digits, B
      <3> HIDE DEF v, low, ah, bh, c, B
      <3>3. ah + bh + c \in Int
        BY <1>2, <1>4
      <3> QED BY <1>1, <1>4, <3>1, <3>2, <3>3
    <2> HIDE DEF v, low, ah, bh, c
    <2> QED BY <2>1, PairIs
  <1> HIDE DEF B, al, ah, bl, bh, v
  <1>6. s % B = low
    <2>1. s = c * B + low /\ s \in Int /\ c \in Int
      BY <1>1, <1>2, <1>4
    <2> HIDE DEF s, low
    <2> QED BY <1>1, <1>4, <2>1, DivMod
  <1>7. Bit(s % B < al) = c
    BY <1>1, <1>2, <1>6 DEF Bit
  <1>8. (((ah + bh) % B) + c) % B = (ah + bh + c) % B
    <2> DEFINE h == ah + bh
    <2>1. h \in Int
      BY <1>1, <1>2
    <2> HIDE DEF h
    <2>2. h \div B \in Int /\ h % B \in 0 .. B - 1 /\ h = (h \div B) * B + (h % B)
      BY <1>1, <2>1, DivModIs
    <2> DEFINE x == (h % B) + c
               y == h + c
               k == - (h \div B)
    <2>3. x \in Int /\ y \in Int /\ k \in Int /\ Differ(x, y, k, B)
      BY <1>1, <1>4, <2>1, <2>2 DEF Differ
    <2> HIDE DEF x, y, k
    <2>4. x % B = y % B
      BY <1>1, <2>3, ModSame
    <2> QED BY <2>4 DEF x, y, h
  <1>9. CASE known /\ al = 0
    <2>1. c = 0 /\ low = bl /\ ah + bh + c = ah + bh
      BY <1>1, <1>2, <1>9
    <2> HIDE DEF c, low
    <2> QED BY <1>3, <1>5, <1>9, <2>1 DEF v
  <1>10. CASE known /\ al # 0 /\ bl = 0
    <2>1. c = 0 /\ low = al /\ ah + bh + c = ah + bh
      BY <1>1, <1>2, <1>10
    <2> HIDE DEF c, low
    <2> QED BY <1>3, <1>5, <1>10, <2>1 DEF v
  <1>11. CASE ~(known /\ al = 0) /\ ~(known /\ bl = 0)
    <2> HIDE DEF c, low, s
    <2> QED BY <1>3, <1>5, <1>6, <1>7, <1>8, <1>11 DEF v
  <1> QED BY <1>9, <1>10, <1>11

\* l_sub subtracts.
LEMMA LongSub ==
    ASSUME NEW a \in dint, NEW b \in dint, NEW known \in BOOLEAN
    PROVE  l_sub(a, b, known) = Pair((Value(a) - Value(b)) % 2^Double)
  <1> DEFINE B == 2^W
             al == a.low
             ah == a.high
             bl == b.low
             bh == b.high
             s == al - bl
             c == IF al < bl THEN 1 ELSE 0
             v == Value(a) - Value(b)
             low == s + c * B
             h == ah - bh
  <1>1. B \in Nat \ {0} /\ Words = 0 .. B - 1
    BY Widths DEF Words
  <1>2. /\ al \in 0 .. B - 1 /\ ah \in 0 .. B - 1 /\ bl \in 0 .. B - 1 /\ bh \in 0 .. B - 1
        /\ Value(a) = ah * B + al /\ Value(b) = bh * B + bl
    BY <1>1, ValueIs DEF Digits
  <1>3. l_sub(a, b, known) =
            IF known /\ bl = 0 THEN [low |-> al, high |-> h % B]
            ELSE [low |-> s % B, high |-> ((h % B) - c) % B]
    BY DEF l_sub, ToWord, Bit
  <1>4. low \in 0 .. B - 1 /\ c \in {0, 1} /\ h \in Int /\ v = (h - c) * B + low /\ v \in Int
    <2> HIDE DEF B, al, ah, bl, bh
    <2>1. low \in 0 .. B - 1 /\ c \in {0, 1} /\ h \in Int
      BY <1>1, <1>2
    <2> HIDE DEF c
    <2>2. (h - c) * B = ah * B - bh * B - c * B /\ ah * B \in Int /\ bh * B \in Int /\ c * B \in Int
      BY <1>1, <1>2, <2>1
    <2> QED BY <1>1, <1>2, <2>1, <2>2
  <1>5. Pair(v % 2^Double) = [low |-> low, high |-> (h - c) % B]
    <2>1. Digits(v, h - c, low)
      BY <1>4 DEF Digits, B
    <2> HIDE DEF v, low, h, c, B
    <2>2. h - c \in Int /\ low \in Words
      BY <1>1, <1>4
    <2>3. Pair(v % 2^Double) = [low |-> low, high |-> (h - c) % 2^W]
      BY <1>4, <2>1, <2>2, PairIs
    <2> QED BY <2>3 DEF B
  <1> HIDE DEF B, al, ah, bl, bh, v
  <1>6. s % B = low
    <2>1. s = (- c) * B + low /\ s \in Int /\ - c \in Int
      BY <1>1, <1>2, <1>4
    <2> HIDE DEF s, low
    <2> QED BY <1>1, <1>4, <2>1, DivMod
  <1>7. ((h % B) - c) % B = (h - c) % B
    <2> HIDE DEF h, c
    <2>2. h \div B \in Int /\ h % B \in 0 .. B - 1 /\ h = (h \div B) * B + (h % B)
      BY <1>1, <1>4, DivModIs
    <2> DEFINE x == (h % B) - c
               y == h - c
               k == - (h \div B)
    <2>3. x \in Int /\ y \in Int /\ k \in Int /\ Differ(x, y, k, B)
      BY <1>1, <1>4, <2>2 DEF Differ
    <2> HIDE DEF x, y, k
    <2>4. x % B = y % B
      BY <1>1, <2>3, ModSame
    <2> QED BY <2>4 DEF x, y
  <1>8. CASE known /\ bl = 0
    <2>1. c = 0 /\ low = al /\ h - c = h
      BY <1>1, <1>2, <1>4, <1>8
    <2> HIDE DEF c, low, h
    <2> QED BY <1>3, <1>5, <1>8, <2>1 DEF v
  <1>9. CASE ~(known /\ bl = 0)
    <2> HIDE DEF c, low, s, h
    <2> QED BY <1>3, <1>5, <1>6, <1>7, <1>9 DEF v
  <1> QED BY <1>8, <1>9

\* Numbers of two digits are compared by their high digits first.
LEMMA Lexical ==
    ASSUME NEW B \in Nat \ {0}, NEW g \in Int, NEW h \in Int, NEW k \in 0 .. B - 1, NEW l \in 0 .. B - 1
    PROVE  /\ (g * B + k < h * B + l) <=> (g < h \/ (g = h /\ k < l))
           /\ (g * B + k <= h * B + l) <=> (g < h \/ (g = h /\ k <= l))
  <1> DEFINE x == g * B
             y == h * B
  <1>1. x \in Int /\ y \in Int
    OBVIOUS
  <1>2. CASE g = h
    <2>1. x = y
      BY <1>2
    <2> HIDE DEF x, y
    <2> QED BY <1>1, <1>2, <2>1 DEF x, y
  <1>3. ASSUME NEW u \in Int, NEW v \in Int, u < v PROVE u * B + B <= v * B /\ u * B \in Int /\ v * B \in Int
    <2> DEFINE d == v - u - 1
    <2>1. d \in Nat /\ v = u + 1 + d
      BY <1>3
    <2> HIDE DEF d
    <2>2. d * B \in Nat
      BY <2>1
    <2>3. v * B = u * B + B + d * B
      BY <2>1
    <2> QED BY <2>2, <2>3
  <1>4. CASE g < h
    <2>1. x + B <= y
      BY <1>3, <1>4
    <2> HIDE DEF x, y
    <2> QED BY <1>1, <1>4, <2>1 DEF x, y
  <1>5. CASE h < g
    <2>1. y + B <= x
      BY <1>3, <1>5
    <2> HIDE DEF x, y
    <2> QED BY <1>1, <1>5, <2>1 DEF x, y
  <1> QED BY <1>2, <1>4, <1>5

\* As a signed number, a pair has its high word as signed digit.
LEMMA SignedValue ==
    ASSUME NEW a \in dint
    PROVE  /\ ToInt(a.high, W) \in Int
           /\ ToInt(Value(a), Double) = ToInt(a.high, W) * 2^W + a.low
           /\ ToInt(a.high, W) \in - 2^(W - 1) .. 2^(W - 1) - 1
           /\ ToInt(a.high, W) % 2^W = a.high
  <1> DEFINE B == 2^W
             H == 2^(W - 1)
             ah == a.high
             al == a.low
             v == Value(a)
  <1>1. B \in Nat \ {0} /\ H \in Nat \ {0} /\ B = 2 * H /\ 2^Double = B * B
    BY Widths
  <1>2. ah \in 0 .. B - 1 /\ al \in 0 .. B - 1 /\ v = ah * B + al
    BY ValueIs DEF Digits, Words
  <1>3. 2^(Double - 1) = H * B
    <2>1. (W - 1) + W = Double - 1 /\ W - 1 \in 0 .. Double /\ W \in 0 .. Double
      BY Widths, WidthOK DEF Double
    <2>2. 2^((W - 1) + W) = H * B
      BY <2>1, PowerSum
    <2> QED BY <2>1, <2>2
  <1>4. ToInt(v, Double) = IF v >= H * B THEN v - B * B ELSE v
    BY <1>1, <1>3 DEF ToInt
  <1>5. ToInt(ah, W) = IF ah >= H THEN ah - B ELSE ah
    BY DEF ToInt
  <1> HIDE DEF B, H, ah, al, v
  <1>6. v >= H * B <=> ah >= H
    <2>1. 0 \in 0 .. B - 1
      BY <1>1
    <2>2. (H * B + 0 <= ah * B + al) <=> (H < ah \/ (H = ah /\ 0 <= al))
      BY <1>1, <1>2, <2>1, Lexical
    <2>3. H * B \in Int /\ ah * B \in Int
      BY <1>1, <1>2
    <2> QED BY <1>1, <1>2, <2>2, <2>3
  <1>7. (ah - B) * B + al = v - B * B
    BY <1>1, <1>2
  <1>8. ToInt(ah, W) \in - H .. H - 1
    BY <1>1, <1>2, <1>5
  <1>9. ToInt(ah, W) % B = ah
    <2>1. CASE ah >= H
      <3> DEFINE x == ah - B
      <3>1. x = (- 1) * B + ah /\ x \in Int
        BY <1>1, <1>2
      <3> HIDE DEF x
      <3>2. x % B = ah
        BY <1>1, <1>2, <3>1, DivMod
      <3> QED BY <1>5, <2>1, <3>2 DEF x
    <2>2. CASE ~(ah >= H)
      <3>1. ah = 0 * B + ah /\ ah \in Int
        BY <1>1, <1>2
      <3> QED BY <1>1, <1>2, <1>5, <2>2, <3>1, DivMod
    <2> QED BY <2>1, <2>2
  <1> QED BY <1>1, <1>2, <1>4, <1>5, <1>6, <1>7, <1>8, <1>9 DEF B, H, ah, al, v

\* l_ltu, l_leu, l_lts and l_les compare.
LEMMA LongCompare ==
    ASSUME NEW a \in dint, NEW b \in dint
    PROVE  /\ l_lt(a, b, TRUE) = (ToInt(Value(a), Double) < ToInt(Value(b), Double))
           /\ l_le(a, b, TRUE) = (ToInt(Value(a), Double) <= ToInt(Value(b), Double))
           /\ l_lt(a, b, FALSE) = (Value(a) < Value(b))
           /\ l_le(a, b, FALSE) = (Value(a) <= Value(b))
  <1> DEFINE B == 2^W
             H == 2^(W - 1)
             al == a.low
             ah == a.high
             bl == b.low
             bh == b.high
             g == ToInt(ah, W)
             h == ToInt(bh, W)
  <1>1. B \in Nat \ {0} /\ H \in Nat \ {0} /\ B = 2 * H
    BY Widths
  <1>2. /\ al \in 0 .. B - 1 /\ ah \in 0 .. B - 1 /\ bl \in 0 .. B - 1 /\ bh \in 0 .. B - 1
        /\ Value(a) = ah * B + al /\ Value(b) = bh * B + bl
    BY <1>1, ValueIs DEF Digits, Words
  <1>3. /\ g \in Int /\ h \in Int
        /\ ToInt(Value(a), Double) = g * B + al /\ ToInt(Value(b), Double) = h * B + bl
    BY SignedValue
  <1>4. g = h <=> ah = bh
    <2>1. g % B = ah /\ h % B = bh
      BY SignedValue
    <2>2. ah = bh => g = h
      OBVIOUS
    <2> HIDE DEF g, h
    <2> QED BY <2>1, <2>2
  <1>5. /\ l_lt(a, b, TRUE) = (g < h \/ (ah = bh /\ al < bl))
        /\ l_le(a, b, TRUE) = (g < h \/ (ah = bh /\ al <= bl))
        /\ l_lt(a, b, FALSE) = (ah < bh \/ (ah = bh /\ al < bl))
        /\ l_le(a, b, FALSE) = (ah < bh \/ (ah = bh /\ al <= bl))
    BY DEF l_lt, l_le
  <1>6. ah \in Int /\ bh \in Int
    BY <1>2
  <1> HIDE DEF B, H, al, ah, bl, bh, g, h
  <1>7. /\ (g * B + al < h * B + bl) <=> (g < h \/ (g = h /\ al < bl))
        /\ (g * B + al <= h * B + bl) <=> (g < h \/ (g = h /\ al <= bl))
    BY <1>1, <1>2, <1>3, Lexical
  <1>8. /\ (ah * B + al < bh * B + bl) <=> (ah < bh \/ (ah = bh /\ al < bl))
        /\ (ah * B + al <= bh * B + bl) <=> (ah < bh \/ (ah = bh /\ al <= bl))
    BY <1>1, <1>2, <1>6, Lexical
  <1>9. /\ (g < h \/ (ah = bh /\ al < bl)) = (g * B + al < h * B + bl)
        /\ (g < h \/ (ah = bh /\ al <= bl)) = (g * B + al <= h * B + bl)
    BY <1>4, <1>7
  <1>10. /\ (ah < bh \/ (ah = bh /\ al < bl)) = (ah * B + al < bh * B + bl)
         /\ (ah < bh \/ (ah = bh /\ al <= bl)) = (ah * B + al <= bh * B + bl)
    BY <1>8
  <1> QED BY <1>2, <1>3, <1>5, <1>9, <1>10, Zenon

----------------------------------------------------------------------------
(* Arith: shifts.                                                          *)

\* x times F in a range of F * G keeps the low part of x, below G.
LEMMA LowPart ==
    ASSUME NEW F \in Nat \ {0}, NEW G \in Nat \ {0}, NEW x \in Int
    PROVE  /\ x \div G \in Int /\ x % G \in 0 .. G - 1 /\ x = (x \div G) * G + (x % G)
           /\ x * F = (x \div G) * (F * G) + (x % G) * F
           /\ (x % G) * F \in 0 .. F * G - 1
           /\ \A k \in 0 .. F - 1 : (x % G) * F + k \in 0 .. F * G - 1
           /\ (x * F) % (F * G) = (x % G) * F
  <1> DEFINE q == x \div G
             r == x % G
             B == F * G
             y == x * F
             z == r * F
  <1>1. q \in Int /\ r \in 0 .. G - 1 /\ x = q * G + r
    BY DivModIs
  <1> HIDE DEF q, r
  <1>2. x * F = q * (F * G) + r * F
    BY <1>1
  <1>3. \A k \in 0 .. F - 1 : r * F + k \in 0 .. G * F - 1
    BY <1>1, TwoDigits
  <1>4. G * F = F * G /\ F * G \in Nat \ {0}
    OBVIOUS
  <1>5. r * F \in 0 .. F * G - 1
    <2>1. 0 \in 0 .. F - 1 /\ r * F + 0 = r * F
      BY <1>1
    <2> QED BY <1>3, <1>4, <2>1
  <1>6. y % B = z
    <2>1. B \in Nat \ {0} /\ z \in 0 .. B - 1 /\ y \in Int /\ y = q * B + z
      BY <1>1, <1>2, <1>4, <1>5
    <2> HIDE DEF B, y, z
    <2> QED BY <1>1, <2>1, DivMod
  <1> QED BY <1>1, <1>2, <1>3, <1>4, <1>5, <1>6 DEF q, r

\* The high part of a number below F * G is below F.
LEMMA HighPart ==
    ASSUME NEW F \in Nat \ {0}, NEW G \in Nat \ {0}, NEW x \in 0 .. F * G - 1
    PROVE  x \div G \in 0 .. F - 1
  <1> DEFINE q == x \div G
             r == x % G
  <1>1. q \in Nat /\ r \in 0 .. G - 1 /\ x = q * G + r
    BY DivModIs
  <1> HIDE DEF q, r
  <1>2. q < F
    <2> SUFFICES ASSUME F <= q PROVE FALSE
      BY <1>1
    <2>1. F * G <= q * G
      BY <1>1, Grows
    <2> QED BY <1>1, <2>1
  <1> QED BY <1>1, <1>2 DEF q

\* The two parts of a shift by less than a word.
LEMMA Splits ==
    ASSUME NEW f \in 1 .. W - 1
    PROVE  2^f \in Nat \ {0} /\ 2^(W - f) \in Nat \ {0} /\ 2^W = 2^f * 2^(W - f)
  <1>1. f \in 0 .. Double /\ W - f \in 0 .. Double /\ f + (W - f) = W
    BY WidthOK DEF Double
  <1>2. 2^(f + (W - f)) = 2^f * 2^(W - f)
    BY <1>1, PowerSum
  <1> QED BY <1>1, <1>2, Power

\* A shift by a word or more is one by a word and one by the rest.
LEMMA Splits2 ==
    ASSUME NEW f \in W .. Double - 1
    PROVE  /\ f - W \in 0 .. W - 1 /\ f \in 0 .. Double
           /\ 2^(f - W) \in Nat \ {0} /\ 2^f \in Nat \ {0} /\ 2^f = 2^W * 2^(f - W)
  <1>1. f - W \in 0 .. Double /\ W \in 0 .. Double /\ W + (f - W) = f /\ f - W \in 0 .. W - 1
        /\ f \in 0 .. Double
    BY WidthOK DEF Double
  <1>2. 2^(W + (f - W)) = 2^W * 2^(f - W)
    BY <1>1, PowerSum
  <1> QED BY <1>1, <1>2, Power

\* A word is its own remainder.
LEMMA WordMod ==
    ASSUME NEW n \in Nat \ {0}, NEW x \in 0 .. n - 1
    PROVE  x % n = x /\ x \div n = 0
  <1>1. x = 0 * n + x /\ x \in Int
    OBVIOUS
  <1> QED BY <1>1, DivMod

\* A shift by zero returns its operand.
LEMMA NoShift ==
    ASSUME NEW a \in dint
    PROVE  /\ a = Pair((Value(a) * 2^0) % 2^Double)
           /\ a = Pair((ToInt(Value(a), Double) \div 2^0) % 2^Double)
           /\ a = Pair(Value(a) \div 2^0)
  <1> DEFINE v == Value(a)
             s == ToInt(v, Double)
             h == ToInt(a.high, W)
  <1>1. v \in Int /\ a.low \in Words /\ a.high \in Words /\ a.high \in Int /\ Digits(v, a.high, a.low)
        /\ a = [low |-> a.low, high |-> a.high]
    BY ValueIs, Widths DEF Words
  <1>2. h \in Int /\ Digits(s, h, a.low) /\ h % 2^W = a.high
    BY SignedValue DEF Digits
  <1>3. s \in Int
    <2> DEFINE B == 2^W
               l == a.low
    <2>1. B \in Nat /\ l \in Int /\ s = h * B + l
      BY <1>1, <1>2, Widths DEF Digits, Words
    <2> HIDE DEF B, h, s, l
    <2> QED BY <1>2, <2>1
  <1>4. a.high % 2^W = a.high
    <2> DEFINE B == 2^W
    <2>1. B \in Nat \ {0} /\ a.high \in 0 .. B - 1
      BY <1>1, Widths DEF Words
    <2> HIDE DEF B
    <2>2. a.high % B = a.high
      BY <2>1, WordMod
    <2> QED BY <2>2 DEF B
  <1> HIDE DEF v, s, h
  <1>5. v * 2^0 = v /\ v \div 2^0 = v /\ s \div 2^0 = s
    <2>1. 2^0 = 1
      BY Widths
    <2>2. v * 1 = v /\ v \div 1 = v /\ s \div 1 = s
      BY <1>1, <1>3
    <2> QED BY <2>1, <2>2
  <1> DEFINE l == a.low
             g == a.high
  <1>6. a = [low |-> l, high |-> g] /\ l \in Words /\ g \in Int /\ Digits(v, g, l) /\ Digits(s, h, l)
        /\ g % 2^W = g /\ h % 2^W = g
    BY <1>1, <1>2, <1>4
  <1> HIDE DEF l, g
  <1>7. /\ Pair(v) = [low |-> l, high |-> g % 2^W] /\ Pair(v % 2^Double) = [low |-> l, high |-> g % 2^W]
        /\ Pair(s % 2^Double) = [low |-> l, high |-> h % 2^W]
    <2>1. v \in Int /\ s \in Int /\ h \in Int
      BY <1>1, <1>2, <1>3
    <2>2. /\ Pair(v) = [low |-> l, high |-> g % 2^W]
          /\ Pair(v % 2^Double) = [low |-> l, high |-> g % 2^W]
      BY <1>6, <2>1, PairIs, Zenon
    <2>3. Pair(s % 2^Double) = [low |-> l, high |-> h % 2^W]
      BY <1>6, <2>1, PairIs, Zenon
    <2> QED BY <2>2, <2>3
  <1> QED BY <1>5, <1>6, <1>7 DEF v, s

\* l_lsl multiplies by a power of two.
LEMMA LongShiftLeft ==
    ASSUME NEW a \in dint, NEW f \in 0 .. Double - 1
    PROVE  l_lsl(a, f) = Pair((Value(a) * 2^f) % 2^Double)
  <1> DEFINE B == 2^W
             ah == a.high
             al == a.low
             v == Value(a)
  <1>1. B \in Nat \ {0} /\ W \in Nat /\ W > 1 /\ Words = 0 .. B - 1
    BY Widths, WidthOK DEF Words
  <1>2. ah \in 0 .. B - 1 /\ al \in 0 .. B - 1 /\ v = ah * B + al /\ v \in Int
    BY ValueIs, Widths DEF Digits, Words
  <1>3. CASE f = 0
    <2>1. l_lsl(a, f) = a
      BY <1>3 DEF l_lsl
    <2> QED BY <1>3, <2>1, NoShift
  <1>4. CASE f \in 1 .. W - 1
    <2> DEFINE F == 2^f
               G == 2^(W - f)
               q == al \div G
               r == al % G
               r2 == ah % G
               h == ah * F + q
               l == r * F
               z == v * F
    <2>1. F \in Nat \ {0} /\ G \in Nat \ {0} /\ B = F * G
      BY <1>4, Splits
    <2>2. l_lsl(a, f) = [low |-> (al * F) % B, high |-> ((ah * F) % B) + q]
      BY <1>1, <1>4 DEF l_lsl, shl, shr, ToWord
    <2> HIDE DEF B, F, G, al, ah, v
    <2>3. al \in Int /\ ah \in Int /\ al \in 0 .. F * G - 1
      BY <1>2, <2>1
    <2>4. /\ q \in Int /\ q \in 0 .. F - 1
          /\ l \in 0 .. B - 1 /\ (al * F) % B = l /\ al * F = q * B + l
      BY <2>1, <2>3, LowPart, HighPart
    <2>5. /\ (ah * F) % B = r2 * F
          /\ ah \div G \in Int
          /\ ah * F = (ah \div G) * B + r2 * F
          /\ r2 * F + q \in 0 .. B - 1
      <3> HIDE DEF q
      <3> QED BY <2>1, <2>3, <2>4, LowPart
    <2>6. h % B = r2 * F + q
      <3> DEFINE x == r2 * F + q
                 k == ah \div G
      <3>1. x \in 0 .. B - 1 /\ k \in Int /\ h \in Int /\ h = k * B + x
        <4> DEFINE y == r2 * F
        <4>0. y \in Int
          <5>1. r2 \in Int
            BY <2>1, <2>3, DivModIs
          <5> HIDE DEF r2
          <5> QED BY <5>1, <2>1
        <4>1. y + q \in 0 .. B - 1 /\ k \in Int /\ ah * F = k * B + y
          BY <2>5
        <4>2. x = y + q
          OBVIOUS
        <4> HIDE DEF k, q, y, x
        <4> QED BY <1>1, <2>1, <2>3, <2>4, <4>0, <4>1, <4>2
      <3> HIDE DEF x, h, k
      <3>2. h % B = x
        BY <1>1, <3>1, DivMod
      <3> QED BY <3>2 DEF x
    <2>7. z = h * B + l /\ h \in Int /\ z \in Int
      <3> HIDE DEF q, l
      <3>1. z = (ah * B) * F + al * F /\ h * B = (ah * F) * B + q * B
        BY <1>1, <1>2, <2>1, <2>3, <2>4
      <3>2. (ah * B) * F = (ah * F) * B /\ al * F \in Int /\ (ah * F) * B \in Int /\ q * B \in Int /\ h \in Int
        BY <1>1, <2>1, <2>3, <2>4
      <3> QED BY <2>4, <3>1, <3>2
    <2>8. Pair(z % 2^Double) = [low |-> l, high |-> h % B]
      <3>1. Digits(z, h, l)
        BY <2>7 DEF Digits, B
      <3>2. l \in Words
        BY <1>1, <2>4
      <3> HIDE DEF z, h, l
      <3>3. Pair(z % 2^Double) = [low |-> l, high |-> h % 2^W]
        BY <2>7, <3>1, <3>2, PairIs
      <3> QED BY <3>3 DEF B
    <2> HIDE DEF h, l, q, r2
    <2> QED BY <2>2, <2>4, <2>5, <2>6, <2>8 DEF z, F, v
  <1>5. CASE f \in W .. Double - 1
    <2> DEFINE E == 2^(f - W)
               F == 2^f
               h == v * E
               z == v * F
               y == al * E
    <2>1. E \in Nat \ {0} /\ F \in Nat \ {0} /\ F = B * E
      BY <1>5, Splits2
    <2>2. l_lsl(a, f) = [low |-> 0, high |-> y % B]
      BY <1>1, <1>5 DEF l_lsl, shl, ToWord
    <2> HIDE DEF B, E, F, al, ah, v
    <2>3. h \in Int /\ z \in Int /\ y \in Int /\ z = h * B + 0
      BY <1>1, <1>2, <2>1
    <2>4. h % B = y % B
      <3> DEFINE k == ah * E
      <3>1. k \in Int /\ Differ(h, y, k, B)
        BY <1>1, <1>2, <2>1 DEF Differ
      <3> HIDE DEF h, y, k
      <3> QED BY <1>1, <2>3, <3>1, ModSame
    <2>5. Pair(z % 2^Double) = [low |-> 0, high |-> h % B]
      <3>1. Digits(z, h, 0)
        BY <2>3 DEF Digits, B
      <3>2. 0 \in Words
        BY <1>1
      <3> HIDE DEF z, h
      <3>3. Pair(z % 2^Double) = [low |-> 0, high |-> h % 2^W]
        BY <2>3, <3>1, <3>2, PairIs
      <3> QED BY <3>3 DEF B
    <2> HIDE DEF h, y
    <2> QED BY <2>2, <2>4, <2>5 DEF z, F, v
  <1>6. f = 0 \/ f \in 1 .. W - 1 \/ f \in W .. Double - 1
    BY <1>1 DEF Double
  <1> QED BY <1>3, <1>4, <1>5, <1>6

\* Division of a number of two digits by F, a part of the base F * G.
LEMMA ShiftedRight ==
    ASSUME NEW F \in Nat \ {0}, NEW G \in Nat \ {0}, NEW h \in Int, NEW l \in 0 .. F * G - 1
    PROVE  LET low == (l \div F) + (h % F) * G
           IN  /\ (h * (F * G) + l) \div F = (h \div F) * (F * G) + low
               /\ low \in 0 .. F * G - 1 /\ h \div F \in Int
  <1> DEFINE q == h \div F
             r == h % F
             s == l \div F
             t == l % F
             B == F * G
             low == s + r * G
             v == h * B + l
             z == q * B + low
  <1>1. q \in Int /\ r \in 0 .. F - 1 /\ h = q * F + r /\ s \in Int /\ t \in 0 .. F - 1 /\ l = s * F + t
    BY DivModIs
  <1>2. s \in 0 .. G - 1
    <2>1. l \in 0 .. G * F - 1
      OBVIOUS
    <2> QED BY <2>1, HighPart
  <1> HIDE DEF q, r, s, t
  <1>3. low \in 0 .. B - 1
    <2>1. r * G + s \in 0 .. F * G - 1
      BY <1>1, <1>2, TwoDigits
    <2>2. r * G \in Int /\ low = r * G + s
      BY <1>1, <1>2
    <2> QED BY <2>1, <2>2
  <1>4. v = z * F + t /\ v \in Int /\ z \in Int
    BY <1>1, <1>2
  <1>5. v \div F = z
    <2> HIDE DEF v, z
    <2> QED BY <1>1, <1>4, DivMod
  <1> QED BY <1>1, <1>3, <1>5 DEF q, r, s

\* l_lsr divides by a power of two.
LEMMA LongShiftRight ==
    ASSUME NEW a \in dint, NEW f \in 0 .. Double - 1
    PROVE  l_lsr(a, f) = Pair(Value(a) \div 2^f)
  <1> DEFINE B == 2^W
             ah == a.high
             al == a.low
             v == Value(a)
  <1>1. B \in Nat \ {0} /\ W \in Nat /\ W > 1 /\ Words = 0 .. B - 1
    BY Widths, WidthOK DEF Words
  <1>2. ah \in 0 .. B - 1 /\ al \in 0 .. B - 1 /\ v = ah * B + al /\ v \in Int
    BY ValueIs, Widths DEF Digits, Words
  <1>3. CASE f = 0
    <2>1. l_lsr(a, f) = a
      BY <1>3 DEF l_lsr
    <2> QED BY <1>3, <2>1, NoShift
  <1>4. CASE f \in 1 .. W - 1
    <2> DEFINE F == 2^f
               G == 2^(W - f)
               h == ah \div F
               l == (al \div F) + (ah % F) * G
               z == v \div F
    <2>1. F \in Nat \ {0} /\ G \in Nat \ {0} /\ B = F * G /\ G * F = F * G
      BY <1>4, Splits
    <2>2. l_lsr(a, f) = [low |-> (al \div F) + ((ah * G) % B), high |-> h]
      BY <1>1, <1>4 DEF l_lsr, shl, shr, ToWord
    <2> HIDE DEF B, F, G, al, ah, v
    <2>3. ah \in Int /\ al \in 0 .. F * G - 1 /\ ah \in 0 .. G * F - 1
      BY <1>2, <2>1
    <2>4. (ah * G) % B = (ah % F) * G
      <3>1. (ah * G) % (G * F) = (ah % F) * G
        BY <2>1, <2>3, LowPart
      <3> QED BY <2>1, <3>1
    <2>5. z = h * B + l /\ l \in 0 .. B - 1 /\ h \in Int
      <3>1. v = ah * (F * G) + al
        BY <1>2, <2>1
      <3> QED BY <2>1, <2>3, <3>1, ShiftedRight
    <2>6. h \in 0 .. B - 1 /\ h % B = h
      <3>1. h \in 0 .. G - 1
        BY <2>1, <2>3, HighPart
      <3> HIDE DEF h
      <3>2. G <= B
        <4>1. 1 * G <= F * G
          BY <2>1, Grows
        <4> QED BY <2>1, <4>1
      <3>3. h \in 0 .. B - 1
        BY <1>1, <2>1, <3>1, <3>2
      <3> QED BY <1>1, <3>3, WordMod
    <2>7. Pair(z) = [low |-> l, high |-> h % B]
      <3>1. Digits(z, h, l)
        BY <2>5 DEF Digits, B
      <3>2. l \in Words
        BY <1>1, <2>5
      <3>3. z \in Int
        BY <1>2, <2>1, DivModIs
      <3> HIDE DEF z, h, l
      <3>4. Pair(z) = [low |-> l, high |-> h % 2^W]
        BY <2>5, <3>1, <3>2, <3>3, PairIs, Zenon
      <3> QED BY <3>4 DEF B
    <2> HIDE DEF h
    <2> QED BY <2>2, <2>4, <2>6, <2>7 DEF z, F, v
  <1>5. CASE f \in W .. Double - 1
    <2> DEFINE E == 2^(f - W)
               F == 2^f
               q == ah \div E
               r == ah % E
               t == r * B + al
    <2>1. E \in Nat \ {0} /\ F \in Nat \ {0} /\ F = B * E
      BY <1>5, Splits2
    <2>2. l_lsr(a, f) = [low |-> q, high |-> 0]
      BY <1>1, <1>5 DEF l_lsr, shr
    <2> HIDE DEF B, E, F, al, ah, v
    <2>3. q \in Nat /\ r \in 0 .. E - 1 /\ ah = q * E + r
      <3>1. ah \in Int /\ ah \in Nat
        BY <1>1, <1>2
      <3> QED BY <2>1, <3>1, DivModIs
    <2> HIDE DEF q, r
    <2>4. t \in 0 .. F - 1
      <3>1. r * B + al \in 0 .. E * B - 1
        BY <1>1, <1>2, <2>1, <2>3, TwoDigits
      <3>2. E * B = F
        BY <1>1, <2>1
      <3> QED BY <3>1, <3>2
    <2>5. v = q * F + t
      BY <1>1, <1>2, <2>1, <2>3
    <2>6. v \div F = q
      <3>1. q \in Int
        BY <2>3
      <3> HIDE DEF t
      <3> QED BY <1>2, <2>1, <2>4, <2>5, <3>1, DivMod
    <2>7. q \in 0 .. B - 1
      <3>1. q * 1 <= q * E
        BY <2>1, <2>3
      <3>2. q * E \in Nat
        BY <2>1, <2>3
      <3> QED BY <1>1, <1>2, <2>3, <3>1, <3>2
    <2>8. Pair(q) = [low |-> q, high |-> 0]
      <3>1. q % B = q /\ q \div B = 0 /\ 0 % B = 0
        BY <1>1, <2>7, WordMod
      <3> QED BY <3>1 DEF Pair, B
    <2> QED BY <2>2, <2>6, <2>8 DEF F, v
  <1>6. f = 0 \/ f \in 1 .. W - 1 \/ f \in W .. Double - 1
    BY <1>1 DEF Double
  <1> QED BY <1>3, <1>4, <1>5, <1>6

\* l_asr divides a signed number by a power of two, rounding down.
LEMMA LongShiftSigned ==
    ASSUME NEW a \in dint, NEW f \in 0 .. Double - 1
    PROVE  l_asr(a, f) = Pair((ToInt(Value(a), Double) \div 2^f) % 2^Double)
  <1> DEFINE B == 2^W
             C == 2^(W - 1)
             ah == a.high
             al == a.low
             H == ToInt(ah, W)
             v == ToInt(Value(a), Double)
  <1>1. B \in Nat \ {0} /\ W \in Nat /\ W > 1 /\ Words = 0 .. B - 1 /\ C \in Nat \ {0} /\ B = 2 * C
    BY Widths, WidthOK DEF Words
  <1>2. ah \in 0 .. B - 1 /\ al \in 0 .. B - 1
    BY ValueIs DEF Words
  <1>3. H \in Int /\ v = H * B + al /\ H \in - C .. C - 1 /\ H % B = ah
    BY SignedValue
  <1>4. v \in Int
    <2> HIDE DEF v, H, B, al
    <2> QED BY <1>1, <1>2, <1>3
  <1>5. CASE f = 0
    <2>1. l_asr(a, f) = a
      BY <1>5 DEF l_asr
    <2> QED BY <1>5, <2>1, NoShift
  <1>6. CASE f \in 1 .. W - 1
    <2> DEFINE F == 2^f
               G == 2^(W - f)
               h == H \div F
               l == (al \div F) + (H % F) * G
               z == v \div F
    <2>1. F \in Nat \ {0} /\ G \in Nat \ {0} /\ B = F * G /\ G * F = F * G
      BY <1>6, Splits
    <2>2. l_asr(a, f) = [low |-> (al \div F) + ((ah * G) % B), high |-> h % B]
      BY <1>1, <1>6 DEF l_asr, shl, shr, sar, ToWord
    <2> HIDE DEF B, C, F, G, al, ah, v, H
    <2>3. ah \in Int /\ al \in 0 .. F * G - 1
      BY <1>2, <2>1
    <2>4. (ah * G) % B = (H % F) * G
      <3>1. (ah * G) % (G * F) = (ah % F) * G
        BY <2>1, <2>3, LowPart
      <3>2. H \div B \in Int /\ H = (H \div B) * B + (H % B)
        BY <1>1, <1>3, DivModIs
      <3> DEFINE k == (H \div B) * G
      <3>3. k \in Int /\ Differ(H, ah, k, F)
        <4> DEFINE j == H \div B
        <4>1. j \in Int /\ H = j * B + ah
          BY <1>3, <3>2
        <4> HIDE DEF j
        <4>2. j * B = (j * G) * F
          BY <2>1, <4>1
        <4>3. j * G \in Int
          BY <2>1, <4>1
        <4>4. H = ah + (j * G) * F
          <5> DEFINE y == (j * G) * F
          <5>1. y \in Int /\ H = y + ah
            BY <4>1, <4>2, <2>1, <4>3
          <5> HIDE DEF y
          <5>2. H = ah + y
            BY <5>1, <2>3
          <5> QED BY <5>2 DEF y
        <4> QED BY <4>3, <4>4 DEF j, Differ
      <3> HIDE DEF k
      <3>4. H % F = ah % F
        BY <1>3, <2>1, <2>3, <3>3, ModSame
      <3> QED BY <2>1, <3>1, <3>4
    <2>5. z = h * B + l /\ l \in 0 .. B - 1 /\ h \in Int
      <3>1. v = H * (F * G) + al
        BY <1>3, <2>1
      <3> QED BY <1>3, <2>1, <2>3, <3>1, ShiftedRight
    <2>6. Pair(z % 2^Double) = [low |-> l, high |-> h % B]
      <3>1. Digits(z, h, l)
        BY <2>5 DEF Digits, B
      <3>2. l \in Words
        BY <1>1, <2>5
      <3>3. z \in Int
        BY <1>4, <2>1, DivModIs
      <3> HIDE DEF z, h, l
      <3>4. Pair(z % 2^Double) = [low |-> l, high |-> h % 2^W]
        BY <2>5, <3>1, <3>2, <3>3, PairIs, Zenon
      <3> QED BY <3>4 DEF B
    <2> HIDE DEF h
    <2> QED BY <2>2, <2>4, <2>6 DEF z, F, v
  <1>7. CASE f \in W .. Double - 1
    <2> DEFINE E == 2^(f - W)
               F == 2^f
               q == H \div E
               r == H % E
               t == r * B + al
               low == q % B
    <2>1. E \in Nat \ {0} /\ F \in Nat \ {0} /\ F = B * E
      BY <1>7, Splits2
    <2>2. l_asr(a, f) = [low |-> low, high |-> (ToInt(low, W) \div C) % B]
      BY <1>1, <1>7 DEF l_asr, sar, ToWord
    <2>3. ToInt(low, W) = IF low >= C THEN low - B ELSE low
      BY DEF ToInt
    <2> HIDE DEF B, C, E, F, al, ah, v, H
    <2>4. q \in Int /\ r \in 0 .. E - 1 /\ H = q * E + r
      BY <1>3, <2>1, DivModIs
    <2> HIDE DEF q, r
    <2>5. v \div F = q
      <3>1. t \in 0 .. F - 1
        <4>1. r * B + al \in 0 .. E * B - 1
          BY <1>1, <1>2, <2>1, <2>4, TwoDigits
        <4>2. E * B = F
          BY <1>1, <2>1
        <4> QED BY <4>1, <4>2
      <3>2. v = q * F + t
        BY <1>1, <1>2, <1>3, <2>1, <2>4
      <3> HIDE DEF t
      <3> QED BY <1>4, <2>1, <2>4, <3>1, <3>2, DivMod
    <2>6. q \in - C .. C - 1
      <3>1. CASE q >= C
        <4>1. C * E <= q * E /\ C * 1 <= C * E
          BY <1>1, <2>1, <2>4, <3>1, Grows
        <4>2. q * E \in Int /\ C * E \in Int
          BY <1>1, <2>1, <2>4
        <4>3. H >= C
          <5> DEFINE y == q * E
                     x == C * E
          <5>1. y \in Int /\ x \in Int /\ x <= y /\ C <= x /\ H = y + r
            BY <1>1, <2>4, <4>1, <4>2
          <5> HIDE DEF x, y
          <5> QED BY <1>1, <2>1, <2>4, <5>1
        <4> QED BY <1>1, <1>3, <4>3
      <3>2. CASE q < - C
        <4> DEFINE p == - q
        <4>1. p \in Nat /\ C + 1 <= p /\ H = r - p * E /\ C + 1 \in Nat
          BY <1>1, <2>1, <2>4, <3>2
        <4> HIDE DEF p
        <4>2. (C + 1) * E <= p * E /\ p * E \in Nat
          BY <4>1, <2>1, Grows
        <4>3. (C + 1) * E = C * E + E /\ C * E \in Nat
          BY <1>1, <2>1
        <4>4. C * 1 <= C * E
          BY <1>1, <2>1
        <4> QED BY <1>1, <1>3, <2>1, <2>4, <4>1, <4>2, <4>3, <4>4
      <3> QED BY <1>1, <2>4, <3>1, <3>2
    <2>7. /\ low = IF q < 0 THEN q + B ELSE q
          /\ q \div B = IF q < 0 THEN - 1 ELSE 0
      <3>1. CASE q < 0
        <4> DEFINE x == q + B
        <4>1. q = (- 1) * B + x /\ x \in 0 .. B - 1 /\ - 1 \in Int
          BY <1>1, <2>6, <3>1
        <4> HIDE DEF x
        <4>2. q \div B = - 1 /\ q % B = x
          BY <1>1, <2>4, <4>1, DivMod, Zenon
        <4> QED BY <3>1, <4>2 DEF x
      <3>2. CASE ~(q < 0)
        <4>1. q \in 0 .. B - 1
          BY <1>1, <2>6, <3>2
        <4> QED BY <1>1, <3>2, <4>1, WordMod
      <3> QED BY <3>1, <3>2
    <2>8. ToInt(low, W) = q
      <3> HIDE DEF low
      <3> QED BY <1>1, <2>3, <2>6, <2>7
    <2>9. q \div C = q \div B
      <3>1. CASE q < 0
        <4> DEFINE x == q + C
        <4>1. q = (- 1) * C + x /\ x \in 0 .. C - 1 /\ - 1 \in Int
          BY <1>1, <2>6, <3>1
        <4> HIDE DEF x
        <4>2. q \div C = - 1
          BY <1>1, <2>4, <4>1, DivMod, Zenon
        <4> QED BY <2>7, <3>1, <4>2
      <3>2. CASE ~(q < 0)
        <4>1. q \in 0 .. C - 1
          BY <1>1, <2>6, <3>2
        <4>2. q \div C = 0
          BY <1>1, <4>1, WordMod
        <4> QED BY <2>7, <3>2, <4>2
      <3> QED BY <3>1, <3>2
    <2>10. Pair(q % 2^Double) = [low |-> low, high |-> (q \div B) % B]
      <3> DEFINE h == q \div B
      <3>1. h \in Int /\ low \in 0 .. B - 1 /\ q = h * B + low
        BY <1>1, <2>4, DivModIs
      <3>2. Digits(q, h, low)
        BY <3>1 DEF Digits, B
      <3>3. low \in Words
        BY <1>1, <3>1
      <3> HIDE DEF h, low
      <3>4. Pair(q % 2^Double) = [low |-> low, high |-> h % 2^W]
        BY <2>4, <3>1, <3>2, <3>3, PairIs, Zenon
      <3> QED BY <3>4 DEF B, h
    <2> HIDE DEF low
    <2> QED BY <2>2, <2>5, <2>8, <2>9, <2>10 DEF F, v
  <1>8. f = 0 \/ f \in 1 .. W - 1 \/ f \in W .. Double - 1
    BY <1>1 DEF Double
  <1> QED BY <1>5, <1>6, <1>7, <1>8

----------------------------------------------------------------------------
(* The calls.                                                              *)

\* Every call of the library's arithmetic, for words of every width, returns
\* what numbers of twice that width give: after each step of the program
\* ArithRight holds.
THEOREM ArithCorrect == Spec => []ArithRight
  <1>1. Init => ArithRight
    BY DEF Init, ArithRight
  <1>2. ArithRight /\ [Next]_vars => ArithRight'
    <2> SUFFICES ASSUME ArithRight, [Next]_vars PROVE ArithRight'
      OBVIOUS
    <2> DEFINE top == 2^Double
    <2>1. CASE Divide
      <3>1. PICK x \in 0 .. top - 1, d \in 0 .. top - 1 :
                d # 0 /\ Call("divide", <<x, d>>, <<div_called(x, d, Double), div_pos(x, d, Double),
                                                    mul_called(x, d, Double)>>)
        BY <2>1 DEF Divide
      <3>2. d \in 1 .. top - 1 /\ Double \in 1 .. Double
        BY <3>1, Widths
      <3>3. /\ div_called(x, d, Double) = SignedDivision(x, d, Double)
            /\ div_pos(x, d, Double) = UnsignedDivision(x, d)
            /\ mul_called(x, d, Double) = (x * d) % top
        BY <3>2, DivCalled, DivPos, MulCalled
      <3>4. /\ fn' = "divide" /\ args' = <<x, d>>
            /\ result' = <<SignedDivision(x, d, Double), UnsignedDivision(x, d), (x * d) % top>>
        BY <3>1, <3>3 DEF Call
      <3> QED BY <3>4 DEF ArithRight
    <2>2. CASE AddLong
      <3>1. PICK a \in dint, b \in dint, known \in BOOLEAN :
                Call("long", <<Value(a), Value(b)>>,
                     <<l_add(a, b, known), l_sub(a, b, known), l_lt(a, b, TRUE), l_lt(a, b, FALSE),
                       l_le(a, b, TRUE), l_le(a, b, FALSE)>>)
        BY <2>2 DEF AddLong
      <3> DEFINE x == Value(a)
                 y == Value(b)
                 int(v) == ToInt(v, Double)
      <3>2. /\ l_add(a, b, known) = Pair((x + y) % top) /\ l_sub(a, b, known) = Pair((x - y) % top)
            /\ l_lt(a, b, TRUE) = (int(x) < int(y)) /\ l_lt(a, b, FALSE) = (x < y)
            /\ l_le(a, b, TRUE) = (int(x) <= int(y)) /\ l_le(a, b, FALSE) = (x <= y)
        BY LongAdd, LongSub, LongCompare
      <3>3. /\ fn' = "long" /\ args' = <<x, y>>
            /\ result' = <<Pair((x + y) % top), Pair((x - y) % top), int(x) < int(y), x < y,
                           int(x) <= int(y), x <= y>>
        BY <3>1, <3>2, Zenon DEF Call
      <3>4. args'[1] = x /\ args'[2] = y
        BY <3>3
      <3> HIDE DEF x, y
      <3> QED BY <3>3, <3>4 DEF ArithRight
    <2>3. CASE ShiftLong
      <3>1. PICK a \in dint, f \in 0 .. Double - 1 :
                Call("shift", <<Value(a), f>>, <<l_lsl(a, f), l_asr(a, f), l_lsr(a, f)>>)
        BY <2>3 DEF ShiftLong
      <3> DEFINE x == Value(a)
      <3>2. /\ l_lsl(a, f) = Pair((x * 2^f) % top) /\ l_lsr(a, f) = Pair(x \div 2^f)
            /\ l_asr(a, f) = Pair((ToInt(x, Double) \div 2^f) % top)
        BY LongShiftLeft, LongShiftRight, LongShiftSigned
      <3>3. /\ fn' = "shift" /\ args' = <<x, f>>
            /\ result' = <<Pair((x * 2^f) % top), Pair((ToInt(x, Double) \div 2^f) % top), Pair(x \div 2^f)>>
        BY <3>1, <3>2 DEF Call
      <3>4. args'[1] = x /\ args'[2] = f
        BY <3>3
      <3> HIDE DEF x
      <3> QED BY <3>3, <3>4 DEF ArithRight
    <2>4. CASE SortArray \/ Parse \/ Move \/ CopyText \/ Concat \/ Find \/ Tokenize \/ Multiply \/ Encrypt \/ Return
      <3>1. fn' \notin {"divide", "long", "shift"}
        BY <2>4 DEF SortArray, Parse, Move, CopyText, Concat, Find, Tokenize, Multiply, Encrypt, Return, Call
      <3> QED BY <3>1 DEF ArithRight
    <2>5. CASE UNCHANGED vars
      BY <2>5 DEF vars, ArithRight
    <2> QED BY <2>1, <2>2, <2>3, <2>4, <2>5 DEF Next, Calls
  <1> QED BY <1>1, <1>2, PTL DEF Spec

----------------------------------------------------------------------------
(* Strtol: where the loops end.                                            *)

\* A text ends with NUL.
IsText(s) == Len(s) \in Nat \ {0} /\ s[Len(s)] = NUL

\* The loop over white space ends in the text.
LEMMA SpacesEnd ==
    ASSUME NEW s, IsText(s)
    PROVE  AfterSpaces(s, 1) \in 1 .. Len(s)
  <1> DEFINE S == { j \in 1 .. Len(s) : s[j] # Space }
  <1>1. Len(s) \in S /\ Len(s) \in Int /\ 1 <= Len(s) /\ 0 <= 1 /\ 1 \in Int
    BY DEF IsText, NUL, Space
  <1>2. PICK j \in 1 .. Len(s) : j \in S /\ \A k \in 1 .. j - 1 : k \notin S
    <2> HIDE DEF S
    <2> QED BY <1>1, FirstIndex, Zenon
  <1>3. s[j] # Space /\ \A k \in 1 .. j - 1 : s[k] = Space
    <2>1. \A k \in 1 .. j - 1 : k \in 1 .. Len(s)
      BY <1>1
    <2> QED BY <1>2, <2>1
  <1> QED BY <1>3, Zenon DEF AfterSpaces

\* The loop over digits ends in the text, and has seen nothing but digits.
LEMMA DigitsEnd ==
    ASSUME NEW s, IsText(s), NEW i \in 1 .. Len(s), NEW base
    PROVE  /\ AfterDigits(s, i, base) \in i .. Len(s)
           /\ \A k \in i .. AfterDigits(s, i, base) - 1 : s[k] \in 0 .. base - 1
  <1> DEFINE S == { j \in i .. Len(s) : s[j] \notin 0 .. base - 1 }
  <1>1. Len(s) \in S /\ Len(s) \in Int /\ i <= Len(s) /\ 0 <= i /\ i \in Int
    BY DEF IsText, NUL
  <1>2. PICK j \in i .. Len(s) : j \in S /\ \A k \in i .. j - 1 : k \notin S
    BY <1>1, FirstIndex
  <1>3. s[j] \notin 0 .. base - 1 /\ \A k \in i .. j - 1 : s[k] \in 0 .. base - 1
    <2>1. \A k \in i .. j - 1 : k \in i .. Len(s)
      BY <1>1
    <2> QED BY <1>2, <2>1
  <1> QED BY <1>3, Zenon DEF AfterDigits

\* Sign and prefix 0x leave the text's NUL unread.
LEMMA PrefixEnd ==
    ASSUME NEW s, IsText(s), NEW base \in {0, 8, 10, 16}
    PROVE  LET p == prefix(s, base)
           IN  p.start \in 1 .. Len(s) /\ p.base \in {8, 10, 16} /\ p.neg \in BOOLEAN
  <1> DEFINE i == AfterSpaces(s, 1)
             n == Len(s)
             j == IF s[i] \in {Minus, Plus} THEN i + 1 ELSE i
             hex == base \in {0, 16} /\ s[j] = 0 /\ s[j + 1] = LetterX
             k == IF hex THEN j + 2 ELSE j
             b == IF hex THEN 16 ELSE IF base # 0 THEN base ELSE IF s[j] = 0 THEN 8 ELSE 10
  <1>1. i \in 1 .. n /\ n \in Nat \ {0} /\ s[n] = NUL
    BY SpacesEnd DEF IsText
  <1>2. prefix(s, base) = [neg |-> s[i] = Minus, start |-> k, base |-> b]
    BY DEF prefix
  <1>3. NUL \notin {Minus, Plus} /\ NUL # 0 /\ NUL # LetterX
    BY DEF NUL, Minus, Plus, LetterX
  <1> HIDE DEF i, n
  <1>4. j \in 1 .. n
    BY <1>1, <1>3
  <1> HIDE DEF j
  <1>5. k \in 1 .. n
    <2>1. CASE hex
      <3>1. j # n /\ j + 1 # n
        BY <1>3, <1>1, <2>1
      <3> QED BY <1>1, <1>4, <2>1, <3>1
    <2>2. CASE ~hex
      BY <1>4, <2>2
    <2> QED BY <2>1, <2>2
  <1>6. b \in {8, 10, 16}
    OBVIOUS
  <1> QED BY <1>2, <1>5, <1>6 DEF n

----------------------------------------------------------------------------
(* Strtol: the digit loop.                                                 *)

\* acc and any when the digits so far, some or none, have the value v.
Held(v, some, limit, sgn) ==
    IF v > sgn * limit THEN [acc |-> limit, any |-> -1]
    ELSE [acc |-> sgn * v, any |-> IF some THEN 1 ELSE 0]

\* cutoff and cutlim tell exactly whether one more digit passes the limit.
LEMMA TooBig ==
    ASSUME NEW base \in {8, 10, 16}, NEW limit \in Int, NEW sgn \in {1, -1}, sgn * limit >= 0,
           NEW v \in Nat, NEW c \in 0 .. base - 1
    PROVE  too_big(sgn * v, c, base, limit, sgn) <=> v * base + c > sgn * limit
  <1> DEFINE L == sgn * limit
             q == L \div base
             r == L % base
  <1>1. L \in Nat /\ base \in Nat \ {0} /\ limit = sgn * L
    OBVIOUS
  <1>2. q \in Nat /\ r \in 0 .. base - 1 /\ L = q * base + r
    <2>1. L \in Int
      BY <1>1
    <2> HIDE DEF L
    <2> QED BY <1>1, <2>1, DivModIs
  <1>3. cdiv(limit, base) = sgn * q
    <2>1. CASE sgn = 1
      <3>1. L = limit
        BY <2>1
      <3> QED BY <1>1, <1>2, <2>1, <3>1 DEF cdiv
    <2>2. CASE sgn = -1
      <3>1. L = - limit /\ limit = - L
        BY <2>2
      <3>2. CASE limit < 0
        BY <1>1, <1>2, <2>2, <3>1, <3>2 DEF cdiv
      <3>3. CASE limit = 0
        <4>1. L = 0 /\ q = 0 /\ 0 \div base = 0
          BY <1>1, <3>1, <3>3
        <4> QED BY <2>2, <3>3, <4>1 DEF cdiv
      <3> QED BY <1>1, <3>1, <3>2, <3>3
    <2> QED BY <2>1, <2>2
  <1> HIDE DEF q, r
  <1>4. sgn * cmod(limit, base) = r
    <2>1. cmod(limit, base) = limit - base * (sgn * q)
      BY <1>3 DEF cmod
    <2> HIDE DEF L
    <2>2. CASE sgn = 1
      BY <1>1, <1>2, <2>1, <2>2
    <2>3. CASE sgn = -1
      BY <1>1, <1>2, <2>1, <2>3
    <2> QED BY <2>2, <2>3
  <1>5. too_big(sgn * v, c, base, limit, sgn)
            <=> sgn * (sgn * v) > sgn * (sgn * q) \/ (sgn * v = sgn * q /\ c > r)
    BY <1>3, <1>4 DEF too_big
  <1>6. sgn * (sgn * v) = v /\ sgn * (sgn * q) = q /\ (sgn * v = sgn * q <=> v = q)
    BY <1>2
  <1>7. too_big(sgn * v, c, base, limit, sgn) <=> v > q \/ (v = q /\ c > r)
    BY <1>5, <1>6
  <1>8. v > q \/ (v = q /\ c > r) <=> v * base + c > L
    <2> HIDE DEF L
    <2>1. CASE base = 8
      BY <1>1, <1>2, <2>1
    <2>2. CASE base = 10
      BY <1>1, <1>2, <2>2
    <2>3. CASE base = 16
      BY <1>1, <1>2, <2>3
    <2> QED BY <2>1, <2>2, <2>3
  <1> QED BY <1>7, <1>8

\* One turn of the loop: one more digit.
LEMMA DigitTurn ==
    ASSUME NEW base \in {8, 10, 16}, NEW limit \in Int, NEW sgn \in {1, -1}, sgn * limit >= 0,
           NEW v \in Nat, NEW c \in 0 .. base - 1, NEW some \in BOOLEAN
    PROVE  digit(Held(v, some, limit, sgn), c, base, limit, sgn) = Held(v * base + c, TRUE, limit, sgn)
  <1> DEFINE L == sgn * limit
             w == v * base + c
  <1>1. L \in Nat /\ base \in Nat \ {0} /\ w \in Nat /\ w >= v
    <2>1. CASE base = 8
      BY <2>1
    <2>2. CASE base = 10
      BY <2>2
    <2>3. CASE base = 16
      BY <2>3
    <2> QED BY <2>1, <2>2, <2>3
  <1>2. too_big(sgn * v, c, base, limit, sgn) <=> w > L
    BY TooBig
  <1>3. CASE v > L
    <2> HIDE DEF L, w
    <2>1. w > L
      BY <1>1, <1>3
    <2> QED BY <1>3, <2>1 DEF Held, digit, L, w
  <1>4. CASE ~(v > L)
    <2> DEFINE h == Held(v, some, limit, sgn)
               y == sgn * v
    <2>1. h.acc = y /\ ~(h.any < 0)
      BY <1>4 DEF Held
    <2>2. digit(h, c, base, limit, sgn) =
              IF too_big(y, c, base, limit, sgn) THEN [acc |-> limit, any |-> -1]
              ELSE [acc |-> y * base + sgn * c, any |-> 1]
      <3> HIDE DEF h, y
      <3> QED BY <2>1 DEF digit
    <2>3. y * base + sgn * c = sgn * w
      <3>1. CASE base = 8
        BY <3>1
      <3>2. CASE base = 10
        BY <3>2
      <3>3. CASE base = 16
        BY <3>3
      <3> QED BY <3>1, <3>2, <3>3
    <2>4. Held(w, TRUE, limit, sgn) = IF w > L THEN [acc |-> limit, any |-> -1] ELSE [acc |-> sgn * w, any |-> 1]
      BY DEF Held
    <2> HIDE DEF w, L, y, h
    <2>5. too_big(y, c, base, limit, sgn) <=> w > L
      BY <1>2 DEF y
    <2>6. digit(h, c, base, limit, sgn) = Held(w, TRUE, limit, sgn)
      <3>1. CASE w > L
        BY <2>2, <2>4, <2>5, <3>1
      <3>2. CASE ~(w > L)
        BY <2>2, <2>3, <2>4, <2>5, <3>2
      <3> QED BY <3>1, <3>2
    <2> QED BY <2>6 DEF w, h
  <1> QED BY <1>3, <1>4

\* The values of the numerals from start to each index before e.
ValueOf(s, start, e, base) ==
    CHOOSE f : f = [i \in start - 1 .. e - 1 |-> IF i < start THEN 0 ELSE f[i - 1] * base + s[i]]

\* They exist: each is the one before, times the base, plus a digit.
LEMMA ValueSteps ==
    ASSUME NEW s, NEW start \in Int, NEW e \in Int, start <= e, NEW base \in Nat,
           \A k \in start .. e - 1 : s[k] \in 0 .. base - 1
    PROVE  LET f == ValueOf(s, start, e, base)
           IN  /\ \A i \in start - 1 .. e - 1 : f[i] \in Nat
               /\ f[start - 1] = 0
               /\ \A i \in start .. e - 1 : f[i] = f[i - 1] * base + s[i]
  <1> DEFINE a == start - 1
             b == e - 1
             Step(f) == [i \in a .. b |-> IF i < start THEN 0 ELSE f[i - 1] * base + s[i]]
             F == [i \in a + 1 .. b |-> [x \in Nat |-> x * base + s[i]]]
             value == CHOOSE f : f = Step(f)
  <1>1. /\ a \in Int /\ b \in Int /\ a <= b /\ 0 \in Nat /\ a \in a .. b
        /\ \A i \in a .. b : i < start <=> i = a
        /\ \A i \in a .. b : i # a => i \in start .. b /\ i \in a + 1 .. b /\ i - 1 \in a .. b
        /\ \A i \in a + 1 .. b : i \in start .. e - 1 /\ i \in a .. b /\ ~(i < start)
        /\ \A i \in start .. e - 1 : i \in a + 1 .. b
    OBVIOUS
  <1>2. F \in [a + 1 .. b -> [Nat -> Nat]]
    <2>1. ASSUME NEW i \in a + 1 .. b PROVE [x \in Nat |-> x * base + s[i]] \in [Nat -> Nat]
      <3>1. s[i] \in Nat
        BY <1>1, <2>1
      <3>2. ASSUME NEW x \in Nat PROVE x * base + s[i] \in Nat
        <4> DEFINE c == s[i]
        <4>1. c \in Nat
          BY <3>1
        <4> HIDE DEF c
        <4>2. x * base + c \in Nat
          BY <4>1
        <4> QED BY <4>2 DEF c
      <3> QED BY <3>2, Zenon
    <2> QED BY <2>1, Zenon
  <1>3. PICK f \in [a .. b -> Nat] : f = [i \in a .. b |-> IF i = a THEN 0 ELSE F[i][f[i - 1]]]
    <2>1. a \in Int /\ b \in Int /\ a <= b /\ 0 \in Nat
      OBVIOUS
    <2> DEFINE S == Nat
               z == 0
    <2>2. z \in S /\ F \in [a + 1 .. b -> [S -> S]]
      BY <1>2
    <2> HIDE DEF F, a, b, S, z
    <2>3. \E f \in [a .. b -> S] : Recursive(f, a, b, z, F)
      BY <2>1, <2>2, Recursion
    <2> QED BY <2>3, Zenon DEF S, z, Recursive
  <1>4. \A i \in a .. b : f[i] = IF i = a THEN 0 ELSE F[i][f[i - 1]]
    BY <1>3, Zenon
  <1>5. ASSUME NEW i \in a .. b PROVE f[i] = IF i < start THEN 0 ELSE f[i - 1] * base + s[i]
    <2>1. CASE i = a
      <3>1. i < start
        BY <1>1, <2>1
      <3>2. f[i] = 0
        BY <1>4, <2>1
      <3> QED BY <3>1, <3>2
    <2>2. CASE i # a
      <3>1. i \in a + 1 .. b /\ i - 1 \in a .. b /\ ~(i < start)
        BY <1>1, <2>2
      <3>2. f[i - 1] \in Nat
        BY <1>3, <3>1
      <3>3. F[i] = [x \in Nat |-> x * base + s[i]]
        BY <3>1, Zenon
      <3>4. F[i][f[i - 1]] = f[i - 1] * base + s[i]
        BY <3>2, <3>3, Zenon
      <3>5. f[i] = F[i][f[i - 1]]
        BY <1>4, <2>2, Zenon
      <3> QED BY <3>1, <3>4, <3>5, Zenon
    <2> QED BY <2>1, <2>2
  <1>6. f = Step(f)
    <2>1. DOMAIN f = a .. b /\ f = [i \in a .. b |-> f[i]]
      BY <1>3
    <2>2. [i \in a .. b |-> f[i]] = Step(f)
      BY <1>5, Zenon
    <2> QED BY <2>1, <2>2, Zenon
  <1>7. value = Step(value)
    BY <1>6, Zenon
  <1>8. value = ValueOf(s, start, e, base)
    BY DEF ValueOf
  <1> HIDE DEF value
  <1>9. \A i \in a .. b : value[i] = IF i < start THEN 0 ELSE value[i - 1] * base + s[i]
    BY <1>7, Zenon
  <1> DEFINE P == { i \in a .. b : value[i] \in Nat }
  <1>10. value[a] = 0 /\ \A i \in start .. e - 1 : value[i] = value[i - 1] * base + s[i]
    <2>1. value[a] = 0
      BY <1>1, <1>9
    <2>2. ASSUME NEW i \in start .. e - 1 PROVE value[i] = value[i - 1] * base + s[i]
      <3>1. i \in a .. b /\ ~(i < start)
        BY <1>1
      <3> QED BY <1>9, <3>1, Zenon
    <2> QED BY <2>1, <2>2
  <1>11. \A i \in a .. b : i \in P
    <2>1. a \in P
      BY <1>1, <1>10
    <2>2. ASSUME NEW i \in a .. b - 1, i \in P PROVE i + 1 \in P
      <3>1. i + 1 \in start .. e - 1 /\ i + 1 \in a .. b /\ (i + 1) - 1 = i
        BY <1>1
      <3>2. value[i + 1] = value[i] * base + s[i + 1] /\ value[i] \in Nat /\ s[i + 1] \in Nat
        BY <1>10, <2>2, <3>1
      <3> DEFINE x == value[i]
                 c == s[i + 1]
      <3>3. x \in Nat /\ c \in Nat /\ value[i + 1] = x * base + c
        BY <3>2
      <3> HIDE DEF x, c
      <3>4. x * base + c \in Nat
        BY <3>3
      <3> QED BY <3>1, <3>3, <3>4
    <2> HIDE DEF P
    <2> QED BY <1>1, <2>1, <2>2, UpTo
  <1>12. \A i \in a .. b : value[i] \in Nat
    BY <1>11
  <1> QED BY <1>8, <1>10, <1>12

\* The digit loop holds the value of the digits, or the limit.
Holds(s, start, base, limit, sgn) ==
    LET e == AfterDigits(s, start, base)
        v == ValueOf(s, start, e, base)[e - 1]
        h == Held(v, e > start, limit, sgn)
    IN  digits(s, start, base, limit, sgn) = [acc |-> h.acc, any |-> h.any, end |-> e]

\* It does so for both limits, at every start.
LEMMA DigitsAre ==
    ASSUME NEW s, NEW start \in Int, NEW base \in {8, 10, 16}, NEW limit \in Int, NEW sgn \in {1, -1},
           sgn * limit >= 0, AfterDigits(s, start, base) \in Int, start <= AfterDigits(s, start, base),
           \A k \in start .. AfterDigits(s, start, base) - 1 : s[k] \in 0 .. base - 1
    PROVE  Holds(s, start, base, limit, sgn)
  <1> DEFINE e == AfterDigits(s, start, base)
             a == start - 1
             b == e - 1
             f == ValueOf(s, start, e, base)
             zero == [acc |-> 0, any |-> 0]
             Step(t) == [i \in a .. b |-> IF i < start THEN zero ELSE digit(t[i - 1], s[i], base, limit, sgn)]
             turn == CHOOSE t : t = Step(t)
             g == [i \in a .. b |-> Held(f[i], i >= start, limit, sgn)]
  <1>1. digits(s, start, base, limit, sgn) = [acc |-> turn[b].acc, any |-> turn[b].any, end |-> e]
    BY DEF digits
  <1>0. e \in Int /\ start <= e /\ \A k \in start .. e - 1 : s[k] \in 0 .. base - 1
    OBVIOUS
  <1> HIDE DEF e
  <1>2. /\ a \in Int /\ b \in Int /\ a <= b /\ base \in Nat
        /\ a \in a .. b /\ b \in a .. b /\ a < start /\ (a >= start) = FALSE
        /\ \A i \in a .. b : (i >= start \/ i = a) /\ (i < start <=> ~(i >= start)) /\ (i >= start <=> i # a)
        /\ \A i \in a .. b : i # a => i \in start .. e - 1 /\ i - 1 \in a .. b
        /\ (b >= start) = (e > start)
    BY <1>0
  <1>3. /\ \A i \in a .. b : f[i] \in Nat
        /\ f[a] = 0
        /\ \A i \in start .. e - 1 : f[i] = f[i - 1] * base + s[i]
    <2>1. base \in Nat
      OBVIOUS
    <2> QED BY <1>0, <2>1, ValueSteps, Zenon
  <1> HIDE DEF f
  <1>4. Held(f[a], FALSE, limit, sgn) = zero
    <2>1. ~(0 > sgn * limit) /\ sgn * 0 = 0
      OBVIOUS
    <2> QED BY <1>3, <2>1 DEF Held
  <1> HIDE DEF zero
  <1>5. ASSUME NEW i \in a .. b
        PROVE  g[i] = IF i < start THEN zero ELSE digit(g[i - 1], s[i], base, limit, sgn)
    <2>1. CASE i = a
      <3>1. g[i] = Held(f[a], FALSE, limit, sgn)
        BY <1>2, <2>1
      <3>2. i < start
        BY <1>2, <2>1
      <3> QED BY <1>4, <3>1, <3>2
    <2>2. CASE i # a
      <3>1. i \in start .. e - 1 /\ i - 1 \in a .. b /\ ~(i < start) /\ (i >= start) = TRUE
            /\ (i - 1 >= start) \in BOOLEAN
        BY <1>2, <2>2
      <3>2. g[i] = Held(f[i], TRUE, limit, sgn) /\ g[i - 1] = Held(f[i - 1], i - 1 >= start, limit, sgn)
        BY <3>1
      <3>3. f[i] = f[i - 1] * base + s[i] /\ f[i - 1] \in Nat /\ s[i] \in 0 .. base - 1
        BY <1>0, <1>3, <3>1
      <3> DEFINE some == i - 1 >= start
                 v == f[i - 1]
                 c == s[i]
      <3>4. some \in BOOLEAN /\ v \in Nat /\ c \in 0 .. base - 1
        BY <3>1, <3>3
      <3> HIDE DEF some, v, c
      <3>5. digit(Held(v, some, limit, sgn), c, base, limit, sgn) = Held(v * base + c, TRUE, limit, sgn)
        BY <3>4, DigitTurn
      <3>6. digit(g[i - 1], s[i], base, limit, sgn) = g[i]
        <4> HIDE DEF g
        <4> QED BY <3>2, <3>3, <3>5 DEF some, v, c
      <3> QED BY <3>1, <3>6
    <2> QED BY <2>1, <2>2
  <1>6. g = Step(g)
    BY <1>5, Zenon
  <1>7. turn = Step(turn)
    BY <1>6, Zenon
  <1> HIDE DEF turn
  <1>8. \A i \in a .. b : turn[i] = IF i < start THEN zero ELSE digit(turn[i - 1], s[i], base, limit, sgn)
    BY <1>7, Zenon
  <1> DEFINE P == { i \in a .. b : turn[i] = g[i] }
  <1>9. b \in P
    <2>1. a \in P
      <3>1. turn[a] = zero /\ g[a] = zero
        BY <1>2, <1>5, <1>8
      <3> QED BY <1>2, <3>1
    <2>2. ASSUME NEW i \in a .. b - 1, i \in P PROVE i + 1 \in P
      <3>1. i + 1 \in a .. b /\ (i + 1) - 1 = i /\ ~(i + 1 < start)
        BY <1>2
      <3>2. turn[i + 1] = digit(turn[i], s[i + 1], base, limit, sgn)
            /\ g[i + 1] = digit(g[i], s[i + 1], base, limit, sgn)
        <4> HIDE DEF g
        <4> QED BY <1>5, <1>8, <3>1
      <3> HIDE DEF g
      <3> QED BY <2>2, <3>1, <3>2
    <2> HIDE DEF P
    <2> QED BY <1>2, <2>1, <2>2, UpTo
  <1>10. turn[b] = g[b]
    BY <1>9
  <1>11. g[b] = Held(f[b], e > start, limit, sgn)
    BY <1>2
  <1> QED BY <1>1, <1>10, <1>11 DEF f, e, Holds

\* What Held says of a number: its limit, and the digits.
LEMMA HeldIs ==
    ASSUME NEW v \in Nat, NEW some \in BOOLEAN, NEW limit \in Int, NEW sgn \in {1, -1}, sgn * limit >= 0,
           ~some => v = 0
    PROVE  LET h == Held(v, some, limit, sgn)
           IN  /\ h.any # 0 <=> some
               /\ h.any < 0 <=> v > sgn * limit
               /\ h.any > 0 <=> some /\ ~(v > sgn * limit)
               /\ h.acc = IF v > sgn * limit THEN limit ELSE sgn * v
  <1>1. CASE v > sgn * limit
    <2>1. some
      BY <1>1
    <2> QED BY <1>1, <2>1 DEF Held
  <1>2. CASE ~(v > sgn * limit)
    BY <1>2 DEF Held
  <1> QED BY <1>1, <1>2

\* strtol and strtoul return what C says, for every text and base.
LEMMA StrtolIs ==
    ASSUME NEW s, IsText(s), NEW base \in {0, 8, 10, 16}
    PROVE  strtol(s, base) = StrtolSpec(s, base) /\ strtoul(s, base) = StrtoulSpec(s, base)
  <1> DEFINE p == prefix(s, base)
             a == p.start
             c == p.base
             e == AfterDigits(s, a, c)
             v == ValueOf(s, a, e, c)[e - 1]
             some == e > a
             end == IF some THEN e ELSE 1
             T == 2^(LONG - 1)
             U == 2^LONG
  <1>1. a \in 1 .. Len(s) /\ c \in {8, 10, 16} /\ p.neg \in BOOLEAN
    BY PrefixEnd
  <1>2. e \in a .. Len(s) /\ \A k \in a .. e - 1 : s[k] \in 0 .. c - 1
    BY <1>1, DigitsEnd
  <1>3. a \in Int /\ e \in Int /\ a <= e /\ c \in Nat /\ some \in BOOLEAN
    BY <1>1, <1>2
  <1> HIDE DEF e, a, c
  <1>4. v \in Nat /\ (~some => v = 0)
    <2> DEFINE f == ValueOf(s, a, e, c)
    <2>1. (\A i \in a - 1 .. e - 1 : f[i] \in Nat) /\ f[a - 1] = 0
      BY <1>2, <1>3, ValueSteps
    <2>2. e - 1 \in a - 1 .. e - 1 /\ (~some => e - 1 = a - 1)
      BY <1>3
    <2> HIDE DEF f
    <2>3. f[e - 1] \in Nat /\ (~some => f[e - 1] = 0)
      BY <2>1, <2>2
    <2> QED BY <2>3 DEF f
  <1>5. T \in Nat \ {0} /\ U = 2 * T /\ LONG_MAX = T - 1 /\ LONG_MIN = - T /\ ULONG_MAX = U - 1
        /\ LONG_MAX \in Int /\ LONG_MIN \in Int /\ ULONG_MAX \in Int
    BY LongRange DEF LONG_MAX, LONG_MIN, ULONG_MAX
  <1>6. Numeral(s, base) = [neg |-> p.neg, val |-> v, end |-> end]
    BY DEF Numeral, ValueOf, e, a, c
  <1>7. ASSUME NEW limit \in Int, NEW sgn \in {1, -1}, sgn * limit >= 0
        PROVE  LET d == digits(s, a, c, limit, sgn)
               IN  /\ d.end = e
                   /\ d.any # 0 <=> some
                   /\ d.any < 0 <=> v > sgn * limit
                   /\ d.any > 0 <=> some /\ ~(v > sgn * limit)
                   /\ d.acc = IF v > sgn * limit THEN limit ELSE sgn * v
    <2> DEFINE h == Held(v, some, limit, sgn)
    <2>2. digits(s, a, c, limit, sgn) = [acc |-> h.acc, any |-> h.any, end |-> e]
      <3> DEFINE E == AfterDigits(s, a, c)
      <3>1. E = e
        BY DEF e, a, c
      <3>2. c \in {8, 10, 16} /\ a \in Int /\ E \in Int /\ a <= E /\ \A k \in a .. E - 1 : s[k] \in 0 .. c - 1
        BY <1>1, <1>2, <1>3, <3>1
      <3>3. Holds(s, a, c, limit, sgn)
        BY <1>7, <3>2, DigitsAre
      <3> QED BY <3>3, Zenon DEF Holds, e, a, c
    <2> HIDE DEF v, some
    <2>3. /\ h.any # 0 <=> some
          /\ h.any < 0 <=> v > sgn * limit
          /\ h.any > 0 <=> some /\ ~(v > sgn * limit)
          /\ h.acc = IF v > sgn * limit THEN limit ELSE sgn * v
      BY <1>3, <1>4, <1>7, HeldIs
    <2> HIDE DEF h
    <2> QED BY <2>2, <2>3
  <1> HIDE DEF v, some, T, U
  <1>8. strtol(s, base) = StrtolSpec(s, base)
    <2>1. CASE p.neg
      <3> DEFINE d == digits(s, a, c, LONG_MIN, -1)
      <3>1. (-1) * LONG_MIN = T /\ -1 \in {1, -1} /\ T >= 0
        BY <1>5
      <3>2. /\ d.end = e /\ (d.any # 0 <=> some) /\ (d.any < 0 <=> v > T)
            /\ d.acc = IF v > T THEN LONG_MIN ELSE (-1) * v
        BY <1>5, <1>7, <3>1
      <3>3. strtol(s, base) = [val |-> d.acc, end |-> IF d.any # 0 THEN d.end ELSE 1, erange |-> d.any < 0]
        BY <2>1 DEF strtol, Parsed, a, c
      <3> HIDE DEF d
      <3>4. strtol(s, base) = [val |-> IF v > T THEN LONG_MIN ELSE - v, end |-> end, erange |-> v > T]
        <4>1. (d.any < 0) = (v > T)
          BY <3>2
        <4>2. d.acc = IF v > T THEN LONG_MIN ELSE - v
          BY <1>4, <3>2
        <4> QED BY <3>2, <3>3, <4>1, <4>2
      <3>5. StrtolSpec(s, base) =
               [val |-> IF - v > LONG_MAX THEN LONG_MAX ELSE IF - v < LONG_MIN THEN LONG_MIN ELSE - v,
                end |-> end, erange |-> - v \notin LONG_MIN .. LONG_MAX]
        BY <1>6, <2>1 DEF StrtolSpec
      <3>6. ~(- v > LONG_MAX) /\ (- v < LONG_MIN <=> v > T) /\ (- v \notin LONG_MIN .. LONG_MAX) = (v > T)
        BY <1>4, <1>5
      <3> HIDE DEF end
      <3> QED BY <3>4, <3>5, <3>6
    <2>2. CASE ~p.neg
      <3> DEFINE d == digits(s, a, c, LONG_MAX, 1)
      <3>1. 1 * LONG_MAX = T - 1 /\ 1 \in {1, -1} /\ T - 1 >= 0
        BY <1>5
      <3>2. /\ d.end = e /\ (d.any # 0 <=> some) /\ (d.any < 0 <=> v > T - 1)
            /\ d.acc = IF v > T - 1 THEN LONG_MAX ELSE 1 * v
        BY <1>5, <1>7, <3>1
      <3>3. strtol(s, base) = [val |-> d.acc, end |-> IF d.any # 0 THEN d.end ELSE 1, erange |-> d.any < 0]
        BY <2>2 DEF strtol, Parsed, a, c
      <3> HIDE DEF d
      <3>4. strtol(s, base) = [val |-> IF v > T - 1 THEN LONG_MAX ELSE v, end |-> end, erange |-> v > T - 1]
        <4>1. (d.any < 0) = (v > T - 1)
          BY <3>2
        <4>2. d.acc = IF v > T - 1 THEN LONG_MAX ELSE v
          BY <1>4, <3>2
        <4> QED BY <3>2, <3>3, <4>1, <4>2
      <3>5. StrtolSpec(s, base) =
               [val |-> IF v > LONG_MAX THEN LONG_MAX ELSE IF v < LONG_MIN THEN LONG_MIN ELSE v,
                end |-> end, erange |-> v \notin LONG_MIN .. LONG_MAX]
        BY <1>6, <2>2 DEF StrtolSpec
      <3>6. ~(v < LONG_MIN) /\ (v > LONG_MAX <=> v > T - 1) /\ (v \notin LONG_MIN .. LONG_MAX) = (v > T - 1)
        BY <1>4, <1>5
      <3> HIDE DEF end
      <3> QED BY <3>4, <3>5, <3>6
    <2> QED BY <2>1, <2>2
  <1>9. strtoul(s, base) = StrtoulSpec(s, base)
    <2> DEFINE d == digits(s, a, c, ULONG_MAX, 1)
    <2>1. 1 * ULONG_MAX = U - 1 /\ 1 \in {1, -1} /\ U - 1 >= 0 /\ U \in Nat \ {0}
      BY <1>5
    <2>2. /\ d.end = e /\ (d.any # 0 <=> some) /\ (d.any < 0 <=> v > U - 1)
          /\ (d.any > 0 <=> some /\ ~(v > U - 1))
          /\ d.acc = IF v > U - 1 THEN ULONG_MAX ELSE 1 * v
      BY <1>5, <1>7, <2>1
    <2>3. strtoul(s, base) = [val |-> IF p.neg /\ d.any > 0 THEN (- d.acc) % U ELSE d.acc,
                              end |-> IF d.any # 0 THEN d.end ELSE 1, erange |-> d.any < 0]
      BY DEF strtoul, Parsed, a, c, U
    <2> HIDE DEF d
    <2>4. (d.any < 0) = (v > U - 1) /\ d.acc = IF v > U - 1 THEN ULONG_MAX ELSE v
      BY <1>4, <2>2
    <2>5. StrtoulSpec(s, base) =
             [val |-> IF v > ULONG_MAX THEN ULONG_MAX ELSE (IF p.neg THEN - v ELSE v) % U,
              end |-> end, erange |-> v > ULONG_MAX]
      BY <1>6 DEF StrtoulSpec, U
    <2>6. (IF p.neg /\ d.any > 0 THEN (- d.acc) % U ELSE d.acc)
              = IF v > ULONG_MAX THEN ULONG_MAX ELSE (IF p.neg THEN - v ELSE v) % U
      <3>1. CASE v > U - 1
        BY <1>5, <2>2, <2>4, <3>1
      <3>2. CASE ~(v > U - 1) /\ p.neg /\ some
        BY <1>5, <2>2, <2>4, <3>2
      <3>3. CASE ~(v > U - 1) /\ ~(p.neg /\ some)
        <4>1. v \in 0 .. U - 1
          BY <1>4, <2>1, <3>3
        <4>2. v = 0 * U + v
          BY <1>4, <2>1
        <4>3. v % U = v
          BY <1>4, <2>1, <4>1, <4>2, DivMod
        <4>4. p.neg => v = 0 /\ - v = v
          <5>1. p.neg => v = 0
            BY <1>4, <3>3, Zenon
          <5>2. v \in Int /\ (v = 0 => v >= 0 /\ v <= 0)
            BY <1>4
          <5>3. v >= 0 /\ v <= 0 => - v = v
            BY <5>2
          <5> QED BY <5>1, <5>2, <5>3, Zenon
        <4> QED BY <1>5, <2>2, <2>4, <3>3, <4>3, <4>4
      <3> QED BY <3>1, <3>2, <3>3
    <2>7. (v > ULONG_MAX) = (v > U - 1)
      BY <1>5
    <2> QED BY <2>2, <2>3, <2>4, <2>5, <2>6, <2>7
  <1> QED BY <1>8, <1>9

\* Every call of strtol and strtoul, for longs of every width and texts of every
\* length, returns the number or the limit, and where it stopped.
THEOREM ParseCorrect == Spec => []ParseRight
  <1>1. Init => ParseRight
    BY DEF Init, ParseRight
  <1>2. ParseRight /\ [Next]_vars => ParseRight'
    <2> SUFFICES ASSUME ParseRight, [Next]_vars PROVE ParseRight'
      OBVIOUS
    <2>1. CASE Parse
      <3>1. PICK n \in 0 .. MaxText : \E s \in [1 .. n -> Alphabet], base \in {0, 8, 10, 16} :
                LET t == Append(s, NUL)
                IN  Call("strtol", <<t, base>>, <<strtol(t, base), strtoul(t, base)>>)
        BY <2>1 DEF Parse
      <3>2. PICK s \in [1 .. n -> Alphabet], base \in {0, 8, 10, 16} :
                LET t == Append(s, NUL)
                IN  Call("strtol", <<t, base>>, <<strtol(t, base), strtoul(t, base)>>)
        BY <3>1
      <3> DEFINE t == Append(s, NUL)
      <3>3. IsText(t)
        <4>1. n \in Nat
          OBVIOUS
        <4>2. s \in Seq(Alphabet \cup {NUL}) /\ Len(s) = n
          BY <4>1
        <4>3. Len(t) = n + 1 /\ t[n + 1] = NUL
          BY <4>1, <4>2
        <4> QED BY <4>1, <4>3 DEF IsText
      <3>4. /\ fn' = "strtol" /\ args' = <<t, base>> /\ result' = <<strtol(t, base), strtoul(t, base)>>
        BY <3>2 DEF Call
      <3>5. strtol(t, base) = StrtolSpec(t, base) /\ strtoul(t, base) = StrtoulSpec(t, base)
        BY <3>3, StrtolIs
      <3> HIDE DEF t
      <3> QED BY <3>4, <3>5 DEF ParseRight
    <2>2. CASE Divide \/ AddLong \/ ShiftLong \/ SortArray \/ Move \/ CopyText \/ Concat \/ Find \/ Tokenize
               \/ Multiply \/ Encrypt \/ Return
      <3>1. fn' # "strtol"
        BY <2>2 DEF Divide, AddLong, ShiftLong, SortArray, Move, CopyText, Concat, Find, Tokenize, Multiply, Encrypt,
                    Return, Call
      <3> QED BY <3>1 DEF ParseRight
    <2>3. CASE UNCHANGED vars
      BY <2>3 DEF vars, ParseRight
    <2> QED BY <2>1, <2>2, <2>3 DEF Next, Calls
  <1> QED BY <1>1, <1>2, PTL DEF Spec

----------------------------------------------------------------------------
(* Strings: memmove.                                                       *)

\* A memory m with n bytes from s2 on moved to s1, and nothing else.
Moved(m, s1, s2, n) == [i \in DOMAIN m |-> IF i \in s1 .. s1 + n - 1 THEN m[s2 + i - s1] ELSE m[i]]

\* The turns of memmove's ascending loop, when it does not write ahead.
LEMMA CopyUp ==
    ASSUME NEW M \in Nat, NEW C, NEW m \in [1 .. M -> C],
           NEW s1 \in 1 .. M, NEW s2 \in 1 .. M, NEW n \in Nat,
           s1 + n <= M + 1, s2 + n <= M + 1, s1 <= s2
    PROVE  copy_up(m, s1, s2, n) = Moved(m, s1, s2, n)
  <1> DEFINE Turn(c, i) == [c EXCEPT ![s1 + i - 1] = c[s2 + i - 1]]
             Step(f) == [i \in 0 .. n |-> IF i = 0 THEN m ELSE Turn(f[i - 1], i)]
             copied == CHOOSE f : f = Step(f)
             g == [i \in 0 .. n |-> Moved(m, s1, s2, i)]
  <1>1. copy_up(m, s1, s2, n) = copied[n]
    BY DEF copy_up
  <1>2. ASSUME NEW i \in 0 .. n
        PROVE  g[i] = IF i = 0 THEN m ELSE Turn(g[i - 1], i)
    <2>1. CASE i = 0
      <3>1. \A k \in 1 .. M : k \notin s1 .. s1 + 0 - 1
        OBVIOUS
      <3>2. Moved(m, s1, s2, 0) = [k \in 1 .. M |-> m[k]]
        BY <3>1 DEF Moved
      <3> QED BY <2>1, <3>2
    <2>2. CASE i # 0
      <3> DEFINE c == g[i - 1]
                 a == s1 + i - 1
                 b == s2 + i - 1
      <3>1. i - 1 \in 0 .. n /\ a \in 1 .. M /\ b \in 1 .. M /\ b \notin s1 .. s1 + (i - 1) - 1
        BY <2>2
      <3>2. c = Moved(m, s1, s2, i - 1)
        BY <3>1
      <3>3. c = [k \in 1 .. M |-> IF k \in s1 .. s1 + (i - 1) - 1 THEN m[s2 + k - s1] ELSE m[k]]
        BY <3>2 DEF Moved
      <3>4. c[b] = m[b]
        BY <3>1, <3>3
      <3>5. g[i] = [k \in 1 .. M |-> IF k \in s1 .. s1 + i - 1 THEN m[s2 + k - s1] ELSE m[k]]
        BY DEF Moved
      <3> HIDE DEF c
      <3>6. Turn(c, i) = [k \in 1 .. M |-> IF k = a THEN m[b] ELSE c[k]]
        BY <3>1, <3>3, <3>4
      <3>7. ASSUME NEW k \in 1 .. M
            PROVE  (IF k = a THEN m[b] ELSE c[k]) = IF k \in s1 .. s1 + i - 1 THEN m[s2 + k - s1] ELSE m[k]
        <4>1. CASE k = a
          <5>1. s2 + k - s1 = b /\ k \in s1 .. s1 + i - 1
            BY <3>1, <4>1, <2>2
          <5> QED BY <4>1, <5>1
        <4>2. CASE k # a
          <5>1. k \in s1 .. s1 + i - 1 <=> k \in s1 .. s1 + (i - 1) - 1
            BY <3>1, <4>2
          <5> QED BY <3>3, <4>2, <5>1
        <4> QED BY <4>1, <4>2
      <3>8. Turn(c, i) = g[i]
        <4> HIDE DEF g
        <4> QED BY <3>5, <3>6, <3>7, Zenon
      <3> QED BY <2>2, <3>8 DEF c
    <2> QED BY <2>1, <2>2
  <1> HIDE DEF Turn
  <1>3. g = Step(g)
    BY <1>2, Zenon
  <1>4. copied = Step(copied)
    BY <1>3, Zenon
  <1> HIDE DEF copied
  <1>5. \A i \in 0 .. n : copied[i] = IF i = 0 THEN m ELSE Turn(copied[i - 1], i)
    BY <1>4, Zenon
  <1> DEFINE P == { i \in 0 .. n : copied[i] = g[i] }
  <1>6. n \in P
    <2>1. 0 \in P
      <3>1. 0 \in 0 .. n
        OBVIOUS
      <3> QED BY <1>2, <1>5, <3>1
    <2>2. ASSUME NEW i \in 0 .. n - 1, i \in P PROVE i + 1 \in P
      <3>1. i + 1 \in 0 .. n /\ (i + 1) - 1 = i /\ i + 1 # 0
        OBVIOUS
      <3> HIDE DEF g
      <3>2. copied[i + 1] = Turn(copied[i], i + 1) /\ g[i + 1] = Turn(g[i], i + 1)
        BY <1>2, <1>5, <3>1
      <3> QED BY <2>2, <3>1, <3>2
    <2>3. n \in 0 .. n /\ 0 \in Int /\ n \in Int
      OBVIOUS
    <2> HIDE DEF P
    <2> QED BY <2>1, <2>2, <2>3, UpTo
  <1> QED BY <1>1, <1>6

\* The turns of memmove's descending loop, when it does not write ahead.
LEMMA CopyDown ==
    ASSUME NEW M \in Nat, NEW C, NEW m \in [1 .. M -> C],
           NEW s1 \in 1 .. M, NEW s2 \in 1 .. M, NEW n \in Nat,
           s1 + n <= M + 1, s2 + n <= M + 1, s2 <= s1
    PROVE  copy_down(m, s1, s2, n) = Moved(m, s1, s2, n)
  <1> DEFINE Turn(c, i) == [c EXCEPT ![s1 + n - i] = c[s2 + n - i]]
             Step(f) == [i \in 0 .. n |-> IF i = 0 THEN m ELSE Turn(f[i - 1], i)]
             copied == CHOOSE f : f = Step(f)
             g == [i \in 0 .. n |-> Moved(m, s1 + n - i, s2 + n - i, i)]
  <1>1. copy_down(m, s1, s2, n) = copied[n]
    BY DEF copy_down
  <1>2. ASSUME NEW i \in 0 .. n
        PROVE  g[i] = IF i = 0 THEN m ELSE Turn(g[i - 1], i)
    <2>1. CASE i = 0
      <3>1. \A k \in 1 .. M : k \notin s1 + n - 0 .. s1 + n - 0 + 0 - 1
        OBVIOUS
      <3>2. Moved(m, s1 + n - 0, s2 + n - 0, 0) = [k \in 1 .. M |-> m[k]]
        BY <3>1 DEF Moved
      <3> QED BY <2>1, <3>2
    <2>2. CASE i # 0
      <3> DEFINE c == g[i - 1]
                 a == s1 + n - i
                 b == s2 + n - i
      <3>1. i - 1 \in 0 .. n /\ a \in 1 .. M /\ b \in 1 .. M /\ b \notin a + 1 .. a + i - 1
            /\ s1 + n - (i - 1) = a + 1 /\ s2 + n - (i - 1) = b + 1 /\ a + 1 + (i - 1) - 1 = a + i - 1
            /\ a \in Int /\ b \in Int /\ i \in Int
        BY <2>2
      <3>2. c = Moved(m, a + 1, b + 1, i - 1)
        BY <3>1
      <3> HIDE DEF a, b
      <3>3. c = [k \in 1 .. M |-> IF k \in a + 1 .. a + i - 1 THEN m[b + 1 + k - (a + 1)] ELSE m[k]]
        BY <3>1, <3>2 DEF Moved
      <3>4. c[b] = m[b]
        BY <3>1, <3>3
      <3>5. g[i] = [k \in 1 .. M |-> IF k \in a .. a + i - 1 THEN m[b + k - a] ELSE m[k]]
        BY DEF Moved, a, b
      <3> HIDE DEF c
      <3>6. Turn(c, i) = [k \in 1 .. M |-> IF k = a THEN m[b] ELSE c[k]]
        <4>1. Turn(c, i) = [c EXCEPT ![a] = c[b]]
          BY DEF a, b
        <4> QED BY <3>1, <3>3, <3>4, <4>1
      <3>7. ASSUME NEW k \in 1 .. M
            PROVE  (IF k = a THEN m[b] ELSE c[k]) = IF k \in a .. a + i - 1 THEN m[b + k - a] ELSE m[k]
        <4>1. CASE k = a
          <5>1. b + k - a = b /\ k \in a .. a + i - 1
            BY <3>1, <4>1, <2>2
          <5> QED BY <4>1, <5>1
        <4>2. CASE k # a
          <5>1. (k \in a .. a + i - 1 <=> k \in a + 1 .. a + i - 1) /\ b + 1 + k - (a + 1) = b + k - a
            BY <3>1, <4>2
          <5> QED BY <3>3, <4>2, <5>1
        <4> QED BY <4>1, <4>2
      <3>8. Turn(c, i) = g[i]
        <4> HIDE DEF g
        <4> QED BY <3>5, <3>6, <3>7, Zenon
      <3> QED BY <2>2, <3>8 DEF c
    <2> QED BY <2>1, <2>2
  <1> HIDE DEF Turn
  <1>3. g = Step(g)
    BY <1>2, Zenon
  <1>4. copied = Step(copied)
    BY <1>3, Zenon
  <1> HIDE DEF copied
  <1>5. \A i \in 0 .. n : copied[i] = IF i = 0 THEN m ELSE Turn(copied[i - 1], i)
    BY <1>4, Zenon
  <1> DEFINE P == { i \in 0 .. n : copied[i] = g[i] }
  <1>6. n \in P
    <2>1. 0 \in P
      <3>1. 0 \in 0 .. n
        OBVIOUS
      <3> QED BY <1>2, <1>5, <3>1
    <2>2. ASSUME NEW i \in 0 .. n - 1, i \in P PROVE i + 1 \in P
      <3>1. i + 1 \in 0 .. n /\ (i + 1) - 1 = i /\ i + 1 # 0
        OBVIOUS
      <3> HIDE DEF g
      <3>2. copied[i + 1] = Turn(copied[i], i + 1) /\ g[i + 1] = Turn(g[i], i + 1)
        BY <1>2, <1>5, <3>1
      <3> QED BY <2>2, <3>1, <3>2
    <2>3. n \in 0 .. n /\ 0 \in Int /\ n \in Int
      OBVIOUS
    <2> HIDE DEF P
    <2> QED BY <2>1, <2>2, <2>3, UpTo
  <1>7. g[n] = Moved(m, s1, s2, n)
    <2>1. s1 + n - n = s1 /\ s2 + n - n = s2 /\ n \in 0 .. n
      OBVIOUS
    <2> QED BY <2>1
  <1> QED BY <1>1, <1>6, <1>7

IsMoved(r, M, m, s1, s2, n) ==
    r = [i \in 1 .. M |-> IF i \in s1 .. s1 + n - 1 THEN m[s2 + i - s1] ELSE m[i]]

\* memmove moves, whatever the overlap.
LEMMA MemMove ==
    ASSUME NEW M \in Nat, NEW C, NEW m \in [1 .. M -> C],
           NEW s1 \in 1 .. M, NEW s2 \in 1 .. M, NEW n \in Nat,
           s1 + n <= M + 1, s2 + n <= M + 1
    PROVE  IsMoved(memmove(m, s1, s2, n), M, m, s1, s2, n)
  <1>1. memmove(m, s1, s2, n) = Moved(m, s1, s2, n)
    <2>1. CASE s1 <= s2
      BY <2>1, CopyUp DEF memmove
    <2>2. CASE ~(s1 <= s2)
      <3>1. s2 <= s1
        BY <2>2
      <3> QED BY <2>2, <3>1, CopyDown DEF memmove
    <2> QED BY <2>1, <2>2
  <1>2. IsMoved(Moved(m, s1, s2, n), M, m, s1, s2, n)
    BY DEF Moved, IsMoved
  <1> QED BY <1>1, <1>2

----------------------------------------------------------------------------
(* Strings: strncpy and strncat.                                           *)

\* A string ends at its first zero.
LEMMA EndOfIs ==
    ASSUME NEW M \in Nat, NEW C, NEW m \in [1 .. M -> C], m[M] = 0, NEW s \in 1 .. M
    PROVE  EndOf(m, s) \in s .. M /\ m[EndOf(m, s)] = 0 /\ \A j \in s .. EndOf(m, s) - 1 : m[j] # 0
  <1> DEFINE Z == { j \in s .. M : m[j] = 0 }
             E(i) == i >= s /\ m[i] = 0 /\ \A j \in s .. i - 1 : m[j] # 0
  <1>1. M \in Z /\ s \in Int /\ M \in Int /\ s <= M /\ 0 <= s
    OBVIOUS
  <1>2. PICK i \in s .. M : i \in Z /\ \A k \in s .. i - 1 : k \notin Z
    <2> HIDE DEF Z
    <2> QED BY <1>1, FirstIndex
  <1>3. E(i) /\ i \in DOMAIN m
    <2>1. \A j \in s .. i - 1 : j \in s .. M
      BY <1>1
    <2>2. i >= s /\ m[i] = 0 /\ i \in 1 .. M /\ DOMAIN m = 1 .. M
      BY <1>1, <1>2
    <2>3. \A j \in s .. i - 1 : m[j] # 0
      BY <1>2, <2>1
    <2> QED BY <2>2, <2>3
  <1>4. EndOf(m, s) = CHOOSE k \in DOMAIN m : E(k)
    BY DEF EndOf
  <1>5. EndOf(m, s) \in DOMAIN m /\ E(EndOf(m, s))
    <2> HIDE DEF E
    <2> QED BY <1>3, <1>4, Zenon
  <1>6. EndOf(m, s) \in s .. M
    BY <1>5
  <1> QED BY <1>5, <1>6

Ends(m, s, e, M) == e \in s .. M /\ m[e] = 0 /\ \A j \in s .. e - 1 : m[j] # 0

\* The same, for callers that name the end.
LEMMA EndOfEnds ==
    ASSUME NEW M \in Nat, NEW C, NEW m \in [1 .. M -> C], m[M] = 0, NEW s \in 1 .. M
    PROVE  Ends(m, s, EndOf(m, s), M)
  BY EndOfIs, Zenon DEF Ends

\* The first c bytes of a memory m replaced by those behind h.
Pasted(m, h, c) == [i \in DOMAIN m |-> IF i <= c THEN m[h + i] ELSE m[i]]

\* One more byte, of a source behind the bytes that were written.
BytePasted(m, h, c) ==
    /\ Pasted(m, h, c)[h + 1 + c] = m[h + 1 + c]
    /\ [Pasted(m, h, c) EXCEPT ![1 + c] = m[h + 1 + c]] = Pasted(m, h, c + 1)

\* Copying the byte behind the ones that were copied makes one more of them.
LEMMA CopyByte ==
    ASSUME NEW M \in Nat, NEW C, NEW m \in [1 .. M -> C], NEW h \in Nat, NEW c \in Nat, c < h, h + c < M
    PROVE  BytePasted(m, h, c)
  <1> DEFINE a == 1 + c
             b == h + 1 + c
             x == Pasted(m, h, c)
  <1>1. a \in 1 .. M /\ b \in 1 .. M /\ ~(b <= c)
    OBVIOUS
  <1>2. x = [i \in 1 .. M |-> IF i <= c THEN m[h + i] ELSE m[i]]
    BY DEF Pasted
  <1>3. Pasted(m, h, c + 1) = [i \in 1 .. M |-> IF i <= c + 1 THEN m[h + i] ELSE m[i]]
    BY DEF Pasted
  <1>4. x[b] = m[b]
    BY <1>1, <1>2
  <1> HIDE DEF x, b
  <1>5. [x EXCEPT ![a] = m[b]] = [i \in 1 .. M |-> IF i = a THEN m[b] ELSE x[i]]
    BY <1>1, <1>2
  <1>6. ASSUME NEW i \in 1 .. M
        PROVE  (IF i = a THEN m[b] ELSE x[i]) = IF i <= c + 1 THEN m[h + i] ELSE m[i]
    <2>1. CASE i = a
      <3>1. h + i = b /\ i <= c + 1
        BY <2>1 DEF b
      <3> QED BY <2>1, <3>1
    <2>2. CASE i # a
      <3>1. i <= c + 1 <=> i <= c
        BY <2>2
      <3> QED BY <1>2, <2>2, <3>1
    <2> QED BY <2>1, <2>2
  <1>7. [x EXCEPT ![a] = m[b]] = Pasted(m, h, c + 1)
    BY <1>3, <1>5, <1>6, Zenon
  <1> QED BY <1>4, <1>7 DEF x, b, BytePasted

\* The smaller of two numbers.
Least2(x, y) == IF x < y THEN x ELSE y

\* One more byte moved, of a source behind the bytes that were written.
ByteMoved(m, s1, s2, d) ==
    /\ Moved(m, s1, s2, d)[s2 + d] = m[s2 + d]
    /\ [Moved(m, s1, s2, d) EXCEPT ![s1 + d] = m[s2 + d]] = Moved(m, s1, s2, d + 1)

\* Moving the byte behind the ones that were moved makes one more of them.
LEMMA MoveByte ==
    ASSUME NEW M \in Nat, NEW C, NEW m \in [1 .. M -> C], NEW s1 \in 1 .. M, NEW s2 \in 1 .. M, NEW d \in Nat,
           s1 < s2, s2 + d <= M
    PROVE  ByteMoved(m, s1, s2, d)
  <1> DEFINE a == s1 + d
             b == s2 + d
             x == Moved(m, s1, s2, d)
  <1>1. a \in 1 .. M /\ b \in 1 .. M /\ b \notin s1 .. s1 + d - 1
    OBVIOUS
  <1>2. x = [i \in 1 .. M |-> IF i \in s1 .. s1 + d - 1 THEN m[s2 + i - s1] ELSE m[i]]
    BY DEF Moved
  <1>3. Moved(m, s1, s2, d + 1) = [i \in 1 .. M |-> IF i \in s1 .. s1 + (d + 1) - 1 THEN m[s2 + i - s1] ELSE m[i]]
    BY DEF Moved
  <1>4. x[b] = m[b]
    BY <1>1, <1>2
  <1> HIDE DEF x, b
  <1>5. [x EXCEPT ![a] = m[b]] = [i \in 1 .. M |-> IF i = a THEN m[b] ELSE x[i]]
    BY <1>1, <1>2
  <1>6. ASSUME NEW i \in 1 .. M
        PROVE  (IF i = a THEN m[b] ELSE x[i]) = IF i \in s1 .. s1 + (d + 1) - 1 THEN m[s2 + i - s1] ELSE m[i]
    <2>1. CASE i = a
      <3>1. s2 + i - s1 = b /\ i \in s1 .. s1 + (d + 1) - 1
        BY <2>1 DEF b
      <3> QED BY <2>1, <3>1
    <2>2. CASE i # a
      <3>1. i \in s1 .. s1 + (d + 1) - 1 <=> i \in s1 .. s1 + d - 1
        BY <2>2
      <3> QED BY <1>2, <2>2, <3>1
    <2> QED BY <2>1, <2>2
  <1>7. [x EXCEPT ![a] = m[b]] = Moved(m, s1, s2, d + 1)
    BY <1>3, <1>5, <1>6, Zenon
  <1> QED BY <1>4, <1>7 DEF x, b, ByteMoved

\* m with c characters of the string behind h appended at u, and a zero.
IsAppended(r, M, m, h, u, c) ==
    r = [i \in 1 .. M |-> IF i \in u .. u + c - 1 THEN m[h + 1 + i - u] ELSE IF i = u + c THEN 0 ELSE m[i]]

\* strncat appends to the string at 1, which ends at u, the string behind h, or n
\* of its characters, and a zero, if there is room for them before h.
LEMMA StrNCat ==
    ASSUME NEW M \in Nat, NEW C, NEW m \in [1 .. M -> C], m[M] = 0, NEW h \in Nat, h + 1 <= M,
           NEW n \in 0 .. h, EndOf(m, 1) + Least2(EndOf(m, h + 1) - (h + 1), n) <= h
    PROVE  IsAppended(strncat(m, 1, h + 1, n), M, m, h, EndOf(m, 1), Least2(EndOf(m, h + 1) - (h + 1), n))
  <1> DEFINE t == h + 1
             u == EndOf(m, 1)
             e == EndOf(m, t)
             l == e - t
             c == Least2(l, n)
             first == [m |-> m, s1 |-> u, s2 |-> t, n |-> n]
             Step(f) == [k \in 0 .. n |-> IF k = 0 THEN first ELSE strncat_copy(f[k - 1])]
             copy == CHOOSE f : f = Step(f)
             After(d) == [m |-> Moved(m, u, t, d), s1 |-> u + d, s2 |-> t + d, n |-> n - d]
             g == [k \in 0 .. n |-> After(Least2(k, c))]
  <1>1. strncat(m, 1, t, n) = [copy[n].m EXCEPT ![copy[n].s1] = 0]
    BY DEF strncat
  <1>2. e \in t .. M /\ m[e] = 0 /\ \A j \in t .. e - 1 : m[j] # 0
    <2>1. t \in 1 .. M
      OBVIOUS
    <2> HIDE DEF t
    <2> QED BY <2>1, EndOfIs
  <1>4. u \in 1 .. M
    <2> DEFINE one == 1
    <2>1. one \in 1 .. M
      OBVIOUS
    <2>2. EndOf(m, one) \in one .. M
      <3> HIDE DEF one
      <3> QED BY <2>1, EndOfIs
    <2> QED BY <2>2
  <1>0. u + c <= h
    OBVIOUS
  <1> HIDE DEF e, u
  <1>3. c \in Nat /\ c <= n /\ c <= l /\ l \in Nat /\ (c = n \/ c = l) /\ h + l < M
    BY <1>2 DEF Least2
  <1>30. u \in 1 .. M /\ t \in 1 .. M /\ u < t /\ u + c <= h /\ u + c \in 1 .. M
    BY <1>0, <1>3, <1>4
  <1>5. first = After(0)
    <2>1. \A i \in 1 .. M : i \notin u .. u + 0 - 1
      BY <1>4
    <2>2. Moved(m, u, t, 0) = [i \in 1 .. M |-> m[i]]
      BY <2>1 DEF Moved
    <2>3. Moved(m, u, t, 0) = m /\ u + 0 = u /\ t + 0 = t /\ n - 0 = n
      BY <1>4, <2>2
    <2> QED BY <2>3
  <1>6. ASSUME NEW d \in Nat, d < c PROVE strncat_copy(After(d)) = After(d + 1)
    <2> DEFINE p == After(d)
               b == t + d
    <2>1. t + d <= M /\ b \in t .. e - 1 /\ n - d # 0 /\ u + d + 1 = u + (d + 1)
          /\ t + d + 1 = t + (d + 1) /\ n - d - 1 = n - (d + 1)
      BY <1>2, <1>3, <1>4, <1>6
    <2>2. Moved(m, u, t, d)[b] = m[b] /\ [Moved(m, u, t, d) EXCEPT ![u + d] = m[b]] = Moved(m, u, t, d + 1)
      <3>1. ByteMoved(m, u, t, d)
        <4> HIDE DEF t
        <4> QED BY <1>30, <2>1, MoveByte
      <3> QED BY <3>1 DEF ByteMoved
    <2>3. m[b] # 0
      BY <1>2, <2>1
    <2> HIDE DEF t
    <2>4. p.m = Moved(m, u, t, d) /\ p.s1 = u + d /\ p.s2 = b /\ p.n = n - d
      OBVIOUS
    <2>40. b + 1 = t + (d + 1)
      BY <2>1
    <2> HIDE DEF p, b
    <2>5. strncat_copy(p) = [m |-> [p.m EXCEPT ![p.s1] = p.m[p.s2]], s1 |-> p.s1 + 1, s2 |-> p.s2 + 1, n |-> p.n - 1]
      BY <2>1, <2>2, <2>3, <2>4 DEF strncat_copy
    <2>6. p.s1 + 1 = u + (d + 1) /\ p.s2 + 1 = t + (d + 1) /\ p.n - 1 = n - (d + 1)
          /\ [p.m EXCEPT ![p.s1] = p.m[p.s2]] = Moved(m, u, t, d + 1)
      BY <2>1, <2>2, <2>4, <2>40
    <2> QED BY <2>5, <2>6 DEF p
  <1>7. strncat_copy(After(c)) = After(c)
    <2> DEFINE p == After(c)
    <2>1. p.n = n - c /\ p.s2 = t + c /\ p.m = Moved(m, u, t, c)
      OBVIOUS
    <2>2. CASE c = n
      <3>1. n - c = 0
        BY <1>3, <2>2
      <3> HIDE DEF p
      <3>2. strncat_copy(p) = p
        BY <2>1, <3>1 DEF strncat_copy
      <3> QED BY <3>2 DEF p
    <2>3. CASE c # n
      <3>1. t + c = e /\ e \notin u .. u + c - 1 /\ e \in 1 .. M
        BY <1>2, <1>3, <1>30, <2>3
      <3>2. Moved(m, u, t, c)[e] = m[e]
        BY <3>1 DEF Moved
      <3> HIDE DEF p
      <3>3. strncat_copy(p) = p
        BY <1>2, <2>1, <3>1, <3>2 DEF strncat_copy
      <3> QED BY <3>3 DEF p
    <2> QED BY <2>2, <2>3
  <1> HIDE DEF After, first, c
  <1>8. ASSUME NEW k \in 0 .. n
        PROVE  g[k] = IF k = 0 THEN first ELSE strncat_copy(g[k - 1])
    <2>1. CASE k = 0
      <3>1. Least2(k, c) = 0
        BY <1>3, <2>1 DEF Least2
      <3> QED BY <1>5, <2>1, <3>1
    <2>2. CASE k # 0 /\ k <= c
      <3> DEFINE d == k - 1
      <3>1. d \in Nat /\ d < c /\ Least2(k, c) = d + 1 /\ Least2(k - 1, c) = d /\ k - 1 \in 0 .. n
        BY <1>3, <2>2 DEF Least2
      <3>2. g[k] = After(d + 1) /\ g[k - 1] = After(d)
        BY <3>1
      <3> HIDE DEF d
      <3>3. strncat_copy(After(d)) = After(d + 1)
        BY <1>6, <3>1
      <3> QED BY <2>2, <3>2, <3>3
    <2>3. CASE k > c
      <3>1. Least2(k, c) = c /\ Least2(k - 1, c) = c /\ k - 1 \in 0 .. n /\ k # 0
        BY <1>3, <2>3 DEF Least2
      <3>2. g[k] = After(c) /\ g[k - 1] = After(c)
        BY <3>1
      <3> QED BY <1>7, <3>1, <3>2
    <2> QED BY <1>3, <2>1, <2>2, <2>3
  <1>9. g = Step(g)
    BY <1>8, Zenon
  <1>10. copy = Step(copy)
    BY <1>9, Zenon
  <1> HIDE DEF copy
  <1>11. \A k \in 0 .. n : copy[k] = IF k = 0 THEN first ELSE strncat_copy(copy[k - 1])
    BY <1>10, Zenon
  <1> DEFINE P == { k \in 0 .. n : copy[k] = g[k] }
  <1>12. n \in P
    <2>1. 0 \in P
      <3>1. 0 \in 0 .. n
        OBVIOUS
      <3> HIDE DEF g
      <3> QED BY <1>8, <1>11, <3>1
    <2>2. ASSUME NEW k \in 0 .. n - 1, k \in P PROVE k + 1 \in P
      <3>1. k + 1 \in 0 .. n /\ (k + 1) - 1 = k /\ k + 1 # 0
        OBVIOUS
      <3> HIDE DEF g
      <3>2. copy[k + 1] = strncat_copy(copy[k]) /\ g[k + 1] = strncat_copy(g[k])
        BY <1>8, <1>11, <3>1
      <3> QED BY <2>2, <3>1, <3>2
    <2>3. n \in 0 .. n /\ 0 \in Int /\ n \in Int
      OBVIOUS
    <2> HIDE DEF P
    <2> QED BY <2>1, <2>2, <2>3, UpTo
  <1>13. copy[n] = After(c)
    <2>1. Least2(n, c) = c /\ n \in 0 .. n
      BY <1>3 DEF Least2
    <2> QED BY <1>12, <2>1
  <1>14. copy[n].m = Moved(m, u, t, c) /\ copy[n].s1 = u + c
    BY <1>3, <1>13 DEF After
  <1>15. Moved(m, u, t, c) = [i \in 1 .. M |-> IF i \in u .. u + c - 1 THEN m[t + i - u] ELSE m[i]]
    BY DEF Moved
  <1>16. u + c \in 1 .. M /\ u + c \notin u .. u + c - 1
    BY <1>3, <1>30
  <1> DEFINE x == Moved(m, u, t, c)
             a == u + c
  <1>17. [x EXCEPT ![a] = 0]
         = [i \in 1 .. M |-> IF i \in u .. u + c - 1 THEN m[t + i - u] ELSE IF i = a THEN 0 ELSE m[i]]
    <2>1. [x EXCEPT ![a] = 0] = [i \in 1 .. M |-> IF i = a THEN 0 ELSE x[i]]
      <3> HIDE DEF x, a
      <3> QED BY <1>15, <1>16 DEF x, a
    <2>2. ASSUME NEW i \in 1 .. M
          PROVE  (IF i = a THEN 0 ELSE x[i])
                 = IF i \in u .. u + c - 1 THEN m[t + i - u] ELSE IF i = a THEN 0 ELSE m[i]
      <3>1. x[i] = IF i \in u .. u + c - 1 THEN m[t + i - u] ELSE m[i]
        BY <1>15, Zenon
      <3>2. i = a => i \notin u .. u + c - 1
        BY <1>16
      <3> HIDE DEF x, a, t
      <3> QED BY <3>1, <3>2, Zenon
    <2> HIDE DEF x, a
    <2> QED BY <2>1, <2>2, Zenon
  <1>18. strncat(m, 1, t, n) = [x EXCEPT ![a] = 0]
    BY <1>1, <1>14
  <1>19. IsAppended(strncat(m, 1, t, n), M, m, h, u, c)
    BY <1>17, <1>18, Zenon DEF IsAppended
  <1> QED BY <1>19, Zenon DEF c, l, e, t, u
IsCopied(r, M, m, h, n, c) ==
    r = [i \in 1 .. M |-> IF i > n THEN m[i] ELSE IF i <= c THEN m[h + i] ELSE 0]

\* strncpy writes n bytes at 1: the string behind h, and zeros behind it.
LEMMA StrNCpy ==
    ASSUME NEW M \in Nat, NEW C, NEW m \in [1 .. M -> C], m[M] = 0, NEW h \in Nat, h + 1 <= M,
           NEW n \in 0 .. h
    PROVE  IsCopied(strncpy(m, 1, h + 1, n), M, m, h, n, Least2(EndOf(m, h + 1) - (h + 1), n))
  <1> DEFINE t == h + 1
             e == EndOf(m, t)
             l == e - t
             c == Least2(l + 1, n)
             ns == IF l < n THEN n - l - 1 ELSE -1
             r == IF l < n THEN n - l - 1 ELSE 0
             first == [m |-> m, s1 |-> 1, s2 |-> t, ns |-> n, more |-> TRUE]
             Step1(f) == [k \in 0 .. n + 1 |-> IF k = 0 THEN first ELSE strncpy_copy(f[k - 1])]
             copy == CHOOSE f : f = Step1(f)
             Step2(f) == [k \in 0 .. n |-> IF k = 0 THEN copy[n + 1] ELSE strncpy_pad(f[k - 1])]
             pad == CHOOSE f : f = Step2(f)
             After(d) == [m |-> Pasted(m, h, d), s1 |-> 1 + d, s2 |-> t + d, ns |-> n - d, more |-> d <= l]
             Padded(d) == [i \in 1 .. M |-> IF i <= c THEN m[h + i] ELSE IF i <= c + d THEN 0 ELSE m[i]]
             Pads(d) == [m |-> Padded(d), s1 |-> 1 + c + d, s2 |-> t + c, ns |-> ns - d, more |-> FALSE]
             g1 == [k \in 0 .. n + 1 |-> IF k <= c THEN After(k) ELSE Pads(0)]
             g2 == [k \in 0 .. n |-> Pads(Least2(k, r))]
  <1>1. strncpy(m, 1, t, n) = pad[n].m
    BY DEF strncpy
  <1>2. e \in t .. M /\ m[e] = 0 /\ \A j \in t .. e - 1 : m[j] # 0
    <2>1. t \in 1 .. M
      OBVIOUS
    <2> HIDE DEF t
    <2> QED BY <2>1, EndOfIs
  <1> HIDE DEF e
  <1>3. /\ l \in Nat /\ h + l < M /\ t + l = e
        /\ c \in Nat /\ c <= n /\ c <= l + 1 /\ (l < n => c = l + 1) /\ (~(l < n) => c = n)
        /\ ns \in Int /\ r \in Nat /\ r <= n /\ (l < n => ns = r) /\ (~(l < n) => ns = -1 /\ r = 0)
        /\ c + r = n
    BY <1>2 DEF Least2
  <1> HIDE DEF c, ns, r, l
  <1>4. first = After(0)
    <2>1. \A i \in 1 .. M : ~(i <= 0)
      OBVIOUS
    <2>2. Pasted(m, h, 0) = [i \in 1 .. M |-> m[i]]
      BY <2>1 DEF Pasted
    <2>3. Pasted(m, h, 0) = m /\ 1 + 0 = 1 /\ t + 0 = t /\ n - 0 = n /\ (0 <= l) = TRUE
      BY <1>3, <2>2
    <2> QED BY <2>3
  <1>5. ASSUME NEW d \in Nat, d < c PROVE strncpy_copy(After(d)) = After(d + 1)
    <2> DEFINE p == After(d)
               b == h + 1 + d
    <2>1. d < h /\ h + d < M /\ t + d = b /\ n - d # 0 /\ 1 + d + 1 = 1 + (d + 1) /\ d <= l
          /\ t + d + 1 = t + (d + 1) /\ n - d - 1 = n - (d + 1)
      BY <1>2, <1>3, <1>5
    <2>2. Pasted(m, h, d)[b] = m[b] /\ [Pasted(m, h, d) EXCEPT ![1 + d] = m[b]] = Pasted(m, h, d + 1)
      <3>1. BytePasted(m, h, d)
        BY <2>1, CopyByte
      <3> QED BY <3>1 DEF BytePasted
    <2>3. (m[b] # 0) = (d + 1 <= l)
      <3>1. CASE d = l
        <4>1. b = e /\ ~(d + 1 <= l)
          BY <1>3, <2>1, <3>1
        <4> QED BY <1>2, <4>1
      <3>2. CASE d # l
        <4>1. b \in t .. e - 1 /\ d + 1 <= l
          BY <1>2, <1>3, <2>1, <3>2
        <4> QED BY <1>2, <4>1
      <3> QED BY <3>1, <3>2
    <2> HIDE DEF b, t
    <2>4. p.m = Pasted(m, h, d) /\ p.s1 = 1 + d /\ p.s2 = b /\ p.ns = n - d /\ p.more
      BY <2>1
    <2> HIDE DEF p
    <2>5. strncpy_copy(p) = [m |-> [p.m EXCEPT ![p.s1] = p.m[p.s2]], s1 |-> p.s1 + 1, s2 |-> p.s2 + 1,
                             ns |-> p.ns - 1, more |-> p.m[p.s2] # 0]
      BY <2>1, <2>4 DEF strncpy_copy
    <2>6. p.s1 + 1 = 1 + (d + 1) /\ p.s2 + 1 = t + (d + 1) /\ p.ns - 1 = n - (d + 1)
          /\ [p.m EXCEPT ![p.s1] = p.m[p.s2]] = Pasted(m, h, d + 1) /\ p.m[p.s2] = m[b]
      BY <2>1, <2>2, <2>4
    <2>7. (p.m[p.s2] # 0) = (d + 1 <= l)
      BY <2>3, <2>6
    <2>8. strncpy_copy(p) = [m |-> Pasted(m, h, d + 1), s1 |-> 1 + (d + 1), s2 |-> t + (d + 1),
                             ns |-> n - (d + 1), more |-> d + 1 <= l]
      BY <2>5, <2>6, <2>7, Zenon
    <2> QED BY <2>8 DEF p
  <1>6. Pasted(m, h, c) = Padded(0)
    <2>1. Pasted(m, h, c) = [i \in 1 .. M |-> IF i <= c THEN m[h + i] ELSE m[i]]
      BY DEF Pasted
    <2>2. \A i \in 1 .. M : i <= c + 0 <=> i <= c
      BY <1>3
    <2>3. ASSUME NEW i \in 1 .. M
          PROVE  (IF i <= c THEN m[h + i] ELSE m[i]) = IF i <= c THEN m[h + i] ELSE IF i <= c + 0 THEN 0 ELSE m[i]
      BY <2>2
    <2> QED BY <2>1, <2>3, Zenon
  <1> HIDE DEF Padded
  <1>7. strncpy_copy(After(c)) = Pads(0)
    <2> DEFINE p == After(c)
    <2>1. p.m = Padded(0) /\ p.s1 = 1 + c /\ p.s2 = t + c /\ p.ns = n - c /\ p.more = (c <= l)
          /\ p = [m |-> Padded(0), s1 |-> 1 + c, s2 |-> t + c, ns |-> n - c, more |-> c <= l]
      BY <1>6
    <2>2. 1 + c + 0 = 1 + c /\ ns - 0 = ns
      BY <1>3
    <2> HIDE DEF p
    <2>3. CASE l < n
      <3>1. (c <= l) = FALSE /\ n - c = ns
        BY <1>3, <2>3
      <3>2. strncpy_copy(p) = p
        BY <2>1, <3>1 DEF strncpy_copy
      <3> QED BY <2>1, <2>2, <3>1, <3>2 DEF p
    <2>4. CASE ~(l < n)
      <3>1. (c <= l) = TRUE /\ n - c = 0 /\ ns = -1
        BY <1>3, <2>4
      <3>2. strncpy_copy(p) = [m |-> p.m, s1 |-> p.s1, s2 |-> p.s2, ns |-> -1, more |-> FALSE]
        BY <2>1, <3>1 DEF strncpy_copy
      <3>3. [m |-> p.m, s1 |-> p.s1, s2 |-> p.s2, ns |-> -1, more |-> FALSE] = Pads(0)
        BY <2>1, <2>2, <3>1
      <3> QED BY <3>2, <3>3 DEF p
    <2> QED BY <2>3, <2>4
  <1>8. strncpy_copy(Pads(0)) = Pads(0)
    <2> DEFINE p == Pads(0)
    <2>1. p.more = FALSE
      OBVIOUS
    <2> HIDE DEF p
    <2>2. strncpy_copy(p) = p
      BY <2>1 DEF strncpy_copy
    <2> QED BY <2>2 DEF p
  <1>9. ASSUME NEW d \in Nat, d < r PROVE strncpy_pad(Pads(d)) = Pads(d + 1)
    <2> DEFINE p == Pads(d)
               a == 1 + c + d
               x == Padded(d)
    <2>1. ns - d > 0 /\ a \in 1 .. M /\ a + 1 = 1 + c + (d + 1) /\ ns - d - 1 = ns - (d + 1) /\ a = c + d + 1
      BY <1>3, <1>9
    <2>2. p = [m |-> x, s1 |-> a, s2 |-> t + c, ns |-> ns - d, more |-> FALSE]
      OBVIOUS
    <2>3. [x EXCEPT ![a] = 0] = Padded(d + 1)
      <3>1. [x EXCEPT ![a] = 0] = [i \in 1 .. M |-> IF i = a THEN 0 ELSE x[i]]
        BY <2>1 DEF Padded
      <3>2. ASSUME NEW i \in 1 .. M
            PROVE  (IF i = a THEN 0 ELSE x[i])
                       = IF i <= c THEN m[h + i] ELSE IF i <= c + (d + 1) THEN 0 ELSE m[i]
        <4>1. x[i] = IF i <= c THEN m[h + i] ELSE IF i <= c + d THEN 0 ELSE m[i]
          BY DEF Padded
        <4>2. (i = a => ~(i <= c) /\ i <= c + (d + 1)) /\ (i # a => (i <= c + (d + 1) <=> i <= c + d))
          BY <1>3, <2>1
        <4> HIDE DEF x, a
        <4> QED BY <4>1, <4>2
      <3> QED BY <3>1, <3>2, Zenon DEF Padded
    <2> HIDE DEF a, x, p
    <2>4. strncpy_pad(p) = [m |-> [p.m EXCEPT ![p.s1] = 0], s1 |-> p.s1 + 1, s2 |-> p.s2, ns |-> p.ns - 1,
                            more |-> p.more]
      BY <2>1, <2>2 DEF strncpy_pad
    <2>5. p.m = x /\ p.s1 = a /\ p.s2 = t + c /\ p.ns = ns - d /\ p.more = FALSE
      BY <2>2
    <2> QED BY <2>1, <2>3, <2>4, <2>5 DEF p
  <1>10. strncpy_pad(Pads(r)) = Pads(r)
    <2> DEFINE p == Pads(r)
    <2>1. ~(p.ns > 0)
      BY <1>3
    <2> HIDE DEF p
    <2>2. strncpy_pad(p) = p
      BY <2>1 DEF strncpy_pad
    <2> QED BY <2>2 DEF p
  <1> HIDE DEF After, Pads, first
  <1>11. copy[n + 1] = Pads(0)
    <2>1. ASSUME NEW k \in 0 .. n + 1
          PROVE  g1[k] = IF k = 0 THEN first ELSE strncpy_copy(g1[k - 1])
      <3>1. CASE k = 0
        BY <1>3, <1>4, <3>1
      <3>2. CASE k # 0 /\ k <= c
        <4> DEFINE d == k - 1
        <4>1. d \in Nat /\ d < c /\ k = d + 1 /\ d <= c /\ d \in 0 .. n + 1
          BY <1>3, <3>2
        <4>2. g1[k] = After(d + 1) /\ g1[k - 1] = After(d)
          BY <3>2, <4>1
        <4> HIDE DEF d, g1
        <4>3. strncpy_copy(After(d)) = After(d + 1)
          BY <1>5, <4>1
        <4> QED BY <3>2, <4>2, <4>3
      <3>3. CASE k > c
        <4>1. k - 1 \in 0 .. n + 1 /\ ~(k <= c) /\ (k - 1 <= c => k - 1 = c) /\ k # 0
          BY <1>3, <3>3
        <4>2. g1[k] = Pads(0) /\ g1[k - 1] = IF k - 1 <= c THEN After(c) ELSE Pads(0)
          BY <4>1
        <4> QED BY <1>7, <1>8, <4>1, <4>2
      <3> QED BY <1>3, <3>1, <3>2, <3>3
    <2>2. g1 = Step1(g1)
      BY <2>1, Zenon
    <2>3. copy = Step1(copy)
      BY <2>2, Zenon
    <2> HIDE DEF copy
    <2>4. \A k \in 0 .. n + 1 : copy[k] = IF k = 0 THEN first ELSE strncpy_copy(copy[k - 1])
      BY <2>3, Zenon
    <2> DEFINE P == { k \in 0 .. n + 1 : copy[k] = g1[k] }
    <2>5. n + 1 \in P
      <3>1. 0 \in P
        <4>1. 0 \in 0 .. n + 1
          OBVIOUS
        <4> HIDE DEF g1
        <4> QED BY <2>1, <2>4, <4>1
      <3>2. ASSUME NEW k \in 0 .. (n + 1) - 1, k \in P PROVE k + 1 \in P
        <4>1. k + 1 \in 0 .. n + 1 /\ (k + 1) - 1 = k /\ k + 1 # 0
          OBVIOUS
        <4> HIDE DEF g1
        <4>2. copy[k + 1] = strncpy_copy(copy[k]) /\ g1[k + 1] = strncpy_copy(g1[k])
          BY <2>1, <2>4, <4>1
        <4> QED BY <3>2, <4>1, <4>2
      <3>3. n + 1 \in 0 .. n + 1 /\ 0 \in Int /\ n + 1 \in Int
        OBVIOUS
      <3> HIDE DEF P
      <3> QED BY <3>1, <3>2, <3>3, UpTo
    <2>6. g1[n + 1] = Pads(0)
      BY <1>3
    <2> QED BY <2>5, <2>6
  <1> HIDE DEF copy
  <1>12. pad[n] = Pads(r)
    <2>1. ASSUME NEW k \in 0 .. n
          PROVE  g2[k] = IF k = 0 THEN copy[n + 1] ELSE strncpy_pad(g2[k - 1])
      <3>1. CASE k = 0
        <4>1. Least2(k, r) = 0
          BY <1>3, <3>1 DEF Least2
        <4> QED BY <1>11, <3>1, <4>1
      <3>2. CASE k # 0 /\ k <= r
        <4> DEFINE d == k - 1
        <4>1. d \in Nat /\ d < r /\ Least2(k, r) = d + 1 /\ Least2(k - 1, r) = d /\ k - 1 \in 0 .. n
          BY <1>3, <3>2 DEF Least2
        <4>2. g2[k] = Pads(d + 1) /\ g2[k - 1] = Pads(d)
          BY <4>1
        <4> HIDE DEF d, g2
        <4>3. strncpy_pad(Pads(d)) = Pads(d + 1)
          BY <1>9, <4>1
        <4> QED BY <3>2, <4>2, <4>3
      <3>3. CASE k > r
        <4>1. Least2(k, r) = r /\ Least2(k - 1, r) = r /\ k - 1 \in 0 .. n /\ k # 0
          BY <1>3, <3>3 DEF Least2
        <4>2. g2[k] = Pads(r) /\ g2[k - 1] = Pads(r)
          BY <4>1
        <4> QED BY <1>10, <4>1, <4>2
      <3> QED BY <1>3, <3>1, <3>2, <3>3
    <2>2. g2 = Step2(g2)
      BY <2>1, Zenon
    <2>3. pad = Step2(pad)
      BY <2>2, Zenon
    <2> HIDE DEF pad
    <2>4. \A k \in 0 .. n : pad[k] = IF k = 0 THEN copy[n + 1] ELSE strncpy_pad(pad[k - 1])
      BY <2>3, Zenon
    <2> DEFINE P == { k \in 0 .. n : pad[k] = g2[k] }
    <2>5. n \in P
      <3>1. 0 \in P
        <4>1. 0 \in 0 .. n
          OBVIOUS
        <4> HIDE DEF g2
        <4> QED BY <2>1, <2>4, <4>1
      <3>2. ASSUME NEW k \in 0 .. n - 1, k \in P PROVE k + 1 \in P
        <4>1. k + 1 \in 0 .. n /\ (k + 1) - 1 = k /\ k + 1 # 0
          OBVIOUS
        <4> HIDE DEF g2
        <4>2. pad[k + 1] = strncpy_pad(pad[k]) /\ g2[k + 1] = strncpy_pad(g2[k])
          BY <2>1, <2>4, <4>1
        <4> QED BY <3>2, <4>1, <4>2
      <3>3. n \in 0 .. n /\ 0 \in Int /\ n \in Int
        OBVIOUS
      <3> HIDE DEF P
      <3> QED BY <3>1, <3>2, <3>3, UpTo
    <2>6. g2[n] = Pads(r)
      <3>1. Least2(n, r) = r /\ n \in 0 .. n
        BY <1>3 DEF Least2
      <3> QED BY <3>1
    <2> QED BY <2>5, <2>6
  <1>13. strncpy(m, 1, t, n) = Padded(r)
    BY <1>1, <1>12 DEF Pads
  <1> DEFINE chars == Least2(l, n)
  <1>14. ASSUME NEW i \in 1 .. M
         PROVE  (IF i <= c THEN m[h + i] ELSE IF i <= c + r THEN 0 ELSE m[i])
                    = IF i > n THEN m[i] ELSE IF i <= chars THEN m[h + i] ELSE 0
    <2>1. CASE l < n
      <3>1. chars = l /\ c = l + 1
        BY <1>3, <2>1 DEF Least2
      <3>2. CASE i = l + 1
        <4>1. h + i = e /\ i <= c /\ ~(i > n) /\ ~(i <= l)
          BY <1>3, <2>1, <3>1, <3>2
        <4> QED BY <1>2, <3>1, <4>1
      <3>3. CASE i # l + 1
        <4>1. (i <= c <=> i <= l) /\ (i <= l => ~(i > n)) /\ (i <= c + r <=> ~(i > n))
          BY <1>3, <2>1, <3>1, <3>3
        <4> QED BY <3>1, <4>1
      <3> QED BY <3>2, <3>3
    <2>2. CASE ~(l < n)
      <3>1. chars = n /\ c = n /\ c + r = n
        BY <1>3, <2>2 DEF Least2
      <3>2. i <= n <=> ~(i > n)
        OBVIOUS
      <3> QED BY <3>1, <3>2
    <2> QED BY <2>1, <2>2
  <1>15. Padded(r) = [i \in 1 .. M |-> IF i > n THEN m[i] ELSE IF i <= chars THEN m[h + i] ELSE 0]
    BY <1>14, Zenon DEF Padded
  <1>16. IsCopied(strncpy(m, 1, t, n), M, m, h, n, chars)
    BY <1>13, <1>15, Zenon DEF IsCopied
  <1> QED BY <1>16, Zenon DEF chars, l, e, t

----------------------------------------------------------------------------
(* Strings: strstr.                                                        *)

\* The string at t stands at r.
StandsAt(m, r, t) == \A j \in 0 .. EndOf(m, t) - t - 1 : m[r + j] = m[t + j]

\* The inner loop of strstr compares.
LEMMA Matches ==
    ASSUME NEW M \in Nat, NEW C, NEW m \in [1 .. M -> C], m[M] = 0, NEW t \in 1 .. M, NEW r \in Int
    PROVE  matches(m, r, t) <=> StandsAt(m, r, t)
  <1> DEFINE e == EndOf(m, t)
             len == e - t
             ends(i) == m[t + i] = 0 \/ m[r + i] # m[t + i]
             Stop(i) == ends(i) /\ \A j \in 0 .. i - 1 : ~ends(j)
             k == CHOOSE i \in 0 .. len : Stop(i)
             S == { i \in 0 .. len : ends(i) }
  <1>1. e \in t .. M /\ m[e] = 0 /\ \A j \in t .. e - 1 : m[j] # 0
    BY EndOfIs
  <1>2. matches(m, r, t) <=> m[t + k] = 0
    BY DEF matches
  <1> HIDE DEF e
  <1>3. len \in Nat /\ t + len = e /\ \A i \in 0 .. len - 1 : t + i \in t .. e - 1
    BY <1>1
  <1> HIDE DEF len
  <1>4. \A i \in 0 .. len - 1 : m[t + i] # 0
    BY <1>1, <1>3
  <1>5. PICK i \in 0 .. len : i \in S /\ \A j \in 0 .. i - 1 : j \notin S
    <2>1. len \in S
      BY <1>1, <1>3
    <2> DEFINE z == 0
    <2>2. z \in Int /\ len \in Int /\ z <= len /\ 0 <= z
      BY <1>3
    <2> HIDE DEF S, z
    <2>3. \E i \in z .. len : i \in S /\ \A j \in z .. i - 1 : j \notin S
      BY <2>1, <2>2, FirstIndex
    <2> QED BY <2>3 DEF z
  <1>6. Stop(i)
    <2>1. \A j \in 0 .. i - 1 : j \in 0 .. len
      BY <1>3
    <2> QED BY <1>5, <2>1
  <1>7. k \in 0 .. len /\ Stop(k)
    <2> HIDE DEF Stop
    <2> QED BY <1>6, Zenon
  <1> HIDE DEF k
  <1>8. ASSUME m[t + k] = 0 PROVE StandsAt(m, r, t)
    <2>1. k = len
      BY <1>3, <1>4, <1>7, <1>8
    <2>2. \A j \in 0 .. len - 1 : m[r + j] = m[t + j]
      BY <1>7, <2>1
    <2> QED BY <2>2 DEF StandsAt, len, e
  <1>9. ASSUME StandsAt(m, r, t) PROVE m[t + k] = 0
    <2>1. \A j \in 0 .. len - 1 : m[r + j] = m[t + j]
      BY <1>9 DEF StandsAt, len, e
    <2>2. \A j \in 0 .. len - 1 : ~ends(j)
      BY <1>4, <2>1
    <2>3. k \notin 0 .. len - 1
      BY <1>7, <2>2
    <2>4. k = len
      BY <1>3, <1>7, <2>3
    <2> QED BY <1>1, <1>3, <2>4
  <1> QED BY <1>2, <1>8, <1>9

\* strstr returns the first place where the string at t stands, or null.
LEMMA StrStr ==
    ASSUME NEW M \in Nat, NEW C, NEW m \in [1 .. M -> C], m[M] = 0, NEW t \in 1 .. M
    PROVE  LET e == EndOf(m, 1)
               len == EndOf(m, t) - t
               hits == { i \in 1 .. e : i + len <= e /\ \A j \in 0 .. len - 1 : m[i + j] = m[t + j] }
           IN  IF hits = {} THEN strstr(m, 1, t) = 0
               ELSE strstr(m, 1, t) \in hits /\ \A i \in hits : strstr(m, 1, t) <= i
  <1> DEFINE u == 1
             e == EndOf(m, u)
             f == EndOf(m, t)
             len == f - t
             hits == { i \in 1 .. e : i + len <= e /\ \A j \in 0 .. len - 1 : m[i + j] = m[t + j] }
             found == { r \in u .. e : matches(m, r, t) }
             first == CHOOSE r \in found : \A x \in found : r <= x
  <1>1. strstr(m, 1, t) = IF found = {} THEN 0 ELSE first
    BY DEF strstr
  <1>2. f \in t .. M /\ m[f] = 0 /\ \A j \in t .. f - 1 : m[j] # 0
    BY EndOfIs
  <1>3. e \in 1 .. M /\ m[e] = 0
    <2>1. u \in 1 .. M
      OBVIOUS
    <2>2. e \in u .. M /\ m[e] = 0
      <3> HIDE DEF u
      <3> QED BY <2>1, EndOfIs
    <2> QED BY <2>2
  <1> HIDE DEF e, f
  <1>4. len \in Nat /\ \A j \in 0 .. len - 1 : t + j \in t .. f - 1
    BY <1>2
  <1>5. ASSUME NEW r \in 1 .. e
        PROVE  matches(m, r, t) <=> r + len <= e /\ \A j \in 0 .. len - 1 : m[r + j] = m[t + j]
    <2>1. r \in Int
      BY <1>3
    <2>2. matches(m, r, t) <=> \A j \in 0 .. len - 1 : m[r + j] = m[t + j]
      <3>1. matches(m, r, t) <=> StandsAt(m, r, t)
        BY <2>1, Matches
      <3> QED BY <3>1 DEF StandsAt, f
    <2>3. ASSUME \A j \in 0 .. len - 1 : m[r + j] = m[t + j] PROVE r + len <= e
      <3> SUFFICES ASSUME ~(r + len <= e) PROVE FALSE
        OBVIOUS
      <3> DEFINE j == e - r
      <3>1. j \in 0 .. len - 1 /\ r + j = e
        BY <1>3, <1>4
      <3>2. m[t + j] = 0 /\ t + j \in t .. f - 1
        BY <1>3, <1>4, <2>3, <3>1
      <3> QED BY <1>2, <3>2
    <2> QED BY <2>2, <2>3
  <1>6. found = hits
    BY <1>5
  <1>7. ASSUME found # {} PROVE first \in found /\ \A x \in found : first <= x
    <2>1. found \subseteq Nat
      BY <1>3
    <2> HIDE DEF found
    <2>2. \E r \in found : \A x \in found : r <= x
      BY <1>7, <2>1, Least
    <2> QED BY <2>2, Zenon
  <1> HIDE DEF found, hits, first
  <1>8. IF hits = {} THEN strstr(m, 1, t) = 0
        ELSE strstr(m, 1, t) \in hits /\ \A i \in hits : strstr(m, 1, t) <= i
    BY <1>1, <1>6, <1>7
  <1> QED BY <1>8 DEF hits, e, f

----------------------------------------------------------------------------
(* Strings: strtok.                                                        *)

\* strspn stops at the first character that is not in S, at the zero if there
\* is no other.
LEMMA StrSpn ==
    ASSUME NEW M \in Nat, NEW C, NEW c \in [1 .. M -> C], c[M] = 0, NEW s \in 1 .. M, NEW S, 0 \notin S
    PROVE  LET a == s + strspn(c, s, S)
           IN  a \in s .. EndOf(c, s) /\ c[a] \notin S /\ \A j \in s .. a - 1 : c[j] \in S
  <1> DEFINE e == EndOf(c, s)
             Stop(i) == c[i] \notin S /\ \A j \in s .. i - 1 : c[j] \in S
             T == { i \in s .. e : c[i] \notin S }
             x == CHOOSE i \in s .. e : Stop(i)
  <1>1. e \in s .. M /\ c[e] = 0
    BY EndOfIs
  <1>2. strspn(c, s, S) = x - s
    BY DEF strspn
  <1> HIDE DEF e
  <1>3. PICK i \in s .. e : i \in T /\ \A j \in s .. i - 1 : j \notin T
    <2>1. e \in T /\ s \in Int /\ e \in Int /\ s <= e /\ 0 <= s
      BY <1>1
    <2> HIDE DEF T
    <2> QED BY <2>1, FirstIndex
  <1>4. Stop(i)
    <2>1. \A j \in s .. i - 1 : j \in s .. e
      BY <1>1
    <2> QED BY <1>3, <2>1
  <1>5. x \in s .. e /\ Stop(x)
    <2> HIDE DEF Stop
    <2> QED BY <1>4, Zenon
  <1> HIDE DEF x
  <1>6. s + (x - s) = x
    BY <1>1, <1>5
  <1> QED BY <1>2, <1>5, <1>6 DEF e

\* strcspn stops at the first character in S, or at the zero.
LEMMA StrCSpn ==
    ASSUME NEW M \in Nat, NEW C, NEW c \in [1 .. M -> C], c[M] = 0, NEW s \in 1 .. M, NEW S
    PROVE  LET b == s + strcspn(c, s, S)
           IN  /\ b \in s .. EndOf(c, s) /\ c[b] \in S \cup {0}
               /\ \A j \in s .. b - 1 : c[j] \notin S \cup {0}
  <1> DEFINE e == EndOf(c, s)
             Stop(i) == c[i] \in S \cup {0} /\ \A j \in s .. i - 1 : c[j] \notin S \cup {0}
             T == { i \in s .. e : c[i] \in S \cup {0} }
             x == CHOOSE i \in s .. e : Stop(i)
  <1>1. e \in s .. M /\ c[e] = 0
    BY EndOfIs
  <1>2. strcspn(c, s, S) = x - s
    BY DEF strcspn
  <1> HIDE DEF e
  <1>3. PICK i \in s .. e : i \in T /\ \A j \in s .. i - 1 : j \notin T
    <2>1. e \in T /\ s \in Int /\ e \in Int /\ s <= e /\ 0 <= s
      BY <1>1
    <2> HIDE DEF T
    <2> QED BY <2>1, FirstIndex
  <1>4. Stop(i)
    <2>1. \A j \in s .. i - 1 : j \in s .. e
      BY <1>1
    <2> QED BY <1>3, <2>1
  <1>5. x \in s .. e /\ Stop(x)
    <2> HIDE DEF Stop
    <2> QED BY <1>4, Zenon
  <1> HIDE DEF x
  <1>6. s + (x - s) = x
    BY <1>1, <1>5
  <1> QED BY <1>2, <1>5, <1>6 DEF e

\* A string ends nowhere else.
LEMMA EndOfUnique ==
    ASSUME NEW M \in Nat, NEW C, NEW m \in [1 .. M -> C], NEW s \in 1 .. M, NEW e, Ends(m, s, e, M)
    PROVE  EndOf(m, s) = e
  <1> DEFINE E(i) == i >= s /\ m[i] = 0 /\ \A j \in s .. i - 1 : m[j] # 0
             d == EndOf(m, s)
  <1>1. e \in s .. M /\ e \in DOMAIN m /\ E(e)
    BY DEF Ends
  <1>2. d = CHOOSE k \in DOMAIN m : E(k)
    BY DEF EndOf
  <1>3. d \in DOMAIN m /\ E(d)
    <2> HIDE DEF E, d
    <2> QED BY <1>1, <1>2, Zenon
  <1> HIDE DEF d
  <1>4. d \notin s .. e - 1 /\ e \notin s .. d - 1
    BY <1>1, <1>3
  <1>5. d = e
    BY <1>1, <1>3, <1>4
  <1> QED BY <1>5 DEF d

\* The memory c is the string m from lo on, where a call of strtok starts.
Ahead(m, M, c, lo) == lo \in 1 .. EndOf(m, 1) /\ \A i \in lo .. M : c[i] = m[i]

\* What a search from lo on finds with the separators S: nothing, or a token.
NoToken(m, S, lo) == \A i \in lo .. EndOf(m, 1) - 1 : m[i] \in S

IsToken(m, S, lo, a, b) ==
    /\ lo <= a /\ a < b /\ b <= EndOf(m, 1)
    /\ \A i \in lo .. a - 1 : m[i] \in S
    /\ \A i \in a .. b - 1 : m[i] \notin S
    /\ b = EndOf(m, 1) \/ m[b] \in S

\* Where the token of a call ends that left r.
Until(m, r) == IF r.last = 0 THEN EndOf(m, 1) ELSE r.last - 1

\* What a call from lo on leaves of the memory c: nothing changes before lo, the
\* token is a string, and the next call has the rest of m ahead of it.
Found(m, S, M, lo, c, r) ==
    /\ r.ret = 0 => r.last = 0 /\ NoToken(m, S, lo)
    /\ r.ret # 0 => IsToken(m, S, lo, r.ret, Until(m, r)) /\ Ends(r.m, r.ret, Until(m, r), M)
    /\ \A i \in 1 .. M : i < lo => r.m[i] = c[i]
    /\ r.last # 0 => Ahead(m, M, r.m, r.last) /\ r.last > lo

\* Where a call starts: a null s1 continues at `last'.
StartsAt(s1, last) == IF s1 # 0 THEN s1 ELSE last

\* One call of strtok.
LEMMA StrTok ==
    ASSUME NEW M \in Nat \ {0}, NEW C, NEW m \in [1 .. M -> C], m[M] = 0, NEW S, 0 \notin S,
           NEW c \in [1 .. M -> C], NEW lo, Ahead(m, M, c, lo),
           NEW s1, NEW last, lo = StartsAt(s1, last)
    PROVE  LET r == strtok(c, s1, S, last)
           IN  /\ r \in [m : [1 .. M -> C], ret : 0 .. M, last : 0 .. M]
               /\ Found(m, S, M, lo, c, r)
  <1> DEFINE u == 1
             e == EndOf(m, u)
             a == lo + strspn(c, lo, S)
             b == a + strcspn(c, a, S)
             r == strtok(c, s1, S, last)
  <1>1. e \in 1 .. M /\ m[e] = 0 /\ \A j \in 1 .. e - 1 : m[j] # 0
    <2>1. u \in 1 .. M
      OBVIOUS
    <2>2. e \in u .. M /\ m[e] = 0 /\ \A j \in u .. e - 1 : m[j] # 0
      <3> HIDE DEF u
      <3> QED BY <2>1, EndOfIs
    <2> QED BY <2>2
  <1>2. lo \in 1 .. e /\ (\A i \in lo .. M : c[i] = m[i])
    BY DEF Ahead
  <1>3. r = IF c[a] = 0 THEN [m |-> c, ret |-> 0, last |-> 0]
            ELSE IF c[b] = 0 THEN [m |-> c, ret |-> a, last |-> 0]
            ELSE [m |-> [c EXCEPT ![b] = 0], ret |-> a, last |-> b + 1]
    <2>1. lo # 0
      BY <1>1, <1>2
    <2> QED BY <2>1 DEF strtok, StartsAt
  <1>4. e = EndOf(m, 1)
    OBVIOUS
  <1> HIDE DEF e, r
  <1>5. lo \in 1 .. M /\ c[M] = 0
    BY <1>1, <1>2
  <1>6. a \in lo .. M /\ a \in 1 .. M /\ c[a] \notin S /\ \A j \in lo .. a - 1 : c[j] \in S
    <2>1. a \in lo .. EndOf(c, lo) /\ c[a] \notin S /\ \A j \in lo .. a - 1 : c[j] \in S
      BY <1>5, StrSpn
    <2>2. EndOf(c, lo) \in lo .. M
      BY <1>5, EndOfIs
    <2> HIDE DEF a
    <2> QED BY <1>5, <2>1, <2>2
  <1> HIDE DEF a
  <1>7. b \in a .. M /\ c[b] \in S \cup {0} /\ \A j \in a .. b - 1 : c[j] \notin S \cup {0}
    <2>1. b \in a .. EndOf(c, a) /\ c[b] \in S \cup {0} /\ \A j \in a .. b - 1 : c[j] \notin S \cup {0}
      BY <1>5, <1>6, StrCSpn
    <2>2. EndOf(c, a) \in a .. M
      BY <1>5, <1>6, EndOfIs
    <2> HIDE DEF b
    <2> QED BY <1>6, <2>1, <2>2
  <1> HIDE DEF b
  <1>8. /\ \A j \in lo .. a - 1 : m[j] \in S
        /\ \A j \in a .. b - 1 : m[j] \notin S \cup {0}
        /\ m[a] = c[a] /\ m[b] = c[b] /\ m[e] = c[e]
    <2>1. (\A j \in lo .. a - 1 : j \in lo .. M) /\ (\A j \in a .. b - 1 : j \in lo .. M)
          /\ b \in lo .. M /\ e \in lo .. M
      BY <1>1, <1>2, <1>5, <1>6, <1>7
    <2> QED BY <1>2, <1>6, <1>7, <2>1
  <1>9. a <= e
    <2> SUFFICES ASSUME ~(a <= e) PROVE FALSE
      BY <1>1, <1>6
    <2>1. e \in lo .. a - 1
      BY <1>1, <1>2, <1>6
    <2> QED BY <1>1, <1>8, <2>1
  <1>10. b <= e
    <2> SUFFICES ASSUME ~(b <= e) PROVE FALSE
      BY <1>1, <1>7
    <2>1. e \in a .. b - 1
      BY <1>1, <1>6, <1>7, <1>9
    <2> QED BY <1>1, <1>8, <2>1
  <1>11. /\ c[a] = 0 => a = e
         /\ c[b] = 0 => b = e
         /\ b = e => c[b] = 0
    <2>1. (a # e => a \in 1 .. e - 1) /\ (b # e => b \in 1 .. e - 1)
      BY <1>1, <1>6, <1>7, <1>9, <1>10
    <2> QED BY <1>1, <1>8, <2>1
  <1>12. a \in Int /\ b \in Int /\ e \in Int /\ lo \in Int /\ M \in Int /\ 0 \in 0 .. M /\ a \in 0 .. M /\ a # 0
         /\ 1 <= lo /\ lo <= a /\ a <= b
    BY <1>1, <1>2, <1>6, <1>7
  <1>14. CASE c[a] = 0
    <2>1. r = [m |-> c, ret |-> 0, last |-> 0]
      BY <1>3, <1>14
    <2>2. r.m = c /\ r.ret = 0 /\ r.last = 0 /\ r \in [m : [1 .. M -> C], ret : 0 .. M, last : 0 .. M]
      BY <1>12, <2>1
    <2>3. NoToken(m, S, lo)
      BY <1>4, <1>8, <1>11, <1>14 DEF NoToken
    <2>4. Found(m, S, M, lo, c, r)
      BY <2>2, <2>3 DEF Found
    <2> QED BY <2>2, <2>4 DEF r
  <1>15. CASE c[a] # 0
    <2>1. a < b
      <3>1. a # b
        BY <1>6, <1>7, <1>15
      <3> QED BY <1>12, <3>1
    <2>2. IsToken(m, S, lo, a, b)
      <3>1. b = e \/ m[b] \in S
        BY <1>7, <1>8, <1>11
      <3>2. \A k \in a .. b - 1 : m[k] \notin S
        BY <1>8
      <3> QED BY <1>4, <1>8, <1>10, <1>12, <2>1, <3>1, <3>2 DEF IsToken
    <2>4. CASE c[b] = 0
      <3>1. r.m = c /\ r.ret = a /\ r.last = 0 /\ r \in [m : [1 .. M -> C], ret : 0 .. M, last : 0 .. M]
        BY <1>3, <1>12, <1>15, <2>4
      <3>2. Until(m, r) = b
        BY <1>4, <1>11, <2>4, <3>1 DEF Until
      <3>3. Ends(c, a, b, M)
        BY <1>7, <2>4 DEF Ends
      <3>4. Found(m, S, M, lo, c, r)
        BY <1>12, <2>2, <3>1, <3>2, <3>3 DEF Found
      <3> QED BY <3>1, <3>4 DEF r
    <2>5. CASE c[b] # 0
      <3> DEFINE n == [c EXCEPT ![b] = 0]
      <3>1. 0 \in C /\ b \in 1 .. M
        BY <1>1, <1>7, <1>12
      <3>2. n \in [1 .. M -> C] /\ n[b] = 0 /\ \A j \in 1 .. M : j # b => n[j] = c[j]
        BY <3>1
      <3> HIDE DEF n
      <3>4. b < e /\ b # e
        BY <1>10, <1>11, <1>12, <2>5
      <3>5. r = [m |-> n, ret |-> a, last |-> b + 1]
        BY <1>3, <1>15, <2>5 DEF n
      <3>6. r.m = n /\ r.ret = a /\ r.last = b + 1 /\ b + 1 # 0 /\ b + 1 \in 0 .. M
            /\ r \in [m : [1 .. M -> C], ret : 0 .. M, last : 0 .. M]
        BY <1>1, <1>12, <3>2, <3>4, <3>5
      <3>7. Until(m, r) = b
        BY <1>12, <3>6 DEF Until
      <3>8. Ahead(m, M, n, b + 1)
        <4>1. b + 1 \in 1 .. e /\ \A i \in b + 1 .. M : i \in lo .. M /\ i \in 1 .. M /\ i # b
          BY <1>12, <3>4
        <4>2. \A i \in b + 1 .. M : n[i] = m[i]
          BY <1>2, <3>2, <4>1
        <4> QED BY <1>4, <4>1, <4>2 DEF Ahead
      <3>9. Ends(n, a, b, M)
        <4>1. \A j \in a .. b - 1 : n[j] # 0
          <5>1. \A j \in a .. b - 1 : j \in 1 .. M /\ j # b
            BY <1>12, <3>1
          <5> QED BY <1>7, <3>2, <5>1
        <4> QED BY <1>7, <3>2, <4>1 DEF Ends
      <3>10. (\A i \in 1 .. M : i < lo => n[i] = c[i]) /\ b + 1 > lo /\ a # 0
        BY <1>12, <3>2
      <3>11. Found(m, S, M, lo, c, r)
        BY <2>2, <3>6, <3>7, <3>8, <3>9, <3>10 DEF Found
      <3> QED BY <3>6, <3>11 DEF r
    <2> QED BY <2>4, <2>5
  <1> QED BY <1>14, <1>15

\* The calls of strtok that follow each other, each with separators of its own,
\* return the tokens of the string as it was before the first.
LEMMA Tokens ==
    ASSUME NEW M \in Nat \ {0}, NEW C, NEW m \in [1 .. M -> C], m[M] = 0, NEW N \in Nat \ {0}, NEW D,
           NEW seps \in [1 .. N -> D], \A k \in 1 .. N : 0 \notin seps[k]
    PROVE  IsTokenized(m, seps, tokens(m, 1, seps))
  <1> DEFINE Rec == [m : [1 .. M -> C], ret : 0 .. M, last : 0 .. M]
             St == { r \in Rec : r.last # 0 => Ahead(m, M, r.m, r.last) }
             After(k, r) == strtok(r.m, 0, seps[k], r.last)
             first == strtok(m, 1, seps[1], 0)
             Step(f) == [k \in 1 .. N |-> IF k = 1 THEN first ELSE After(k, f[k - 1])]
             call == CHOOSE f : f = Step(f)
             end(a) == IF a = 0 THEN 0 ELSE EndOf(call[N].m, a)
             ts == [k \in 1 .. N |-> [from |-> call[k].ret, to |-> end(call[k].ret)]]
             e == EndOf(m, 1)
  <1>1. tokens(m, 1, seps) = ts
    <2>1. Len(seps) = N
      OBVIOUS
    <2> DEFINE T(x) ==
                 LET c[k \in 1 .. x] ==
                         IF k = 1 THEN strtok(m, 1, seps[1], 0)
                         ELSE LET d == c[k - 1] IN strtok(d.m, 0, seps[k], d.last)
                     stop(a) == IF a = 0 THEN 0 ELSE EndOf(c[x].m, a)
                 IN  [k \in 1 .. x |-> [from |-> c[k].ret, to |-> stop(c[k].ret)]]
    <2>2. tokens(m, 1, seps) = T(Len(seps))
      BY Zenon DEF tokens
    <2>3. T(N) = ts
      BY Zenon
    <2> HIDE DEF T
    <2> QED BY <2>1, <2>2, <2>3, Zenon
  <1>0. e \in 1 .. M
    <2> DEFINE u == 1
    <2>1. u \in 1 .. M
      OBVIOUS
    <2>2. EndOf(m, u) \in u .. M
      <3> HIDE DEF u
      <3> QED BY <2>1, EndOfIs
    <2> QED BY <2>2
  <1>4. N \in Int /\ 1 <= N /\ N \in 1 .. N /\ 1 \in 1 .. N /\ 1 \in Int
    OBVIOUS
  <1>2. first \in St /\ Found(m, seps[1], M, 1, m, first)
    <2> DEFINE lo == 1
               none == 0
               S == seps[1]
    <2>1. Ahead(m, M, m, lo) /\ lo = StartsAt(lo, none) /\ 0 \notin S
      BY <1>0, <1>4 DEF Ahead, StartsAt
    <2> HIDE DEF lo, none, S
    <2> DEFINE r == strtok(m, lo, S, none)
    <2>2. r \in Rec /\ Found(m, S, M, lo, m, r)
      BY <2>1, StrTok
    <2> HIDE DEF r
    <2>3. r \in St
      BY <2>2 DEF Found
    <2> QED BY <2>2, <2>3 DEF r, lo, none, S
  <1>3. ASSUME NEW r \in St, NEW k \in 1 .. N
        PROVE  /\ After(k, r) \in St
               /\ r.last # 0 => Found(m, seps[k], M, r.last, r.m, After(k, r))
               /\ r.last = 0 => After(k, r).ret = 0 /\ After(k, r).last = 0 /\ After(k, r).m = r.m
    <2> DEFINE c == r.m
               lo == r.last
               none == 0
               S == seps[k]
               n == strtok(c, none, S, lo)
    <2>1. c \in [1 .. M -> C] /\ lo \in 0 .. M /\ 0 \notin S
      OBVIOUS
    <2>2. CASE lo # 0
      <3>1. Ahead(m, M, c, lo) /\ lo = StartsAt(none, lo)
        BY <2>2 DEF StartsAt
      <3> HIDE DEF c, lo, none, S
      <3>2. n \in Rec /\ Found(m, S, M, lo, c, n)
        BY <2>1, <3>1, StrTok
      <3> HIDE DEF n
      <3>3. n \in St
        BY <3>2 DEF Found
      <3> QED BY <2>2, <3>2, <3>3 DEF n, c, lo, none, S
    <2>3. CASE lo = 0
      <3>1. n = [m |-> c, ret |-> 0, last |-> lo]
        <4> HIDE DEF c, lo, S
        <4> QED BY <2>3 DEF strtok
      <3>2. 0 \in 0 .. M
        OBVIOUS
      <3> HIDE DEF n, c, lo, S
      <3>3. n \in St /\ n.ret = 0 /\ n.last = 0 /\ n.m = c
        BY <2>1, <2>3, <3>1, <3>2
      <3> QED BY <2>3, <3>3 DEF n, c, lo, S
    <2> QED BY <2>2, <2>3
  <1> HIDE DEF After, first
  <1>5. call = Step(call)
    <2> DEFINE F == [k \in 1 + 1 .. N |-> [r \in St |-> After(k, r)]]
               u == 1
    <2>1. F \in [u + 1 .. N -> [St -> St]] /\ u \in Int /\ u <= N
      <3> HIDE DEF St
      <3>1. ASSUME NEW k \in 1 + 1 .. N PROVE [r \in St |-> After(k, r)] \in [St -> St]
        <4>1. k \in 1 .. N
          BY <1>4
        <4> QED BY <1>3, <4>1, Zenon
      <3> QED BY <1>4, <3>1
    <2> HIDE DEF St
    <2>2. \E f \in [u .. N -> St] : Recursive(f, u, N, first, F)
      <3> HIDE DEF u, F
      <3> QED BY <1>2, <1>4, <2>1, Recursion
    <2>3. PICK f \in [1 .. N -> St] : Recursive(f, 1, N, first, F)
      BY <2>2
    <2>4. f = [i \in 1 .. N |-> IF i = 1 THEN first ELSE F[i][f[i - 1]]]
      BY <2>3, Zenon DEF Recursive
    <2>5. \A i \in 1 .. N : f[i] = IF i = 1 THEN first ELSE F[i][f[i - 1]]
      BY <2>4, Zenon
    <2>6. ASSUME NEW i \in 1 .. N PROVE f[i] = IF i = 1 THEN first ELSE After(i, f[i - 1])
      <3>1. CASE i = 1
        BY <2>5, <3>1
      <3>2. CASE i # 1
        <4>1. i - 1 \in 1 .. N /\ i \in 1 + 1 .. N
          BY <1>4, <3>2
        <4>2. f[i - 1] \in St
          BY <2>3, <4>1
        <4>3. F[i] = [r \in St |-> After(i, r)]
          BY <4>1, Zenon
        <4>4. F[i][f[i - 1]] = After(i, f[i - 1])
          BY <4>2, <4>3, Zenon
        <4> QED BY <2>5, <3>2, <4>4, Zenon
      <3> QED BY <3>1, <3>2
    <2>7. f = Step(f)
      <3>1. f = [i \in 1 .. N |-> f[i]]
        BY <2>3
      <3>2. [i \in 1 .. N |-> f[i]] = Step(f)
        BY <2>6, Zenon
      <3> QED BY <3>1, <3>2, Zenon
    <2> QED BY <2>7, Zenon
  <1> HIDE DEF call
  <1>6. \A k \in 1 .. N : call[k] = IF k = 1 THEN first ELSE After(k, call[k - 1])
    BY <1>5, Zenon
  <1>7. call[1] = first /\ \A k \in 1 .. N - 1 : call[k + 1] = After(k + 1, call[k])
    <2>1. ASSUME NEW k \in 1 .. N - 1 PROVE call[k + 1] = After(k + 1, call[k])
      <3>1. k + 1 \in 1 .. N /\ k + 1 # 1 /\ (k + 1) - 1 = k
        BY <1>4
      <3> QED BY <1>6, <3>1
    <2> QED BY <1>4, <1>6, <2>1
  <1>8. \A k \in 1 .. N : call[k] \in St
    <2> HIDE DEF St
    <2> DEFINE P == { k \in 1 .. N : call[k] \in St }
    <2>1. 1 \in P
      BY <1>2, <1>4, <1>7
    <2>2. ASSUME NEW k \in 1 .. N - 1, k \in P PROVE k + 1 \in P
      <3>1. k + 1 \in 1 .. N
        BY <1>4
      <3> QED BY <1>3, <1>7, <2>2, <3>1
    <2>3. \A k \in 1 .. N : k \in P
      <3> HIDE DEF P
      <3> QED BY <1>4, <2>1, <2>2, UpTo
    <2> QED BY <2>3
  <1>9. ASSUME NEW k \in 1 .. N
        PROVE  call[k].last \in 0 .. M /\ call[k].ret \in 0 .. M /\ call[k].m \in [1 .. M -> C]
    BY <1>8
  <1>20. ASSUME NEW k \in 1 .. N - 1
         PROVE  /\ k \in 1 .. N /\ k + 1 \in 1 .. N
                /\ call[k].last # 0 => Found(m, seps[k + 1], M, call[k].last, call[k].m, call[k + 1])
                /\ call[k].last = 0 => call[k + 1].ret = 0 /\ call[k + 1].last = 0 /\ call[k + 1].m = call[k].m
    <2>1. k \in 1 .. N /\ k + 1 \in 1 .. N
      BY <1>4
    <2>2. call[k + 1] = After(k + 1, call[k]) /\ call[k] \in St
      BY <1>7, <1>8, <2>1
    <2> DEFINE r == call[k]
               j == k + 1
    <2>3. r \in St /\ j \in 1 .. N /\ call[j] = After(j, r)
      BY <2>1, <2>2
    <2> HIDE DEF St, r, j
    <2>4. /\ r.last # 0 => Found(m, seps[j], M, r.last, r.m, call[j])
          /\ r.last = 0 => call[j].ret = 0 /\ call[j].last = 0 /\ call[j].m = r.m
      BY <1>3, <2>3
    <2> QED BY <2>1, <2>4, Zenon DEF r, j
  <1> DEFINE lo(k) == IF k = 1 THEN 1 ELSE call[k - 1].last
             before(k) == IF k = 1 THEN m ELSE call[k - 1].m
  <1>10. ASSUME NEW k \in 1 .. N
         PROVE  /\ lo(k) \in 0 .. M
                /\ lo(k) # 0 => Found(m, seps[k], M, lo(k), before(k), call[k])
                /\ lo(k) = 0 => call[k].ret = 0 /\ call[k].last = 0
    <2>1. CASE k = 1
      BY <1>2, <1>7, <2>1
    <2>2. CASE k # 1
      <3>1. k - 1 \in 1 .. N - 1 /\ (k - 1) + 1 = k /\ k - 1 \in 1 .. N
        BY <1>4, <2>2
      <3> DEFINE j == k - 1
      <3>2. j \in 1 .. N - 1 /\ j \in 1 .. N /\ j + 1 = k /\ lo(k) = call[j].last /\ before(k) = call[j].m
        BY <2>2, <3>1
      <3> HIDE DEF j, lo, before
      <3>3. /\ call[j].last # 0 => Found(m, seps[j + 1], M, call[j].last, call[j].m, call[j + 1])
            /\ call[j].last = 0 => call[j + 1].ret = 0 /\ call[j + 1].last = 0
            /\ call[j].last \in 0 .. M
        BY <1>9, <1>20, <3>2
      <3> QED BY <3>2, <3>3
    <2> QED BY <2>1, <2>2
  <1> HIDE DEF lo, before, St
  <1> DEFINE b(k) == Until(m, call[k])
  \* A token that was found stays a string: later calls write behind it.
  <1>11. ASSUME NEW k \in 1 .. N, call[k].ret # 0
         PROVE  /\ IsToken(m, seps[k], lo(k), call[k].ret, b(k)) /\ lo(k) # 0
                /\ b(k) \in 1 .. M /\ EndOf(call[N].m, call[k].ret) = b(k)
    <2> DEFINE a == call[k].ret
               z == b(k)
               Kept(j) == /\ \A i \in a .. z : call[j].m[i] = call[k].m[i]
                          /\ call[j].last = 0 \/ call[j].last > z
               P == { j \in 1 .. N : Kept(j) }
    <2>1. lo(k) # 0 /\ Found(m, seps[k], M, lo(k), before(k), call[k]) /\ lo(k) \in 0 .. M
      BY <1>10, <1>11
    <2>2. IsToken(m, seps[k], lo(k), a, z) /\ Ends(call[k].m, a, z, M)
      BY <1>11, <2>1 DEF Found
    <2>3. a \in 1 .. M /\ z \in a .. M /\ z \in Int /\ z \in 1 .. M
      <3>1. a \in 1 .. M
        BY <1>9, <1>11
      <3> HIDE DEF a, z
      <3> QED BY <2>2, <3>1 DEF Ends
    <2>4. k \in P
      <3>1. call[k].last = 0 \/ call[k].last > z
        BY <1>9 DEF Until
      <3> QED BY <3>1
    <2>5. ASSUME NEW j \in k .. N - 1, j \in P PROVE j + 1 \in P
      <3>1. j \in 1 .. N - 1 /\ j \in 1 .. N /\ j + 1 \in 1 .. N
        BY <1>4
      <3>2. Kept(j)
        BY <2>5
      <3> HIDE DEF a, z
      <3>3. CASE call[j].last = 0
        <4>1. call[j + 1].last = 0 /\ call[j + 1].m = call[j].m
          BY <1>20, <3>1, <3>3
        <4> QED BY <3>1, <3>2, <4>1
      <3>4. CASE call[j].last # 0
        <4> DEFINE l == call[j].last
        <4>1. Found(m, seps[j + 1], M, l, call[j].m, call[j + 1]) /\ l \in Int /\ l > z
          BY <1>9, <1>20, <3>1, <3>2, <3>4
        <4> HIDE DEF l
        <4>2. (\A i \in 1 .. M : i < l => call[j + 1].m[i] = call[j].m[i])
              /\ (call[j + 1].last # 0 => call[j + 1].last > l)
          BY <4>1 DEF Found
        <4>3. \A i \in a .. z : i \in 1 .. M /\ i < l
          BY <2>3, <4>1
        <4>4. \A i \in a .. z : call[j + 1].m[i] = call[k].m[i]
          BY <3>2, <4>2, <4>3
        <4>5. call[j + 1].last \in Int
          BY <1>9, <3>1
        <4>6. call[j + 1].last = 0 \/ call[j + 1].last > z
          BY <2>3, <4>1, <4>2, <4>5
        <4> QED BY <3>1, <4>4, <4>6
      <3> QED BY <3>3, <3>4
    <2>6. N \in P
      <3>1. k \in Int /\ N \in Int /\ N \in k .. N
        BY <1>4
      <3>2. \A j \in k .. N : j \in P
        <4> HIDE DEF P
        <4> QED BY <2>4, <2>5, <3>1, UpTo
      <3> QED BY <3>1, <3>2
    <2>7. \A i \in a .. z : call[N].m[i] = call[k].m[i]
      BY <2>6
    <2>8. call[N].m \in [1 .. M -> C] /\ M \in Nat
      BY <1>4, <1>9
    <2> HIDE DEF a, z
    <2>9. Ends(call[N].m, a, z, M)
      <3>1. z \in a .. z /\ \A j \in a .. z - 1 : j \in a .. z
        BY <2>3
      <3> QED BY <2>2, <2>7, <3>1 DEF Ends
    <2> DEFINE last == call[N].m
    <2>10. EndOf(last, a) = z
      <3> HIDE DEF last
      <3>1. last \in [1 .. M -> C] /\ Ends(last, a, z, M)
        BY <2>8, <2>9 DEF last
      <3> QED BY <2>3, <2>8, <3>1, EndOfUnique
    <2> QED BY <2>1, <2>2, <2>3, <2>10 DEF a, z
  <1>12. ASSUME NEW k \in 1 .. N
         PROVE  /\ call[k].ret = 0 => ts[k] = [from |-> 0, to |-> 0] /\ ts[k].to = 0
                /\ call[k].ret # 0 => ts[k].from = call[k].ret /\ ts[k].to = b(k)
    <2>1. ts[k] = [from |-> call[k].ret, to |-> end(call[k].ret)]
      BY Zenon
    <2>2. CASE call[k].ret = 0
      <3>1. ts[k] = [from |-> 0, to |-> 0]
        BY <2>1, <2>2
      <3> HIDE DEF ts
      <3> QED BY <2>2, <3>1
    <2>3. CASE call[k].ret # 0
      <3>1. end(call[k].ret) = b(k)
        BY <1>11, <2>3
      <3> HIDE DEF ts, end, b
      <3> QED BY <2>1, <2>3, <3>1
    <2> QED BY <2>2, <2>3
  <1> HIDE DEF ts, end, e
  <1> DEFINE start(k) == IF k = 1 THEN 1 ELSE ts[k - 1].to + 1
             over(k) == k > 1 /\ ts[k - 1].to \in {0, e}
  <1>13. ASSUME NEW k \in 1 .. N
         PROVE  (over(k) <=> lo(k) = 0) /\ (lo(k) # 0 => start(k) = lo(k))
    <2>1. CASE k = 1
      BY <2>1 DEF lo
    <2>2. CASE k # 1
      <3> DEFINE j == k - 1
      <3>1. j \in 1 .. N /\ k > 1
        BY <1>4, <2>2
      <3>2. lo(k) = call[j].last /\ start(k) = ts[j].to + 1 /\ (over(k) <=> ts[j].to \in {0, e})
        BY <2>2, <3>1 DEF lo
      <3> HIDE DEF j, start, over
      <3>3. CASE call[j].ret = 0
        <4>1. ts[j].to = 0
          BY <1>12, <3>1, <3>3
        <4>2. call[j].last = 0
          <5>1. lo(j) # 0 => Found(m, seps[j], M, lo(j), before(j), call[j])
            BY <1>10, <3>1
          <5> QED BY <1>10, <3>1, <3>3, <5>1 DEF Found
        <4> QED BY <3>2, <4>1, <4>2
      <3>4. CASE call[j].ret # 0
        <4>1. ts[j].to = b(j) /\ b(j) \in 1 .. M
          BY <1>11, <1>12, <3>1, <3>4
        <4>2. call[j].last = 0 => b(j) = e
          BY DEF Until, e
        <4>3. call[j].last # 0 => b(j) = call[j].last - 1 /\ call[j].last \in 1 .. e
          <5> SUFFICES ASSUME call[j].last # 0 PROVE b(j) = call[j].last - 1 /\ call[j].last \in 1 .. e
            OBVIOUS
          <5>1. Found(m, seps[j], M, lo(j), before(j), call[j])
            BY <1>10, <1>11, <3>1, <3>4
          <5>2. Ahead(m, M, call[j].m, call[j].last)
            BY <5>1 DEF Found
          <5> QED BY <5>2 DEF Ahead, e, Until
        <4> HIDE DEF b
        <4> DEFINE x == call[j].last
        <4>4. x \in Int
          BY <1>9, <3>1
        <4> HIDE DEF x
        <4>5. x # 0 => b(j) = x - 1 /\ x \in 1 .. e
          BY <4>3 DEF x
        <4>6. x = 0 => b(j) = e
          BY <4>2 DEF x
        <4>7. (b(j) \in {0, e} <=> x = 0) /\ (x # 0 => b(j) + 1 = x)
          BY <1>0, <4>1, <4>4, <4>5, <4>6
        <4> QED BY <3>2, <4>1, <4>7 DEF x
      <3> QED BY <3>3, <3>4
    <2> QED BY <2>1, <2>2
  <1> DEFINE empty(k) == \A i \in start(k) .. e - 1 : m[i] \in seps[k]
             run(k, a, z) == /\ start(k) <= a /\ a < z /\ z <= e
                             /\ \A i \in start(k) .. a - 1 : m[i] \in seps[k]
                             /\ \A i \in a .. z - 1 : m[i] \notin seps[k]
                             /\ z = e \/ m[z] \in seps[k]
  <1>14. ASSUME NEW k \in 1 .. N
         PROVE  IF over(k) \/ empty(k) THEN ts[k] = [from |-> 0, to |-> 0] ELSE run(k, ts[k].from, ts[k].to)
    <2>1. CASE lo(k) = 0
      <3>1. over(k) /\ ts[k] = [from |-> 0, to |-> 0]
        BY <1>10, <1>12, <1>13, <2>1
      <3> HIDE DEF over, empty, run
      <3> QED BY <3>1
    <2>2. CASE lo(k) # 0
      <3>1. ~over(k) /\ start(k) = lo(k) /\ Found(m, seps[k], M, lo(k), before(k), call[k]) /\ lo(k) \in Int
        BY <1>10, <1>13, <2>2
      <3> HIDE DEF over, start
      <3>2. CASE call[k].ret = 0
        <4>1. NoToken(m, seps[k], lo(k)) /\ ts[k] = [from |-> 0, to |-> 0]
          BY <1>12, <3>1, <3>2 DEF Found
        <4>2. empty(k)
          BY <3>1, <4>1 DEF NoToken, e
        <4> HIDE DEF empty, run
        <4> QED BY <4>1, <4>2
      <3>3. CASE call[k].ret # 0
        <4> DEFINE a == call[k].ret
                   z == b(k)
        <4>1. IsToken(m, seps[k], lo(k), a, z) /\ ts[k].from = a /\ ts[k].to = z
              /\ a \in Int /\ z \in Int
          BY <1>9, <1>11, <1>12, <3>3
        <4> HIDE DEF a, z
        <4>2. run(k, a, z)
          BY <3>1, <4>1 DEF IsToken, e
        <4>3. ~empty(k)
          <5>1. a \in lo(k) .. e - 1 /\ a \in a .. z - 1
            BY <1>0, <3>1, <4>1 DEF IsToken, e
          <5>2. m[a] \notin seps[k]
            BY <4>1, <5>1 DEF IsToken
          <5> QED BY <3>1, <5>1, <5>2
        <4> HIDE DEF empty, run
        <4> QED BY <3>1, <4>1, <4>2, <4>3
      <3> QED BY <3>2, <3>3
    <2> QED BY <2>1, <2>2
  <1>15. DOMAIN seps = 1 .. N
    OBVIOUS
  <1>16. IsTokenized(m, seps, ts)
    BY <1>14, <1>15, Zenon DEF IsTokenized, e
  <1> QED BY <1>1, <1>16

\* Every call of memmove, strncpy, strncat and strstr, and every sequence of
\* calls of strtok with any separators, on a memory of every size, does what the
\* C standard says; strncat for target texts of every length that leave room.
THEOREM StringsCorrect == Spec => []StringsRight
  <1>0. /\ MemSize \in Nat /\ MemSize \in Nat \ {0} /\ Half \in Nat /\ Half + 1 <= MemSize
        /\ Half + 1 \in 1 .. MemSize
    BY MemSizeOK DEF Half
  <1>1. Init => StringsRight
    BY DEF Init, StringsRight
  <1>2. StringsRight /\ [Next]_vars => StringsRight'
    <2> SUFFICES ASSUME StringsRight, [Next]_vars PROVE StringsRight'
      OBVIOUS
    <2> USE DEF Memory
    <2>1. CASE Move
      <3>1. PICK m \in Memory, s1 \in 1 .. MemSize, s2 \in 1 .. MemSize, n \in 0 .. MemSize :
                /\ s1 + n <= MemSize + 1 /\ s2 + n <= MemSize + 1
                /\ Call("memmove", <<m, s1, s2, n>>, memmove(m, s1, s2, n))
        BY <2>1 DEF Move
      <3>2. n \in Nat
        OBVIOUS
      <3>3. IsMoved(memmove(m, s1, s2, n), MemSize, m, s1, s2, n)
        <4>1. m \in [1 .. MemSize -> Chars] /\ s1 + n <= MemSize + 1 /\ s2 + n <= MemSize + 1
          BY <3>1
        <4> QED BY <1>0, <4>1, <3>2, MemMove
      <3>4. fn' = "memmove" /\ args' = <<m, s1, s2, n>> /\ result' = memmove(m, s1, s2, n)
        BY <3>1 DEF Call
      <3>5. args'[1] = m /\ args'[2] = s1 /\ args'[3] = s2 /\ args'[4] = n
        BY <3>4
      <3>6. result' = [i \in 1 .. MemSize |-> IF i \in args'[2] .. args'[2] + args'[4] - 1
                                              THEN args'[1][args'[3] + i - args'[2]] ELSE args'[1][i]]
        BY <3>3, <3>4, <3>5, Zenon DEF IsMoved
      <3> QED BY <3>4, <3>6 DEF StringsRight
    <2>2. CASE CopyText
      <3>1. PICK m \in Memory, n \in 0 .. Half :
                m[MemSize] = 0 /\ Call("strncpy", <<m, n>>, strncpy(m, 1, Half + 1, n))
        BY <2>2 DEF CopyText
      <3> DEFINE Want(f, x) == [i \in 1 .. MemSize |-> IF i > x THEN f[i]
                                                       ELSE IF i <= Copied(f, x) THEN f[Half + i] ELSE 0]
      <3>2. strncpy(m, 1, Half + 1, n) = Want(m, n)
        <4>1. IsCopied(strncpy(m, 1, Half + 1, n), MemSize, m, Half, n, Least2(EndOf(m, Half + 1) - (Half + 1), n))
          BY <1>0, <3>1, StrNCpy
        <4>2. Copied(m, n) = Least2(EndOf(m, Half + 1) - (Half + 1), n)
          BY Zenon DEF Copied, Least2
        <4>3. IsCopied(strncpy(m, 1, Half + 1, n), MemSize, m, Half, n, Copied(m, n))
          BY <4>1, <4>2
        <4> QED BY <4>3, Zenon DEF IsCopied
      <3>3. fn' = "strncpy" /\ args' = <<m, n>> /\ result' = strncpy(m, 1, Half + 1, n)
        BY <3>1 DEF Call
      <3>4. args'[1] = m /\ args'[2] = n
        BY <3>3
      <3>5. result' = Want(args'[1], args'[2])
        <4> HIDE DEF Want
        <4> QED BY <3>2, <3>3, <3>4, Zenon
      <3> QED BY <3>3, <3>5 DEF StringsRight
    <2>3. CASE Concat
      <3>1. PICK m \in Memory, n \in 0 .. Half :
                /\ m[MemSize] = 0 /\ EndOf(m, 1) + Copied(m, n) <= Half
                /\ Call("strncat", <<m, n>>, strncat(m, 1, Half + 1, n))
        BY <2>3 DEF Concat
      <3> DEFINE Want(f, x) == [i \in 1 .. MemSize |->
                                   IF i \in EndOf(f, 1) .. EndOf(f, 1) + Copied(f, x) - 1
                                   THEN f[Half + 1 + i - EndOf(f, 1)]
                                   ELSE IF i = EndOf(f, 1) + Copied(f, x) THEN 0 ELSE f[i]]
                 c == Copied(m, n)
      <3>6. c = Least2(EndOf(m, Half + 1) - (Half + 1), n)
        BY Zenon DEF Copied, Least2
      <3>2. strncat(m, 1, Half + 1, n) = Want(m, n)
        <4>1. EndOf(m, 1) + Least2(EndOf(m, Half + 1) - (Half + 1), n) <= Half
          BY <3>1, <3>6
        <4>2. IsAppended(strncat(m, 1, Half + 1, n), MemSize, m, Half, EndOf(m, 1),
                         Least2(EndOf(m, Half + 1) - (Half + 1), n))
          BY <1>0, <3>1, <4>1, StrNCat
        <4>3. IsAppended(strncat(m, 1, Half + 1, n), MemSize, m, Half, EndOf(m, 1), Copied(m, n))
          BY <3>6, <4>2
        <4> QED BY <4>3, Zenon DEF IsAppended
      <3>3. fn' = "strncat" /\ args' = <<m, n>> /\ result' = strncat(m, 1, Half + 1, n)
        BY <3>1 DEF Call
      <3>4. args'[1] = m /\ args'[2] = n
        BY <3>3
      <3>5. result' = Want(args'[1], args'[2])
        <4> HIDE DEF Want
        <4> QED BY <3>2, <3>3, <3>4, Zenon
      <3> QED BY <3>3, <3>5 DEF StringsRight
    <2>4. CASE Find
      <3>1. PICK m \in Memory : m[MemSize] = 0 /\ Call("strstr", m, strstr(m, 1, Half + 1))
        BY <2>4 DEF Find
      <3> DEFINE t == Half + 1
                 len(f) == EndOf(f, t) - t
                 hits(f) == { i \in 1 .. EndOf(f, 1) : i + len(f) <= EndOf(f, 1)
                                                       /\ \A j \in 0 .. len(f) - 1 : f[i + j] = f[t + j] }
                 Want(f, x) == IF hits(f) = {} THEN x = 0 ELSE x \in hits(f) /\ \A i \in hits(f) : x <= i
      <3>2. Want(m, strstr(m, 1, t))
        <4>1. t \in 1 .. MemSize
          BY <1>0
        <4> HIDE DEF t
        <4> QED BY <1>0, <3>1, <4>1, StrStr
      <3>3. fn' = "strstr" /\ args' = m /\ result' = strstr(m, 1, t)
        BY <3>1 DEF Call
      <3>4. Want(args', result')
        <4> HIDE DEF Want
        <4> QED BY <3>2, <3>3, Zenon
      <3> QED BY <3>3, <3>4 DEF StringsRight
    <2>5. CASE Tokenize
      <3>1. PICK m \in Memory, seps \in [1 .. MaxCalls -> SUBSET (Chars \ {0})] :
                m[MemSize] = 0 /\ Call("strtok", <<m, seps>>, tokens(m, 1, seps))
        BY <2>5 DEF Tokenize
      <3>2. \A k \in 1 .. MaxCalls : 0 \notin seps[k]
        OBVIOUS
      <3>3. IsTokenized(m, seps, tokens(m, 1, seps))
        <4>1. MaxCalls \in Nat \ {0}
          BY MemSizeOK
        <4> QED BY <1>0, <3>1, <3>2, <4>1, Tokens
      <3>4. fn' = "strtok" /\ args' = <<m, seps>> /\ result' = tokens(m, 1, seps)
        BY <3>1 DEF Call
      <3>5. args'[1] = m /\ args'[2] = seps
        BY <3>4
      <3>6. IsTokenized(args'[1], args'[2], result')
        BY <3>3, <3>4, <3>5, Zenon
      <3> QED BY <3>4, <3>6 DEF StringsRight
    <2>6. CASE Divide \/ AddLong \/ ShiftLong \/ SortArray \/ Parse \/ Multiply \/ Encrypt \/ Return
      <3>1. fn' \notin {"memmove", "strncpy", "strncat", "strstr", "strtok"}
        BY <2>6 DEF Divide, AddLong, ShiftLong, SortArray, Parse, Multiply, Encrypt, Return, Call
      <3> QED BY <3>1 DEF StringsRight
    <2>7. CASE UNCHANGED vars
      BY <2>7 DEF vars, StringsRight
    <2> QED BY <2>1, <2>2, <2>3, <2>4, <2>5, <2>6, <2>7 DEF Next, Calls
  <1> QED BY <1>1, <1>2, PTL DEF Spec

----------------------------------------------------------------------------
(* Sort: rearrangements.                                                   *)

Arrays(N) == [1 .. N -> Int]

Permutation(p, N) ==
    /\ p \in [1 .. N -> 1 .. N]
    /\ \A i, j \in 1 .. N : p[i] = p[j] => i = j
    /\ \A j \in 1 .. N : \E i \in 1 .. N : p[i] = j

\* p takes s to t and moves nothing outside lo .. hi.
Moves(p, s, t, lo, hi, N) ==
    /\ Permutation(p, N)
    /\ \A i \in 1 .. N : t[i] = s[p[i]]
    /\ \A i \in 1 .. N : i \notin lo .. hi => p[i] = i

\* t has the elements of s, in another order between lo and hi.
Rearranged(s, t, lo, hi, N) == \E p : Moves(p, s, t, lo, hi, N)

\* An array is a rearrangement of itself.
LEMMA RearrangedSame ==
    ASSUME NEW N \in Nat, NEW s, NEW lo, NEW hi
    PROVE  Rearranged(s, s, lo, hi, N)
  <1> DEFINE p == [i \in 1 .. N |-> i]
  <1>1. Moves(p, s, s, lo, hi, N)
    BY DEF Moves, Permutation
  <1> QED BY <1>1, Zenon DEF Rearranged

\* Rearranging twice, the second time within the range of the first.
LEMMA RearrangedTwice ==
    ASSUME NEW N \in Nat, NEW s, NEW t, NEW u, NEW lo \in Int, NEW hi \in Int, NEW lo2 \in Int, NEW hi2 \in Int,
           lo <= lo2, hi2 <= hi, Rearranged(s, t, lo, hi, N), Rearranged(t, u, lo2, hi2, N)
    PROVE  Rearranged(s, u, lo, hi, N)
  <1>1. PICK p : Moves(p, s, t, lo, hi, N)
    BY DEF Rearranged
  <1>2. PICK q : Moves(q, t, u, lo2, hi2, N)
    BY DEF Rearranged
  <1> DEFINE r == [i \in 1 .. N |-> p[q[i]]]
  <1>3. Permutation(p, N) /\ Permutation(q, N)
    BY <1>1, <1>2 DEF Moves
  <1>4. \A i \in 1 .. N : p[i] \in 1 .. N /\ q[i] \in 1 .. N /\ r[i] = p[q[i]]
    BY <1>3 DEF Permutation
  <1>5. r \in [1 .. N -> 1 .. N]
    BY <1>4
  <1>6. \A i \in 1 .. N : i \notin lo .. hi => i \notin lo2 .. hi2
    OBVIOUS
  <1> HIDE DEF r
  <1>7. ASSUME NEW i \in 1 .. N, NEW j \in 1 .. N, r[i] = r[j] PROVE i = j
    <2>1. p[q[i]] = p[q[j]] /\ q[i] \in 1 .. N /\ q[j] \in 1 .. N
      BY <1>4, <1>7
    <2>2. q[i] = q[j]
      <3>1. \A k, l \in 1 .. N : p[k] = p[l] => k = l
        BY <1>3, Zenon DEF Permutation
      <3> QED BY <2>1, <3>1, Zenon
    <2> QED BY <1>3, <2>2 DEF Permutation
  <1>8. ASSUME NEW j \in 1 .. N PROVE \E i \in 1 .. N : r[i] = j
    <2>1. PICK k \in 1 .. N : p[k] = j
      BY <1>3 DEF Permutation
    <2>2. PICK i \in 1 .. N : q[i] = k
      BY <1>3 DEF Permutation
    <2> QED BY <1>4, <2>1, <2>2
  <1>9. Permutation(r, N)
    BY <1>5, <1>7, <1>8 DEF Permutation
  <1>10. \A i \in 1 .. N : u[i] = s[r[i]]
    BY <1>1, <1>2, <1>4 DEF Moves
  <1>11. \A i \in 1 .. N : i \notin lo .. hi => r[i] = i
    BY <1>1, <1>2, <1>4, <1>6 DEF Moves
  <1>12. Moves(r, s, u, lo, hi, N)
    BY <1>9, <1>10, <1>11 DEF Moves
  <1> QED BY <1>12 DEF Rearranged

\* A function that is its own inverse is a permutation.
LEMMA InvolutionMoves ==
    ASSUME NEW N \in Nat, NEW s, NEW t, NEW lo, NEW hi, NEW p \in [1 .. N -> 1 .. N],
           \A i \in 1 .. N : p[p[i]] = i,
           \A i \in 1 .. N : t[i] = s[p[i]],
           \A i \in 1 .. N : i \notin lo .. hi => p[i] = i
    PROVE  Rearranged(s, t, lo, hi, N)
  <1>1. \A i, j \in 1 .. N : p[i] = p[j] => i = j
    OBVIOUS
  <1>2. \A j \in 1 .. N : \E i \in 1 .. N : p[i] = j
    OBVIOUS
  <1>3. Moves(p, s, t, lo, hi, N)
    BY <1>1, <1>2 DEF Moves, Permutation
  <1> QED BY <1>3 DEF Rearranged

\* swap exchanges two elements.
LEMMA Swapped ==
    ASSUME NEW N \in Nat, NEW s \in Arrays(N), NEW lo \in Int, NEW hi \in Int, 1 <= lo, hi <= N,
           NEW i \in lo .. hi, NEW j \in lo .. hi
    PROVE  /\ swap(s, i, j) \in Arrays(N) /\ Rearranged(s, swap(s, i, j), lo, hi, N)
           /\ \A k \in 1 .. N : swap(s, i, j)[k] = IF k = i THEN s[j] ELSE IF k = j THEN s[i] ELSE s[k]
  <1> DEFINE t == swap(s, i, j)
             p == [k \in 1 .. N |-> IF k = i THEN j ELSE IF k = j THEN i ELSE k]
  <1>1. i \in 1 .. N /\ j \in 1 .. N
    OBVIOUS
  <1>2. t \in Arrays(N) /\ \A k \in 1 .. N : t[k] = IF k = i THEN s[j] ELSE IF k = j THEN s[i] ELSE s[k]
    BY <1>1 DEF swap, Arrays
  <1> HIDE DEF t
  <1>3. p \in [1 .. N -> 1 .. N] /\ \A k \in 1 .. N : p[k] = IF k = i THEN j ELSE IF k = j THEN i ELSE k
    BY <1>1
  <1> HIDE DEF p
  <1>4. \A k \in 1 .. N : p[p[k]] = k
    BY <1>1, <1>3
  <1>5. \A k \in 1 .. N : t[k] = s[p[k]]
    BY <1>1, <1>2, <1>3
  <1>6. \A k \in 1 .. N : k \notin lo .. hi => p[k] = k
    BY <1>3
  <1>7. Rearranged(s, t, lo, hi, N)
    BY <1>3, <1>4, <1>5, <1>6, InvolutionMoves
  <1> QED BY <1>2, <1>7 DEF t

\* vecswap exchanges two stretches that do not overlap.
LEMMA VecSwapped ==
    ASSUME NEW N \in Nat, NEW s \in Arrays(N), NEW lo \in Int, NEW hi \in Int, 1 <= lo, hi <= N,
           NEW i \in Int, NEW j \in Int, NEW n \in Nat, lo <= i, i + n <= j, j + n <= hi + 1
    PROVE  LET t == vecswap(s, i, j, n)
           IN  /\ t \in Arrays(N) /\ Rearranged(s, t, lo, hi, N)
               /\ \A k \in 1 .. N : t[k] = IF k \in i .. i + n - 1 THEN s[k - i + j]
                                           ELSE IF k \in j .. j + n - 1 THEN s[k - j + i] ELSE s[k]
  <1> DEFINE t == vecswap(s, i, j, n)
             p == [k \in 1 .. N |-> IF k \in i .. i + n - 1 THEN k - i + j
                                    ELSE IF k \in j .. j + n - 1 THEN k - j + i ELSE k]
  <1>1. \A k \in i .. i + n - 1 : k \in 1 .. N /\ k - i + j \in j .. j + n - 1 /\ (k - i + j) - j + i = k
                                  /\ k - i + j \in 1 .. N /\ k \notin j .. j + n - 1 /\ k \in lo .. hi
    OBVIOUS
  <1>2. \A k \in j .. j + n - 1 : k \in 1 .. N /\ k - j + i \in i .. i + n - 1 /\ (k - j + i) - i + j = k
                                  /\ k - j + i \in 1 .. N /\ k \notin i .. i + n - 1 /\ k \in lo .. hi
    OBVIOUS
  <1>3. DOMAIN s = 1 .. N /\ \A k \in 1 .. N : s[k] \in Int
    BY DEF Arrays
  <1>4. t \in Arrays(N) /\ \A k \in 1 .. N : t[k] = IF k \in i .. i + n - 1 THEN s[k - i + j]
                                                    ELSE IF k \in j .. j + n - 1 THEN s[k - j + i] ELSE s[k]
    BY <1>1, <1>2, <1>3 DEF vecswap, Arrays
  <1> HIDE DEF t
  <1>5. /\ p \in [1 .. N -> 1 .. N]
        /\ \A k \in 1 .. N : p[k] = IF k \in i .. i + n - 1 THEN k - i + j
                                    ELSE IF k \in j .. j + n - 1 THEN k - j + i ELSE k
    BY <1>1, <1>2
  <1> HIDE DEF p
  <1>6. ASSUME NEW k \in 1 .. N PROVE p[p[k]] = k
    <2>1. CASE k \in i .. i + n - 1
      BY <1>1, <1>2, <1>5, <2>1
    <2>2. CASE k \in j .. j + n - 1
      BY <1>1, <1>2, <1>5, <2>2
    <2>3. CASE k \notin i .. i + n - 1 /\ k \notin j .. j + n - 1
      BY <1>5, <2>3
    <2> QED BY <2>1, <2>2, <2>3
  <1>7. \A k \in 1 .. N : t[k] = s[p[k]]
    BY <1>4, <1>5
  <1>8. \A k \in 1 .. N : k \notin lo .. hi => p[k] = k
    BY <1>1, <1>2, <1>5
  <1>9. Rearranged(s, t, lo, hi, N)
    BY <1>5, <1>6, <1>7, <1>8, InvolutionMoves
  <1> QED BY <1>4, <1>9 DEF t

\* What is between lo and hi comes from there, and the rest is as before.
LEMMA RearrangedElements ==
    ASSUME NEW N \in Nat, NEW s, NEW t, NEW lo \in Int, NEW hi \in Int, 1 <= lo, hi <= N,
           Rearranged(s, t, lo, hi, N)
    PROVE  /\ \A i \in lo .. hi : \E j \in lo .. hi : t[i] = s[j]
           /\ \A i \in 1 .. N : i \notin lo .. hi => t[i] = s[i]
  <1>1. PICK p : Moves(p, s, t, lo, hi, N)
    BY DEF Rearranged
  <1>2. \A i \in 1 .. N : i \notin lo .. hi => t[i] = s[i]
    BY <1>1 DEF Moves
  <1>3. ASSUME NEW i \in lo .. hi PROVE \E j \in lo .. hi : t[i] = s[j]
    <2>1. i \in 1 .. N
      OBVIOUS
    <2>2. p[i] \in 1 .. N /\ t[i] = s[p[i]]
      BY <1>1, <2>1 DEF Moves, Permutation
    <2>3. p[i] \in lo .. hi
      <3>1. p[i] \notin lo .. hi => p[p[i]] = p[i]
        BY <1>1, <2>2 DEF Moves
      <3>2. p[p[i]] = p[i] => p[i] = i
        BY <1>1, <2>1, <2>2 DEF Moves, Permutation
      <3> QED BY <3>1, <3>2
    <2> QED BY <2>2, <2>3
  <1> QED BY <1>2, <1>3

SameOften(s, t, x, N) == Cardinality({ i \in 1 .. N : s[i] = x }) = Cardinality({ i \in 1 .. N : t[i] = x })

\* A rearrangement has each element as often as the array.
LEMMA SameCount ==
    ASSUME NEW N \in Nat, NEW s, NEW t, NEW lo, NEW hi, Rearranged(s, t, lo, hi, N), NEW x
    PROVE  SameOften(s, t, x, N)
  <1> DEFINE S == { i \in 1 .. N : s[i] = x }
             T == { i \in 1 .. N : t[i] = x }
  <1>1. PICK p : Moves(p, s, t, lo, hi, N)
    BY DEF Rearranged
  <1>2. Permutation(p, N) /\ \A i \in 1 .. N : t[i] = s[p[i]]
    BY <1>1 DEF Moves
  <1> DEFINE f == [i \in T |-> p[i]]
  <1>3. f \in [T -> S]
    BY <1>2 DEF Permutation
  <1>4. \A i, j \in T : f[i] = f[j] => i = j
    BY <1>2 DEF Permutation
  <1>5. ASSUME NEW j \in S PROVE \E i \in T : f[i] = j
    <2>1. PICK i \in 1 .. N : p[i] = j
      BY <1>2 DEF Permutation
    <2>2. i \in T
      BY <1>2, <2>1
    <2> QED BY <2>1, <2>2
  <1>6. f \in Bijection(T, S)
    BY <1>3, <1>4, <1>5, Fun_IsBij
  <1>7. ExistsBijection(T, S)
    BY <1>6, Zenon DEF ExistsBijection
  <1>8. IsFiniteSet(T)
    <2>1. IsFiniteSet(1 .. N) /\ T \in SUBSET (1 .. N)
      BY FS_Interval
    <2> QED BY <2>1, FS_Subset
  <1> HIDE DEF S, T
  <1>9. Cardinality(S) = Cardinality(T)
    BY <1>7, <1>8, FS_Bijection
  <1> QED BY <1>9, Zenon DEF S, T, SameOften

----------------------------------------------------------------------------
(* Sort: insertion.                                                        *)

Ascending(s, lo, hi) == \A i \in lo .. hi - 1 : s[i] <= s[i + 1]

\* While an element sinks from m, the range is ascending but for its place l.
Sinking(p, s, a, m, N) ==
    /\ p \in [s : Arrays(N), l : a .. m]
    /\ Rearranged(s, p.s, a, m, N)
    /\ Ascending(p.s, a, p.l - 1) /\ Ascending(p.s, p.l, m)
    /\ p.l > a /\ p.l < m => p.s[p.l - 1] <= p.s[p.l + 1]

Settled(p, a) == p.l = a \/ p.s[p.l - 1] <= p.s[p.l]

\* A turn of the inner loop goes one place down, or has nothing left to do.
LEMMA SinkTurn ==
    ASSUME NEW N \in Nat, NEW s \in Arrays(N), NEW a \in 1 .. N, NEW m \in a .. N, NEW p, Sinking(p, s, a, m, N)
    PROVE  /\ Sinking(sink_turn(p, a), s, a, m, N)
           /\ Settled(p, a) => sink_turn(p, a) = p
           /\ ~Settled(p, a) => sink_turn(p, a).l = p.l - 1
  <1> DEFINE l == p.l
             t == p.s
             u == swap(t, l, l - 1)
             q == sink_turn(p, a)
  <1>1. p \in [s : Arrays(N), l : a .. m] /\ t \in Arrays(N) /\ l \in a .. m /\ l \in Int /\ \A i \in 1 .. N : t[i] \in Int
    BY DEF Sinking, Arrays
  <1>2. CASE Settled(p, a)
    <2>1. ~(l > a /\ t[l - 1] > t[l])
      <3>1. l # a => l - 1 \in 1 .. N /\ l \in 1 .. N
        BY <1>1
      <3> QED BY <1>1, <1>2, <3>1 DEF Settled
    <2>2. q = p
      BY <2>1 DEF sink_turn
    <2> QED BY <1>2, <2>2
  <1>3. CASE ~Settled(p, a)
    <2>1. l > a /\ l - 1 \in a .. m /\ l - 1 \in 1 .. N /\ l \in 1 .. N /\ t[l - 1] > t[l]
      <3>1. l # a /\ ~(t[l - 1] <= t[l])
        BY <1>3 DEF Settled
      <3>2. l - 1 \in 1 .. N /\ l \in 1 .. N /\ l - 1 \in a .. m /\ l > a
        BY <1>1, <3>1
      <3> QED BY <1>1, <3>1, <3>2
    <2>2. q = [s |-> u, l |-> l - 1]
      BY <2>1 DEF sink_turn
    <2>3. /\ u \in Arrays(N) /\ Rearranged(t, u, a, m, N)
          /\ \A k \in 1 .. N : u[k] = IF k = l THEN t[l - 1] ELSE IF k = l - 1 THEN t[l] ELSE t[k]
      <3> DEFINE j == l - 1
      <3>1. t \in Arrays(N) /\ a \in Int /\ m \in Int /\ 1 <= a /\ m <= N /\ l \in a .. m /\ j \in a .. m
        BY <1>1, <2>1
      <3> HIDE DEF t, l, j
      <3>2. /\ swap(t, l, j) \in Arrays(N) /\ Rearranged(t, swap(t, l, j), a, m, N)
            /\ \A k \in 1 .. N : swap(t, l, j)[k] = IF k = l THEN t[j] ELSE IF k = j THEN t[l] ELSE t[k]
        BY <3>1, Swapped
      <3> QED BY <3>2 DEF j
    <2>4. Rearranged(s, t, a, m, N) /\ Ascending(t, a, l - 1) /\ Ascending(t, l, m)
          /\ (l > a /\ l < m => t[l - 1] <= t[l + 1])
      BY DEF Sinking
    <2> HIDE DEF q, u, t, l
    <2>5. Rearranged(s, u, a, m, N)
      <3>1. a \in Int /\ m \in Int /\ a <= a /\ m <= m
        OBVIOUS
      <3> QED BY <2>3, <2>4, <3>1, RearrangedTwice
    <2>6. ASSUME NEW i \in a .. l - 1 - 1 - 1 PROVE u[i] <= u[i + 1]
      <3>1. i \in 1 .. N /\ i + 1 \in 1 .. N /\ i # l /\ i # l - 1 /\ i + 1 # l /\ i + 1 # l - 1 /\ i \in a .. l - 1 - 1
        BY <1>1
      <3> QED BY <2>3, <2>4, <3>1 DEF Ascending
    <2>7. ASSUME NEW i \in l - 1 .. m - 1 PROVE u[i] <= u[i + 1]
      <3>1. i \in 1 .. N /\ i + 1 \in 1 .. N /\ i \in Int
        BY <1>1, <2>1
      <3>2. CASE i = l - 1
        <4>1. i + 1 = l /\ i # l
          BY <1>1, <3>2
        <4>2. u[i] = t[l] /\ u[i + 1] = t[l - 1]
          BY <2>3, <3>1, <3>2, <4>1
        <4> QED BY <1>1, <2>1, <4>2
      <3>3. CASE i = l
        <4>1. u[i] = t[l - 1] /\ u[i + 1] = t[l + 1] /\ l < m
          BY <1>1, <2>3, <3>1, <3>3
        <4> QED BY <2>1, <2>4, <4>1
      <3>4. CASE i # l - 1 /\ i # l
        <4>1. i \in l .. m - 1 /\ i + 1 # l /\ i + 1 # l - 1
          BY <1>1, <3>1, <3>4
        <4> QED BY <2>3, <2>4, <3>1, <3>4, <4>1 DEF Ascending
      <3> QED BY <3>2, <3>3, <3>4
    <2>8. l - 1 > a /\ l - 1 < m => u[l - 1 - 1] <= u[l - 1 + 1]
      <3> SUFFICES ASSUME l - 1 > a PROVE u[l - 1 - 1] <= u[l - 1 + 1]
        OBVIOUS
      <3>1. l - 1 - 1 \in 1 .. N /\ l - 1 - 1 # l /\ l - 1 - 1 # l - 1 /\ l - 1 + 1 = l /\ l - 1 - 1 \in a .. l - 1 - 1
            /\ l - 1 - 1 + 1 = l - 1
        BY <1>1, <2>1
      <3>2. u[l - 1 - 1] = t[l - 1 - 1] /\ u[l - 1 + 1] = t[l - 1]
        BY <2>1, <2>3, <3>1
      <3>3. t[l - 1 - 1] <= t[l - 1 - 1 + 1]
        BY <2>4, <3>1 DEF Ascending
      <3> QED BY <3>1, <3>2, <3>3
    <2>9. q.s = u /\ q.l = l - 1 /\ q \in [s : Arrays(N), l : a .. m]
      BY <2>1, <2>2, <2>3
    <2>10. Ascending(u, a, l - 1 - 1) /\ Ascending(u, l - 1, m)
      BY <2>6, <2>7 DEF Ascending
    <2>11. Sinking(q, s, a, m, N)
      BY <2>5, <2>8, <2>9, <2>10 DEF Sinking
    <2> QED BY <1>3, <2>9, <2>11 DEF q, l
  <1> QED BY <1>2, <1>3

\* The element at m sinks to its place.
LEMMA Sinks ==
    ASSUME NEW N \in Nat, NEW s \in Arrays(N), NEW a \in 1 .. N, NEW m \in a .. N, Ascending(s, a, m - 1)
    PROVE  /\ sink(s, a, m) \in Arrays(N) /\ Rearranged(s, sink(s, a, m), a, m, N)
           /\ Ascending(sink(s, a, m), a, m)
  <1> DEFINE n == m - a
             x == [s |-> s, l |-> m]
             S == { p \in [s : Arrays(N), l : a .. m] : Sinking(p, s, a, m, N) }
             Step(f) == [k \in 0 .. n |-> IF k = 0 THEN x ELSE sink_turn(f[k - 1], a)]
             p == CHOOSE f : f = Step(f)
             z == 0
  <1>1. sink(s, a, m) = p[n].s
    BY Zenon DEF sink
  <1>2. n \in Nat /\ n \in Int /\ z \in Int /\ z <= n /\ n \in z .. n /\ z \in z .. n
    OBVIOUS
  <1>3. x \in S
    <2>1. x \in [s : Arrays(N), l : a .. m] /\ x.s = s /\ x.l = m
      OBVIOUS
    <2>2. Rearranged(s, s, a, m, N)
      BY RearrangedSame
    <2>3. Ascending(s, m, m)
      BY DEF Ascending
    <2> HIDE DEF x
    <2>4. Sinking(x, s, a, m, N)
      BY <2>1, <2>2, <2>3 DEF Sinking
    <2> QED BY <2>1, <2>4
  <1>4. \A r \in S : sink_turn(r, a) \in S
    <2> SUFFICES ASSUME NEW r \in S PROVE sink_turn(r, a) \in S
      OBVIOUS
    <2>1. Sinking(sink_turn(r, a), s, a, m, N)
      BY SinkTurn
    <2> QED BY <2>1 DEF Sinking
  <1> HIDE DEF S, x, n, z
  <1>5. p = Step(p) /\ \A k \in 0 .. n : p[k] \in S
    <2> DEFINE T == [r \in S |-> sink_turn(r, a)]
               F == [k \in z + 1 .. n |-> T]
    <2>1. F \in [z + 1 .. n -> [S -> S]]
      BY <1>4
    <2>2. PICK f \in [z .. n -> S] : Recursive(f, z, n, x, F)
      <3> HIDE DEF F
      <3> QED BY <1>2, <1>3, <2>1, Recursion
    <2>3. \A i \in z .. n : f[i] = IF i = z THEN x ELSE F[i][f[i - 1]]
      BY <2>2, Zenon DEF Recursive
    <2>4. ASSUME NEW i \in 0 .. n PROVE f[i] = IF i = 0 THEN x ELSE sink_turn(f[i - 1], a)
      <3>1. CASE i = 0
        BY <2>3, <3>1 DEF z
      <3>2. CASE i # 0
        <4>1. i - 1 \in z .. n /\ i \in z + 1 .. n /\ i \in z .. n /\ i # z
          BY <1>2, <3>2 DEF z
        <4>2. f[i - 1] \in S
          BY <2>2, <4>1
        <4>3. F[i][f[i - 1]] = sink_turn(f[i - 1], a)
          BY <4>1, <4>2, Zenon
        <4> QED BY <2>3, <3>2, <4>1, <4>3, Zenon
      <3> QED BY <3>1, <3>2
    <2>5. f = Step(f)
      <3>1. f = [i \in 0 .. n |-> f[i]]
        BY <2>2 DEF z
      <3>2. [i \in 0 .. n |-> f[i]] = Step(f)
        BY <2>4, Zenon
      <3> QED BY <3>1, <3>2, Zenon
    <2>6. p = Step(p)
      BY <2>5, Zenon
    <2> HIDE DEF p
    <2>7. \A i \in 0 .. n : p[i] = IF i = 0 THEN x ELSE sink_turn(p[i - 1], a)
      BY <2>6, Zenon
    <2> DEFINE P == { k \in 0 .. n : p[k] \in S }
    <2>8. z \in P
      BY <1>2, <1>3, <2>7 DEF z
    <2>9. ASSUME NEW k \in z .. n - 1, k \in P PROVE k + 1 \in P
      <3>1. k + 1 \in 0 .. n /\ k + 1 # 0 /\ (k + 1) - 1 = k
        BY <1>2 DEF z
      <3>2. p[k + 1] = sink_turn(p[k], a)
        BY <2>7, <3>1
      <3> QED BY <1>4, <2>9, <3>1, <3>2
    <2>10. \A k \in z .. n : k \in P
      <3> HIDE DEF P
      <3> QED BY <1>2, <2>8, <2>9, UpTo
    <2> QED BY <2>6, <2>10 DEF z
  <1> HIDE DEF p
  <1>6. \A i \in 0 .. n : p[i] = IF i = 0 THEN x ELSE sink_turn(p[i - 1], a)
    BY <1>5, Zenon
  <1> DEFINE P == { k \in 0 .. n : Settled(p[k], a) \/ p[k].l = m - k }
  <1>7. z \in P
    <2>1. p[0] = x /\ x.l = m
      BY <1>2, <1>6 DEF z, x
    <2> QED BY <1>2, <2>1 DEF z
  <1>8. ASSUME NEW k \in z .. n - 1, k \in P PROVE k + 1 \in P
    <2>1. k + 1 \in 0 .. n /\ k + 1 # 0 /\ (k + 1) - 1 = k /\ k \in 0 .. n /\ k \in Int
      BY <1>2 DEF z
    <2>2. p[k + 1] = sink_turn(p[k], a) /\ Sinking(p[k], s, a, m, N)
      BY <1>5, <1>6, <2>1 DEF S
    <2>3. /\ Settled(p[k], a) => p[k + 1] = p[k]
          /\ ~Settled(p[k], a) => p[k + 1].l = p[k].l - 1
      BY <2>2, SinkTurn
    <2>4. Settled(p[k], a) \/ p[k].l = m - k
      BY <1>8
    <2>5. (m - k) - 1 = m - (k + 1)
      BY <2>1
    <2>6. Settled(p[k + 1], a) \/ p[k + 1].l = m - (k + 1)
      BY <2>3, <2>4, <2>5
    <2> QED BY <2>1, <2>6
  <1>9. n \in P
    <2>1. \A k \in z .. n : k \in P
      <3> HIDE DEF P
      <3> QED BY <1>2, <1>7, <1>8, UpTo
    <2> QED BY <1>2, <2>1
  <1> DEFINE q == p[n]
  <1>10. Sinking(q, s, a, m, N) /\ Settled(q, a)
    <2>1. n \in 0 .. n
      BY <1>2 DEF z
    <2>2. Sinking(q, s, a, m, N)
      BY <1>5, <2>1 DEF S
    <2>3. m - n = a
      BY DEF n
    <2> QED BY <1>9, <2>2, <2>3 DEF Settled
  <1> HIDE DEF q, P
  <1>11. Ascending(q.s, a, m)
    <2>1. q.l \in a .. m /\ q.s \in Arrays(N) /\ Ascending(q.s, a, q.l - 1) /\ Ascending(q.s, q.l, m)
      BY <1>10 DEF Sinking
    <2>2. ASSUME NEW i \in a .. m - 1 PROVE q.s[i] <= q.s[i + 1]
      <3>1. CASE i \in a .. q.l - 1 - 1
        BY <2>1, <3>1 DEF Ascending
      <3>2. CASE i \in q.l .. m - 1
        BY <2>1, <3>2 DEF Ascending
      <3>3. CASE i = q.l - 1
        <4>1. q.l # a /\ i + 1 = q.l
          BY <2>1, <3>3
        <4> QED BY <1>10, <3>3, <4>1 DEF Settled
      <3>4. i \in a .. q.l - 1 - 1 \/ i \in q.l .. m - 1 \/ i = q.l - 1
        BY <2>1
      <3> QED BY <3>1, <3>2, <3>3, <3>4
    <2> QED BY <2>2 DEF Ascending
  <1> QED BY <1>1, <1>10, <1>11 DEF Sinking, q

\* Insertion sorts the range a .. a + n - 1 and leaves the rest alone.
LEMMA InsertionSorts ==
    ASSUME NEW N \in Nat, NEW s \in Arrays(N), NEW a \in Nat, NEW n \in Nat, 1 <= a, a + n <= N + 1
    PROVE  /\ insertion(s, a, n) \in Arrays(N) /\ Rearranged(s, insertion(s, a, n), a, a + n - 1, N)
           /\ Ascending(insertion(s, a, n), a, a + n - 1)
  <1> DEFINE e == a + n
             Step(f) == [m \in a .. e |-> IF m = a THEN s ELSE sink(f[m - 1], a, m - 1)]
             sorted == CHOOSE f : f = Step(f)
             St(m) == { t \in Arrays(N) : Rearranged(s, t, a, e - 1, N) /\ Ascending(t, a, m - 1) }
             Sank(t, m) == IF Ascending(t, a, m - 1 - 1) THEN sink(t, a, m - 1) ELSE t
             A == Arrays(N)
             F == [m \in a + 1 .. e |-> [t \in A |-> Sank(t, m)]]
  <1>1. insertion(s, a, n) = sorted[e]
    BY Zenon DEF insertion
  <1>2. e \in Int /\ a \in Int /\ a <= e /\ a \in a .. e /\ e \in a .. e /\ e <= N + 1
    OBVIOUS
  <1>3. ASSUME NEW m \in a .. e - 1, NEW t \in St(m)
        PROVE  sink(t, a, m) \in St(m + 1)
    <2> DEFINE u == sink(t, a, m)
    <2>1. a \in 1 .. N /\ m \in a .. N /\ m \in Int /\ (m + 1) - 1 = m
      BY <1>2
    <2>2. t \in Arrays(N) /\ Rearranged(s, t, a, e - 1, N) /\ Ascending(t, a, m - 1)
      OBVIOUS
    <2>3. u \in Arrays(N) /\ Rearranged(t, u, a, m, N) /\ Ascending(u, a, m)
      BY <2>1, <2>2, Sinks
    <2> HIDE DEF u
    <2>4. Rearranged(s, u, a, e - 1, N)
      <3> DEFINE h == e - 1
      <3>1. a \in Int /\ m \in Int /\ h \in Int /\ a <= a /\ m <= h
        BY <1>2, <2>1
      <3> HIDE DEF h
      <3>2. Rearranged(s, t, a, h, N)
        BY <2>2 DEF h
      <3>3. Rearranged(s, u, a, h, N)
        BY <2>3, <3>1, <3>2, RearrangedTwice
      <3> QED BY <3>3 DEF h
    <2> QED BY <2>1, <2>3, <2>4 DEF u
  <1>4. s \in St(a)
    BY RearrangedSame DEF Ascending
  <1>5. F \in [a + 1 .. e -> [A -> A]]
    <2> SUFFICES ASSUME NEW m \in a + 1 .. e, NEW t \in A PROVE Sank(t, m) \in A
      OBVIOUS
    <2>1. CASE Ascending(t, a, m - 1 - 1)
      <3> DEFINE l == m - 1
      <3>1. a \in 1 .. N /\ l \in a .. N /\ t \in Arrays(N)
        BY <1>2
      <3> HIDE DEF l
      <3>2. Ascending(t, a, l - 1) => sink(t, a, l) \in Arrays(N)
        BY <3>1, Sinks
      <3> QED BY <2>1, <3>2 DEF l
    <2> QED BY <2>1
  <1>6. s \in A
    OBVIOUS
  <1> HIDE DEF A, F, e, Sank
  <1>7. PICK f \in [a .. e -> A] : Recursive(f, a, e, s, F)
    BY <1>2, <1>5, <1>6, Recursion
  <1>8. \A i \in a .. e : f[i] = IF i = a THEN s ELSE F[i][f[i - 1]]
    BY <1>7, Zenon DEF Recursive
  <1>9. ASSUME NEW m \in a .. e - 1, f[m] \in St(m) PROVE f[m + 1] = sink(f[m], a, m) /\ f[m + 1] \in St(m + 1)
    <2>1. m + 1 \in a + 1 .. e /\ m + 1 \in a .. e /\ m + 1 # a /\ (m + 1) - 1 = m /\ m \in a .. e
      BY <1>2
    <2>2. f[m] \in A /\ Ascending(f[m], a, m - 1)
      BY <1>7, <1>9, <2>1
    <2>3. F[m + 1][f[m]] = Sank(f[m], m + 1)
      BY <2>1, <2>2, Zenon DEF F
    <2>4. Sank(f[m], m + 1) = sink(f[m], a, m)
      BY <2>1, <2>2 DEF Sank
    <2>5. f[m + 1] = sink(f[m], a, m)
      BY <1>8, <2>1, <2>3, <2>4
    <2> QED BY <1>3, <1>9, <2>5
  <1>10. \A m \in a .. e : f[m] \in St(m)
    <2> DEFINE P == { m \in a .. e : f[m] \in St(m) }
    <2>1. a \in P
      BY <1>2, <1>4, <1>8
    <2>2. ASSUME NEW m \in a .. e - 1, m \in P PROVE m + 1 \in P
      <3>1. m + 1 \in a .. e
        BY <1>2
      <3>2. f[m] \in St(m)
        BY <2>2
      <3> QED BY <1>9, <3>1, <3>2
    <2>3. \A m \in a .. e : m \in P
      <3> HIDE DEF P
      <3> QED BY <1>2, <2>1, <2>2, UpTo
    <2> QED BY <2>3
  <1> HIDE DEF St
  <1>11. ASSUME NEW m \in a .. e PROVE f[m] = IF m = a THEN s ELSE sink(f[m - 1], a, m - 1)
    <2>1. CASE m = a
      BY <1>8, <2>1
    <2>2. CASE m # a
      <3> DEFINE l == m - 1
      <3>1. l \in a .. e - 1 /\ l + 1 = m /\ l \in a .. e
        BY <1>2, <2>2
      <3> HIDE DEF l
      <3>2. f[l + 1] = sink(f[l], a, l)
        BY <1>9, <1>10, <3>1
      <3> QED BY <2>2, <3>1, <3>2 DEF l
    <2> QED BY <2>1, <2>2
  <1>12. f = Step(f)
    <2>1. f = [m \in a .. e |-> f[m]]
      BY <1>7
    <2>2. [m \in a .. e |-> f[m]] = Step(f)
      BY <1>11, Zenon
    <2> QED BY <2>1, <2>2, Zenon
  <1>13. sorted = Step(sorted)
    BY <1>12, Zenon
  <1> HIDE DEF sorted
  <1>14. \A m \in a .. e : sorted[m] = IF m = a THEN s ELSE sink(sorted[m - 1], a, m - 1)
    BY <1>13, Zenon
  <1> DEFINE P == { m \in a .. e : sorted[m] = f[m] }
  <1>15. a \in P
    BY <1>2, <1>11, <1>14
  <1>16. ASSUME NEW m \in a .. e - 1, m \in P PROVE m + 1 \in P
    <2>1. m + 1 \in a .. e /\ m + 1 # a /\ (m + 1) - 1 = m
      BY <1>2
    <2>2. sorted[m + 1] = sink(sorted[m], a, m) /\ f[m + 1] = sink(f[m], a, m) /\ sorted[m] = f[m]
      BY <1>11, <1>14, <1>16, <2>1
    <2> QED BY <2>1, <2>2
  <1>17. e \in P
    <2>1. \A m \in a .. e : m \in P
      <3> HIDE DEF P
      <3> QED BY <1>2, <1>15, <1>16, UpTo
    <2> QED BY <1>2, <2>1
  <1>18. sorted[e] \in St(e)
    BY <1>10, <1>17
  <1> QED BY <1>1, <1>18 DEF St, e

----------------------------------------------------------------------------
(* Sort: partitioning.                                                     *)

\* Equal elements at both ends, smaller and larger ones next to them.
Parted(t, v, a, z, pa, pb, pc, pd) ==
    /\ \A i \in a .. pa - 1 : t[i] = v
    /\ \A i \in pa .. pb - 1 : t[i] < v
    /\ \A i \in pc + 1 .. pd : t[i] > v
    /\ \A i \in pd + 1 .. z : t[i] = v

\* The pointers are in order.
InRange(a, z, pa, pb, pc, pd) ==
    /\ pa \in Int /\ pb \in Int /\ pc \in Int /\ pd \in Int
    /\ a + 1 <= pa /\ pa <= pb /\ pb <= pc + 1 /\ pc <= pd /\ pd <= z

\* What the loops that partition s[a .. z] keep.
Parting(p, s, a, z, N) ==
    /\ p = cursors(p.s, p.pa, p.pb, p.pc, p.pd, p.cnt)
    /\ p.s \in Arrays(N) /\ p.cnt \in BOOLEAN
    /\ InRange(a, z, p.pa, p.pb, p.pc, p.pd)
    /\ Rearranged(s, p.s, a, z, N)
    /\ Parted(p.s, p.s[a], a, z, p.pa, p.pb, p.pc, p.pd)

\* What Parting says of a state that is made of its parts.
LEMMA PartingIs ==
    ASSUME NEW N, NEW s, NEW a, NEW z, NEW t \in Arrays(N), NEW pa, NEW pb, NEW pc, NEW pd, NEW cnt \in BOOLEAN,
           InRange(a, z, pa, pb, pc, pd), Rearranged(s, t, a, z, N), Parted(t, t[a], a, z, pa, pb, pc, pd)
    PROVE  Parting(cursors(t, pa, pb, pc, pd, cnt), s, a, z, N)
  <1> DEFINE q == cursors(t, pa, pb, pc, pd, cnt)
  <1>1. q.s = t /\ q.pa = pa /\ q.pb = pb /\ q.pc = pc /\ q.pd = pd /\ q.cnt = cnt
    BY DEF cursors
  <1>2. q = cursors(q.s, q.pa, q.pb, q.pc, q.pd, q.cnt)
    BY <1>1, Zenon
  <1> HIDE DEF q
  <1>3. Parting(q, s, a, z, N)
    BY <1>1, <1>2 DEF Parting
  <1> QED BY <1>3 DEF q

\* A turn keeps it, and brings pb and pc closer until they pass each other.
LEMMA PartTurn ==
    ASSUME NEW N \in Nat, NEW s \in Arrays(N), NEW a \in Nat, NEW z \in Nat, 1 <= a, z <= N,
           NEW p, Parting(p, s, a, z, N)
    PROVE  LET q == partition_turn(p, a)
           IN  /\ Parting(q, s, a, z, N)
               /\ p.pb > p.pc => q = p
               /\ ~(p.pb > p.pc) => q.pc - q.pb <= p.pc - p.pb - 1
  <1> DEFINE t == p.s
             v == t[a]
             pa == p.pa
             pb == p.pb
             pc == p.pc
             pd == p.pd
             q == partition_turn(p, a)
             Good(r) == Parting(r, s, a, z, N) /\ r.pc - r.pb <= pc - pb - 1
  <1>1. CASE pb > pc
    <2>1. q = p
      BY <1>1 DEF partition_turn
    <2> QED BY <1>1, <2>1
  <1>2. CASE ~(pb > pc)
    <2>1. /\ t \in Arrays(N) /\ p.cnt \in BOOLEAN
          /\ InRange(a, z, pa, pb, pc, pd) /\ Rearranged(s, t, a, z, N)
          /\ Parted(t, v, a, z, pa, pb, pc, pd)
      BY DEF Parting
    <2>2. q = IF t[pb] < v THEN cursors(t, pa, pb + 1, pc, pd, p.cnt)
              ELSE IF t[pb] = v THEN cursors(swap(t, pa, pb), pa + 1, pb + 1, pc, pd, TRUE)
              ELSE IF t[pc] > v THEN cursors(t, pa, pb, pc - 1, pd, p.cnt)
              ELSE IF t[pc] = v THEN cursors(swap(t, pc, pd), pa, pb, pc - 1, pd - 1, TRUE)
              ELSE cursors(swap(t, pb, pc), pa, pb + 1, pc - 1, pd, TRUE)
      BY <1>2, Zenon DEF partition_turn
    <2> DEFINE c == p.cnt
    <2>3. c \in BOOLEAN
      BY <2>1
    <2> HIDE DEF q, c, pa, pb, pc, pd, t
    <2>4. /\ pa \in Int /\ pb \in Int /\ pc \in Int /\ pd \in Int
          /\ a + 1 <= pa /\ pa <= pb /\ pb <= pc /\ pc <= pd /\ pd <= z
      BY <1>2, <2>1 DEF InRange
    <2>5. /\ pa \in a .. z /\ pb \in a .. z /\ pc \in a .. z /\ pd \in a .. z
          /\ pa # a /\ pb # a /\ pc # a /\ pd # a
          /\ a \in 1 .. N /\ \A i \in a .. z : i \in 1 .. N
          /\ a \in Int /\ z \in Int
      BY <2>4
    <2>6. \A i \in 1 .. N : t[i] \in Int
      BY <2>1 DEF Arrays
    <2>7. /\ \A i \in a .. pa - 1 : t[i] = v
          /\ \A i \in pa .. pb - 1 : t[i] < v
          /\ \A i \in pc + 1 .. pd : t[i] > v
          /\ \A i \in pd + 1 .. z : t[i] = v
      BY <2>1 DEF Parted
    <2> HIDE DEF v
    <2>8. ASSUME NEW i \in a .. z, NEW j \in a .. z, i # a, j # a
          PROVE  LET u == swap(t, i, j)
                 IN  /\ u \in Arrays(N) /\ Rearranged(s, u, a, z, N) /\ u[a] = v
                     /\ \A k \in a .. z : u[k] = IF k = i THEN t[j] ELSE IF k = j THEN t[i] ELSE t[k]
      <3> DEFINE u == swap(t, i, j)
      <3>1. /\ u \in Arrays(N) /\ Rearranged(t, u, a, z, N)
            /\ \A k \in 1 .. N : u[k] = IF k = i THEN t[j] ELSE IF k = j THEN t[i] ELSE t[k]
        <4>1. t \in Arrays(N) /\ a \in Int /\ z \in Int /\ 1 <= a /\ z <= N
          BY <2>1, <2>5
        <4> QED BY <4>1, Swapped
      <3> HIDE DEF u
      <3>2. Rearranged(s, u, a, z, N)
        <4>1. a <= a /\ z <= z
          OBVIOUS
        <4> QED BY <2>1, <2>5, <3>1, <4>1, RearrangedTwice
      <3> QED BY <2>5, <2>8, <3>1, <3>2 DEF u, v
    <2>9. ASSUME NEW u \in Arrays(N), NEW qa, NEW qb, NEW qc, NEW qd, NEW d \in BOOLEAN,
                 InRange(a, z, qa, qb, qc, qd), Rearranged(s, u, a, z, N), u[a] = v,
                 Parted(u, v, a, z, qa, qb, qc, qd), qc - qb <= pc - pb - 1
          PROVE  Good(cursors(u, qa, qb, qc, qd, d))
      <3>1. Parted(u, u[a], a, z, qa, qb, qc, qd)
        BY <2>9
      <3>2. Parting(cursors(u, qa, qb, qc, qd, d), s, a, z, N)
        BY <2>9, <3>1, PartingIs
      <3>3. cursors(u, qa, qb, qc, qd, d).pc = qc /\ cursors(u, qa, qb, qc, qd, d).pb = qb
        BY DEF cursors
      <3> QED BY <2>9, <3>2, <3>3
    <2> HIDE DEF Good
    <2>10. t[pb] \in Int /\ t[pc] \in Int /\ v \in Int /\ v = t[a]
      BY <2>5, <2>6 DEF v
    <2>11. ASSUME t[pb] < v PROVE Good(q)
      <3> DEFINE x == pb + 1
      <3>1. InRange(a, z, pa, x, pc, pd) /\ pc - x <= pc - pb - 1
        BY <2>4 DEF InRange
      <3>2. Parted(t, v, a, z, pa, x, pc, pd)
        <4>1. \A i \in pa .. x - 1 : i = pb \/ i \in pa .. pb - 1
          BY <2>4
        <4> HIDE DEF x
        <4> QED BY <2>7, <2>11, <4>1 DEF Parted
      <3> HIDE DEF x
      <3>3. Good(cursors(t, pa, x, pc, pd, c))
        BY <2>1, <2>3, <2>9, <2>10, <3>1, <3>2
      <3>5. t[pb] < v
        BY <2>10, <2>11
      <3>6. q = cursors(t, pa, x, pc, pd, c)
        BY <2>2, <2>11, <3>5, Zenon DEF x, c
      <3> QED BY <3>3, <3>6, Zenon
    <2>12. ASSUME t[pb] = v PROVE Good(q)
      <3> DEFINE x == pb + 1
                 y == pa + 1
                 u == swap(t, pa, pb)
      <3>1. InRange(a, z, y, x, pc, pd) /\ pc - x <= pc - pb - 1
        BY <2>4 DEF InRange
      <3>2. /\ u \in Arrays(N) /\ Rearranged(s, u, a, z, N) /\ u[a] = v
            /\ \A k \in a .. z : u[k] = IF k = pa THEN t[pb] ELSE IF k = pb THEN t[pa] ELSE t[k]
        BY <2>5, <2>8
      <3> HIDE DEF u
      <3>3. Parted(u, v, a, z, y, x, pc, pd)
        <4>1. ASSUME NEW i \in a .. y - 1 PROVE u[i] = v
          <5>1. i \in a .. z /\ (i # pa => i # pb /\ i \in a .. pa - 1)
            BY <2>4
          <5> QED BY <2>7, <2>12, <3>2, <5>1
        <4>2. ASSUME NEW i \in y .. x - 1 PROVE u[i] < v
          <5>1. i \in a .. z /\ i # pa /\ (i = pb => pa \in pa .. pb - 1) /\ (i # pb => i \in pa .. pb - 1)
            BY <2>4
          <5> QED BY <2>7, <3>2, <5>1
        <4>3. ASSUME NEW i \in pc + 1 .. pd PROVE u[i] > v
          <5>1. i \in a .. z /\ i # pa /\ i # pb
            BY <2>4
          <5> QED BY <2>7, <3>2, <5>1
        <4>4. ASSUME NEW i \in pd + 1 .. z PROVE u[i] = v
          <5>1. i \in a .. z /\ i # pa /\ i # pb
            BY <2>4
          <5> QED BY <2>7, <3>2, <5>1
        <4> QED BY <4>1, <4>2, <4>3, <4>4 DEF Parted
      <3> HIDE DEF x, y
      <3>4. Good(cursors(u, y, x, pc, pd, TRUE))
        BY <2>9, <3>1, <3>2, <3>3
      <3>5. ~(t[pb] < v)
        BY <2>10, <2>12
      <3>6. q = cursors(u, y, x, pc, pd, TRUE)
        BY <2>2, <2>12, <3>5, Zenon DEF x, y, u
      <3> QED BY <3>4, <3>6, Zenon
    <2>13. ASSUME t[pb] > v /\ t[pc] > v PROVE Good(q)
      <3> DEFINE x == pc - 1
      <3>1. InRange(a, z, pa, pb, x, pd) /\ x - pb <= pc - pb - 1
        BY <2>4 DEF InRange
      <3>2. Parted(t, v, a, z, pa, pb, x, pd)
        <4>1. \A i \in x + 1 .. pd : i = pc \/ i \in pc + 1 .. pd
          BY <2>4
        <4> HIDE DEF x
        <4> QED BY <2>7, <2>13, <4>1 DEF Parted
      <3> HIDE DEF x
      <3>3. Good(cursors(t, pa, pb, x, pd, c))
        BY <2>1, <2>3, <2>9, <2>10, <3>1, <3>2
      <3>5. ~(t[pb] < v) /\ t[pb] # v
        BY <2>10, <2>13
      <3>6. q = cursors(t, pa, pb, x, pd, c)
        BY <2>2, <2>13, <3>5, Zenon DEF x, c
      <3> QED BY <3>3, <3>6, Zenon
    <2>14. ASSUME t[pb] > v /\ t[pc] = v PROVE Good(q)
      <3> DEFINE x == pc - 1
                 y == pd - 1
                 u == swap(t, pc, pd)
      <3>1. InRange(a, z, pa, pb, x, y) /\ x - pb <= pc - pb - 1
        BY <2>4 DEF InRange
      <3>2. /\ u \in Arrays(N) /\ Rearranged(s, u, a, z, N) /\ u[a] = v
            /\ \A k \in a .. z : u[k] = IF k = pc THEN t[pd] ELSE IF k = pd THEN t[pc] ELSE t[k]
        BY <2>5, <2>8
      <3> HIDE DEF u
      <3>3. Parted(u, v, a, z, pa, pb, x, y)
        <4>1. ASSUME NEW i \in a .. pa - 1 PROVE u[i] = v
          <5>1. i \in a .. z /\ i # pc /\ i # pd
            BY <2>4
          <5> QED BY <2>7, <3>2, <5>1
        <4>2. ASSUME NEW i \in pa .. pb - 1 PROVE u[i] < v
          <5>1. i \in a .. z /\ i # pc /\ i # pd
            BY <2>4
          <5> QED BY <2>7, <3>2, <5>1
        <4>3. ASSUME NEW i \in x + 1 .. y PROVE u[i] > v
          <5>1. i \in a .. z /\ i # pd /\ (i = pc => pd \in pc + 1 .. pd) /\ (i # pc => i \in pc + 1 .. pd)
            BY <2>4
          <5> QED BY <2>7, <3>2, <5>1
        <4>4. ASSUME NEW i \in y + 1 .. z PROVE u[i] = v
          <5>1. i \in a .. z /\ (i # pd => i # pc /\ i \in pd + 1 .. z)
            BY <2>4
          <5> QED BY <2>7, <2>14, <3>2, <5>1
        <4> QED BY <4>1, <4>2, <4>3, <4>4 DEF Parted
      <3> HIDE DEF x, y
      <3>4. Good(cursors(u, pa, pb, x, y, TRUE))
        BY <2>9, <3>1, <3>2, <3>3
      <3>5. ~(t[pb] < v) /\ t[pb] # v /\ ~(t[pc] > v)
        BY <2>10, <2>14
      <3>6. q = cursors(u, pa, pb, x, y, TRUE)
        BY <2>2, <2>14, <3>5, Zenon DEF x, y, u
      <3> QED BY <3>4, <3>6, Zenon
    <2>15. ASSUME t[pb] > v /\ t[pc] < v PROVE Good(q)
      <3> DEFINE x == pb + 1
                 y == pc - 1
                 u == swap(t, pb, pc)
      <3>0. pb # pc
        BY <2>10, <2>15
      <3>1. InRange(a, z, pa, x, y, pd) /\ y - x <= pc - pb - 1
        BY <2>4, <3>0 DEF InRange
      <3>2. /\ u \in Arrays(N) /\ Rearranged(s, u, a, z, N) /\ u[a] = v
            /\ \A k \in a .. z : u[k] = IF k = pb THEN t[pc] ELSE IF k = pc THEN t[pb] ELSE t[k]
        BY <2>5, <2>8
      <3> HIDE DEF u
      <3>3. Parted(u, v, a, z, pa, x, y, pd)
        <4>1. ASSUME NEW i \in a .. pa - 1 PROVE u[i] = v
          <5>1. i \in a .. z /\ i # pb /\ i # pc
            BY <2>4
          <5> QED BY <2>7, <3>2, <5>1
        <4>2. ASSUME NEW i \in pa .. x - 1 PROVE u[i] < v
          <5>1. i \in a .. z /\ (i # pb => i # pc /\ i \in pa .. pb - 1)
            BY <2>4
          <5> QED BY <2>7, <2>15, <3>2, <5>1
        <4>3. ASSUME NEW i \in y + 1 .. pd PROVE u[i] > v
          <5>1. i \in a .. z /\ i # pb /\ (i # pc => i \in pc + 1 .. pd)
            BY <2>4, <3>0
          <5> QED BY <2>7, <2>15, <3>2, <5>1
        <4>4. ASSUME NEW i \in pd + 1 .. z PROVE u[i] = v
          <5>1. i \in a .. z /\ i # pb /\ i # pc
            BY <2>4
          <5> QED BY <2>7, <3>2, <5>1
        <4> QED BY <4>1, <4>2, <4>3, <4>4 DEF Parted
      <3> HIDE DEF x, y
      <3>4. Good(cursors(u, pa, x, y, pd, TRUE))
        BY <2>9, <3>1, <3>2, <3>3
      <3>5. ~(t[pb] < v) /\ t[pb] # v /\ ~(t[pc] > v) /\ t[pc] # v
        BY <2>10, <2>15
      <3>6. q = cursors(u, pa, x, y, pd, TRUE)
        BY <2>2, <2>15, <3>5, Zenon DEF x, y, u
      <3> QED BY <3>4, <3>6, Zenon
    <2>16. Good(q)
      <3>1. t[pb] < v \/ t[pb] = v \/ (t[pb] > v /\ (t[pc] > v \/ t[pc] = v \/ t[pc] < v))
        BY <2>10
      <3> QED BY <2>11, <2>12, <2>13, <2>14, <2>15, <3>1
    <2> QED BY <1>2, <2>16 DEF Good, q, pb, pc
  <1> QED BY <1>1, <1>2

\* The loops end with pb behind pc.
LEMMA Partitions ==
    ASSUME NEW N \in Nat, NEW s \in Arrays(N), NEW a \in Nat, NEW n \in Nat, 1 <= a, a + n <= N + 1, 2 <= n
    PROVE  LET p == partition(s, a, n)
           IN  Parting(p, s, a, a + n - 1, N) /\ p.pb = p.pc + 1
  <1> DEFINE z == a + n - 1
             b == a + 1
             x == cursors(s, b, b, z, z, FALSE)
             Rec == [s : Arrays(N), pa : Int, pb : Int, pc : Int, pd : Int, cnt : BOOLEAN]
             S == { r \in Rec : Parting(r, s, a, z, N) }
             Step(f) == [k \in 0 .. n |-> IF k = 0 THEN x ELSE partition_turn(f[k - 1], a)]
             p == CHOOSE f : f = Step(f)
             o == 0
  <1>1. partition(s, a, n) = p[n]
    BY Zenon DEF partition
  <1>2. /\ n \in Int /\ o \in Int /\ o <= n /\ n \in o .. n /\ o \in o .. n
        /\ z \in Nat /\ 1 <= a /\ z <= N /\ b \in Int /\ z \in Int /\ FALSE \in BOOLEAN
    OBVIOUS
  <1>3. ASSUME NEW r, Parting(r, s, a, z, N) PROVE r \in S
    <2>1. /\ r = cursors(r.s, r.pa, r.pb, r.pc, r.pd, r.cnt) /\ r.s \in Arrays(N) /\ r.cnt \in BOOLEAN
          /\ r.pa \in Int /\ r.pb \in Int /\ r.pc \in Int /\ r.pd \in Int
      BY <1>3 DEF Parting, InRange
    <2>2. cursors(r.s, r.pa, r.pb, r.pc, r.pd, r.cnt) \in Rec
      BY <2>1 DEF cursors
    <2> QED BY <1>3, <2>1, <2>2
  <1>4. x \in S /\ x.pb = a + 1 /\ x.pc = z
    <2>1. InRange(a, z, b, b, z, z)
      BY DEF InRange
    <2>2. Rearranged(s, s, a, z, N)
      BY RearrangedSame
    <2>3. Parted(s, s[a], a, z, b, b, z, z)
      <3>1. \A i \in a .. b - 1 : i = a
        OBVIOUS
      <3> HIDE DEF z
      <3> QED BY <1>2, <3>1 DEF Parted
    <2>4. Parting(x, s, a, z, N)
      <3> HIDE DEF b, z
      <3> QED BY <1>2, <2>1, <2>2, <2>3, PartingIs
    <2>5. x.pb = a + 1 /\ x.pc = z
      BY DEF cursors
    <2> HIDE DEF x
    <2> QED BY <1>3, <2>4, <2>5
  <1>5. ASSUME NEW r \in S
        PROVE  /\ partition_turn(r, a) \in S
               /\ r.pb > r.pc => partition_turn(r, a) = r
               /\ ~(r.pb > r.pc) => partition_turn(r, a).pc - partition_turn(r, a).pb <= r.pc - r.pb - 1
    <2>1. Parting(r, s, a, z, N)
      OBVIOUS
    <2> HIDE DEF z
    <2>2. /\ Parting(partition_turn(r, a), s, a, z, N)
          /\ r.pb > r.pc => partition_turn(r, a) = r
          /\ ~(r.pb > r.pc) => partition_turn(r, a).pc - partition_turn(r, a).pb <= r.pc - r.pb - 1
      BY <1>2, <2>1, PartTurn
    <2> HIDE DEF S
    <2> QED BY <1>3, <2>2
  <1>6. \A r \in S : r.pb \in Int /\ r.pc \in Int
    OBVIOUS
  <1> HIDE DEF S, x, z, b, o
  <1>7. p = Step(p) /\ \A k \in 0 .. n : p[k] \in S
    <2> DEFINE T == [r \in S |-> partition_turn(r, a)]
               F == [k \in o + 1 .. n |-> T]
    <2>1. F \in [o + 1 .. n -> [S -> S]]
      BY <1>5
    <2>2. PICK f \in [o .. n -> S] : Recursive(f, o, n, x, F)
      <3> HIDE DEF F
      <3> QED BY <1>2, <1>4, <2>1, Recursion
    <2>3. \A i \in o .. n : f[i] = IF i = o THEN x ELSE F[i][f[i - 1]]
      BY <2>2, Zenon DEF Recursive
    <2>4. ASSUME NEW i \in 0 .. n PROVE f[i] = IF i = 0 THEN x ELSE partition_turn(f[i - 1], a)
      <3>1. CASE i = 0
        BY <2>3, <3>1 DEF o
      <3>2. CASE i # 0
        <4>1. i - 1 \in o .. n /\ i \in o + 1 .. n /\ i \in o .. n /\ i # o
          BY <1>2, <3>2 DEF o
        <4>2. f[i - 1] \in S
          BY <2>2, <4>1
        <4>3. F[i][f[i - 1]] = partition_turn(f[i - 1], a)
          BY <4>1, <4>2, Zenon
        <4> QED BY <2>3, <3>2, <4>1, <4>3, Zenon
      <3> QED BY <3>1, <3>2
    <2>5. f = Step(f)
      <3>1. f = [i \in 0 .. n |-> f[i]]
        BY <2>2 DEF o
      <3>2. [i \in 0 .. n |-> f[i]] = Step(f)
        BY <2>4, Zenon
      <3> QED BY <3>1, <3>2, Zenon
    <2>6. p = Step(p)
      BY <2>5, Zenon
    <2> HIDE DEF p
    <2>7. \A i \in 0 .. n : p[i] = IF i = 0 THEN x ELSE partition_turn(p[i - 1], a)
      BY <2>6, Zenon
    <2> DEFINE P == { k \in 0 .. n : p[k] \in S }
    <2>8. o \in P
      BY <1>2, <1>4, <2>7 DEF o
    <2>9. ASSUME NEW k \in o .. n - 1, k \in P PROVE k + 1 \in P
      <3>1. k + 1 \in 0 .. n /\ k + 1 # 0 /\ (k + 1) - 1 = k
        BY <1>2 DEF o
      <3>2. p[k + 1] = partition_turn(p[k], a)
        BY <2>7, <3>1
      <3> QED BY <1>5, <2>9, <3>1, <3>2
    <2>10. \A k \in o .. n : k \in P
      <3> HIDE DEF P
      <3> QED BY <1>2, <2>8, <2>9, UpTo
    <2> QED BY <2>6, <2>10 DEF o
  <1> HIDE DEF p
  <1>8. \A i \in 0 .. n : p[i] = IF i = 0 THEN x ELSE partition_turn(p[i - 1], a)
    BY <1>7, Zenon
  <1> DEFINE P == { k \in 0 .. n : p[k].pb > p[k].pc \/ p[k].pc - p[k].pb <= n - 2 - k }
  <1>9. o \in P
    <2>1. p[0] = x /\ x.pc - x.pb <= n - 2 - 0
      BY <1>2, <1>4, <1>8 DEF o, z
    <2> QED BY <1>2, <2>1 DEF o
  <1>10. ASSUME NEW k \in o .. n - 1, k \in P PROVE k + 1 \in P
    <2>1. k + 1 \in 0 .. n /\ k + 1 # 0 /\ (k + 1) - 1 = k /\ k \in 0 .. n /\ k \in Int
      BY <1>2 DEF o
    <2> DEFINE r == p[k]
               q == p[k + 1]
    <2>2. q = partition_turn(r, a) /\ r \in S /\ q \in S
      BY <1>7, <1>8, <2>1
    <2>3. (r.pb > r.pc => q = r) /\ (~(r.pb > r.pc) => q.pc - q.pb <= r.pc - r.pb - 1)
      BY <1>5, <2>2
    <2>4. r.pb > r.pc \/ r.pc - r.pb <= n - 2 - k
      BY <1>10
    <2>5. r.pb \in Int /\ r.pc \in Int /\ q.pb \in Int /\ q.pc \in Int
      BY <1>6, <2>2
    <2>6. q.pb > q.pc \/ q.pc - q.pb <= n - 2 - (k + 1)
      <3> HIDE DEF q, r
      <3>1. CASE r.pb > r.pc
        BY <2>3, <3>1
      <3>2. CASE ~(r.pb > r.pc)
        BY <2>1, <2>3, <2>4, <2>5, <3>2
      <3> QED BY <3>1, <3>2
    <2> QED BY <2>1, <2>6
  <1>11. n \in P
    <2>1. \A k \in o .. n : k \in P
      <3> HIDE DEF P
      <3> QED BY <1>2, <1>9, <1>10, UpTo
    <2> QED BY <1>2, <2>1
  <1> DEFINE q == p[n]
  <1>12. Parting(q, s, a, z, N) /\ (q.pb > q.pc \/ q.pc - q.pb <= n - 2 - n)
    <2>1. n \in 0 .. n
      BY <1>2
    <2> QED BY <1>7, <1>11, <2>1 DEF S
  <1> HIDE DEF q, P
  <1>13. q.pb = q.pc + 1
    <2>1. q.pb \in Int /\ q.pc \in Int /\ q.pb <= q.pc + 1
      BY <1>12 DEF Parting, InRange
    <2> QED BY <1>12, <2>1
  <1> QED BY <1>1, <1>12, <1>13 DEF q, z

\* The equal elements in the middle, l smaller ones before and u larger ones
\* behind them.
Gathered(g, v, a, n, l, u) ==
    /\ \A i \in a .. a + l - 1 : g[i] < v
    /\ \A i \in a + l .. a + n - 1 - u : g[i] = v
    /\ \A i \in a + n - u .. a + n - 1 : g[i] > v

\* The two exchanges of gather put them there.
LEMMA Gathers ==
    ASSUME NEW N \in Nat, NEW s \in Arrays(N), NEW a \in Nat, NEW n \in Nat, 1 <= a, a + n <= N + 1,
           NEW p, Parting(p, s, a, a + n - 1, N), p.pb = p.pc + 1
    PROVE  /\ gather(p, a, n) \in Arrays(N) /\ Rearranged(s, gather(p, a, n), a, a + n - 1, N)
           /\ Gathered(gather(p, a, n), p.s[a], a, n, p.pb - p.pa, p.pd - p.pc)
           /\ p.pb - p.pa \in Nat /\ p.pd - p.pc \in Nat /\ (p.pb - p.pa) + (p.pd - p.pc) < n
  <1> DEFINE z == a + n - 1
             t == p.s
             v == t[a]
             pa == p.pa
             pb == p.pb
             pc == p.pc
             pd == p.pd
             l == pb - pa
             u == pd - pc
             r == min(pa - a, l)
             j == pb - r
             w == min(u, z - pd)
             m == z + 1 - w
             x == vecswap(t, a, j, r)
             y == vecswap(x, pb, m, w)
  <1>1. /\ t \in Arrays(N) /\ InRange(a, z, pa, pb, pc, pd) /\ Rearranged(s, t, a, z, N)
        /\ Parted(t, v, a, z, pa, pb, pc, pd)
    BY DEF Parting
  <1>2. a + n - pd - 1 = z - pd /\ z \in Int /\ z <= N /\ a + n - 1 = z /\ pb = pc + 1
    BY <1>1 DEF InRange
  <1>3. gather(p, a, n) = y
    <2>1. pd \in Int /\ u \in Int
      BY <1>1 DEF InRange
    <2>2. a + n - w = m
      BY <2>1 DEF min
    <2> HIDE DEF r, j, l, u, z
    <2>3. gather(p, a, n) = vecswap(vecswap(t, a, pb - r, r), pb, a + n - w, w)
      BY <1>2, Zenon DEF gather, r, l, u
    <2> QED BY <2>2, <2>3, Zenon DEF j
  <1> HIDE DEF t, pa, pb, pc, pd, z
  <1>4. /\ pa \in Int /\ pb \in Int /\ pc \in Int /\ pd \in Int
        /\ a + 1 <= pa /\ pa <= pb /\ pb = pc + 1 /\ pc <= pd /\ pd <= z
    BY <1>1, <1>2 DEF InRange
  <1>5. l \in Nat /\ u \in Nat /\ l + u < n
    BY <1>2, <1>4
  <1>6. /\ r \in Nat /\ w \in Nat /\ r <= pa - a /\ r <= l /\ w <= u /\ w <= z - pd
        /\ (r = pa - a \/ r = l) /\ (w = u \/ w = z - pd)
    BY <1>2, <1>4 DEF min
  <1> HIDE DEF r, w
  <1>7. /\ j \in Int /\ m \in Int /\ a \in Int /\ z \in Int
        /\ a + r <= j /\ j + r <= z + 1 /\ j + r = pb /\ pb + w <= m /\ m + w <= z + 1 /\ m + w = z + 1
        /\ 1 <= a /\ z <= N /\ a <= a /\ a <= pb /\ z <= z
    BY <1>2, <1>4, <1>6
  <1> HIDE DEF j, m
  <1>8. /\ x \in Arrays(N) /\ Rearranged(t, x, a, z, N)
        /\ \A k \in 1 .. N : x[k] = IF k \in a .. a + r - 1 THEN t[k - a + j]
                                    ELSE IF k \in j .. j + r - 1 THEN t[k - j + a] ELSE t[k]
    BY <1>1, <1>6, <1>7, VecSwapped
  <1> HIDE DEF x
  <1>9. /\ y \in Arrays(N) /\ Rearranged(x, y, a, z, N)
        /\ \A k \in 1 .. N : y[k] = IF k \in pb .. pb + w - 1 THEN x[k - pb + m]
                                    ELSE IF k \in m .. m + w - 1 THEN x[k - m + pb] ELSE x[k]
    BY <1>4, <1>6, <1>7, <1>8, VecSwapped
  <1> HIDE DEF y
  <1>10. Rearranged(s, y, a, z, N)
    <2>1. Rearranged(s, x, a, z, N)
      BY <1>1, <1>7, <1>8, RearrangedTwice
    <2> QED BY <1>7, <1>9, <2>1, RearrangedTwice
  <1>11. /\ \A i \in a .. pa - 1 : t[i] = v
         /\ \A i \in pa .. pb - 1 : t[i] < v
         /\ \A i \in pb .. pd : t[i] > v
         /\ \A i \in pd + 1 .. z : t[i] = v
    BY <1>1, <1>2 DEF Parted
  <1> HIDE DEF v
  <1>12. ASSUME NEW i \in a .. pb - 1 PROVE y[i] = x[i] /\ i \in 1 .. N
    <2>1. i \in 1 .. N /\ i \notin pb .. pb + w - 1 /\ i \notin m .. m + w - 1
      BY <1>4, <1>6, <1>7
    <2> QED BY <1>9, <2>1
  <1>13. ASSUME NEW i \in pb .. z PROVE x[i] = t[i] /\ i \in 1 .. N
    <2>1. i \in 1 .. N /\ i \notin a .. a + r - 1 /\ i \notin j .. j + r - 1
      BY <1>4, <1>6, <1>7
    <2> QED BY <1>8, <2>1
  <1>14. ASSUME NEW i \in a .. a + l - 1 PROVE y[i] < v
    <2>1. i \in a .. pb - 1
      BY <1>4
    <2>2. CASE i \in a .. a + r - 1
      <3>1. i - a + j \in pa .. pb - 1
        BY <1>4, <1>6, <1>7, <2>2
      <3> QED BY <1>8, <1>11, <1>12, <2>1, <2>2, <3>1
    <2>3. CASE i \notin a .. a + r - 1
      <3>1. i \notin j .. j + r - 1 /\ i \in pa .. pb - 1
        BY <1>4, <1>6, <1>7, <2>3
      <3> QED BY <1>8, <1>11, <1>12, <2>1, <2>3, <3>1
    <2> QED BY <2>2, <2>3
  <1>15. ASSUME NEW i \in a + l .. pb - 1 PROVE y[i] = v
    <2>1. i \in a .. pb - 1 /\ i \notin a .. a + r - 1
      BY <1>4, <1>6
    <2>2. CASE i \in j .. j + r - 1
      <3>1. i - j + a \in a .. pa - 1
        BY <1>4, <1>6, <1>7, <2>2
      <3> QED BY <1>8, <1>11, <1>12, <2>1, <2>2, <3>1
    <2>3. CASE i \notin j .. j + r - 1
      <3>1. i \in a .. pa - 1
        BY <1>4, <1>6, <1>7, <2>1, <2>3
      <3> QED BY <1>8, <1>11, <1>12, <2>1, <2>3, <3>1
    <2> QED BY <2>2, <2>3
  <1>16. ASSUME NEW i \in pb .. z - u PROVE y[i] = v
    <2>1. i \in pb .. z /\ i \notin m .. m + w - 1
      BY <1>4, <1>6, <1>7
    <2>2. CASE i \in pb .. pb + w - 1
      <3>1. i - pb + m \in pd + 1 .. z /\ i - pb + m \in pb .. z
        BY <1>4, <1>6, <1>7, <2>2
      <3> QED BY <1>9, <1>11, <1>13, <2>1, <2>2, <3>1
    <2>3. CASE i \notin pb .. pb + w - 1
      <3>1. i \in pd + 1 .. z
        BY <1>4, <1>6, <1>7, <2>1, <2>3
      <3> QED BY <1>9, <1>11, <1>13, <2>1, <2>3, <3>1
    <2> QED BY <2>2, <2>3
  <1>17. ASSUME NEW i \in z + 1 - u .. z PROVE y[i] > v
    <2>1. i \in pb .. z /\ i \notin pb .. pb + w - 1
      BY <1>4, <1>6, <1>7
    <2>2. CASE i \in m .. m + w - 1
      <3>1. i - m + pb \in pb .. pd /\ i - m + pb \in pb .. z
        BY <1>4, <1>6, <1>7, <2>2
      <3> QED BY <1>9, <1>11, <1>13, <2>1, <2>2, <3>1
    <2>3. CASE i \notin m .. m + w - 1
      <3>1. i \in pb .. pd
        BY <1>4, <1>6, <1>7, <2>1, <2>3
      <3> QED BY <1>9, <1>11, <1>13, <2>1, <2>3, <3>1
    <2> QED BY <2>2, <2>3
  <1>18. Gathered(y, v, a, n, l, u)
    <2>1. \A i \in a + l .. a + n - 1 - u : i \in a + l .. pb - 1 \/ i \in pb .. z - u
      BY <1>2, <1>4, <1>5
    <2>2. \A i \in a + n - u .. a + n - 1 : i \in z + 1 - u .. z
      BY <1>2, <1>4, <1>5
    <2> HIDE DEF l, u
    <2> QED BY <1>14, <1>15, <1>16, <1>17, <2>1, <2>2 DEF Gathered
  <1> QED BY <1>2, <1>3, <1>5, <1>9, <1>10, <1>18 DEF l, u, pa, pb, pc, pd, t, v

----------------------------------------------------------------------------
(* Sort: qsort.                                                            *)

\* The pivot is taken from the range.
LEMMA PivotInRange ==
    ASSUME NEW s, NEW a \in Nat, NEW n \in Nat, 2 <= n
    PROVE  pivot(s, a, n) \in a .. a + n - 1
  <1> DEFINE m == a + n \div 2
             z == a + n - 1
             d == n \div 8
  <1>1. m \in a .. z /\ z \in a .. z /\ a \in a .. z
    OBVIOUS
  <1>2. /\ a + d \in a .. z /\ a + 2 * d \in a .. z /\ m - d \in a .. z /\ m + d \in a .. z
        /\ z - 2 * d \in a .. z /\ z - d \in a .. z
    OBVIOUS
  <1>3. \A i, j, k : med3(s, i, j, k) \in {i, j, k}
    BY DEF med3
  <1> HIDE DEF m, z, d
  <1>4. \A i, j, k \in a .. z : med3(s, i, j, k) \in a .. z
    BY <1>3
  <1>5. pivot(s, a, n) = IF n <= SMALL THEN m
                         ELSE IF n <= LARGE THEN med3(s, a, m, z)
                         ELSE med3(s, med3(s, a, a + d, a + 2 * d), med3(s, m - d, m, m + d),
                                      med3(s, z - 2 * d, z - d, z))
    BY DEF pivot, m, z, d
  <1>6. med3(s, a, m, z) \in a .. z
    BY <1>1, <1>4
  <1>7. /\ med3(s, a, a + d, a + 2 * d) \in a .. z /\ med3(s, m - d, m, m + d) \in a .. z
        /\ med3(s, z - 2 * d, z - d, z) \in a .. z
    BY <1>1, <1>2, <1>4
  <1>8. med3(s, med3(s, a, a + d, a + 2 * d), med3(s, m - d, m, m + d), med3(s, z - 2 * d, z - d, z)) \in a .. z
    BY <1>4, <1>7
  <1>9. pivot(s, a, n) \in a .. z
    BY <1>1, <1>5, <1>6, <1>8
  <1> QED BY <1>9 DEF z

\* What qsort does with a range, where f sorts the parts.
Split(c) == partition(swap(c.s, c.a, pivot(c.s, c.a, c.n)), c.a, c.n)
Lower(f, g, a, l) == IF l > 1 THEN f[[s |-> g, a |-> a, n |-> l]] ELSE g
SortBody(f, c) ==
    IF c.n < SMALL THEN insertion(c.s, c.a, c.n)
    ELSE LET p == Split(c)
             u == p.pd - p.pc
         IN  IF ~p.cnt THEN insertion(p.s, c.a, c.n)
             ELSE Lower(f, Lower(f, gather(p, c.a, c.n), c.a, p.pb - p.pa), c.a + c.n - u, u)

\* r is the array of c with its range sorted.
Sorts(c, r, N) ==
    /\ r \in Arrays(N) /\ Rearranged(c.s, r, c.a, c.a + c.n - 1, N)
    /\ Ascending(r, c.a, c.a + c.n - 1)

\* What the partition of a range leaves to the parts.
SplitInto(c, p, g, l, u, N) ==
    /\ p.s \in Arrays(N) /\ Rearranged(c.s, p.s, c.a, c.a + c.n - 1, N) /\ p.s[c.a] \in Int
    /\ g \in Arrays(N) /\ Rearranged(c.s, g, c.a, c.a + c.n - 1, N)
    /\ Gathered(g, p.s[c.a], c.a, c.n, l, u)
    /\ l \in Nat /\ u \in Nat /\ l + u < c.n

\* It leaves two parts that are shorter than the range.
LEMMA SplitIs ==
    ASSUME NEW N \in Nat, NEW c \in ranges(N), ~(c.n < SMALL)
    PROVE  LET p == Split(c)
           IN  SplitInto(c, p, gather(p, c.a, c.n), p.pb - p.pa, p.pd - p.pc, N)
  <1> DEFINE s == c.s
             a == c.a
             n == c.n
             z == a + n - 1
             v == pivot(s, a, n)
             t == swap(s, a, v)
             p == Split(c)
             g == gather(p, a, n)
  <1>1. s \in Arrays(N) /\ a \in Nat /\ n \in Nat /\ 1 <= a /\ a + n <= N + 1 /\ 2 <= n
    BY LimitsOK DEF ranges, Arrays
  <1>2. p = partition(t, a, n)
    BY DEF Split
  <1> HIDE DEF s, a, n, p
  <1>3. v \in a .. z
    BY <1>1, PivotInRange
  <1> HIDE DEF v
  <1>4. z \in Int /\ a \in Int /\ z <= N /\ a \in a .. z /\ a <= a /\ z <= z /\ 1 <= a /\ a \in 1 .. N
    BY <1>1
  <1>5. t \in Arrays(N) /\ Rearranged(s, t, a, z, N)
    <2> HIDE DEF z
    <2> QED BY <1>1, <1>3, <1>4, Swapped
  <1> HIDE DEF t
  <1>6. Parting(p, t, a, z, N) /\ p.pb = p.pc + 1
    BY <1>1, <1>2, <1>5, Partitions
  <1>7. p.s \in Arrays(N) /\ Rearranged(t, p.s, a, z, N)
    BY <1>6 DEF Parting
  <1>8. /\ g \in Arrays(N) /\ Rearranged(t, g, a, z, N)
        /\ Gathered(g, p.s[a], a, n, p.pb - p.pa, p.pd - p.pc)
        /\ p.pb - p.pa \in Nat /\ p.pd - p.pc \in Nat /\ (p.pb - p.pa) + (p.pd - p.pc) < n
    BY <1>1, <1>5, <1>6, Gathers
  <1>9. Rearranged(s, p.s, a, z, N) /\ Rearranged(s, g, a, z, N)
    <2> HIDE DEF z, g
    <2>1. Rearranged(s, p.s, a, z, N)
      BY <1>4, <1>5, <1>7, RearrangedTwice
    <2>2. Rearranged(s, g, a, z, N)
      BY <1>4, <1>5, <1>8, RearrangedTwice
    <2> QED BY <2>1, <2>2
  <1>10. p.s[a] \in Int
    BY <1>4, <1>7 DEF Arrays
  <1> HIDE DEF g
  <1>11. SplitInto(c, p, g, p.pb - p.pa, p.pd - p.pc, N)
    BY <1>7, <1>8, <1>9, <1>10 DEF SplitInto, s, a, n
  <1> QED BY <1>11 DEF g, p, a, n

\* A part: what f makes of it, if it has more than one element.
LEMMA PartSorts ==
    ASSUME NEW N \in Nat, NEW f, NEW k \in Nat,
           \A d \in ranges(N) : d.n < k => Sorts(d, f[d], N),
           NEW g \in Arrays(N), NEW a \in Nat, NEW l \in Nat, 1 <= a, a + l <= N + 1, l < k
    PROVE  /\ Lower(f, g, a, l) \in Arrays(N) /\ Rearranged(g, Lower(f, g, a, l), a, a + l - 1, N)
           /\ Ascending(Lower(f, g, a, l), a, a + l - 1)
  <1>1. CASE l > 1
    <2> DEFINE d == [s |-> g, a |-> a, n |-> l]
    <2>1. d \in ranges(N) /\ d.n < k /\ d.s = g /\ d.a = a /\ d.n = l
      BY DEF ranges, Arrays
    <2> HIDE DEF d
    <2>2. Sorts(d, f[d], N)
      BY <2>1
    <2>3. Lower(f, g, a, l) = f[d]
      BY <1>1 DEF Lower, d
    <2> QED BY <2>1, <2>2, <2>3 DEF Sorts
  <1>2. CASE ~(l > 1)
    <2>1. Lower(f, g, a, l) = g
      BY <1>2 DEF Lower
    <2>2. Ascending(g, a, a + l - 1)
      BY <1>2 DEF Ascending
    <2>3. Rearranged(g, g, a, a + l - 1, N)
      BY RearrangedSame
    <2> QED BY <2>1, <2>2, <2>3
  <1> QED BY <1>1, <1>2

\* If f sorts shorter ranges, the body of qsort sorts this one.
LEMMA BodySorts ==
    ASSUME NEW N \in Nat, NEW c \in ranges(N), NEW f, \A d \in ranges(N) : d.n < c.n => Sorts(d, f[d], N)
    PROVE  Sorts(c, SortBody(f, c), N)
  <1> DEFINE s == c.s
             a == c.a
             n == c.n
             z == a + n - 1
             p == Split(c)
             g == gather(p, a, n)
             l == p.pb - p.pa
             u == p.pd - p.pc
             b == a + n - u
             h == Lower(f, g, a, l)
             r == Lower(f, h, b, u)
             v == p.s[a]
  <1>1. s \in Arrays(N) /\ a \in Nat /\ n \in Nat /\ 1 <= a /\ a + n <= N + 1
    BY DEF ranges, Arrays
  <1>2. \A d \in ranges(N) : d.n < n => Sorts(d, f[d], N)
    OBVIOUS
  <1>3. CASE n < SMALL
    <2>1. SortBody(f, c) = insertion(s, a, n)
      BY <1>3 DEF SortBody
    <2> HIDE DEF s, a, n
    <2>2. /\ insertion(s, a, n) \in Arrays(N) /\ Rearranged(s, insertion(s, a, n), a, a + n - 1, N)
          /\ Ascending(insertion(s, a, n), a, a + n - 1)
      BY <1>1, InsertionSorts
    <2> QED BY <2>1, <2>2 DEF Sorts, s, a, n
  <1>4. CASE ~(n < SMALL)
    <2>1. SplitInto(c, p, g, l, u, N)
      BY <1>4, SplitIs
    <2>2. SortBody(f, c) = IF ~p.cnt THEN insertion(p.s, a, n) ELSE r
      BY <1>4 DEF SortBody
    <2>3. /\ p.s \in Arrays(N) /\ Rearranged(s, p.s, a, z, N) /\ v \in Int
          /\ g \in Arrays(N) /\ Rearranged(s, g, a, z, N) /\ Gathered(g, v, a, n, l, u)
          /\ l \in Nat /\ u \in Nat /\ l + u < n
      BY <2>1 DEF SplitInto
    <2> SUFFICES SortBody(f, c) \in Arrays(N) /\ Rearranged(s, SortBody(f, c), a, z, N) /\ Ascending(SortBody(f, c), a, z)
      BY DEF Sorts
    <2>4. CASE ~p.cnt
      <3> DEFINE t == p.s
      <3> HIDE DEF s, a, n, p
      <3>1. /\ insertion(t, a, n) \in Arrays(N) /\ Rearranged(t, insertion(t, a, n), a, z, N)
            /\ Ascending(insertion(t, a, n), a, z)
        <4> HIDE DEF t
        <4>1. t \in Arrays(N)
          BY <2>3 DEF t
        <4> QED BY <1>1, <4>1, InsertionSorts
      <3>2. Rearranged(s, insertion(t, a, n), a, z, N)
        <4>1. a \in Int /\ z \in Int /\ a <= a /\ z <= z
          BY <1>1
        <4> HIDE DEF z
        <4> QED BY <2>3, <3>1, <4>1, RearrangedTwice
      <3> QED BY <2>2, <2>4, <3>1, <3>2
    <2>5. CASE p.cnt
      <3> HIDE DEF s, a, n, p, v, g, l, u
      <3>1. /\ h \in Arrays(N) /\ Rearranged(g, h, a, a + l - 1, N) /\ Ascending(h, a, a + l - 1)
        <4>1. a + l <= N + 1 /\ l < n
          BY <1>1, <2>3
        <4> QED BY <1>1, <1>2, <2>3, <4>1, PartSorts
      <3>2. b \in Nat /\ 1 <= b /\ b + u <= N + 1 /\ u < n /\ b + u - 1 = z
        BY <1>1, <2>3
      <3> HIDE DEF h
      <3>3. /\ r \in Arrays(N) /\ Rearranged(h, r, b, z, N) /\ Ascending(r, b, z)
        <4> HIDE DEF b, z
        <4>1. /\ r \in Arrays(N) /\ Rearranged(h, r, b, b + u - 1, N) /\ Ascending(r, b, b + u - 1)
          BY <1>1, <1>2, <2>3, <3>1, <3>2, PartSorts
        <4> QED BY <3>2, <4>1
      <3> HIDE DEF r
      <3> DEFINE e == a + l - 1
      <3>4. /\ a \in Int /\ z \in Int /\ b \in Int /\ e \in Int /\ 1 <= a /\ z <= N /\ e <= N /\ 1 <= b
            /\ a <= a /\ z <= z /\ e <= z /\ a <= b /\ b = z - u + 1 /\ e = a + l - 1 /\ e < z - u
            /\ \A i \in a .. z : i \in 1 .. N
        BY <1>1, <2>3
      <3>5. /\ \A i \in a .. e : g[i] < v
            /\ \A i \in e + 1 .. z - u : g[i] = v
            /\ \A i \in b .. z : g[i] > v
        BY <1>1, <2>3 DEF Gathered
      <3> HIDE DEF e, b, z
      <3>6. Rearranged(s, r, a, z, N)
        <4>1. Rearranged(s, h, a, z, N)
          BY <2>3, <3>1, <3>4, RearrangedTwice DEF e
        <4> QED BY <3>3, <3>4, <4>1, RearrangedTwice
      <3>7. /\ \A i \in a .. e : \E j \in a .. e : h[i] = g[j]
            /\ \A i \in 1 .. N : i \notin a .. e => h[i] = g[i]
        BY <3>1, <3>4, RearrangedElements DEF e
      <3>8. /\ \A i \in b .. z : \E j \in b .. z : r[i] = h[j]
            /\ \A i \in 1 .. N : i \notin b .. z => r[i] = h[i]
        BY <3>3, <3>4, RearrangedElements
      <3>9. ASSUME NEW i \in a .. e PROVE r[i] = h[i] /\ h[i] < v
        <4>1. i \in 1 .. N /\ i \notin b .. z
          BY <2>3, <3>4
        <4> QED BY <3>5, <3>7, <3>8, <4>1
      <3>10. ASSUME NEW i \in e + 1 .. z - u PROVE r[i] = v
        <4>1. i \in 1 .. N /\ i \notin b .. z /\ i \notin a .. e
          BY <2>3, <3>4
        <4> QED BY <3>5, <3>7, <3>8, <4>1
      <3>11. ASSUME NEW i \in b .. z PROVE r[i] > v
        <4>1. PICK j \in b .. z : r[i] = h[j]
          BY <3>8
        <4>2. j \in 1 .. N /\ j \notin a .. e
          BY <2>3, <3>4
        <4> QED BY <3>5, <3>7, <4>1, <4>2
      <3>12. \A i \in 1 .. N : r[i] \in Int /\ h[i] \in Int
        BY <3>1, <3>3 DEF Arrays
      <3>13. ASSUME NEW i \in a .. z - 1 PROVE r[i] <= r[i + 1]
        <4>1. i \in 1 .. N /\ i + 1 \in 1 .. N /\ i \in Int
          BY <3>4
        <4>2. CASE i \in a .. e - 1
          <5>1. i \in a .. e /\ i + 1 \in a .. e
            BY <3>4, <4>2
          <5>2. h[i] <= h[i + 1]
            BY <3>1, <4>2 DEF Ascending, e
          <5> QED BY <3>9, <5>1, <5>2
        <4>3. CASE i = e
          <5>1. i \in a .. e /\ i + 1 \in e + 1 .. z - u
            BY <2>3, <3>4, <4>3
          <5>2. r[i] < v /\ r[i + 1] = v
            BY <3>9, <3>10, <5>1
          <5> QED BY <2>3, <3>12, <4>1, <5>2
        <4>4. CASE i \in e + 1 .. z - u - 1
          <5>1. i \in e + 1 .. z - u /\ i + 1 \in e + 1 .. z - u
            BY <2>3, <3>4, <4>4
          <5>2. r[i] = v /\ r[i + 1] = v
            BY <3>10, <5>1
          <5> QED BY <2>3, <5>2
        <4>5. CASE i = z - u
          <5>1. i \in e + 1 .. z - u /\ i + 1 \in b .. z
            BY <2>3, <3>4, <4>5
          <5>2. r[i] = v /\ r[i + 1] > v
            BY <3>10, <3>11, <5>1
          <5> QED BY <2>3, <3>12, <4>1, <5>2
        <4>6. CASE i \in b .. z - 1
          BY <3>3, <4>6 DEF Ascending
        <4>7. i \in a .. e - 1 \/ i = e \/ i \in e + 1 .. z - u - 1 \/ i = z - u \/ i \in b .. z - 1
          BY <2>3, <3>4
        <4> QED BY <4>2, <4>3, <4>4, <4>5, <4>6, <4>7
      <3>14. Ascending(r, a, z)
        BY <3>13 DEF Ascending
      <3> QED BY <2>2, <2>5, <3>3, <3>6, <3>14
    <2> QED BY <2>4, <2>5
  <1> QED BY <1>3, <1>4

\* The body calls f for shorter ranges only.
LEMMA BodyDepends ==
    ASSUME NEW N \in Nat, NEW c \in ranges(N), NEW f, NEW f2,
           \A d \in ranges(N) : d.n < c.n => f[d] = f2[d] /\ Sorts(d, f[d], N)
    PROVE  SortBody(f, c) = SortBody(f2, c)
  <1> DEFINE a == c.a
             n == c.n
             p == Split(c)
             g == gather(p, a, n)
             l == p.pb - p.pa
             u == p.pd - p.pc
             b == a + n - u
  <1>1. CASE n < SMALL
    BY <1>1 DEF SortBody
  <1>2. CASE ~(n < SMALL)
    <2>1. a \in Nat /\ n \in Nat /\ 1 <= a /\ a + n <= N + 1
      BY DEF ranges
    <2>2. g \in Arrays(N) /\ l \in Nat /\ u \in Nat /\ l + u < n
      BY <1>2, SplitIs DEF SplitInto
    <2>3. SortBody(f, c) = (IF ~p.cnt THEN insertion(p.s, a, n) ELSE Lower(f, Lower(f, g, a, l), b, u))
      BY <1>2 DEF SortBody
    <2>4. SortBody(f2, c) = (IF ~p.cnt THEN insertion(p.s, a, n) ELSE Lower(f2, Lower(f2, g, a, l), b, u))
      BY <1>2 DEF SortBody
    <2>5. \A d \in ranges(N) : d.n < n => f[d] = f2[d] /\ Sorts(d, f[d], N)
      OBVIOUS
    <2> HIDE DEF a, n, p, g, l, u
    <2>6. b \in Nat /\ 1 <= b /\ b + u <= N + 1 /\ u < n /\ l < n /\ a + l <= N + 1
      BY <2>1, <2>2
    <2> HIDE DEF b
    <2>7. ASSUME NEW t \in Arrays(N), NEW x \in Nat, NEW k \in Nat, 1 <= x, x + k <= N + 1, k < n
          PROVE  Lower(f, t, x, k) = Lower(f2, t, x, k) /\ Lower(f, t, x, k) \in Arrays(N)
      <3>1. CASE k > 1
        <4> DEFINE d == [s |-> t, a |-> x, n |-> k]
        <4>1. d \in ranges(N) /\ d.n < n
          BY <2>7 DEF ranges, Arrays
        <4> HIDE DEF d
        <4>2. f[d] = f2[d] /\ f[d] \in Arrays(N)
          BY <2>5, <4>1 DEF Sorts
        <4> QED BY <3>1, <4>2 DEF Lower, d
      <3>2. CASE ~(k > 1)
        BY <3>2 DEF Lower
      <3> QED BY <3>1, <3>2
    <2>8. Lower(f, g, a, l) = Lower(f2, g, a, l) /\ Lower(f, g, a, l) \in Arrays(N)
      BY <2>1, <2>2, <2>6, <2>7
    <2>9. Lower(f, Lower(f, g, a, l), b, u) = Lower(f2, Lower(f, g, a, l), b, u)
      BY <2>2, <2>6, <2>7, <2>8
    <2> QED BY <2>3, <2>4, <2>8, <2>9
  <1> QED BY <1>1, <1>2

\* qsort sorts arrays of every length.
LEMMA QSorts ==
    ASSUME NEW N \in Nat, NEW array \in Arrays(N)
    PROVE  /\ qsort(array) \in Arrays(N) /\ Rearranged(array, qsort(array), 1, N, N)
           /\ Ascending(qsort(array), 1, N)
  <1> DEFINE All == ranges(N)
             D(m) == { c \in All : c.n <= m }
             Solves(f, m) == \A c \in D(m) : f[c] = SortBody(f, c) /\ Sorts(c, f[c], N)
             P == { m \in -1 .. N : \E f \in [D(m) -> Arrays(N)] : Solves(f, m) }
             Step(f) == [c \in All |-> SortBody(f, c)]
             sort == CHOOSE f : f = Step(f)
             whole == [s |-> array, a |-> 1, n |-> N]
             first == -1
  <1>1. qsort(array) = sort[whole]
    <2>1. Len(array) = N
      BY DEF Arrays
    <2> DEFINE T(k) ==
                 LET by[c \in ranges(k)] ==
                         IF c.n < SMALL THEN insertion(c.s, c.a, c.n)
                         ELSE LET p == partition(swap(c.s, c.a, pivot(c.s, c.a, c.n)), c.a, c.n)
                                  g == gather(p, c.a, c.n)
                                  lower == p.pb - p.pa
                                  upper == p.pd - p.pc
                                  h == IF lower > 1 THEN by[[s |-> g, a |-> c.a, n |-> lower]] ELSE g
                              IN  IF ~p.cnt THEN insertion(p.s, c.a, c.n)
                                  ELSE IF upper > 1 THEN by[[s |-> h, a |-> c.a + c.n - upper, n |-> upper]]
                                  ELSE h
                 IN  by[[s |-> array, a |-> 1, n |-> k]]
    <2>2. qsort(array) = T(Len(array))
      BY Zenon DEF qsort
    <2>3. T(N) = sort[whole]
      BY Zenon DEF SortBody, Split, Lower
    <2> HIDE DEF T
    <2> QED BY <2>1, <2>2, <2>3, Zenon
  <1>2. first \in Int /\ N \in Int /\ first <= N /\ N \in first .. N /\ first \in first .. N
    OBVIOUS
  <1>3. \A c \in All : c.n \in Nat /\ c.n <= N
    BY DEF ranges
  <1>4. whole \in All /\ whole.s = array /\ whole.a = 1 /\ whole.n = N
    BY DEF ranges, Arrays
  <1> HIDE DEF All, whole, Step
  <1>5. first \in P
    <2>1. \A c \in D(first) : FALSE
      BY <1>3
    <2> DEFINE f == [c \in D(first) |-> array]
    <2>2. f \in [D(first) -> Arrays(N)]
      OBVIOUS
    <2>3. Solves(f, first)
      BY <2>1
    <2> QED BY <1>2, <2>2, <2>3
  <1>6. ASSUME NEW m \in first .. N - 1, m \in P PROVE m + 1 \in P
    <2>1. PICK f \in [D(m) -> Arrays(N)] : Solves(f, m)
      BY <1>6
    <2> DEFINE f2 == [c \in D(m + 1) |-> IF c.n <= m THEN f[c] ELSE SortBody(f, c)]
    <2>2. m \in Int /\ m + 1 \in -1 .. N
      BY <1>2
    <2>3. ASSUME NEW c \in D(m + 1), NEW d \in All, d.n < c.n
          PROVE  d \in D(m) /\ d \in D(m + 1) /\ f2[d] = f[d] /\ Sorts(d, f[d], N)
      <3>1. d.n <= m /\ d.n <= m + 1
        BY <1>3, <2>2, <2>3
      <3> QED BY <2>1, <3>1
    <2> HIDE DEF f2, D
    <2>4. ASSUME NEW c \in D(m + 1)
          PROVE  SortBody(f, c) = SortBody(f2, c) /\ Sorts(c, SortBody(f, c), N) /\ c \in All
      <3>1. c \in ranges(N)
        BY DEF D, All
      <3>2. \A d \in ranges(N) : d.n < c.n => f[d] = f2[d] /\ Sorts(d, f[d], N)
        BY <2>3 DEF All
      <3>3. SortBody(f, c) = SortBody(f2, c)
        BY <3>1, <3>2, BodyDepends
      <3>4. Sorts(c, SortBody(f, c), N)
        BY <3>1, <3>2, BodySorts
      <3> QED BY <3>1, <3>3, <3>4 DEF All
    <2>5. ASSUME NEW c \in D(m + 1) PROVE f2[c] = SortBody(f2, c) /\ Sorts(c, f2[c], N) /\ f2[c] \in Arrays(N)
      <3>1. f2[c] = IF c.n <= m THEN f[c] ELSE SortBody(f, c)
        BY DEF f2
      <3>2. c.n <= m => f[c] = SortBody(f, c)
        BY <2>1, <2>4 DEF D
      <3>3. f2[c] = SortBody(f, c)
        BY <3>1, <3>2
      <3> QED BY <2>4, <3>3 DEF Sorts
    <2>6. f2 \in [D(m + 1) -> Arrays(N)]
      <3>1. f2 = [c \in D(m + 1) |-> f2[c]]
        BY DEF f2
      <3> QED BY <2>5, <3>1
    <2>7. Solves(f2, m + 1)
      BY <2>5
    <2> QED BY <2>2, <2>6, <2>7
  <1>7. N \in P
    <2>1. \A m \in first .. N : m \in P
      <3> HIDE DEF P, first
      <3> QED BY <1>2, <1>5, <1>6, UpTo
    <2> QED BY <1>2, <2>1
  <1>8. sort = Step(sort)
    <2>1. PICK f \in [D(N) -> Arrays(N)] : Solves(f, N)
      BY <1>7
    <2>2. D(N) = All
      BY <1>3
    <2>3. \A c \in All : f[c] = SortBody(f, c)
      BY <2>1, <2>2
    <2>4. f = [c \in All |-> f[c]]
      BY <2>1, <2>2
    <2>5. [c \in All |-> f[c]] = Step(f)
      BY <2>3, Zenon DEF Step
    <2>6. f = Step(f)
      BY <2>4, <2>5, Zenon
    <2> QED BY <2>6, Zenon
  <1> HIDE DEF sort, P
  <1>9. \A c \in All : sort[c] = SortBody(sort, c)
    BY <1>8, Zenon DEF Step
  <1> DEFINE Q == { m \in -1 .. N : \A c \in D(m) : Sorts(c, sort[c], N) }
  <1>10. first \in Q
    <2>1. \A c \in D(first) : FALSE
      BY <1>3
    <2> QED BY <1>2, <2>1
  <1>11. ASSUME NEW m \in first .. N - 1, m \in Q PROVE m + 1 \in Q
    <2>1. m \in Int /\ m + 1 \in -1 .. N
      BY <1>2
    <2>2. ASSUME NEW c \in D(m + 1) PROVE Sorts(c, sort[c], N)
      <3>1. c \in ranges(N) /\ c \in All
        BY DEF All
      <3>2. ASSUME NEW d \in ranges(N), d.n < c.n PROVE Sorts(d, sort[d], N)
        <4>1. d \in All
          BY DEF All
        <4>2. d.n <= m
          BY <1>3, <2>1, <3>1, <3>2, <4>1
        <4> QED BY <1>11, <4>1, <4>2
      <3>3. Sorts(c, SortBody(sort, c), N)
        <4> HIDE DEF D, Q
        <4> QED BY <3>1, <3>2, BodySorts
      <3> QED BY <1>9, <3>1, <3>3
    <2> QED BY <2>1, <2>2
  <1>12. N \in Q
    <2>1. \A m \in first .. N : m \in Q
      <3> HIDE DEF Q, first
      <3> QED BY <1>2, <1>10, <1>11, UpTo
    <2> QED BY <1>2, <2>1
  <1>13. Sorts(whole, sort[whole], N)
    BY <1>3, <1>4, <1>12
  <1>14. 1 + N - 1 = N
    OBVIOUS
  <1> QED BY <1>1, <1>4, <1>13, <1>14 DEF Sorts

\* Every call of qsort, for arrays of every length and both limits, returns the
\* elements of the array in ascending order.
THEOREM SortCorrect == Spec => []SortRight
  <1>1. Init => SortRight
    BY DEF Init, SortRight
  <1>2. SortRight /\ [Next]_vars => SortRight'
    <2> SUFFICES ASSUME SortRight, [Next]_vars PROVE SortRight'
      OBVIOUS
    <2>1. CASE SortArray
      <3>1. PICK n \in 0 .. MaxSort : \E s \in [1 .. n -> Keys] : Call("qsort", s, qsort(s))
        BY <2>1 DEF SortArray
      <3>2. PICK s \in [1 .. n -> Keys] : Call("qsort", s, qsort(s))
        BY <3>1
      <3>3. n \in Nat /\ s \in Arrays(n)
        <4>1. n \in Nat /\ Keys \subseteq Int
          BY KeysOK
        <4>2. s \in [1 .. n -> Int]
          BY <4>1, Zenon
        <4> QED BY <4>1, <4>2 DEF Arrays
      <3> DEFINE r == qsort(s)
                 occurrences(t, k) == Cardinality({ i \in DOMAIN t : t[i] = k })
                 Want(t, u) == /\ Len(u) = Len(t)
                               /\ \A i \in 1 .. Len(u) - 1 : u[i] <= u[i + 1]
                               /\ \A k \in Keys : occurrences(t, k) = occurrences(u, k)
      <3>4. r \in Arrays(n) /\ Rearranged(s, r, 1, n, n) /\ Ascending(r, 1, n)
        BY <3>3, QSorts
      <3>5. fn' = "qsort" /\ args' = s /\ result' = r
        BY <3>2 DEF Call
      <3> HIDE DEF r
      <3>6. DOMAIN s = 1 .. n /\ DOMAIN r = 1 .. n /\ Len(s) = n /\ Len(r) = n
        BY <3>3, <3>4 DEF Arrays
      <3>7. ASSUME NEW k PROVE occurrences(s, k) = occurrences(r, k)
        <4> DEFINE one == 1
                   Times(t, D) == Cardinality({ i \in D : t[i] = k })
        <4>1. Rearranged(s, r, one, n, n)
          BY <3>4
        <4> HIDE DEF one
        <4>2. SameOften(s, r, k, n)
          BY <3>3, <4>1, SameCount
        <4>3. Times(s, 1 .. n) = Times(r, 1 .. n)
          BY <4>2, Zenon DEF SameOften
        <4>4. Times(s, DOMAIN s) = Times(r, DOMAIN r)
          <5> HIDE DEF Times
          <5> QED BY <3>6, <4>3, Zenon
        <4> QED BY <4>4, Zenon
      <3>8. \A i \in 1 .. Len(r) - 1 : r[i] <= r[i + 1]
        BY <3>4, <3>6 DEF Ascending
      <3>9. Want(s, r)
        <4> HIDE DEF occurrences
        <4> QED BY <3>6, <3>7, <3>8
      <3>10. Want(args', result')
        <4> HIDE DEF Want
        <4> QED BY <3>5, <3>9, Zenon
      <3> QED BY <3>10, Zenon DEF SortRight
    <2>2. CASE Divide \/ AddLong \/ ShiftLong \/ Parse \/ Move \/ CopyText \/ Concat \/ Find \/ Tokenize
               \/ Multiply \/ Encrypt \/ Return
      <3>1. fn' # "qsort"
        BY <2>2 DEF Divide, AddLong, ShiftLong, Parse, Move, CopyText, Concat, Find, Tokenize, Multiply, Encrypt,
                    Return, Call
      <3> QED BY <3>1 DEF SortRight
    <2>3. CASE UNCHANGED vars
      BY <2>3 DEF vars, SortRight
    <2> QED BY <2>1, <2>2, <2>3 DEF Next, Calls
  <1> QED BY <1>1, <1>2, PTL DEF Spec

----------------------------------------------------------------------------
(* Gcm: polynomials over two elements, as sets of exponents.               *)

Bits == 4 * WordBits

\* One step of Reduce.
Fold(A, top) == IF top \in A THEN SymDiff(A \ {top}, { top - Bits + i : i \in Poly(R) }) ELSE A

Times(A, k) == { a + k : a \in A }

Reduction(f, X) == f[0] = X /\ \A d \in 1 .. Bits + 1 : f[d] \subseteq Int /\ f[d] = Fold(f[d - 1], 2 * Bits + 1 - d)

\* The number of bits is a positive number.
LEMMA BitsIs == Bits \in Nat /\ Bits > 0 /\ WordBits \in Nat /\ Bits = 4 * WordBits
  BY GcmSizes DEF Bits

\* A step of Reduce gives a set of numbers.
LEMMA FoldType ==
    ASSUME NEW A \in SUBSET Int, NEW top \in Int
    PROVE  Fold(A, top) \in SUBSET Int
  <1> DEFINE Q == { top - Bits + i : i \in Poly(R) }
  <1>1. Q \subseteq Int
    BY BitsIs DEF Poly
  <1> HIDE DEF Q
  <1>2. SymDiff(A \ {top}, Q) \in SUBSET Int
    BY <1>1 DEF SymDiff
  <1>3. Fold(A, top) = IF top \in A THEN SymDiff(A \ {top}, Q) ELSE A
    BY Zenon DEF Fold, Q
  <1> QED BY <1>2, <1>3

\* Reduce takes its steps one after the other.
LEMMA ReduceIs ==
    ASSUME NEW X \in SUBSET Int
    PROVE  \E f : Reduction(f, X) /\ Reduce(X) = f[Bits + 1]
  <1> DEFINE e == Bits + 1
             z == 0
             top(d) == 2 * Bits + 1 - d
             S == SUBSET Int
             Step(f) == [d \in z .. e |-> IF d = z THEN X ELSE Fold(f[d - 1], top(d))]
             below == CHOOSE f : f = Step(f)
             F == [d \in z + 1 .. e |-> [A \in S |-> Fold(A, top(d))]]
  <1>1. Reduce(X) = below[e]
    BY Zenon DEF Reduce, Fold, Bits
  <1>2. z \in Int /\ e \in Int /\ z <= e /\ z \in z .. e /\ e \in z .. e /\ X \in S
    BY BitsIs
  <1>3. F \in [z + 1 .. e -> [S -> S]]
    <2> SUFFICES ASSUME NEW d \in z + 1 .. e, NEW A \in S PROVE Fold(A, top(d)) \in S
      OBVIOUS
    <2>1. top(d) \in Int
      BY <1>2, BitsIs
    <2> HIDE DEF top
    <2> QED BY <2>1, FoldType
  <1> HIDE DEF S, F, e, z, top
  <1>4. PICK f \in [z .. e -> S] : Recursive(f, z, e, X, F)
    BY <1>2, <1>3, Recursion
  <1>5. \A d \in z .. e : f[d] = IF d = z THEN X ELSE F[d][f[d - 1]]
    BY <1>4, Zenon DEF Recursive
  <1>6. ASSUME NEW d \in z .. e PROVE f[d] = IF d = z THEN X ELSE Fold(f[d - 1], top(d))
    <2>1. d # z => d \in z + 1 .. e /\ d - 1 \in z .. e
      BY <1>2
    <2>2. d # z => F[d][f[d - 1]] = Fold(f[d - 1], top(d))
      BY <1>4, <2>1, Zenon DEF F
    <2> QED BY <1>5, <2>2
  <1>7. f = Step(f)
    <2>1. f = [d \in z .. e |-> f[d]]
      BY <1>4
    <2>2. [d \in z .. e |-> f[d]] = Step(f)
      BY <1>6, Zenon
    <2> QED BY <2>1, <2>2, Zenon
  <1>8. below = Step(below)
    BY <1>7, Zenon
  <1> HIDE DEF below
  <1>9. \A d \in z .. e : below[d] = IF d = z THEN X ELSE Fold(below[d - 1], top(d))
    BY <1>8, Zenon
  <1> DEFINE P == { d \in z .. e : below[d] \in S }
  <1>10. z \in P
    BY <1>2, <1>9
  <1>11. ASSUME NEW d \in z .. e - 1, d \in P PROVE d + 1 \in P
    <2>1. d + 1 \in z .. e /\ d + 1 # z /\ (d + 1) - 1 = d /\ top(d + 1) \in Int
      BY <1>2, BitsIs DEF top
    <2>2. below[d + 1] = Fold(below[d], top(d + 1)) /\ below[d] \in S
      BY <1>9, <1>11, <2>1
    <2>3. Fold(below[d], top(d + 1)) \in S
      BY <2>1, <2>2, FoldType DEF S
    <2> QED BY <2>1, <2>2, <2>3
  <1>12. \A d \in z .. e : d \in P
    <2> HIDE DEF P
    <2> QED BY <1>2, <1>10, <1>11, UpTo
  <1>13. ASSUME NEW d \in 1 .. Bits + 1 PROVE below[d] \subseteq Int /\ below[d] = Fold(below[d - 1], 2 * Bits + 1 - d)
    <2>1. d \in z .. e /\ d # z
      BY BitsIs DEF z, e
    <2> QED BY <1>9, <1>12, <2>1 DEF top, S
  <1>14. below[0] = X
    BY <1>2, <1>9 DEF z
  <1>15. Reduction(below, X)
    BY <1>13, <1>14 DEF Reduction
  <1> QED BY <1>1, <1>15 DEF e

\* A sum has the exponents that exactly one of its terms has.
LEMMA SumHas ==
    ASSUME NEW A, NEW B, NEW x
    PROVE  x \in SymDiff(A, B) <=> ~(x \in A <=> x \in B)
  BY DEF SymDiff

\* A sum of polynomials is one.
LEMMA SumType ==
    ASSUME NEW S, NEW A \in SUBSET S, NEW B \in SUBSET S
    PROVE  SymDiff(A, B) \in SUBSET S
  BY DEF SymDiff

\* What a multiple by a power of x holds.
LEMMA TimesHas ==
    ASSUME NEW A \in SUBSET Int, NEW k \in Int
    PROVE  Times(A, k) \in SUBSET Int /\ \A x \in Int : x \in Times(A, k) <=> x - k \in A
  <1>1. Times(A, k) \in SUBSET Int
    BY DEF Times
  <1>2. ASSUME NEW x \in Int, x - k \in A PROVE x \in Times(A, k)
    <2>1. x = (x - k) + k
      OBVIOUS
    <2> QED BY <1>2, <2>1 DEF Times
  <1>3. ASSUME NEW x \in Int, x \in Times(A, k) PROVE x - k \in A
    <2>1. PICK a \in A : x = a + k
      BY <1>3 DEF Times
    <2>2. x - k = a
      BY <2>1
    <2> QED BY <2>2
  <1> QED BY <1>1, <1>2, <1>3

\* What a step of Reduce leaves.
LEMMA FoldHas ==
    ASSUME NEW A \in SUBSET Int, NEW top \in Int, NEW x \in Int
    PROVE  x \in Fold(A, top) <=> IF top \in A THEN ~((x \in A /\ x # top) <=> x - (top - Bits) \in Poly(R))
                                               ELSE x \in A
  <1> DEFINE Q == { top - Bits + i : i \in Poly(R) }
  <1>1. x \in Q <=> x - (top - Bits) \in Poly(R)
    <2>1. Poly(R) \subseteq Int /\ Bits \in Int
      BY BitsIs DEF Poly
    <2>2. ASSUME x \in Q PROVE x - (top - Bits) \in Poly(R)
      <3>1. PICK i \in Poly(R) : x = top - Bits + i
        BY <2>2
      <3>2. x - (top - Bits) = i
        BY <2>1, <3>1
      <3> QED BY <3>2
    <2>3. ASSUME x - (top - Bits) \in Poly(R) PROVE x \in Q
      <3>1. x = top - Bits + (x - (top - Bits))
        BY <2>1
      <3> QED BY <2>3, <3>1
    <2> QED BY <2>2, <2>3
  <1> HIDE DEF Q
  <1>2. Fold(A, top) = IF top \in A THEN SymDiff(A \ {top}, Q) ELSE A
    BY Zenon DEF Fold, Q
  <1>3. x \in SymDiff(A \ {top}, Q) <=> ~(x \in A \ {top} <=> x \in Q)
    BY SumHas, Zenon
  <1>4. CASE top \in A
    BY <1>1, <1>2, <1>3, <1>4
  <1>5. CASE top \notin A
    BY <1>2, <1>5
  <1> QED BY <1>4, <1>5

\* A step of Reduce is linear.
LEMMA FoldSum ==
    ASSUME NEW A \in SUBSET Int, NEW B \in SUBSET Int, NEW top \in Int
    PROVE  Fold(SymDiff(A, B), top) = SymDiff(Fold(A, top), Fold(B, top))
  <1> DEFINE C == SymDiff(A, B)
  <1>1. C \in SUBSET Int /\ (top \in C <=> ~(top \in A <=> top \in B)) /\ \A x : x \in C <=> ~(x \in A <=> x \in B)
    BY SumType, SumHas
  <1> HIDE DEF C
  <1>2. Fold(C, top) \in SUBSET Int /\ Fold(A, top) \in SUBSET Int /\ Fold(B, top) \in SUBSET Int
    BY <1>1, FoldType
  <1>3. SymDiff(Fold(A, top), Fold(B, top)) \in SUBSET Int
    BY <1>2, SumType
  <1>4. ASSUME NEW x \in Int PROVE x \in Fold(C, top) <=> x \in SymDiff(Fold(A, top), Fold(B, top))
    <2> DEFINE q == x - (top - Bits) \in Poly(R)
    <2>1. x \in Fold(C, top) <=> IF top \in C THEN ~((x \in C /\ x # top) <=> q) ELSE x \in C
      BY <1>1, FoldHas
    <2>2. x \in Fold(A, top) <=> IF top \in A THEN ~((x \in A /\ x # top) <=> q) ELSE x \in A
      BY FoldHas
    <2>3. x \in Fold(B, top) <=> IF top \in B THEN ~((x \in B /\ x # top) <=> q) ELSE x \in B
      BY FoldHas
    <2>4. x \in SymDiff(Fold(A, top), Fold(B, top)) <=> ~(x \in Fold(A, top) <=> x \in Fold(B, top))
      BY SumHas
    <2> HIDE DEF q
    <2> QED BY <1>1, <2>1, <2>2, <2>3, <2>4
  <1>5. Fold(C, top) = SymDiff(Fold(A, top), Fold(B, top))
    BY <1>2, <1>3, <1>4
  <1> QED BY <1>5 DEF C

\* A step of Reduce commutes with multiplication by x.
LEMMA FoldTimes ==
    ASSUME NEW A \in SUBSET Int, NEW top \in Int
    PROVE  Fold(Times(A, 1), top + 1) = Times(Fold(A, top), 1)
  <1> DEFINE one == 1
             B == Times(A, one)
             u == top + 1
  <1>1. one \in Int /\ u \in Int /\ Bits \in Int
    BY BitsIs
  <1>2. Fold(A, top) \in SUBSET Int
    BY FoldType
  <1>3. B \in SUBSET Int /\ \A x \in Int : x \in B <=> x - one \in A
    <2> HIDE DEF one
    <2> QED BY <1>1, TimesHas
  <1>4. /\ Times(Fold(A, top), one) \in SUBSET Int
        /\ \A x \in Int : x \in Times(Fold(A, top), one) <=> x - one \in Fold(A, top)
    <2> HIDE DEF one
    <2> QED BY <1>1, <1>2, TimesHas
  <1> HIDE DEF B
  <1>5. Fold(B, u) \in SUBSET Int
    BY <1>1, <1>3, FoldType
  <1>6. ASSUME NEW x \in Int PROVE x \in Fold(B, u) <=> x \in Times(Fold(A, top), one)
    <2> DEFINE y == x - 1
    <2>1. y \in Int /\ x - (u - Bits) = y - (top - Bits) /\ (x # u <=> y # top) /\ u - one = top /\ y = x - one
      BY <1>1
    <2> HIDE DEF y
    <2>2. x \in Fold(B, u) <=> IF u \in B THEN ~((x \in B /\ x # u) <=> x - (u - Bits) \in Poly(R)) ELSE x \in B
      <3> HIDE DEF u
      <3> QED BY <1>1, <1>3, FoldHas
    <2>3. y \in Fold(A, top) <=> IF top \in A THEN ~((y \in A /\ y # top) <=> y - (top - Bits) \in Poly(R)) ELSE y \in A
      BY <2>1, FoldHas
    <2>4. (x \in B <=> y \in A) /\ (u \in B <=> top \in A) /\ (x \in Times(Fold(A, top), one) <=> y \in Fold(A, top))
      BY <1>1, <1>3, <1>4, <2>1
    <2> HIDE DEF u, one
    <2> QED BY <2>1, <2>2, <2>3, <2>4
  <1>7. Fold(B, u) = Times(Fold(A, top), one)
    BY <1>4, <1>5, <1>6
  <1> QED BY <1>7 DEF B, u, one

\* Reduction is linear.
LEMMA ReduceSum ==
    ASSUME NEW A \in SUBSET Int, NEW B \in SUBSET Int
    PROVE  Reduce(SymDiff(A, B)) = SymDiff(Reduce(A), Reduce(B))
  <1> DEFINE C == SymDiff(A, B)
             e == Bits + 1
             z == 0
             top(d) == 2 * Bits + 1 - d
  <1>1. C \in SUBSET Int
    BY SumType
  <1>2. PICK f : Reduction(f, A) /\ Reduce(A) = f[Bits + 1]
    BY ReduceIs
  <1>3. PICK g : Reduction(g, B) /\ Reduce(B) = g[Bits + 1]
    BY ReduceIs
  <1> HIDE DEF C
  <1>4. PICK h : Reduction(h, C) /\ Reduce(C) = h[Bits + 1]
    BY <1>1, ReduceIs
  <1> DEFINE P == { d \in z .. e : f[d] \in SUBSET Int /\ g[d] \in SUBSET Int /\ h[d] = SymDiff(f[d], g[d]) }
  <1>5. z \in Int /\ e \in Int /\ z \in z .. e /\ e \in z .. e
    BY BitsIs
  <1>6. z \in P
    <2>1. f[z] = A /\ g[z] = B /\ h[z] = C
      BY <1>2, <1>3, <1>4 DEF Reduction
    <2> QED BY <1>5, <2>1 DEF C
  <1>7. ASSUME NEW d \in z .. e - 1, d \in P PROVE d + 1 \in P
    <2> DEFINE c == d + 1
    <2>1. c \in z .. e /\ c \in 1 .. Bits + 1 /\ c - 1 = d /\ top(c) \in Int
      BY BitsIs
    <2> HIDE DEF c
    <2>2. /\ f[c] \in SUBSET Int /\ f[c] = Fold(f[d], top(c)) /\ g[c] \in SUBSET Int /\ g[c] = Fold(g[d], top(c))
          /\ h[c] = Fold(h[d], top(c))
      BY <1>2, <1>3, <1>4, <2>1 DEF Reduction
    <2>3. f[d] \in SUBSET Int /\ g[d] \in SUBSET Int /\ h[d] = SymDiff(f[d], g[d])
      BY <1>7
    <2> HIDE DEF top
    <2>4. Fold(SymDiff(f[d], g[d]), top(c)) = SymDiff(Fold(f[d], top(c)), Fold(g[d], top(c)))
      BY <2>1, <2>3, FoldSum
    <2>5. h[c] = SymDiff(f[c], g[c])
      BY <2>2, <2>3, <2>4
    <2>6. c \in P
      BY <2>1, <2>2, <2>5
    <2> QED BY <2>6 DEF c
  <1>8. e \in P
    <2>1. \A d \in z .. e : d \in P
      <3> HIDE DEF P, e, z
      <3> QED BY <1>5, <1>6, <1>7, UpTo
    <2> QED BY <1>5, <2>1
  <1>9. Reduce(C) = SymDiff(Reduce(A), Reduce(B))
    BY <1>2, <1>3, <1>4, <1>8
  <1> QED BY <1>9 DEF C

\* A polynomial of low degree is reduced.
LEMMA ReduceLow ==
    ASSUME NEW A \in SUBSET (0 .. Bits - 1)
    PROVE  Reduce(A) = A
  <1> DEFINE e == Bits + 1
             z == 0
  <1>1. A \in SUBSET Int
    BY BitsIs
  <1>2. PICK f : Reduction(f, A) /\ Reduce(A) = f[Bits + 1]
    BY <1>1, ReduceIs
  <1> DEFINE P == { d \in z .. e : f[d] = A }
  <1>3. z \in Int /\ e \in Int /\ z \in z .. e /\ e \in z .. e
    BY BitsIs
  <1>4. z \in P
    BY <1>2, <1>3 DEF Reduction
  <1>5. ASSUME NEW d \in z .. e - 1, d \in P PROVE d + 1 \in P
    <2> DEFINE c == d + 1
               top == 2 * Bits + 1 - c
    <2>1. c \in z .. e /\ c \in 1 .. Bits + 1 /\ c - 1 = d /\ top \notin 0 .. Bits - 1
      BY BitsIs
    <2> HIDE DEF c
    <2>2. f[c] = Fold(f[d], top)
      BY <1>2, <2>1 DEF Reduction
    <2> HIDE DEF top
    <2>3. f[c] = Fold(A, top)
      BY <1>5, <2>2
    <2>4. top \notin A
      BY <2>1
    <2>5. Fold(A, top) = A
      BY <2>4 DEF Fold
    <2>6. c \in P
      BY <2>1, <2>3, <2>5
    <2> QED BY <2>6 DEF c
  <1>6. e \in P
    <2>1. \A d \in z .. e : d \in P
      <3> HIDE DEF P, e, z
      <3> QED BY <1>3, <1>4, <1>5, UpTo
    <2> QED BY <1>3, <2>1
  <1> QED BY <1>2, <1>6

\* Multiplication by x can be done after the reduction, with one more step.
LEMMA ReduceTimes ==
    ASSUME NEW A \in SUBSET (0 .. 2 * Bits - 1)
    PROVE  Reduce(Times(A, 1)) = Fold(Times(Reduce(A), 1), Bits)
  <1> DEFINE one == 1
             B == Times(A, one)
             e == Bits
             z == 0
             top(d) == 2 * Bits + 1 - d
  <1>1. A \in SUBSET Int /\ one \in Int
    BY BitsIs
  <1>2. B \in SUBSET Int
    <2> HIDE DEF one
    <2> QED BY <1>1, TimesHas
  <1>3. PICK f : Reduction(f, A) /\ Reduce(A) = f[Bits + 1]
    BY <1>1, ReduceIs
  <1> HIDE DEF B
  <1>4. PICK g : Reduction(g, B) /\ Reduce(B) = g[Bits + 1]
    BY <1>2, ReduceIs
  <1> DEFINE P == { d \in z .. e : g[d] = Times(f[d + 1], 1) }
  <1>5. z \in Int /\ e \in Int /\ z \in z .. e /\ e \in z .. e
    BY BitsIs
  <1>6. z \in P
    <2>1. f[1] = Fold(f[0], 2 * Bits)
      <3>1. 1 \in 1 .. Bits + 1 /\ 1 - 1 = 0 /\ 2 * Bits + 1 - 1 = 2 * Bits
        BY BitsIs
      <3> QED BY <1>3, <3>1 DEF Reduction
    <2>2. 2 * Bits \notin 0 .. 2 * Bits - 1
      BY BitsIs
    <2>3. f[0] = A /\ g[0] = B /\ 2 * Bits \notin A
      BY <1>3, <1>4, <2>2 DEF Reduction
    <2>4. f[1] = A
      BY <2>1, <2>3 DEF Fold
    <2>5. g[z] = Times(f[z + 1], 1)
      BY <2>3, <2>4 DEF B
    <2> QED BY <1>5, <2>5
  <1>7. ASSUME NEW d \in z .. e - 1, d \in P PROVE d + 1 \in P
    <2> DEFINE c == d + 1
               k == c + 1
               t == top(k)
    <2>1. /\ c \in z .. e /\ c \in 1 .. Bits + 1 /\ c - 1 = d /\ top(c) = t + 1 /\ t \in Int
          /\ k \in 1 .. Bits + 1 /\ k - 1 = c
      BY BitsIs
    <2>2. g[d] = Times(f[c], 1)
      BY <1>7
    <2> HIDE DEF c, k
    <2>3. f[c] \in SUBSET Int /\ f[k] = Fold(f[c], t) /\ g[c] = Fold(g[d], top(c))
      BY <1>3, <1>4, <2>1 DEF Reduction
    <2> HIDE DEF top, t
    <2>4. Fold(Times(f[c], 1), t + 1) = Times(Fold(f[c], t), 1)
      BY <2>1, <2>3, FoldTimes
    <2>5. g[c] = Times(f[k], 1)
      BY <2>1, <2>2, <2>3, <2>4
    <2>6. c \in P
      BY <2>1, <2>5 DEF k
    <2> QED BY <2>6 DEF c
  <1>8. e \in P
    <2>1. \A d \in z .. e : d \in P
      <3> HIDE DEF P, e, z
      <3> QED BY <1>5, <1>6, <1>7, UpTo
    <2> QED BY <1>5, <2>1
  <1>9. g[Bits + 1] = Fold(g[Bits], Bits)
    <2> DEFINE k == Bits + 1
    <2>1. k \in 1 .. Bits + 1 /\ k - 1 = Bits /\ 2 * Bits + 1 - k = Bits
      BY BitsIs
    <2>2. g[k] = Fold(g[k - 1], 2 * Bits + 1 - k)
      <3> HIDE DEF k
      <3> QED BY <1>4, <2>1 DEF Reduction
    <2> HIDE DEF k
    <2>3. g[k] = Fold(g[Bits], Bits)
      BY <2>1, <2>2
    <2> QED BY <2>3 DEF k
  <1>10. g[Bits] = Times(f[Bits + 1], 1)
    BY <1>8
  <1> QED BY <1>3, <1>4, <1>9, <1>10 DEF B

\* The product grows by a multiple of Y when X gets one more exponent.
LEMMA ProductNext ==
    ASSUME NEW X \in SUBSET (0 .. Bits - 1), NEW Y \in SUBSET (0 .. Bits - 1), NEW i \in 0 .. Bits - 1, i \notin X
    PROVE  Product(X \cup {i}, Y) = SymDiff(Product(X, Y), Times(Y, i))
  <1> DEFINE N(Z, k) == { j \in Z : k - j \in Y }
             T == Times(Y, i)
  <1>1. /\ X \in SUBSET Int /\ Y \in SUBSET Int /\ i \in Int /\ 8 * WordBits = 2 * Bits /\ 2 * Bits \in Nat
        /\ IsFiniteSet(0 .. Bits - 1)
    BY BitsIs, FS_Interval
  <1>2. T \in SUBSET Int /\ \A x \in Int : x \in T <=> x - i \in Y
    BY <1>1, TimesHas
  <1>3. T \in SUBSET (0 .. 8 * WordBits)
    BY <1>1, BitsIs DEF Times
  <1> HIDE DEF T
  <1>4. ASSUME NEW k \in 0 .. 8 * WordBits
        PROVE  k \in Product(X \cup {i}, Y) <=> ~(k \in Product(X, Y) <=> k \in T)
    <2> DEFINE M == N(X, k)
    <2>1. k \in Int
      BY <1>1
    <2>2. IsFiniteSet(M)
      <3>1. M \in SUBSET (0 .. Bits - 1)
        OBVIOUS
      <3> QED BY <1>1, <3>1, FS_Subset
    <2>3. Cardinality(M) \in Nat
      BY <2>2, FS_CardinalityType
    <2>4. k \in Product(X, Y) <=> Cardinality(M) % 2 = 1
      BY DEF Product
    <2>5. k \in Product(X \cup {i}, Y) <=> Cardinality(N(X \cup {i}, k)) % 2 = 1
      BY DEF Product
    <2>6. CASE k \in T
      <3>1. k - i \in Y
        BY <1>2, <2>1, <2>6
      <3>2. N(X \cup {i}, k) = M \cup {i}
        BY <3>1
      <3>3. i \notin M
        OBVIOUS
      <3> HIDE DEF M, N
      <3>4. Cardinality(M \cup {i}) = Cardinality(M) + 1
        BY <2>2, <3>3, FS_AddElement
      <3>5. (Cardinality(M) + 1) % 2 = 1 <=> ~(Cardinality(M) % 2 = 1)
        BY <2>3
      <3> QED BY <2>4, <2>5, <2>6, <3>2, <3>4, <3>5
    <2>7. CASE k \notin T
      <3>1. k - i \notin Y
        BY <1>2, <2>1, <2>7
      <3>2. N(X \cup {i}, k) = M
        BY <3>1
      <3> HIDE DEF M, N
      <3> QED BY <2>4, <2>5, <2>7, <3>2
    <2> QED BY <2>6, <2>7
  <1>5. Product(X \cup {i}, Y) \in SUBSET (0 .. 8 * WordBits) /\ Product(X, Y) \in SUBSET (0 .. 8 * WordBits)
    BY DEF Product
  <1> HIDE DEF N
  <1>6. SymDiff(Product(X, Y), T) \in SUBSET (0 .. 8 * WordBits)
    <2> DEFINE S == 0 .. 8 * WordBits
    <2>1. T \in SUBSET S /\ Product(X, Y) \in SUBSET S
      BY <1>3, <1>5
    <2> HIDE DEF S
    <2>2. SymDiff(Product(X, Y), T) \in SUBSET S
      BY <2>1, SumType
    <2> QED BY <2>2 DEF S
  <1>7. \A k : k \in SymDiff(Product(X, Y), T) <=> ~(k \in Product(X, Y) <=> k \in T)
    BY SumHas
  <1>8. Product(X \cup {i}, Y) = SymDiff(Product(X, Y), T)
    BY <1>4, <1>5, <1>6, <1>7, Zenon
  <1> QED BY <1>8 DEF T

\* The empty product.
LEMMA ProductEmpty ==
    ASSUME NEW Y PROVE Product({}, Y) = {}
  <1>1. \A k : { i \in {} : k - i \in Y } = {}
    OBVIOUS
  <1>2. Cardinality({}) = 0
    BY FS_EmptySet
  <1> QED BY <1>1, <1>2 DEF Product

----------------------------------------------------------------------------
(* Gcm: words and their bits.                                              *)

\* Powers of two up to the range of a word.
LEMMA WordPower ==
    ASSUME NEW m \in 0 .. WordBits
    PROVE  /\ 2^m \in Nat \ {0}
           /\ \A k \in 0 .. m : 2^k \in Nat \ {0} /\ 2^(m - k) \in Nat \ {0} /\ 2^m = 2^k * 2^(m - k)
           /\ m > 0 => 2^m = 2 * 2^(m - 1)
           /\ 2^0 = 1
  <1>1. 2^m \in Nat \ {0} /\ \A k \in 0 .. m : 2^m = 2^k * 2^(m - k)
    BY GcmPowers
  <1>2. ASSUME NEW k \in 0 .. m PROVE 2^k \in Nat \ {0} /\ 2^(m - k) \in Nat \ {0}
    <2>1. k \in 0 .. WordBits /\ m - k \in 0 .. WordBits
      BY BitsIs
    <2> QED BY <2>1, GcmPowers
  <1>3. 2^1 = 2 /\ 2^0 = 1
    OBVIOUS
  <1>4. ASSUME m > 0 PROVE 2^m = 2 * 2^(m - 1)
    <2>1. 1 \in 0 .. m
      BY <1>4
    <2>2. 2^m = 2^1 * 2^(m - 1)
      BY <1>1, <2>1
    <2> QED BY <1>3, <2>2
  <1> QED BY <1>1, <1>2, <1>3, <1>4

\* A multiple of the divisor adds to the quotient.
LEMMA DivAdd ==
    ASSUME NEW x \in Nat, NEW c \in Nat, NEW B \in Nat \ {0}
    PROVE  (x + B * c) \div B = x \div B + c /\ x \div B \in Nat
  <1> DEFINE q == x \div B
             r == x % B
  <1>0. x \in Int
    OBVIOUS
  <1>1. q \in Nat /\ r \in 0 .. B - 1 /\ x = q * B + r
    BY <1>0, DivModIs
  <1> HIDE DEF q, r
  <1>2. x + B * c = (q + c) * B + r /\ q + c \in Int /\ x + B * c \in Int
    BY <1>1
  <1>3. (x + B * c) \div B = q + c
    <2> DEFINE y == x + B * c
               s == q + c
    <2>1. y = s * B + r /\ y \in Int /\ s \in Int
      BY <1>2
    <2> HIDE DEF y, s
    <2>2. y \div B = s
      BY <1>1, <2>1, DivMod
    <2> QED BY <2>2 DEF y, s
  <1> QED BY <1>1, <1>3 DEF q

\* Quotients of quotients.
LEMMA DivDiv ==
    ASSUME NEW x \in Nat, NEW a \in Nat \ {0}, NEW b \in Nat \ {0}
    PROVE  (x \div a) \div b = x \div (a * b) /\ x \div a \in Nat
  <1> DEFINE q == x \div a
             r == x % a
             Q == q \div b
             s == q % b
             t == s * a + r
             c == b * a
  <1>0. x \in Int
    OBVIOUS
  <1>1. q \in Nat /\ r \in 0 .. a - 1 /\ x = q * a + r
    BY <1>0, DivModIs
  <1>2. Q \in Nat /\ s \in 0 .. b - 1 /\ q = Q * b + s
    <2> HIDE DEF q
    <2>1. q \in Int /\ q \in Nat
      BY <1>1
    <2> QED BY <2>1, DivModIs
  <1>3. t \in 0 .. c - 1
    <2> HIDE DEF s, r
    <2> QED BY <1>1, <1>2, TwoDigits
  <1>4. c \in Nat \ {0} /\ c = a * b
    OBVIOUS
  <1>5. x = Q * c + t
    <2> HIDE DEF q, r, Q, s
    <2>1. Q * (b * a) = (Q * b) * a /\ (Q * b + s) * a = (Q * b) * a + s * a
      BY <1>1, <1>2
    <2>2. q * a = (Q * b) * a + s * a
      BY <1>2, <2>1
    <2>3. s * a \in Nat /\ r \in Nat /\ (Q * b) * a \in Nat
      BY <1>1, <1>2
    <2>4. x = ((Q * b) * a + s * a) + r
      BY <1>1, <2>2
    <2> QED BY <2>1, <2>3, <2>4
  <1>6. Q \in Int
    BY <1>2
  <1> HIDE DEF t, c, Q
  <1>7. x \div c = Q
    BY <1>0, <1>3, <1>4, <1>5, <1>6, DivMod
  <1> QED BY <1>1, <1>4, <1>7 DEF Q

\* An even number changes no last bit.
LEMMA ModEven ==
    ASSUME NEW x \in Nat, NEW c \in Nat
    PROVE  (x + 2 * c) % 2 = x % 2
  OBVIOUS

\* A higher bit changes no lower one.
LEMMA HighBit ==
    ASSUME NEW m \in 0 .. WordBits, NEW j \in 0 .. m - 1, NEW x \in Nat, NEW b \in Nat
    PROVE  ((x + 2^m * b) \div 2^j) % 2 = (x \div 2^j) % 2
  <1> DEFINE B == 2^j
             D == 2^(m - j - 1)
             A == 2^m
  <1>1. B \in Nat \ {0} /\ D \in Nat \ {0} /\ A = B * (2 * D)
    <2> DEFINE k == m - j
    <2>1. j \in 0 .. m /\ k \in 0 .. WordBits /\ k > 0 /\ m - j - 1 = k - 1 /\ k - 1 \in 0 .. WordBits
      BY BitsIs
    <2>2. 2^j \in Nat \ {0} /\ 2^m = 2^j * 2^k
      BY <2>1, WordPower
    <2>3. 2^k = 2 * 2^(k - 1)
      <3> HIDE DEF k
      <3> QED BY <2>1, WordPower
    <2>4. 2^(k - 1) \in Nat \ {0}
      BY <2>1, GcmPowers
    <2> QED BY <2>1, <2>2, <2>3, <2>4
  <1> HIDE DEF A, B, D
  <1> DEFINE c == (2 * D) * b
             q == x \div B
  <1>2. c \in Nat /\ c = 2 * (D * b) /\ D * b \in Nat /\ A * b = B * c
    BY <1>1
  <1> HIDE DEF c
  <1>3. (x + B * c) \div B = q + c /\ q \in Nat
    BY <1>1, <1>2, DivAdd
  <1> HIDE DEF q
  <1>4. (q + 2 * (D * b)) % 2 = q % 2
    <2> DEFINE u == D * b
    <2>1. u \in Nat
      BY <1>2
    <2> HIDE DEF u
    <2>2. (q + 2 * u) % 2 = q % 2
      BY <1>3, <2>1, ModEven
    <2> QED BY <2>2 DEF u
  <1>5. ((x + A * b) \div B) % 2 = q % 2
    BY <1>2, <1>3, <1>4
  <1> QED BY <1>5 DEF A, B, q

Elements == [1 .. 4 -> 0 .. 2^WordBits - 1]

\* xor_word adds the words bit by bit.
LEMMA XorWord ==
    ASSUME NEW a \in Nat, NEW b \in Nat
    PROVE  /\ xor_word(a, b) \in 0 .. 2^WordBits - 1
           /\ \A j \in 0 .. WordBits - 1 : (xor_word(a, b) \div 2^j) % 2 = XorBit(a \div 2^j, b \div 2^j)
  <1> DEFINE e == WordBits
             z == 0
             bit(m) == XorBit(a \div 2^m, b \div 2^m)
             Step(f) == [m \in z .. e |-> IF m = z THEN 0 ELSE f[m - 1] + 2^(m - 1) * bit(m - 1)]
             x == CHOOSE f : f = Step(f)
             F == [m \in z + 1 .. e |-> [v \in Nat |-> v + 2^(m - 1) * bit(m - 1)]]
             zero == 0
  <1>1. xor_word(a, b) = x[e]
    BY Zenon DEF xor_word
  <1>2. z \in Int /\ e \in Int /\ z <= e /\ z \in z .. e /\ e \in z .. e /\ zero \in Nat
    BY BitsIs
  <1>3. ASSUME NEW m \in z .. e - 1 PROVE 2^m \in Nat \ {0} /\ bit(m) \in 0 .. 1
    <2>1. m \in 0 .. WordBits
      BY BitsIs
    <2>2. 2^m \in Nat \ {0}
      BY <2>1, GcmPowers
    <2> DEFINE p == 2^m
    <2> HIDE DEF p
    <2>3. (a \div p + b \div p) % 2 \in 0 .. 1
      BY <2>2 DEF p
    <2> QED BY <2>2, <2>3 DEF p, XorBit
  <1> HIDE DEF bit
  <1>4. F \in [z + 1 .. e -> [Nat -> Nat]]
    <2> SUFFICES ASSUME NEW m \in z + 1 .. e, NEW v \in Nat PROVE v + 2^(m - 1) * bit(m - 1) \in Nat
      BY Zenon
    <2>1. m - 1 \in z .. e - 1
      BY <1>2
    <2>2. 2^(m - 1) \in Nat /\ bit(m - 1) \in Nat
      BY <1>3, <2>1
    <2> QED BY <2>2
  <1> HIDE DEF F, e, z, zero
  <1>5. PICK f \in [z .. e -> Nat] : Recursive(f, z, e, zero, F)
    BY <1>2, <1>4, Recursion
  <1>6. \A m \in z .. e : f[m] = IF m = z THEN zero ELSE F[m][f[m - 1]]
    BY <1>5, Zenon DEF Recursive
  <1>7. ASSUME NEW m \in z .. e PROVE f[m] = IF m = z THEN 0 ELSE f[m - 1] + 2^(m - 1) * bit(m - 1)
    <2>1. m # z => m \in z + 1 .. e /\ m - 1 \in z .. e
      BY <1>2
    <2>2. m # z => F[m][f[m - 1]] = f[m - 1] + 2^(m - 1) * bit(m - 1)
      BY <1>5, <2>1, Zenon DEF F
    <2> QED BY <1>6, <2>2 DEF zero
  <1>8. f = Step(f)
    <2>1. f = [m \in z .. e |-> f[m]]
      BY <1>5
    <2>2. [m \in z .. e |-> f[m]] = Step(f)
      BY <1>7, Zenon
    <2> QED BY <2>1, <2>2, Zenon
  <1>9. x = Step(x)
    BY <1>8, Zenon
  <1> HIDE DEF x
  <1>10. \A m \in z .. e : x[m] = IF m = z THEN 0 ELSE x[m - 1] + 2^(m - 1) * bit(m - 1)
    BY <1>9, Zenon
  <1> DEFINE P == { m \in z .. e : x[m] \in 0 .. 2^m - 1 /\ \A j \in 0 .. m - 1 : (x[m] \div 2^j) % 2 = bit(j) }
  <1>11. z \in P
    <2>1. 2^0 = 1 /\ x[0] = 0
      BY <1>2, <1>10 DEF z
    <2>2. x[z] \in 0 .. 2^z - 1 /\ \A j \in 0 .. z - 1 : FALSE
      BY <2>1 DEF z
    <2> QED BY <1>2, <2>2
  <1>12. ASSUME NEW m \in z .. e - 1, m \in P PROVE m + 1 \in P
    <2>1. m + 1 \in z .. e /\ m + 1 # z /\ (m + 1) - 1 = m /\ m + 1 > 0 /\ m \in 0 .. WordBits /\ m + 1 \in 0 .. WordBits
      BY <1>2, BitsIs DEF z, e
    <2> DEFINE p == 2^m
               c == bit(m)
    <2>2. p \in Nat \ {0} /\ c \in 0 .. 1
      BY <1>3
    <2>3. 2^(m + 1) = 2 * p
      <3> DEFINE k == m + 1
      <3>1. k \in 0 .. WordBits /\ k > 0 /\ k - 1 = m
        BY <2>1
      <3> HIDE DEF k
      <3>2. 2^k = 2 * 2^m
        BY <3>1, WordPower
      <3> QED BY <3>2 DEF k
    <2>4. x[m + 1] = x[m] + p * c /\ x[m] \in 0 .. p - 1
      BY <1>10, <1>12, <2>1
    <2>5. x[m + 1] \in 0 .. 2^(m + 1) - 1
      <3> HIDE DEF p, c
      <3>1. p * c \in 0 .. p
        <4>1. CASE c = 0
          BY <2>2, <4>1
        <4>2. CASE c = 1
          BY <2>2, <4>2
        <4> QED BY <2>2, <4>1, <4>2
      <3> QED BY <2>2, <2>3, <2>4, <3>1
    <2>6. ASSUME NEW j \in 0 .. (m + 1) - 1 PROVE (x[m + 1] \div 2^j) % 2 = bit(j)
      <3>1. CASE j = m
        <4> HIDE DEF p, c
        <4>1. (x[m] + p * c) \div p = x[m] \div p + c
          <5>1. x[m] \in Nat /\ c \in Nat
            BY <2>2, <2>4
          <5> QED BY <2>2, <5>1, DivAdd
        <4>2. x[m] \div p = 0 /\ (0 + c) % 2 = c
          BY <2>2, <2>4
        <4> QED BY <2>4, <3>1, <4>1, <4>2 DEF p, c
      <3>2. CASE j # m
        <4>1. j \in 0 .. m - 1
          BY <2>1, <3>2
        <4>2. x[m] \in Nat /\ c \in Nat
          <5> HIDE DEF p, c
          <5> QED BY <2>2, <2>4
        <4>3. ((x[m] + 2^m * c) \div 2^j) % 2 = (x[m] \div 2^j) % 2
          <5> HIDE DEF c
          <5> QED BY <2>1, <4>1, <4>2, HighBit
        <4>4. (x[m] \div 2^j) % 2 = bit(j)
          BY <1>12, <4>1
        <4> QED BY <2>4, <4>3, <4>4
      <3> QED BY <3>1, <3>2
    <2> HIDE DEF p, c
    <2> QED BY <2>1, <2>5, <2>6
  <1>13. e \in P
    <2>1. \A m \in z .. e : m \in P
      <3> HIDE DEF P
      <3> QED BY <1>2, <1>11, <1>12, UpTo
    <2> QED BY <1>2, <2>1
  <1> QED BY <1>1, <1>13 DEF bit, e

\* The word and the place in it of a bit.
LEMMA PlaceOf ==
    ASSUME NEW i \in 0 .. Bits - 1
    PROVE  /\ i \div WordBits + 1 \in 1 .. 4 /\ i % WordBits \in 0 .. WordBits - 1
           /\ WordBits - 1 - (i % WordBits) \in 0 .. WordBits - 1
           /\ i = (i \div WordBits) * WordBits + (i % WordBits) /\ i \div WordBits \in 0 .. 3
  <1> DEFINE w == WordBits
             q == i \div w
             r == i % w
  <1>1. w \in Nat \ {0} /\ i \in Int /\ i \in Nat /\ i < 4 * w
    BY BitsIs
  <1>2. q \in Nat /\ r \in 0 .. w - 1 /\ i = q * w + r
    <2> HIDE DEF w
    <2> QED BY <1>1, DivModIs
  <1> HIDE DEF q, r, w
  <1>3. q <= 3
    <2> SUFFICES ASSUME q >= 4 PROVE FALSE
      BY <1>2
    <2>1. 4 * w <= q * w
      BY <1>1, <1>2, Grows
    <2>2. q * w \in Nat
      BY <1>1, <1>2
    <2> QED BY <1>1, <1>2, <2>1, <2>2
  <1> QED BY <1>1, <1>2, <1>3 DEF q, r, w

\* The bits of an element are bits.
LEMMA BitType ==
    ASSUME NEW x \in Elements, NEW i \in 0 .. Bits - 1
    PROVE  BitOf(x, i) \in 0 .. 1
  <1> DEFINE k == i \div WordBits + 1
             j == WordBits - 1 - (i % WordBits)
             p == 2^j
  <1>1. k \in 1 .. 4 /\ j \in 0 .. WordBits
    BY PlaceOf, BitsIs
  <1> HIDE DEF k, j
  <1>2. p \in Nat \ {0} /\ x[k] \in Nat
    BY <1>1, GcmPowers DEF Elements
  <1> HIDE DEF p
  <1>3. (x[k] \div p) % 2 \in 0 .. 1
    BY <1>2
  <1> QED BY <1>3 DEF BitOf, k, j, p

\* xor_block adds elements as polynomials.
LEMMA XorBlock ==
    ASSUME NEW a \in Elements, NEW b \in Elements
    PROVE  xor_block(a, b) \in Elements /\ Poly(xor_block(a, b)) = SymDiff(Poly(a), Poly(b))
  <1> DEFINE s == xor_block(a, b)
  <1>1. \A k \in 1 .. 4 : a[k] \in Nat /\ b[k] \in Nat /\ s[k] = xor_word(a[k], b[k])
    <2>1. 2^WordBits \in Nat
      BY GcmPowers, BitsIs
    <2> QED BY <2>1 DEF Elements, xor_block
  <1>2. s \in Elements
    <2>1. \A k \in 1 .. 4 : xor_word(a[k], b[k]) \in 0 .. 2^WordBits - 1
      BY <1>1, XorWord
    <2> QED BY <2>1, Zenon DEF Elements, xor_block
  <1> HIDE DEF s
  <1>3. ASSUME NEW i \in 0 .. Bits - 1 PROVE BitOf(s, i) = 1 <=> ~(BitOf(a, i) = 1 <=> BitOf(b, i) = 1)
    <2> DEFINE k == i \div WordBits + 1
               j == WordBits - 1 - (i % WordBits)
               p == 2^j
    <2>1. k \in 1 .. 4 /\ j \in 0 .. WordBits - 1 /\ j \in 0 .. WordBits
      BY PlaceOf, BitsIs
    <2>2. BitOf(s, i) = (s[k] \div p) % 2 /\ BitOf(a, i) = (a[k] \div p) % 2 /\ BitOf(b, i) = (b[k] \div p) % 2
      BY Zenon DEF BitOf
    <2> HIDE DEF k, j
    <2>3. (s[k] \div 2^j) % 2 = XorBit(a[k] \div 2^j, b[k] \div 2^j) /\ a[k] \in Nat /\ b[k] \in Nat
      BY <1>1, <2>1, XorWord
    <2>4. p \in Nat \ {0}
      BY <2>1, GcmPowers
    <2>5. (s[k] \div p) % 2 = (a[k] \div p + b[k] \div p) % 2
      BY <2>3, Zenon DEF XorBit
    <2> DEFINE u == a[k] \div p
               v == b[k] \div p
    <2>6. u \in Nat /\ v \in Nat
      <3> HIDE DEF p
      <3> QED BY <2>3, <2>4
    <2> HIDE DEF p, u, v
    <2>7. (u + v) % 2 = 1 <=> ~(u % 2 = 1 <=> v % 2 = 1)
      BY <2>6
    <2> QED BY <2>2, <2>5, <2>7 DEF u, v
  <1>4. Poly(s) = SymDiff(Poly(a), Poly(b))
    <2>1. \A i : i \in Poly(s) <=> i \in SymDiff(Poly(a), Poly(b))
      <3> SUFFICES ASSUME NEW i PROVE i \in Poly(s) <=> i \in SymDiff(Poly(a), Poly(b))
        OBVIOUS
      <3>1. i \in SymDiff(Poly(a), Poly(b)) <=> ~(i \in Poly(a) <=> i \in Poly(b))
        BY SumHas
      <3>2. \A y : i \in Poly(y) <=> i \in 0 .. Bits - 1 /\ BitOf(y, i) = 1
        BY Zenon DEF Poly, Bits
      <3> QED BY <1>3, <3>1, <3>2, Zenon
    <2> QED BY <2>1
  <1> QED BY <1>2, <1>4 DEF s

IsShifted(s, v, c) ==
    /\ s \in 0 .. 2^WordBits - 1
    /\ (s \div 2^(WordBits - 1)) % 2 = c
    /\ \A r \in 1 .. WordBits - 1 :
           (s \div 2^(WordBits - 1 - r)) % 2 = (v \div 2^(WordBits - 1 - (r - 1))) % 2

\* What shift_right_block makes of a word: c is the bit that enters it.
LEMMA ShiftWord ==
    ASSUME NEW v \in 0 .. 2^WordBits - 1, NEW c \in 0 .. 1
    PROVE  IsShifted(v \div 2 + 2^(WordBits - 1) * c, v, c)
  <1> DEFINE w == WordBits
             H == 2^(w - 1)
             h == v \div 2
             s == h + H * c
  <1>1. w \in 0 .. WordBits /\ w > 0 /\ w - 1 \in 0 .. WordBits /\ w \in Nat
    BY BitsIs
  <1>2. 2^w = 2 * H /\ H \in Nat \ {0} /\ 2^w \in Nat
    BY <1>1, WordPower, GcmPowers
  <1>3. v \in Nat /\ h \in Nat /\ h <= H - 1 /\ c \in Nat
    <2> HIDE DEF H
    <2> QED BY <1>2
  <1> HIDE DEF H
  <1>4. H * c \in 0 .. H
    <2>1. CASE c = 0
      BY <1>2, <2>1
    <2>2. CASE c = 1
      BY <1>2, <2>2
    <2> QED BY <2>1, <2>2
  <1> HIDE DEF h
  <1>5. s \in 0 .. 2^w - 1
    BY <1>2, <1>3, <1>4
  <1>6. (s \div H) % 2 = c
    <2>1. s \div H = h \div H + c
      BY <1>2, <1>3, DivAdd
    <2>2. h \div H = 0 /\ (0 + c) % 2 = c
      BY <1>2, <1>3
    <2> QED BY <2>1, <2>2
  <1>7. ASSUME NEW r \in 1 .. w - 1 PROVE (s \div 2^(w - 1 - r)) % 2 = (v \div 2^(w - 1 - (r - 1))) % 2
    <2> DEFINE m == w - 1
               j == m - r
               k == w - 1 - (r - 1)
    <2>1. m \in 0 .. WordBits /\ j \in 0 .. m - 1 /\ k \in 0 .. WordBits /\ k > 0 /\ k - 1 = j /\ j \in 0 .. WordBits
      BY <1>1
    <2>2. ((h + 2^m * c) \div 2^j) % 2 = (h \div 2^j) % 2
      <3> HIDE DEF m, j
      <3> QED BY <1>3, <2>1, HighBit
    <2>3. 2^k = 2 * 2^j /\ 2^j \in Nat \ {0}
      <3> HIDE DEF k, j
      <3> QED BY <2>1, WordPower, GcmPowers
    <2>4. h \div 2^j = v \div 2^k
      <3> DEFINE p == 2^j
                 two == 2
      <3>1. p \in Nat \ {0} /\ two \in Nat \ {0}
        BY <2>3
      <3> HIDE DEF p, two
      <3>2. (v \div two) \div p = v \div (two * p)
        BY <1>3, <3>1, DivDiv
      <3> QED BY <2>3, <3>2 DEF p, two, h
    <2> HIDE DEF k, j
    <2>5. (s \div 2^j) % 2 = (v \div 2^k) % 2
      BY <2>2, <2>4 DEF H
    <2> QED BY <2>5 DEF j, k
  <1> QED BY <1>5, <1>6, <1>7, Zenon DEF h, H, IsShifted

\* The quotient and remainder of the bit before another.
LEMMA PlaceBefore ==
    ASSUME NEW i \in 1 .. Bits - 1
    PROVE  LET w == WordBits
               q == i \div w
               r == i % w
           IN  IF r > 0 THEN (i - 1) \div w = q /\ (i - 1) % w = r - 1
               ELSE q > 0 /\ (i - 1) \div w = q - 1 /\ (i - 1) % w = w - 1
  <1> DEFINE w == WordBits
             q == i \div w
             r == i % w
             l == i - 1
  <1>1. w \in Nat \ {0} /\ l \in Int
    BY BitsIs
  <1>2. i \in 0 .. Bits - 1
    OBVIOUS
  <1>3. r \in 0 .. w - 1 /\ i = q * w + r /\ q \in 0 .. 3
    BY <1>2, PlaceOf
  <1> HIDE DEF w, q, r
  <1>4. ASSUME r > 0 PROVE l \div w = q /\ l % w = r - 1
    <2> DEFINE r1 == r - 1
    <2>1. r1 \in 0 .. w - 1 /\ l = q * w + r1 /\ q \in Int
      BY <1>1, <1>3, <1>4
    <2> HIDE DEF r1, l
    <2>2. l \div w = q /\ l % w = r1
      BY <1>1, <2>1, DivMod
    <2> QED BY <2>2 DEF r1
  <1>5. ASSUME ~(r > 0) PROVE q > 0 /\ l \div w = q - 1 /\ l % w = w - 1
    <2> DEFINE q1 == q - 1
               r1 == w - 1
    <2>1. r1 \in 0 .. w - 1 /\ l = q1 * w + r1 /\ q1 \in Int /\ q > 0
      BY <1>1, <1>3, <1>5
    <2> HIDE DEF r1, q1, l
    <2>2. l \div w = q1 /\ l % w = r1
      BY <1>1, <2>1, DivMod
    <2> QED BY <2>1, <2>2 DEF r1, q1
  <1> QED BY <1>4, <1>5 DEF w, q, r, l

\* shift_right_block moves every bit to the next place; the last one is lost.
LEMMA ShiftBlock ==
    ASSUME NEW v \in Elements
    PROVE  /\ shift_right_block(v) \in Elements
           /\ BitOf(shift_right_block(v), 0) = 0
           /\ \A i \in 1 .. Bits - 1 : BitOf(shift_right_block(v), i) = BitOf(v, i - 1)
           /\ BitOf(v, Bits - 1) = v[4] % 2
  <1> DEFINE w == WordBits
             s == shift_right_block(v)
             c(k) == IF k > 1 /\ v[k - 1] % 2 = 1 THEN 1 ELSE 0
             word(k) == v[k] \div 2 + 2^(w - 1) * c(k)
  <1>1. w \in Nat /\ w > 0 /\ w - 1 \in 0 .. WordBits /\ 2^(w - 1) \in Nat /\ 2^w \in Nat /\ w \in 0 .. WordBits
    BY BitsIs, GcmPowers
  <1>2. ASSUME NEW k \in 1 .. 4 PROVE s[k] = word(k) /\ c(k) \in 0 .. 1 /\ v[k] \in 0 .. 2^WordBits - 1
    <2>1. s[k] = v[k] \div 2 + IF k > 1 /\ v[k - 1] % 2 = 1 THEN 2^(w - 1) ELSE 0
      BY DEF shift_right_block
    <2>2. v[k] \in 0 .. 2^WordBits - 1 /\ c(k) \in 0 .. 1
      BY DEF Elements
    <2>3. 2^(w - 1) * c(k) = IF k > 1 /\ v[k - 1] % 2 = 1 THEN 2^(w - 1) ELSE 0
      <3> DEFINE H == 2^(w - 1)
                 b == k > 1 /\ v[k - 1] % 2 = 1
      <3>1. H \in Nat
        BY <1>1
      <3>2. c(k) = IF b THEN 1 ELSE 0
        BY Zenon
      <3> HIDE DEF H, b, c
      <3>3. H * c(k) = IF b THEN H ELSE 0
        BY <3>1, <3>2
      <3> QED BY <3>3, Zenon DEF H, b
    <2> HIDE DEF c
    <2> QED BY <2>1, <2>2, <2>3
  <1>3. ASSUME NEW k \in 1 .. 4
        PROVE  /\ s[k] \in 0 .. 2^WordBits - 1
               /\ (s[k] \div 2^(w - 1)) % 2 = c(k)
               /\ \A r \in 1 .. w - 1 : (s[k] \div 2^(w - 1 - r)) % 2 = (v[k] \div 2^(w - 1 - (r - 1))) % 2
    <2> DEFINE b == c(k)
               u == v[k]
    <2>1. b \in 0 .. 1 /\ u \in 0 .. 2^WordBits - 1 /\ s[k] = u \div 2 + 2^(w - 1) * b
      BY <1>2
    <2> HIDE DEF b, u, s
    <2>2. IsShifted(u \div 2 + 2^(WordBits - 1) * b, u, b)
      BY <2>1, ShiftWord
    <2>3. IsShifted(s[k], u, b)
      BY <2>1, <2>2
    <2> QED BY <2>3, Zenon DEF IsShifted, b, u
  <1>4. s \in Elements
    <2>1. s = [k \in 1 .. 4 |-> s[k]]
      BY DEF shift_right_block
    <2> HIDE DEF s
    <2>2. \A k \in 1 .. 4 : s[k] \in 0 .. 2^WordBits - 1
      BY <1>3
    <2> QED BY <2>1, <2>2 DEF Elements
  <1> DEFINE k(i) == i \div w + 1
             r(i) == i % w
  <1>5. \A x, i : BitOf(x, i) = (x[k(i)] \div 2^(w - 1 - r(i))) % 2
    BY Zenon DEF BitOf
  <1> HIDE DEF s
  <1>6. BitOf(s, 0) = 0
    <2>1. k(0) = 1 /\ r(0) = 0 /\ w - 1 - 0 = w - 1
      BY <1>1
    <2>2. c(1) = 0 /\ 1 \in 1 .. 4
      OBVIOUS
    <2>3. BitOf(s, 0) = (s[1] \div 2^(w - 1)) % 2
      <3> HIDE DEF k, r, w
      <3> QED BY <1>5, <2>1
    <2> HIDE DEF k, r, w, c
    <2> QED BY <1>3, <2>2, <2>3
  <1>7. ASSUME NEW i \in 1 .. Bits - 1 PROVE BitOf(s, i) = BitOf(v, i - 1)
    <2>1. i \in 0 .. Bits - 1
      OBVIOUS
    <2>2. k(i) \in 1 .. 4 /\ r(i) \in 0 .. w - 1
      BY <2>1, PlaceOf
    <2>3. IF r(i) > 0 THEN k(i - 1) = k(i) /\ r(i - 1) = r(i) - 1
          ELSE k(i) > 1 /\ k(i - 1) = k(i) - 1 /\ r(i - 1) = w - 1
      <3> DEFINE q == i \div WordBits
      <3>1. q \in 0 .. 3
        BY <2>1, PlaceOf
      <3>2. IF r(i) > 0 THEN (i - 1) \div w = q /\ r(i - 1) = r(i) - 1
            ELSE q > 0 /\ (i - 1) \div w = q - 1 /\ r(i - 1) = w - 1
        BY PlaceBefore, Zenon
      <3>3. k(i) = q + 1 /\ k(i - 1) = (i - 1) \div w + 1
        OBVIOUS
      <3> HIDE DEF q, r, k
      <3> QED BY <1>1, <3>1, <3>2, <3>3
    <2>4. /\ BitOf(s, i) = (s[k(i)] \div 2^(w - 1 - r(i))) % 2
          /\ BitOf(v, i - 1) = (v[k(i - 1)] \div 2^(w - 1 - r(i - 1))) % 2
      BY <1>5, Zenon
    <2> HIDE DEF k, r
    <2>5. CASE r(i) > 0
      <3>1. r(i) \in 1 .. w - 1
        BY <1>1, <2>2, <2>5
      <3>2. (s[k(i)] \div 2^(w - 1 - r(i))) % 2 = (v[k(i)] \div 2^(w - 1 - (r(i) - 1))) % 2
        BY <1>3, <2>2, <3>1
      <3> QED BY <2>3, <2>4, <2>5, <3>2
    <2>6. CASE ~(r(i) > 0)
      <3>1. r(i) = 0 /\ w - 1 - r(i) = w - 1 /\ w - 1 - (w - 1) = 0
        BY <1>1, <2>2, <2>6
      <3>2. (s[k(i)] \div 2^(w - 1)) % 2 = c(k(i))
        BY <1>3, <2>2
      <3>3. k(i) > 1 /\ k(i - 1) = k(i) - 1 /\ r(i - 1) = w - 1 /\ k(i) - 1 \in 1 .. 4
        BY <2>2, <2>3, <2>6
      <3> DEFINE u == v[k(i) - 1]
      <3>4. u \in Nat
        BY <1>2, <1>1, <3>3
      <3>5. c(k(i)) = IF u % 2 = 1 THEN 1 ELSE 0
        BY <3>3
      <3> HIDE DEF c
      <3>6. BitOf(v, i - 1) = (u \div 2^0) % 2
        BY <2>4, <3>1, <3>3
      <3> HIDE DEF u
      <3>7. u \div 2^0 = u
        BY <3>4
      <3>8. u % 2 = IF u % 2 = 1 THEN 1 ELSE 0
        BY <3>4
      <3> QED BY <2>4, <3>1, <3>2, <3>5, <3>6, <3>7, <3>8
    <2> QED BY <2>5, <2>6
  <1>8. BitOf(v, Bits - 1) = v[4] % 2
    <2> DEFINE i == Bits - 1
               q == 3
               r1 == w - 1
    <2>1. i \in Int /\ w \in Nat \ {0} /\ q \in Int /\ r1 \in 0 .. w - 1 /\ i = q * w + r1
      BY <1>1, BitsIs
    <2> HIDE DEF i, q, r1, w
    <2>2. i \div w = q /\ i % w = r1
      BY <2>1, DivMod
    <2>3. k(i) = 4 /\ w - 1 - r(i) = 0
      BY <2>1, <2>2 DEF q, r1
    <2> HIDE DEF k, r
    <2>4. BitOf(v, i) = (v[4] \div 2^0) % 2
      BY <1>5, <2>3
    <2>5. v[4] \in Nat
      BY <1>1, <1>2 DEF w
    <2> QED BY <2>4, <2>5 DEF i
  <1> QED BY <1>4, <1>6, <1>7, <1>8 DEF s

\* A turn of gf_mult multiplies v by x, in the field.
MulX(v) == IF v[4] % 2 = 1 THEN xor_block(shift_right_block(v), R) ELSE shift_right_block(v)

\* What the turn makes of the polynomial v.
LEMMA MulXIs ==
    ASSUME NEW v \in Elements
    PROVE  MulX(v) \in Elements /\ Poly(MulX(v)) = Fold(Times(Poly(v), 1), Bits)
  <1> DEFINE s == shift_right_block(v)
             one == 1
             A == Times(Poly(v), one)
  <1>1. /\ s \in Elements /\ BitOf(s, 0) = 0 /\ \A i \in 1 .. Bits - 1 : BitOf(s, i) = BitOf(v, i - 1)
        /\ BitOf(v, Bits - 1) = v[4] % 2
    BY ShiftBlock
  <1>2. \A y, i : i \in Poly(y) <=> i \in 0 .. Bits - 1 /\ BitOf(y, i) = 1
    BY Zenon DEF Poly, Bits
  <1>3. Poly(v) \in SUBSET Int /\ Poly(R) \in SUBSET Int /\ Poly(s) \in SUBSET Int /\ one \in Int /\ Bits \in Int /\ Bits > 0
    BY BitsIs DEF Poly
  <1> HIDE DEF s
  <1>4. A \in SUBSET Int /\ \A x \in Int : x \in A <=> x - one \in Poly(v)
    <2> HIDE DEF one
    <2> QED BY <1>3, TimesHas
  <1> HIDE DEF A
  <1>5. Bits \in A <=> v[4] % 2 = 1
    <2>1. Bits - 1 \in 0 .. Bits - 1
      BY <1>3
    <2> QED BY <1>1, <1>2, <1>3, <1>4, <2>1
  <1>6. ASSUME NEW x \in Int PROVE x \in Poly(s) <=> x \in A /\ x # Bits
    <2>1. CASE x \in 1 .. Bits - 1
      <3>1. x \in 0 .. Bits - 1 /\ x - 1 \in 0 .. Bits - 1 /\ x # Bits
        BY <1>3, <2>1
      <3> QED BY <1>1, <1>2, <1>4, <2>1, <3>1
    <2>2. CASE x = 0
      <3>1. x - 1 \notin 0 .. Bits - 1
        BY <2>2
      <3> QED BY <1>1, <1>2, <1>4, <2>2, <3>1
    <2>3. CASE x \notin 0 .. Bits - 1
      <3>1. x # Bits => x - 1 \notin 0 .. Bits - 1
        BY <1>3, <2>3
      <3> QED BY <1>2, <1>4, <2>3, <3>1
    <2> QED BY <1>3, <2>1, <2>2, <2>3
  <1>7. Fold(A, Bits) \in SUBSET Int
    BY <1>3, <1>4, FoldType
  <1>8. ASSUME NEW x \in Int
        PROVE  x \in Fold(A, Bits) <=> IF Bits \in A THEN ~(x \in Poly(s) <=> x \in Poly(R)) ELSE x \in Poly(s)
    <2>1. x \in Fold(A, Bits) <=> IF Bits \in A THEN ~((x \in A /\ x # Bits) <=> x - (Bits - Bits) \in Poly(R))
                                                ELSE x \in A
      BY <1>3, <1>4, FoldHas
    <2>2. x - (Bits - Bits) = x
      BY <1>3
    <2> QED BY <1>6, <2>1, <2>2
  <1>9. CASE v[4] % 2 = 1
    <2>1. MulX(v) = xor_block(s, R)
      BY <1>9 DEF MulX, s
    <2>2. R \in Elements
      BY ROK DEF Elements
    <2>3. xor_block(s, R) \in Elements /\ Poly(xor_block(s, R)) = SymDiff(Poly(s), Poly(R))
      BY <1>1, <2>2, XorBlock
    <2>4. \A x : x \in SymDiff(Poly(s), Poly(R)) <=> ~(x \in Poly(s) <=> x \in Poly(R))
      BY SumHas
    <2>5. SymDiff(Poly(s), Poly(R)) \in SUBSET Int
      BY <1>3, SumType
    <2>6. SymDiff(Poly(s), Poly(R)) = Fold(A, Bits)
      BY <1>5, <1>7, <1>8, <1>9, <2>4, <2>5
    <2> QED BY <2>1, <2>3, <2>6 DEF A
  <1>10. CASE v[4] % 2 # 1
    <2>1. MulX(v) = s
      BY <1>10 DEF MulX, s
    <2>2. Poly(s) = Fold(A, Bits)
      BY <1>3, <1>5, <1>7, <1>8, <1>10
    <2> QED BY <1>1, <2>1, <2>2 DEF A
  <1> QED BY <1>9, <1>10

Multiplied(t, x, y, i) ==
    /\ t.z \in Elements /\ t.v \in Elements
    /\ Poly(t.z) = Reduce(Product({ j \in Poly(x) : j < i }, Poly(y)))
    /\ Poly(t.v) = Reduce(Times(Poly(y), i))

MulTurn(t, x, i) == [z |-> IF BitOf(x, i - 1) = 1 THEN xor_block(t.z, t.v) ELSE t.z, v |-> MulX(t.v)]

\* A turn of gf_mult adds the multiple of y that belongs to a bit of x.
LEMMA MulTurnIs ==
    ASSUME NEW x \in Elements, NEW y \in Elements, NEW i \in 0 .. Bits - 1, NEW t, Multiplied(t, x, y, i)
    PROVE  Multiplied(MulTurn(t, x, i + 1), x, y, i + 1)
  <1> DEFINE u == MulTurn(t, x, i + 1)
             X == { j \in Poly(x) : j < i }
             Y == Poly(y)
             X1 == { j \in Poly(x) : j < i + 1 }
  <1>1. (i + 1) - 1 = i /\ i \in Int
    OBVIOUS
  <1>2. /\ t.z \in Elements /\ t.v \in Elements /\ Poly(t.z) = Reduce(Product(X, Y))
        /\ Poly(t.v) = Reduce(Times(Y, i))
    BY Zenon DEF Multiplied
  <1>3. u.z = (IF BitOf(x, i) = 1 THEN xor_block(t.z, t.v) ELSE t.z) /\ u.v = MulX(t.v)
    BY <1>1 DEF MulTurn
  <1>4. \A s, j : j \in Poly(s) <=> j \in 0 .. Bits - 1 /\ BitOf(s, j) = 1
    BY Zenon DEF Poly, Bits
  <1>5. /\ X \in SUBSET (0 .. Bits - 1) /\ Y \in SUBSET (0 .. Bits - 1) /\ i \notin X /\ Y \in SUBSET Int
        /\ X1 = IF BitOf(x, i) = 1 THEN X \cup {i} ELSE X
    <2>1. \A j \in 0 .. Bits - 1 : (j < i + 1 <=> j < i \/ j = i) /\ ~(i < i)
      BY BitsIs
    <2>2. X \in SUBSET (0 .. Bits - 1) /\ Y \in SUBSET (0 .. Bits - 1) /\ Y \in SUBSET Int /\ i \notin X
      BY <1>4, <2>1
    <2>3. CASE BitOf(x, i) = 1
      BY <1>4, <2>1, <2>3
    <2>4. CASE BitOf(x, i) # 1
      <3>1. i \notin Poly(x)
        BY <1>4, <2>4
      <3>2. \A j : j \in X1 <=> j \in X
        BY <1>4, <2>1, <3>1
      <3> HIDE DEF X, X1
      <3> QED BY <2>2, <2>4, <3>2
    <2> HIDE DEF X, Y, X1
    <2> QED BY <2>2, <2>3, <2>4
  <1> HIDE DEF X, Y, X1, u
  <1>6. Times(Y, i) \in SUBSET (0 .. 2 * Bits - 1) /\ Times(Y, i) \in SUBSET Int
    <2>1. ASSUME NEW a \in Times(Y, i) PROVE a \in 0 .. 2 * Bits - 1
      <3>1. PICK b \in Y : a = b + i
        BY <2>1 DEF Times
      <3>2. b \in 0 .. Bits - 1
        BY <1>5
      <3> QED BY <3>1, <3>2, BitsIs
    <2>2. 0 .. 2 * Bits - 1 \subseteq Int
      BY BitsIs
    <2> QED BY <2>1, <2>2
  <1>7. u.z \in Elements /\ Poly(u.z) = Reduce(Product(X1, Y))
    <2>1. CASE BitOf(x, i) = 1
      <3>1. u.z = xor_block(t.z, t.v) /\ X1 = X \cup {i}
        BY <1>3, <1>5, <2>1
      <3>2. xor_block(t.z, t.v) \in Elements /\ Poly(xor_block(t.z, t.v)) = SymDiff(Poly(t.z), Poly(t.v))
        BY <1>2, XorBlock
      <3>3. Product(X \cup {i}, Y) = SymDiff(Product(X, Y), Times(Y, i))
        BY <1>5, ProductNext
      <3>4. Product(X, Y) \in SUBSET Int
        BY BitsIs DEF Product
      <3>5. Reduce(SymDiff(Product(X, Y), Times(Y, i))) = SymDiff(Reduce(Product(X, Y)), Reduce(Times(Y, i)))
        <4> DEFINE A == Product(X, Y)
                   B == Times(Y, i)
        <4>1. A \in SUBSET Int /\ B \in SUBSET Int
          BY <1>6, <3>4
        <4> HIDE DEF A, B
        <4>2. Reduce(SymDiff(A, B)) = SymDiff(Reduce(A), Reduce(B))
          BY <4>1, ReduceSum
        <4> QED BY <4>2 DEF A, B
      <3>6. Poly(u.z) = SymDiff(Reduce(Product(X, Y)), Reduce(Times(Y, i)))
        BY <1>2, <3>1, <3>2, Zenon
      <3> QED BY <3>1, <3>2, <3>3, <3>5, <3>6, Zenon
    <2>2. CASE BitOf(x, i) # 1
      BY <1>2, <1>3, <1>5, <2>2
    <2> QED BY <2>1, <2>2
  <1>8. u.v \in Elements /\ Poly(u.v) = Reduce(Times(Y, i + 1))
    <2>1. MulX(t.v) \in Elements /\ Poly(MulX(t.v)) = Fold(Times(Poly(t.v), 1), Bits)
      BY <1>2, MulXIs
    <2> DEFINE B == Times(Y, i)
    <2>2. Times(B, 1) = Times(Y, i + 1)
      <3>1. \A a \in Y : (a + i) + 1 = a + (i + 1)
        BY <1>5
      <3> QED BY <3>1 DEF Times
    <2>3. B \in SUBSET (0 .. 2 * Bits - 1)
      BY <1>6
    <2>4. Poly(t.v) = Reduce(B)
      BY <1>2
    <2> HIDE DEF B
    <2>5. Reduce(Times(B, 1)) = Fold(Times(Reduce(B), 1), Bits)
      BY <2>3, ReduceTimes
    <2>6. Poly(u.v) = Reduce(Times(B, 1))
      BY <1>3, <2>1, <2>4, <2>5, Zenon
    <2> QED BY <1>3, <2>1, <2>2, <2>6
  <1>9. Multiplied(u, x, y, i + 1)
    BY <1>7, <1>8, Zenon DEF Multiplied, X1, Y
  <1> QED BY <1>9 DEF u

\* gf_mult multiplies polynomials and reduces the product.
LEMMA GfMult ==
    ASSUME NEW x \in Elements, NEW y \in Elements
    PROVE  gf_mult(x, y) \in Elements /\ Poly(gf_mult(x, y)) = Reduce(Product(Poly(x), Poly(y)))
  <1> DEFINE e == Bits
             z == 0
             zero == [k \in 1 .. 4 |-> 0]
             t0 == [z |-> zero, v |-> y]
             Step(f) == [i \in z .. e |-> IF i = z THEN t0 ELSE MulTurn(f[i - 1], x, i)]
             turn == CHOOSE f : f = Step(f)
             S == [z : Elements, v : Elements]
             F == [i \in z + 1 .. e |-> [t \in S |-> MulTurn(t, x, i)]]
             St(i) == { t \in S : Multiplied(t, x, y, i) }
  <1>1. gf_mult(x, y) = turn[e].z
    BY Zenon DEF gf_mult, MulTurn, MulX, Bits
  <1>2. z \in Int /\ e \in Int /\ z <= e /\ z \in z .. e /\ e \in z .. e
    BY BitsIs
  <1>3. zero \in Elements
    <2>1. 2^WordBits \in Nat \ {0}
      BY GcmPowers, BitsIs
    <2> QED BY <2>1 DEF Elements
  <1>4. t0 \in S /\ t0.z = zero /\ t0.v = y
    BY <1>3
  <1>5. ASSUME NEW t \in S, NEW i PROVE MulTurn(t, x, i) \in S
    <2>1. t.z \in Elements /\ t.v \in Elements
      OBVIOUS
    <2>2. MulX(t.v) \in Elements /\ xor_block(t.z, t.v) \in Elements
      BY <2>1, MulXIs, XorBlock
    <2> QED BY <2>1, <2>2 DEF MulTurn
  <1>6. F \in [z + 1 .. e -> [S -> S]]
    <2> HIDE DEF S
    <2> QED BY <1>5
  <1> HIDE DEF F, S, t0, e, z
  <1>7. PICK f \in [z .. e -> S] : Recursive(f, z, e, t0, F)
    BY <1>2, <1>4, <1>6, Recursion
  <1>8. \A i \in z .. e : f[i] = IF i = z THEN t0 ELSE F[i][f[i - 1]]
    BY <1>7, Zenon DEF Recursive
  <1>9. ASSUME NEW i \in z .. e PROVE f[i] = IF i = z THEN t0 ELSE MulTurn(f[i - 1], x, i)
    <2>1. i # z => i \in z + 1 .. e /\ i - 1 \in z .. e
      BY <1>2
    <2>2. i # z => F[i][f[i - 1]] = MulTurn(f[i - 1], x, i)
      BY <1>7, <2>1, Zenon DEF F
    <2> QED BY <1>8, <2>2
  <1>10. f = Step(f)
    <2>1. f = [i \in z .. e |-> f[i]]
      BY <1>7
    <2>2. [i \in z .. e |-> f[i]] = Step(f)
      BY <1>9, Zenon
    <2> QED BY <2>1, <2>2, Zenon
  <1>11. turn = Step(turn)
    BY <1>10, Zenon
  <1> HIDE DEF turn
  <1>12. \A i \in z .. e : turn[i] = IF i = z THEN t0 ELSE MulTurn(turn[i - 1], x, i)
    BY <1>11, Zenon
  <1> DEFINE P == { i \in z .. e : Multiplied(turn[i], x, y, i) }
  <1>13. z \in P
    <2>1. turn[z] = t0
      BY <1>2, <1>12
    <2>2. Poly(y) \in SUBSET (0 .. Bits - 1) /\ Poly(y) \in SUBSET Int /\ {} \in SUBSET (0 .. Bits - 1)
      BY BitsIs DEF Poly, Bits
    <2>3. Times(Poly(y), z) = Poly(y)
      <3>1. \A a \in Poly(y) : a + 0 = a
        BY <2>2
      <3> QED BY <3>1 DEF Times, z
    <2>4. Reduce(Poly(y)) = Poly(y) /\ Reduce({}) = {}
      BY <2>2, ReduceLow
    <2>5. { j \in Poly(x) : j < z } = {}
      BY BitsIs DEF Poly, z
    <2>6. Product({}, Poly(y)) = {}
      BY ProductEmpty
    <2>7. Poly(zero) = {}
      <3> SUFFICES ASSUME NEW i \in 0 .. Bits - 1, BitOf(zero, i) = 1 PROVE FALSE
        BY Zenon DEF Poly, Bits
      <3> DEFINE k == i \div WordBits + 1
                 j == WordBits - 1 - (i % WordBits)
                 p == 2^j
      <3>1. k \in 1 .. 4 /\ j \in 0 .. WordBits
        BY PlaceOf, BitsIs
      <3>2. BitOf(zero, i) = (zero[k] \div p) % 2
        BY Zenon DEF BitOf
      <3> HIDE DEF k, j
      <3>3. zero[k] = 0 /\ p \in Nat \ {0}
        BY <3>1, GcmPowers
      <3> HIDE DEF p
      <3>4. (0 \div p) % 2 = 0
        BY <3>3
      <3> QED BY <3>2, <3>3, <3>4
    <2> HIDE DEF zero
    <2>8. Multiplied(t0, x, y, z)
      BY <1>3, <1>4, <2>3, <2>4, <2>5, <2>6, <2>7 DEF Multiplied
    <2> QED BY <1>2, <2>1, <2>8
  <1>14. ASSUME NEW i \in z .. e - 1, i \in P PROVE i + 1 \in P
    <2>1. i + 1 \in z .. e /\ i + 1 # z /\ (i + 1) - 1 = i
      BY <1>2
    <2>2. i \in 0 .. Bits - 1
      BY DEF z, e
    <2>3. turn[i + 1] = MulTurn(turn[i], x, i + 1) /\ Multiplied(turn[i], x, y, i)
      BY <1>12, <1>14, <2>1
    <2>4. Multiplied(MulTurn(turn[i], x, i + 1), x, y, i + 1)
      BY <2>2, <2>3, MulTurnIs
    <2> QED BY <2>1, <2>3, <2>4
  <1>15. Multiplied(turn[e], x, y, e)
    <2>1. \A i \in z .. e : i \in P
      <3> HIDE DEF P
      <3> QED BY <1>2, <1>13, <1>14, UpTo
    <2> QED BY <1>2, <2>1
  <1>16. { j \in Poly(x) : j < e } = Poly(x)
    BY BitsIs DEF Poly, Bits, e
  <1> QED BY <1>1, <1>15, <1>16 DEF Multiplied

----------------------------------------------------------------------------
(* Gcm: sequences.                                                         *)

IsSeq(s, n) == n \in Nat /\ s = [k \in 1 .. n |-> s[k]]

\* Functions on 1 .. n are sequences of length n.
LEMMA SeqIs ==
    ASSUME NEW s, NEW n, IsSeq(s, n)
    PROVE  Len(s) = n /\ DOMAIN s = 1 .. n /\ s \in Seq({ s[k] : k \in 1 .. n })
  <1> DEFINE S == { s[k] : k \in 1 .. n }
  <1>1. n \in Nat /\ s = [k \in 1 .. n |-> s[k]]
    BY DEF IsSeq
  <1>2. \A k \in 1 .. n : s[k] \in S
    OBVIOUS
  <1> HIDE DEF S
  <1>3. s \in [1 .. n -> S]
    BY <1>1, <1>2
  <1>4. s \in Seq(S) /\ Len(s) = n /\ DOMAIN s = 1 .. n
    BY <1>1, <1>3
  <1> QED BY <1>4 DEF S

\* Sequences with the same elements are equal.
LEMMA SeqSame ==
    ASSUME NEW s, NEW t, NEW n, IsSeq(s, n), IsSeq(t, n), \A k \in 1 .. n : s[k] = t[k]
    PROVE  s = t
  <1>1. s = [k \in 1 .. n |-> s[k]] /\ t = [k \in 1 .. n |-> t[k]]
    BY DEF IsSeq
  <1>2. [k \in 1 .. n |-> s[k]] = [k \in 1 .. n |-> t[k]]
    BY Zenon
  <1> QED BY <1>1, <1>2

Joined(u, s, m, t, n) ==
    /\ IsSeq(u, m + n)
    /\ \A k \in 1 .. m : u[k] = s[k]
    /\ \A k \in 1 .. n : u[m + k] = t[k]

\* The elements of a concatenation.
LEMMA Join ==
    ASSUME NEW s, NEW t, NEW m, NEW n, IsSeq(s, m), IsSeq(t, n)
    PROVE  Joined(s \o t, s, m, t, n)
  <1> DEFINE S == { s[k] : k \in 1 .. m }
             T == { t[k] : k \in 1 .. n }
             U == S \cup T
             u == s \o t
  <1>1. Len(s) = m /\ s \in Seq(S) /\ Len(t) = n /\ t \in Seq(T) /\ m \in Nat /\ n \in Nat
    BY SeqIs DEF IsSeq
  <1> HIDE DEF S, T
  <1>2. s \in Seq(U) /\ t \in Seq(U)
    BY <1>1
  <1> HIDE DEF U
  <1>3. u \in Seq(U) /\ Len(u) = m + n /\ \A i \in 1 .. m + n : u[i] = IF i <= m THEN s[i] ELSE t[i - m]
    BY <1>1, <1>2, ConcatProperties
  <1> HIDE DEF u
  <1>4. IsSeq(u, m + n)
    <2>1. m + n \in Nat /\ u = [k \in 1 .. m + n |-> u[k]]
      BY <1>1, <1>3
    <2> QED BY <2>1, Zenon DEF IsSeq
  <1>5. ASSUME NEW k \in 1 .. m PROVE u[k] = s[k]
    BY <1>1, <1>3
  <1>6. ASSUME NEW k \in 1 .. n PROVE u[m + k] = t[k]
    <2>1. m + k \in 1 .. m + n /\ ~(m + k <= m) /\ (m + k) - m = k
      BY <1>1
    <2> QED BY <1>3, <2>1
  <1> QED BY <1>4, <1>5, <1>6, Zenon DEF u, Joined

\* The elements of a part of a sequence.
LEMMA Part ==
    ASSUME NEW s, NEW n, IsSeq(s, n), NEW a \in Nat, NEW m \in Nat, a + m <= n
    PROVE  IsSeq(SubSeq(s, a + 1, a + m), m) /\ \A k \in 1 .. m : SubSeq(s, a + 1, a + m)[k] = s[a + k]
  <1> DEFINE S == { s[k] : k \in 1 .. n }
             u == SubSeq(s, a + 1, a + m)
  <1>1. Len(s) = n /\ s \in Seq(S) /\ n \in Nat
    BY SeqIs DEF IsSeq
  <1> HIDE DEF S
  <1>2. u = [i \in 1 .. m |-> s[a + i]]
    BY <1>1
  <1> HIDE DEF u
  <1>3. \A k \in 1 .. m : u[k] = s[a + k]
    BY <1>2
  <1>4. u = [k \in 1 .. m |-> u[k]]
    BY <1>2
  <1> QED BY <1>3, <1>4, Zenon DEF u, IsSeq

\* The empty sequence and those of one element.
LEMMA Short == ASSUME NEW e PROVE IsSeq(<<>>, 0) /\ IsSeq(<<e>>, 1) /\ <<e>>[1] = e
  BY DEF IsSeq

\* Nothing is a sequence of length 0 but the empty one.
LEMMA ShortIs == ASSUME NEW s, NEW n, IsSeq(s, n) PROVE s = <<>> <=> n = 0
  <1>1. n \in Nat /\ DOMAIN s = 1 .. n
    BY SeqIs DEF IsSeq
  <1>2. ASSUME n = 0 PROVE s = <<>>
    <2>1. IsSeq(<<>>, 0)
      BY Short, Zenon
    <2>2. IsSeq(<<>>, n)
      BY <1>2, <2>1
    <2>3. \A k \in 1 .. n : FALSE
      BY <1>2
    <2> QED BY <2>2, <2>3, SeqSame
  <1>3. ASSUME s = <<>> PROVE n = 0
    <2>1. Len(s) = n /\ Len(<<>>) = 0
      BY SeqIs
    <2> QED BY <1>3, <2>1
  <1> QED BY <1>2, <1>3

----------------------------------------------------------------------------
(* Gcm: counter mode.                                                      *)

Ctr == 2^CtrBits

\* A block is not empty, and the counter has more than one value.
LEMMA GcmBounds == BLOCKSIZE \in Nat \ {0} /\ Ctr \in Nat \ {0} /\ Ctr > 1 /\ Ctr = 2^CtrBits
  BY GcmSizes, GcmPowers DEF Ctr

Out(o, c, a) == [of |-> o, cb |-> c, at |-> a]

CounterAt(icb, k) == (icb + (k - 1) \div BLOCKSIZE) % Ctr

\* The first n bytes of x in counter mode.
Stream(x, icb, n) == [k \in 1 .. n |-> Out(x[k], CounterAt(icb, k), ((k - 1) % BLOCKSIZE) + 1)]

\* Incrementing the counter counts the blocks.
LEMMA Inc ==
    ASSUME NEW c \in Nat, NEW i \in Nat
    PROVE  /\ inc32((c + i) % Ctr) = (c + (i + 1)) % Ctr /\ (c + i) % Ctr \in Nat
           /\ (inc32(c) + i) % Ctr = (c + 1 + i) % Ctr /\ inc32(c) \in Nat
  <1>1. Ctr \in Nat \ {0} /\ inc32(c) = (c + 1) % Ctr /\ inc32((c + i) % Ctr) = (((c + i) % Ctr) + 1) % Ctr
    BY GcmBounds DEF inc32, Ctr
  <1>2. \A u \in Nat : u % Ctr \in Nat /\ u \div Ctr \in Nat /\ u = (u \div Ctr) * Ctr + (u % Ctr)
    <2> SUFFICES ASSUME NEW u \in Nat PROVE u % Ctr \in Nat /\ u \div Ctr \in Nat /\ u = (u \div Ctr) * Ctr + (u % Ctr)
      OBVIOUS
    <2>1. u \in Int /\ u \in Nat
      OBVIOUS
    <2>2. u \div Ctr \in Nat /\ u % Ctr \in 0 .. Ctr - 1 /\ u = (u \div Ctr) * Ctr + (u % Ctr)
      BY <1>1, <2>1, DivModIs
    <2> QED BY <2>2
  <1>3. ASSUME NEW u \in Nat, NEW d \in Nat PROVE ((u % Ctr) + d) % Ctr = (u + d) % Ctr
    <2> DEFINE q == u \div Ctr
               r == u % Ctr
               a == u + d
               b == r + d
    <2>1. q \in Nat /\ r \in Nat /\ u = q * Ctr + r
      BY <1>2
    <2> HIDE DEF q, r
    <2>2. a \in Int /\ b \in Int /\ q \in Int /\ q * Ctr \in Nat
      BY <1>1, <2>1
    <2>3. Differ(a, b, q, Ctr)
      BY <2>1, <2>2 DEF Differ
    <2> HIDE DEF a, b
    <2>4. a % Ctr = b % Ctr
      BY <1>1, <2>2, <2>3, ModSame
    <2> QED BY <2>4 DEF a, b, r
  <1>4. c + i \in Nat /\ c + 1 \in Nat /\ 1 \in Nat /\ (c + i) + 1 = c + (i + 1) /\ (c + 1) + i = c + 1 + i
    OBVIOUS
  <1>5. (((c + i) % Ctr) + 1) % Ctr = ((c + i) + 1) % Ctr
    <2> DEFINE u == c + i
               d == 1
    <2>1. u \in Nat /\ d \in Nat
      OBVIOUS
    <2> HIDE DEF u, d
    <2>2. ((u % Ctr) + d) % Ctr = (u + d) % Ctr
      BY <1>3, <2>1
    <2> QED BY <2>2 DEF u, d
  <1>6. (((c + 1) % Ctr) + i) % Ctr = ((c + 1) + i) % Ctr
    <2> DEFINE u == c + 1
    <2>1. u \in Nat
      OBVIOUS
    <2> HIDE DEF u
    <2>2. ((u % Ctr) + i) % Ctr = (u + i) % Ctr
      BY <1>3, <2>1
    <2> QED BY <2>2 DEF u
  <1>7. (c + i) % Ctr \in Nat /\ (c + 1) % Ctr \in Nat
    BY <1>2, <1>4
  <1> QED BY <1>1, <1>4, <1>5, <1>6, <1>7, Zenon

\* Streams are sequences.
LEMMA StreamSeq ==
    ASSUME NEW x, NEW icb, NEW n \in Nat
    PROVE  /\ IsSeq(Stream(x, icb, n), n)
           /\ \A k \in 1 .. n : Stream(x, icb, n)[k] = Out(x[k], CounterAt(icb, k), ((k - 1) % BLOCKSIZE) + 1)
  <1>1. Stream(x, icb, n) = [k \in 1 .. n |-> Stream(x, icb, n)[k]]
    BY DEF Stream
  <1>2. IsSeq(Stream(x, icb, n), n)
    BY <1>1, Zenon DEF IsSeq
  <1>3. \A k \in 1 .. n : Stream(x, icb, n)[k] = Out(x[k], CounterAt(icb, k), ((k - 1) % BLOCKSIZE) + 1)
    BY Zenon DEF Stream
  <1> QED BY <1>2, <1>3

Continues(x, icb, i, m) ==
    Stream(x, icb, i * BLOCKSIZE) \o Keyed(SubSeq(x, i * BLOCKSIZE + 1, i * BLOCKSIZE + m), (icb + i) % Ctr)
        = Stream(x, icb, i * BLOCKSIZE + m)

\* A block, or the rest of the text, continues the stream.
LEMMA StreamNext ==
    ASSUME NEW x, NEW n, IsSeq(x, n), NEW icb \in Nat, NEW i \in Nat, NEW m \in 0 .. BLOCKSIZE,
           i * BLOCKSIZE + m <= n
    PROVE  Continues(x, icb, i, m)
  <1> DEFINE a == i * BLOCKSIZE
             s == Stream(x, icb, a)
             u == SubSeq(x, a + 1, a + m)
             c == (icb + i) % Ctr
             t == Keyed(u, c)
             w == Stream(x, icb, a + m)
  <1>1. a \in Nat /\ m \in Nat /\ a + m <= n /\ a + m \in Nat /\ BLOCKSIZE \in Nat \ {0}
    BY GcmBounds
  <1> HIDE DEF a
  <1> DEFINE e(k) == Out(x[k], CounterAt(icb, k), ((k - 1) % BLOCKSIZE) + 1)
             l == a + m
  <1>2. /\ IsSeq(s, a) /\ \A k \in 1 .. a : s[k] = e(k)
        /\ IsSeq(w, l) /\ \A k \in 1 .. l : w[k] = e(k)
    <2>1. IsSeq(s, a) /\ \A k \in 1 .. a : s[k] = e(k)
      BY <1>1, StreamSeq
    <2>2. l \in Nat /\ w = Stream(x, icb, l)
      BY <1>1
    <2> HIDE DEF l, w
    <2>3. IsSeq(Stream(x, icb, l), l) /\ \A k \in 1 .. l : Stream(x, icb, l)[k] = e(k)
      BY <2>2, StreamSeq
    <2> QED BY <2>1, <2>2, <2>3
  <1>3. IsSeq(u, m) /\ \A k \in 1 .. m : u[k] = x[a + k]
    BY <1>1, Part
  <1> HIDE DEF u, c
  <1>4. IsSeq(t, m) /\ \A k \in 1 .. m : t[k] = Out(u[k], c, k)
    <2>1. Len(u) = m
      BY <1>3, SeqIs
    <2>2. t = [k \in 1 .. m |-> Out(u[k], c, k)]
      BY <2>1, Zenon DEF Keyed, Out
    <2> HIDE DEF t
    <2>3. \A k \in 1 .. m : t[k] = Out(u[k], c, k)
      BY <2>2
    <2>4. t = [k \in 1 .. m |-> t[k]]
      BY <2>2
    <2> QED BY <1>1, <2>3, <2>4, Zenon DEF IsSeq
  <1>5. l \in Nat /\ (\A k \in 1 .. a : k \in 1 .. l) /\ (\A k \in 1 .. m : a + k \in 1 .. l)
    BY <1>1
  <1> HIDE DEF s, t, w, e
  <1>6. /\ IsSeq(s \o t, l) /\ \A k \in 1 .. a : (s \o t)[k] = s[k]
        /\ \A k \in 1 .. m : (s \o t)[a + k] = t[k]
    <2>1. Joined(s \o t, s, a, t, m)
      BY <1>2, <1>4, Join
    <2> QED BY <2>1, Zenon DEF Joined
  <1>7. ASSUME NEW k \in 1 .. m PROVE t[k] = w[a + k]
    <2> DEFINE p == a + k
               d == p - 1
               r == k - 1
    <2>1. d \in Int /\ r \in 0 .. BLOCKSIZE - 1 /\ i \in Int /\ d = i * BLOCKSIZE + r /\ r + 1 = k
      BY <1>1 DEF a
    <2>2. p \in 1 .. l
      BY <1>5
    <2> HIDE DEF d, r, p
    <2>3. d \div BLOCKSIZE = i /\ d % BLOCKSIZE = r
      BY <1>1, <2>1, DivMod
    <2>4. e(p) = Out(x[p], (icb + d \div BLOCKSIZE) % Ctr, (d % BLOCKSIZE) + 1)
      BY Zenon DEF e, CounterAt, d
    <2>5. e(p) = Out(x[p], c, k)
      BY <2>1, <2>3, <2>4 DEF c
    <2>6. t[k] = Out(x[p], c, k)
      BY <1>3, <1>4 DEF p
    <2> QED BY <1>2, <2>2, <2>5, <2>6 DEF p
  <1> HIDE DEF l
  <1>8. ASSUME NEW j \in 1 .. l PROVE (s \o t)[j] = w[j]
    <2>1. CASE j <= a
      <3>1. j \in 1 .. a
        BY <1>1, <1>5, <2>1
      <3> QED BY <1>2, <1>6, <3>1
    <2>2. CASE ~(j <= a)
      <3> DEFINE k == j - a
      <3>1. k \in 1 .. m /\ a + k = j
        BY <1>1, <1>5, <2>2 DEF l
      <3> HIDE DEF k
      <3>2. (s \o t)[a + k] = w[a + k]
        BY <1>6, <1>7, <3>1
      <3> QED BY <3>1, <3>2
    <2> QED BY <2>1, <2>2
  <1>9. s \o t = w
    <2> DEFINE v == s \o t
    <2>1. IsSeq(v, l) /\ IsSeq(w, l) /\ \A j \in 1 .. l : v[j] = w[j]
      BY <1>2, <1>6, <1>8
    <2> HIDE DEF v
    <2>2. v = w
      BY <2>1, SeqSame
    <2> QED BY <2>2 DEF v
  <1> QED BY <1>9, Zenon DEF s, t, w, a, u, c, Continues

\* aes_gctr is the counter mode of the whole text.
LEMMA GctrIs ==
    ASSUME NEW icb \in 0 .. Ctr - 1, NEW x, NEW L, IsSeq(x, L)
    PROVE  aes_gctr(icb, x) = Stream(x, icb, L)
  <1> DEFINE B == BLOCKSIZE
             n == L \div B
             r == L % B
             z == 0
             part(i, c) == Keyed(SubSeq(x, (i - 1) * B + 1, i * B), c)
             state(y, c) == [y |-> y, cb |-> c]
             Step(f) == [i \in z .. n |-> IF i = z THEN state(<<>>, icb)
                                          ELSE state(f[i - 1].y \o part(i, f[i - 1].cb), inc32(f[i - 1].cb))]
             full == CHOOSE f : f = Step(f)
             cb(i) == (icb + i) % Ctr
             g == [i \in z .. n |-> state(Stream(x, icb, i * B), cb(i))]
  <1>1. B \in Nat \ {0} /\ Ctr \in Nat \ {0} /\ L \in Nat /\ L \in Int /\ Len(x) = L /\ icb \in Nat
    BY GcmBounds, SeqIs DEF IsSeq
  <1>2. aes_gctr(icb, x) = full[n].y \o Keyed(SubSeq(x, n * B + 1, L), full[n].cb)
    <2> DEFINE T(l) ==
                 LET k == l \div BLOCKSIZE
                     by[i \in 0 .. k] ==
                         IF i = 0 THEN [y |-> <<>>, cb |-> icb]
                         ELSE LET t == by[i - 1]
                              IN  [y |-> t.y \o Keyed(SubSeq(x, (i - 1) * BLOCKSIZE + 1, i * BLOCKSIZE), t.cb),
                                   cb |-> inc32(t.cb)]
                 IN  by[k].y \o Keyed(SubSeq(x, k * BLOCKSIZE + 1, l), by[k].cb)
    <2>1. aes_gctr(icb, x) = T(Len(x))
      BY Zenon DEF aes_gctr
    <2>2. T(L) = full[n].y \o Keyed(SubSeq(x, n * B + 1, L), full[n].cb)
      BY Zenon
    <2> HIDE DEF T
    <2> QED BY <1>1, <2>1, <2>2, Zenon
  <1>3. n \in Nat /\ r \in 0 .. B - 1 /\ L = n * B + r
    <2> HIDE DEF B
    <2> QED BY <1>1, DivModIs
  <1>4. z \in Int /\ n \in Int /\ z <= n /\ z \in z .. n /\ n \in z .. n
    <2> HIDE DEF n
    <2> QED BY <1>3
  <1> HIDE DEF n, r
  <1>5. cb(z) = icb
    BY <1>1
  <1>6. Stream(x, icb, z * B) = <<>>
    <2>1. z * B = 0 /\ 0 \in Nat
      BY <1>1
    <2>2. IsSeq(Stream(x, icb, z * B), 0)
      <3> DEFINE o == z * B
      <3>1. o \in Nat /\ o = 0
        BY <2>1
      <3> HIDE DEF o
      <3>2. IsSeq(Stream(x, icb, o), o)
        BY <3>1, StreamSeq
      <3> QED BY <3>1, <3>2 DEF o
    <2> DEFINE s == Stream(x, icb, z * B)
               o == 0
    <2>3. IsSeq(s, o) /\ o = 0
      BY <2>2
    <2> HIDE DEF s, o
    <2>4. s = <<>>
      BY <2>3, ShortIs
    <2> QED BY <2>4 DEF s
  <1>7. ASSUME NEW i \in z .. n, i # z
        PROVE  /\ i - 1 \in z .. n /\ inc32(cb(i - 1)) = cb(i)
               /\ Stream(x, icb, (i - 1) * B) \o part(i, cb(i - 1)) = Stream(x, icb, i * B)
    <2> DEFINE j == i - 1
               m == B
    <2>1. i \in Nat /\ j \in Nat /\ j \in z .. n /\ j + 1 = i /\ m \in 0 .. BLOCKSIZE /\ j * B + m = i * B /\ i <= n
      BY <1>1, <1>3, <1>7
    <2>2. i * B <= n * B /\ i * B \in Nat /\ n * B \in Nat
      BY <1>1, <1>3, <2>1, Grows
    <2>3. j * B + m <= L
      <3>1. i * B <= L
        BY <1>3, <2>2
      <3> QED BY <2>1, <3>1
    <2>4. inc32(cb(j)) = cb(j + 1)
      <3> HIDE DEF j
      <3> QED BY <1>1, <2>1, Inc
    <2>5. Stream(x, icb, j * BLOCKSIZE) \o Keyed(SubSeq(x, j * BLOCKSIZE + 1, j * BLOCKSIZE + m), (icb + j) % Ctr)
              = Stream(x, icb, j * BLOCKSIZE + m)
      <3> HIDE DEF j, m
      <3>1. Continues(x, icb, j, m)
        BY <1>1, <2>1, <2>3, StreamNext
      <3> QED BY <3>1, Zenon DEF Continues
    <2> HIDE DEF m
    <2>6. Stream(x, icb, j * B) \o Keyed(SubSeq(x, j * B + 1, i * B), cb(j)) = Stream(x, icb, i * B)
      <3> HIDE DEF j
      <3> QED BY <2>1, <2>5
    <2> QED BY <2>1, <2>4, <2>6
  <1> HIDE DEF cb, part, z
  <1>8. g = Step(g)
    <2> DEFINE G(i) == IF i = z THEN state(<<>>, icb)
                       ELSE state(g[i - 1].y \o part(i, g[i - 1].cb), inc32(g[i - 1].cb))
    <2>1. \A i \in z .. n : g[i].y = Stream(x, icb, i * B) /\ g[i].cb = cb(i) /\ g[i] = state(Stream(x, icb, i * B), cb(i))
      OBVIOUS
    <2>2. g = [i \in z .. n |-> g[i]]
      OBVIOUS
    <2> HIDE DEF g, state
    <2>3. ASSUME NEW i \in z .. n PROVE g[i] = G(i)
      <3>1. CASE i = z
        <4>1. g[z] = state(<<>>, icb)
          BY <1>4, <1>5, <1>6, <2>1
        <4> QED BY <3>1, <4>1
      <3>2. CASE i # z
        <4>1. g[i - 1].y = Stream(x, icb, (i - 1) * B) /\ g[i - 1].cb = cb(i - 1)
          BY <1>7, <2>1, <3>2
        <4>2. g[i - 1].y \o part(i, g[i - 1].cb) = Stream(x, icb, i * B) /\ inc32(g[i - 1].cb) = cb(i)
          BY <1>7, <3>2, <4>1
        <4> QED BY <2>1, <3>2, <4>2
      <3> QED BY <3>1, <3>2
    <2>4. [i \in z .. n |-> g[i]] = [i \in z .. n |-> G(i)]
      BY <2>3, Zenon
    <2>5. [i \in z .. n |-> G(i)] = Step(g)
      BY Zenon
    <2> QED BY <2>2, <2>4, <2>5, Zenon
  <1> HIDE DEF g
  <1>9. full = Step(full)
    BY <1>8, Zenon
  <1> HIDE DEF full, state
  <1>10. /\ \A i \in z .. n : full[i] = IF i = z THEN state(<<>>, icb)
                      ELSE state(full[i - 1].y \o part(i, full[i - 1].cb), inc32(full[i - 1].cb))
         /\ \A i \in z .. n : g[i] = IF i = z THEN state(<<>>, icb)
                      ELSE state(g[i - 1].y \o part(i, g[i - 1].cb), inc32(g[i - 1].cb))
    BY <1>8, <1>9, Zenon
  <1> DEFINE P == { i \in z .. n : full[i] = g[i] }
  <1>11. z \in P
    BY <1>4, <1>10
  <1>12. ASSUME NEW i \in z .. n - 1, i \in P PROVE i + 1 \in P
    <2>1. i + 1 \in z .. n /\ i + 1 # z /\ (i + 1) - 1 = i /\ full[i] = g[i]
      BY <1>4, <1>12
    <2>2. /\ full[i + 1] = state(full[i].y \o part(i + 1, full[i].cb), inc32(full[i].cb))
          /\ g[i + 1] = state(g[i].y \o part(i + 1, g[i].cb), inc32(g[i].cb))
      BY <1>10, <2>1
    <2> QED BY <2>1, <2>2
  <1>13. full[n] = g[n]
    <2>1. \A i \in z .. n : i \in P
      <3> HIDE DEF P
      <3> QED BY <1>4, <1>11, <1>12, UpTo
    <2> QED BY <1>4, <2>1
  <1>14. g[n].y = Stream(x, icb, n * B) /\ g[n].cb = cb(n)
    BY <1>4 DEF g, state
  <1>15. Stream(x, icb, n * BLOCKSIZE) \o Keyed(SubSeq(x, n * BLOCKSIZE + 1, n * BLOCKSIZE + r), (icb + n) % Ctr)
             = Stream(x, icb, n * BLOCKSIZE + r)
    <2>1. r \in 0 .. BLOCKSIZE /\ n * BLOCKSIZE + r <= L
      BY <1>1, <1>3
    <2>2. Continues(x, icb, n, r)
      BY <1>1, <1>3, <2>1, StreamNext
    <2> QED BY <2>2, Zenon DEF Continues
  <1>16. Stream(x, icb, n * B) \o Keyed(SubSeq(x, n * B + 1, L), cb(n)) = Stream(x, icb, L)
    BY <1>3, <1>15 DEF cb
  <1> QED BY <1>2, <1>13, <1>14, <1>16

----------------------------------------------------------------------------
(* Gcm: the blocks that are hashed.                                        *)

Blocks(L) == (L + BLOCKSIZE - 1) \div BLOCKSIZE

Padded(x, L, b) == [k \in 1 .. BLOCKSIZE |-> IF (b - 1) * BLOCKSIZE + k <= L THEN x[(b - 1) * BLOCKSIZE + k] ELSE Zero]

Cut(x, L) == [b \in 1 .. Blocks(L) |-> Padded(x, L, b)]

\* A block is a sequence.
LEMMA PaddedSeq ==
    ASSUME NEW x, NEW L, NEW b
    PROVE  /\ IsSeq(Padded(x, L, b), BLOCKSIZE)
           /\ \A k \in 1 .. BLOCKSIZE :
                  Padded(x, L, b)[k] = IF (b - 1) * BLOCKSIZE + k <= L THEN x[(b - 1) * BLOCKSIZE + k] ELSE Zero
  <1>1. Padded(x, L, b) = [k \in 1 .. BLOCKSIZE |-> Padded(x, L, b)[k]]
    BY DEF Padded
  <1>2. IsSeq(Padded(x, L, b), BLOCKSIZE)
    BY <1>1, GcmBounds DEF IsSeq
  <1>3. \A k \in 1 .. BLOCKSIZE :
            Padded(x, L, b)[k] = IF (b - 1) * BLOCKSIZE + k <= L THEN x[(b - 1) * BLOCKSIZE + k] ELSE Zero
    BY Zenon DEF Padded
  <1> QED BY <1>2, <1>3

\* The number of blocks: one more if there is a rest.
LEMMA BlocksIs ==
    ASSUME NEW n \in Nat, NEW r \in 0 .. BLOCKSIZE - 1
    PROVE  Blocks(n * BLOCKSIZE + r) = IF r = 0 THEN n ELSE n + 1
  <1> DEFINE B == BLOCKSIZE
             L == n * B + r
             l == L + B - 1
  <1>1. B \in Nat \ {0} /\ L \in Nat /\ l \in Int /\ n * B \in Nat
    BY GcmBounds
  <1>2. CASE r = 0
    <2> DEFINE s == B - 1
    <2>1. s \in 0 .. B - 1 /\ l = n * B + s /\ n \in Int
      BY <1>1, <1>2
    <2> HIDE DEF s, l, B
    <2>2. l \div B = n
      BY <1>1, <2>1, DivMod
    <2> QED BY <1>2, <2>2 DEF Blocks, l, B
  <1>3. CASE r # 0
    <2> DEFINE s == r - 1
               q == n + 1
    <2>1. s \in 0 .. B - 1 /\ l = q * B + s /\ q \in Int
      BY <1>1, <1>3
    <2> HIDE DEF s, l, B, q
    <2>2. l \div B = q
      BY <1>1, <2>1, DivMod
    <2> QED BY <1>3, <2>2 DEF Blocks, l, B, q
  <1> QED BY <1>2, <1>3

\* The blocks are a sequence.
LEMMA CutSeq ==
    ASSUME NEW x, NEW L \in Nat
    PROVE  IsSeq(Cut(x, L), Blocks(L)) /\ \A b \in 1 .. Blocks(L) : Cut(x, L)[b] = Padded(x, L, b)
  <1> DEFINE l == L + BLOCKSIZE - 1
  <1>1. l \in Nat /\ BLOCKSIZE \in Nat \ {0} /\ l \in Int
    BY GcmBounds
  <1>2. Blocks(L) \in Nat
    <2> HIDE DEF l
    <2>1. l \div BLOCKSIZE \in Nat
      BY <1>1, DivModIs
    <2> QED BY <2>1 DEF l, Blocks
  <1>3. Cut(x, L) = [b \in 1 .. Blocks(L) |-> Cut(x, L)[b]]
    BY DEF Cut
  <1>4. \A b \in 1 .. Blocks(L) : Cut(x, L)[b] = Padded(x, L, b)
    BY Zenon DEF Cut
  <1> QED BY <1>2, <1>3, <1>4 DEF IsSeq

\* The whole blocks that ghash takes from x are blocks of x.
LEMMA FullBlock ==
    ASSUME NEW x, NEW L, IsSeq(x, L), NEW i \in Nat, i # 0, i * BLOCKSIZE <= L
    PROVE  SubSeq(x, (i - 1) * BLOCKSIZE + 1, i * BLOCKSIZE) = Padded(x, L, i)
  <1> DEFINE B == BLOCKSIZE
             a == (i - 1) * B
             s == SubSeq(x, a + 1, i * B)
             p == Padded(x, L, i)
  <1>1. B \in Nat \ {0} /\ B \in Nat /\ L \in Nat /\ a \in Nat /\ a + B = i * B /\ a + B <= L
    BY GcmBounds DEF IsSeq
  <1> HIDE DEF a
  <1>2. IsSeq(s, B) /\ \A k \in 1 .. B : s[k] = x[a + k]
    <2>1. s = SubSeq(x, a + 1, a + B)
      BY <1>1
    <2> HIDE DEF B, s
    <2>2. IsSeq(SubSeq(x, a + 1, a + B), B) /\ \A k \in 1 .. B : SubSeq(x, a + 1, a + B)[k] = x[a + k]
      BY <1>1, Part
    <2> QED BY <2>1, <2>2
  <1>3. IsSeq(p, B) /\ \A k \in 1 .. B : p[k] = IF a + k <= L THEN x[a + k] ELSE Zero
    BY PaddedSeq, Zenon DEF a
  <1>4. \A k \in 1 .. B : a + k <= L
    BY <1>1
  <1> HIDE DEF s, p, B
  <1>5. \A k \in 1 .. B : s[k] = p[k]
    BY <1>2, <1>3, <1>4
  <1>6. s = p
    BY <1>2, <1>3, <1>5, SeqSame
  <1> QED BY <1>6 DEF s, p, a, B

\* So is the rest, with zeros.
LEMMA RestBlock ==
    ASSUME NEW x, NEW L, IsSeq(x, L), NEW n \in Nat, NEW r \in 1 .. BLOCKSIZE - 1, L = n * BLOCKSIZE + r
    PROVE  /\ IsSeq(SubSeq(x, n * BLOCKSIZE + 1, L), r)
           /\ SubSeq(x, n * BLOCKSIZE + 1, L) \o [k \in 1 .. BLOCKSIZE - r |-> Zero] = Padded(x, L, n + 1)
  <1> DEFINE B == BLOCKSIZE
             a == n * B
             s == SubSeq(x, a + 1, L)
             m == B - r
             z == [k \in 1 .. m |-> Zero]
             i == n + 1
             p == Padded(x, L, i)
  <1>1. B \in Nat \ {0} /\ L \in Nat /\ a \in Nat /\ a + r = L /\ r \in Nat /\ m \in Nat /\ r + m = B /\ (i - 1) * B = a
        /\ a + r <= L
    BY GcmBounds DEF IsSeq
  <1> HIDE DEF a
  <1>2. IsSeq(s, r) /\ \A k \in 1 .. r : s[k] = x[a + k]
    <2>1. s = SubSeq(x, a + 1, a + r)
      BY <1>1
    <2> HIDE DEF s
    <2>2. IsSeq(SubSeq(x, a + 1, a + r), r) /\ \A k \in 1 .. r : SubSeq(x, a + 1, a + r)[k] = x[a + k]
      BY <1>1, Part
    <2> QED BY <2>1, <2>2
  <1>3. IsSeq(z, m) /\ \A k \in 1 .. m : z[k] = Zero
    <2>1. z = [k \in 1 .. m |-> z[k]]
      OBVIOUS
    <2>2. \A k \in 1 .. m : z[k] = Zero
      OBVIOUS
    <2> HIDE DEF z, m
    <2> QED BY <1>1, <2>1, <2>2 DEF IsSeq
  <1>4. IsSeq(p, B) /\ \A k \in 1 .. B : p[k] = IF a + k <= L THEN x[a + k] ELSE Zero
    <2>1. \A k \in 1 .. B : p[k] = IF (i - 1) * B + k <= L THEN x[(i - 1) * B + k] ELSE Zero
      BY PaddedSeq, Zenon
    <2>2. IsSeq(p, B)
      BY PaddedSeq, Zenon
    <2> HIDE DEF p, i, B
    <2> QED BY <1>1, <2>1, <2>2
  <1> HIDE DEF s, z, p, m, B
  <1> DEFINE u == s \o z
  <1>5. IsSeq(u, B) /\ (\A k \in 1 .. r : u[k] = s[k]) /\ (\A k \in 1 .. m : u[r + k] = z[k])
    <2>1. Joined(s \o z, s, r, z, m)
      BY <1>2, <1>3, Join
    <2> QED BY <1>1, <2>1 DEF Joined
  <1> HIDE DEF u
  <1>6. ASSUME NEW j \in 1 .. B PROVE u[j] = p[j]
    <2>1. CASE j <= r
      <3>1. j \in 1 .. r /\ a + j <= L
        BY <1>1, <2>1
      <3> QED BY <1>2, <1>4, <1>5, <3>1
    <2>2. CASE ~(j <= r)
      <3> DEFINE k == j - r
      <3>1. k \in 1 .. m /\ r + k = j /\ ~(a + j <= L)
        BY <1>1, <2>2
      <3> HIDE DEF k
      <3>2. u[r + k] = Zero
        BY <1>3, <1>5, <3>1
      <3> QED BY <1>4, <3>1, <3>2
    <2> QED BY <2>1, <2>2
  <1>7. u = p
    BY <1>4, <1>5, <1>6, SeqSame
  <1> QED BY <1>2, <1>7 DEF u, s, z, p, a, m, B

\* ghash takes the blocks of x, the last one padded with zeros.
LEMMA GhashIs ==
    ASSUME NEW x, NEW L, IsSeq(x, L), NEW y, NEW M, IsSeq(y, M)
    PROVE  ghash(x, y) = y \o Cut(x, L)
  <1> DEFINE B == BLOCKSIZE
             n == L \div B
             r == L % B
             full == [i \in 1 .. n |-> SubSeq(x, (i - 1) * B + 1, i * B)]
             rest == SubSeq(x, n * B + 1, L)
             pad(k) == [j \in 1 .. B - k |-> Zero]
             tail == IF rest = <<>> THEN <<>> ELSE <<rest \o pad(Len(rest))>>
             cut == Cut(x, L)
             N == Blocks(L)
  <1>1. B \in Nat \ {0} /\ L \in Nat /\ L \in Int /\ Len(x) = L /\ M \in Nat
    BY GcmBounds, SeqIs DEF IsSeq
  <1>2. ghash(x, y) = (y \o full) \o tail
    <2> DEFINE T(l) ==
                 LET m == l \div BLOCKSIZE
                     f == [i \in 1 .. m |-> SubSeq(x, (i - 1) * BLOCKSIZE + 1, i * BLOCKSIZE)]
                     s == SubSeq(x, m * BLOCKSIZE + 1, l)
                     p == [k \in 1 .. BLOCKSIZE - Len(s) |-> Zero]
                 IN  y \o f \o IF s = <<>> THEN <<>> ELSE <<s \o p>>
    <2>1. ghash(x, y) = T(Len(x))
      BY Zenon DEF ghash
    <2>2. T(L) = (y \o full) \o tail
      BY Zenon
    <2> HIDE DEF T
    <2> QED BY <1>1, <2>1, <2>2, Zenon
  <1>3. n \in Nat /\ r \in 0 .. B - 1 /\ L = n * B + r
    <2> HIDE DEF B
    <2> QED BY <1>1, DivModIs
  <1>4. IsSeq(cut, N) /\ \A b \in 1 .. N : cut[b] = Padded(x, L, b)
    BY <1>1, CutSeq
  <1> HIDE DEF n, r
  <1>5. N = IF r = 0 THEN n ELSE n + 1
    <2>1. Blocks(n * BLOCKSIZE + r) = IF r = 0 THEN n ELSE n + 1
      BY <1>3, BlocksIs
    <2> QED BY <1>3, <2>1
  <1>6. IsSeq(full, n) /\ \A i \in 1 .. n : full[i] = Padded(x, L, i)
    <2>1. full = [i \in 1 .. n |-> full[i]] /\ \A i \in 1 .. n : full[i] = SubSeq(x, (i - 1) * B + 1, i * B)
      BY Zenon
    <2> HIDE DEF full
    <2>2. ASSUME NEW i \in 1 .. n PROVE full[i] = Padded(x, L, i)
      <3>1. i \in Nat /\ i # 0 /\ i <= n
        BY <1>3
      <3>2. i * B <= n * B /\ n * B \in Nat /\ i * B \in Nat
        BY <1>1, <1>3, <3>1, Grows
      <3>3. i * BLOCKSIZE <= L
        BY <1>3, <3>2
      <3>4. SubSeq(x, (i - 1) * BLOCKSIZE + 1, i * BLOCKSIZE) = Padded(x, L, i)
        BY <3>1, <3>3, FullBlock
      <3> QED BY <2>1, <3>4
    <2> QED BY <1>3, <2>1, <2>2 DEF IsSeq
  <1>7. /\ r = 0 => tail = <<>>
        /\ r # 0 => tail = <<Padded(x, L, n + 1)>>
    <2>1. ASSUME r = 0 PROVE tail = <<>>
      <3> DEFINE a == n * B
                 m == 0
      <3>1. a \in Nat /\ m \in Nat /\ a + m = L /\ a + m <= L /\ m = 0
        BY <1>1, <1>3, <2>1
      <3> HIDE DEF a, m
      <3>2. IsSeq(SubSeq(x, a + 1, a + m), m)
        BY <3>1, Part
      <3>3. IsSeq(rest, m)
        BY <3>1, <3>2 DEF a
      <3> HIDE DEF rest
      <3>4. rest = <<>>
        BY <3>1, <3>3, ShortIs
      <3> QED BY <3>4
    <2>2. ASSUME r # 0 PROVE tail = <<Padded(x, L, n + 1)>>
      <3>1. r \in 1 .. BLOCKSIZE - 1
        BY <1>1, <1>3, <2>2
      <3>2. IsSeq(rest, r) /\ rest \o pad(r) = Padded(x, L, n + 1)
        BY <1>3, <3>1, RestBlock
      <3> HIDE DEF rest, pad
      <3>3. Len(rest) = r
        BY <3>2, SeqIs
      <3>4. rest # <<>>
        BY <2>2, <3>2, ShortIs
      <3> QED BY <3>2, <3>3, <3>4
    <2> QED BY <2>1, <2>2
  <1> HIDE DEF full, tail, cut, N, B
  <1>8. Joined(y \o full, y, M, full, n) /\ Joined(y \o cut, y, M, cut, N)
    BY <1>4, <1>6, Join
  <1> DEFINE s == y \o full
             w == y \o cut
  <1>9. IsSeq(s, M + n) /\ (\A k \in 1 .. M : s[k] = y[k]) /\ (\A k \in 1 .. n : s[M + k] = full[k])
    BY <1>8, Zenon DEF Joined
  <1>10. IsSeq(w, M + N) /\ (\A k \in 1 .. M : w[k] = y[k]) /\ (\A k \in 1 .. N : w[M + k] = cut[k])
    BY <1>8, Zenon DEF Joined
  <1> HIDE DEF s, w
  <1>11. N \in Nat /\ (\A k \in 1 .. n : k \in 1 .. N)
    BY <1>3, <1>5
  <1>12. \A j \in 1 .. M + n : s[j] = w[j]
    <2> SUFFICES ASSUME NEW j \in 1 .. M + n PROVE s[j] = w[j]
      OBVIOUS
    <2>1. CASE j \in 1 .. M
      BY <1>9, <1>10, <2>1
    <2>2. CASE j \notin 1 .. M
      <3> DEFINE k == j - M
      <3>1. k \in 1 .. n /\ M + k = j
        BY <1>1, <1>3, <2>2
      <3> HIDE DEF k
      <3>2. s[M + k] = w[M + k]
        BY <1>4, <1>6, <1>9, <1>10, <1>11, <3>1
      <3> QED BY <3>1, <3>2
    <2> QED BY <2>1, <2>2
  <1>13. CASE r = 0
    <2> DEFINE l == M + n
    <2>1. IsSeq(s, l) /\ IsSeq(w, l) /\ \A j \in 1 .. l : s[j] = w[j]
      BY <1>5, <1>9, <1>10, <1>12, <1>13
    <2>2. s \in Seq({ s[k] : k \in 1 .. l })
      BY <2>1, SeqIs
    <2>3. s \o <<>> = s
      BY <2>2, ConcatEmptySeq
    <2> HIDE DEF l
    <2>4. s = w
      BY <2>1, SeqSame
    <2> QED BY <1>2, <1>7, <1>13, <2>3, <2>4 DEF s, w, cut
  <1>14. CASE r # 0
    <2> DEFINE e == Padded(x, L, n + 1)
               one == <<e>>
               l == M + n
               v == s \o one
               h == 1
    <2>1. IsSeq(one, h) /\ one[h] = e /\ h \in 1 .. h
      BY Short
    <2>2. tail = one /\ M + N = l + h /\ l \in Nat /\ n + 1 \in 1 .. N /\ M + (n + 1) = l + h
      BY <1>1, <1>3, <1>5, <1>7, <1>14
    <2>3. w[l + h] = e
      <3>1. w[M + (n + 1)] = cut[n + 1] /\ cut[n + 1] = e
        BY <1>4, <1>10, <2>2
      <3> HIDE DEF l, h, e
      <3> QED BY <2>2, <3>1
    <2>4. IsSeq(s, l) /\ IsSeq(w, l + h) /\ \A j \in 1 .. l : s[j] = w[j]
      <3> HIDE DEF h
      <3> QED BY <1>9, <1>10, <1>12, <2>2
    <2> HIDE DEF e, one, l
    <2>5. \A j \in 1 .. l + h : j \in 1 .. l \/ j = l + h
      BY <2>2
    <2> HIDE DEF h
    <2>6. Joined(v, s, l, one, h)
      BY <2>1, <2>4, Join
    <2> HIDE DEF v
    <2>7. IsSeq(v, l + h) /\ (\A k \in 1 .. l : v[k] = s[k]) /\ v[l + h] = one[h]
      BY <2>1, <2>6, Zenon DEF Joined
    <2>8. \A j \in 1 .. l + h : v[j] = w[j]
      BY <2>1, <2>3, <2>4, <2>5, <2>7
    <2>9. v = w
      <3> DEFINE g == l + h
      <3>1. IsSeq(v, g) /\ IsSeq(w, g) /\ \A j \in 1 .. g : v[j] = w[j]
        BY <2>4, <2>7, <2>8
      <3> HIDE DEF g
      <3> QED BY <3>1, SeqSame
    <2> QED BY <1>2, <2>2, <2>9 DEF s, w, v, cut
  <1> QED BY <1>13, <1>14

\* A block of lengths is cut into itself.
LEMMA CutBlock ==
    ASSUME NEW s, IsSeq(s, BLOCKSIZE)
    PROVE  Cut(s, BLOCKSIZE) = <<s>>
  <1> DEFINE B == BLOCKSIZE
             c == Cut(s, B)
             one == 1
             z == 0
             p == Padded(s, B, one)
  <1>1. B \in Nat \ {0} /\ B \in Nat /\ one \in Nat /\ z \in 0 .. B - 1 /\ one * B + z = B
    BY GcmBounds
  <1>2. Blocks(B) = 1
    <2> HIDE DEF one, z, B
    <2>1. Blocks(one * BLOCKSIZE + z) = IF z = 0 THEN one ELSE one + 1
      BY <1>1, BlocksIs DEF B
    <2> QED BY <1>1, <2>1 DEF one, z, B
  <1>3. IsSeq(c, Blocks(B)) /\ \A b \in 1 .. Blocks(B) : c[b] = Padded(s, B, b)
    BY <1>1, CutSeq
  <1>4. IsSeq(c, one) /\ c[1] = p
    BY <1>2, <1>3
  <1>5. IsSeq(p, B) /\ \A k \in 1 .. B : p[k] = IF (one - 1) * B + k <= B THEN s[(one - 1) * B + k] ELSE Zero
    <2> HIDE DEF one
    <2> QED BY PaddedSeq, Zenon
  <1>6. \A k \in 1 .. B : (one - 1) * B + k = k /\ k <= B
    BY <1>1
  <1> HIDE DEF p, c
  <1>7. \A k \in 1 .. B : p[k] = s[k]
    <2> HIDE DEF one
    <2> QED BY <1>5, <1>6
  <1>8. p = s
    <2> HIDE DEF B
    <2>1. IsSeq(s, B)
      BY DEF B
    <2> QED BY <1>5, <1>7, <2>1, SeqSame
  <1>9. IsSeq(<<s>>, one) /\ <<s>>[1] = s
    BY Short
  <1>10. \A k \in 1 .. one : c[k] = <<s>>[k]
    BY <1>4, <1>8, <1>9
  <1>11. c = <<s>>
    <2> DEFINE t == <<s>>
    <2>1. IsSeq(t, one) /\ \A k \in 1 .. one : c[k] = t[k]
      BY <1>9, <1>10
    <2> HIDE DEF t, one
    <2>2. c = t
      BY <1>4, <2>1, SeqSame
    <2> QED BY <2>2 DEF t
  <1> QED BY <1>11 DEF c

\* Bytes of a text are a sequence.
LEMMA BytesSeq ==
    ASSUME NEW name, NEW n \in Nat
    PROVE  IsSeq(Bytes(name, n), n) /\ \A k \in 1 .. n : Bytes(name, n)[k] = [is |-> name, at |-> k]
  <1>1. Bytes(name, n) = [k \in 1 .. n |-> Bytes(name, n)[k]]
    BY DEF Bytes
  <1>2. \A k \in 1 .. n : Bytes(name, n)[k] = [is |-> name, at |-> k]
    BY Zenon DEF Bytes
  <1> QED BY <1>1, <1>2 DEF IsSeq

\* A block of numbers is a sequence.
LEMMA NumbersSeq ==
    ASSUME NEW a, NEW b PROVE IsSeq(Numbers(a, b), BLOCKSIZE)
  <1>1. Numbers(a, b) = [k \in 1 .. BLOCKSIZE |-> Numbers(a, b)[k]]
    BY DEF Numbers
  <1> QED BY <1>1, GcmBounds DEF IsSeq

\* The lengths of texts in bits have room in size_t: nothing of them is lost.
LEMMA LenBufIs ==
    ASSUME NEW a \in 0 .. MaxBytes, NEW b \in 0 .. MaxBytes
    PROVE  len_buf(a, b) = Numbers(8 * a, 8 * b)
  <1> DEFINE s == 2^SizeBits
             x == 8 * a
             y == 8 * b
  <1>1. s \in Nat \ {0} /\ 8 * MaxBytes < s /\ MaxBytes \in Nat
    BY GcmPowers, MaxBytesOK
  <1> HIDE DEF s
  <1>2. x \in 0 .. s - 1 /\ y \in 0 .. s - 1
    BY <1>1
  <1> HIDE DEF x, y
  <1>3. x % s = x /\ y % s = y
    BY <1>1, <1>2
  <1>4. len_buf(a, b) = Numbers(x % s, y % s)
    BY Zenon DEF len_buf, x, y, s
  <1> QED BY <1>3, <1>4, Zenon DEF x, y

\* A text in blocks.
LEMMA InBlocksIs ==
    ASSUME NEW x, NEW L, IsSeq(x, L)
    PROVE  InBlocks(x) = Cut(x, L)
  <1> DEFINE T(l) == LET at(i) == IF i <= l THEN x[i] ELSE Zero
                     IN  [b \in 1 .. (l + BLOCKSIZE - 1) \div BLOCKSIZE |->
                             [k \in 1 .. BLOCKSIZE |-> at((b - 1) * BLOCKSIZE + k)]]
  <1>1. Len(x) = L
    BY SeqIs
  <1>2. InBlocks(x) = T(Len(x))
    BY Zenon DEF InBlocks
  <1>3. T(L) = Cut(x, L)
    BY Zenon DEF Cut, Padded, Blocks
  <1> HIDE DEF T
  <1> QED BY <1>1, <1>2, <1>3, Zenon

\* The hash of one text.
LEMMA HashOne ==
    ASSUME NEW x, NEW L, IsSeq(x, L)
    PROVE  ghash(x, <<>>) = Cut(x, L) /\ IsSeq(Cut(x, L), Blocks(L))
  <1> DEFINE nil == <<>>
             z == 0
             A == Cut(x, L)
             M == Blocks(L)
  <1>0. L \in Nat
    BY DEF IsSeq
  <1>1. IsSeq(nil, z)
    BY Short
  <1>2. IsSeq(A, M)
    BY <1>0, CutSeq
  <1> HIDE DEF nil, z
  <1>3. ghash(x, nil) = nil \o A
    BY <1>1, GhashIs
  <1> HIDE DEF A, M
  <1>4. A \in Seq({ A[k] : k \in 1 .. M })
    BY <1>2, SeqIs
  <1>5. nil \o A = A
    BY <1>4, ConcatEmptySeq DEF nil
  <1> QED BY <1>2, <1>3, <1>5 DEF nil, A, M

\* A hash takes a block of numbers as it is.
LEMMA HashNumbers ==
    ASSUME NEW s, NEW l, IsSeq(s, l), NEW a, NEW b
    PROVE  ghash(Numbers(a, b), s) = s \o <<Numbers(a, b)>>
  <1> DEFINE buf == Numbers(a, b)
  <1>1. IsSeq(buf, BLOCKSIZE)
    BY NumbersSeq
  <1> HIDE DEF buf
  <1>2. Cut(buf, BLOCKSIZE) = <<buf>>
    BY <1>1, CutBlock
  <1>3. ghash(buf, s) = s \o Cut(buf, BLOCKSIZE)
    BY <1>1, GhashIs
  <1> QED BY <1>2, <1>3 DEF buf

\* What is hashed: the additional data, the cipher text and their lengths.
LEMMA HashIs ==
    ASSUME NEW m \in 0 .. MaxBytes, NEW n \in 0 .. MaxBytes, NEW crypt, IsSeq(crypt, n)
    PROVE  aes_gcm_ghash(Bytes("aad", m), crypt) = HashInput(Bytes("aad", m), crypt)
  <1> DEFINE aad == Bytes("aad", m)
             A == Cut(aad, m)
             C == Cut(crypt, n)
             buf == Numbers(8 * m, 8 * n)
             M == Blocks(m)
             N == Blocks(n)
  <1>0. m \in Nat /\ n \in Nat
    BY MaxBytesOK
  <1>1. IsSeq(aad, m) /\ Len(aad) = m /\ Len(crypt) = n
    <2>1. IsSeq(aad, m)
      BY <1>0, BytesSeq
    <2> HIDE DEF aad
    <2>2. Len(aad) = m /\ Len(crypt) = n
      BY <2>1, SeqIs
    <2> QED BY <2>1, <2>2
  <1> HIDE DEF aad
  <1>2. ghash(aad, <<>>) = A /\ IsSeq(A, M)
    BY <1>1, HashOne
  <1>3. IsSeq(C, N)
    BY <1>0, CutSeq
  <1>4. HashInput(aad, crypt) = (A \o C) \o <<buf>>
    <2>1. InBlocks(aad) = A /\ InBlocks(crypt) = C
      BY <1>1, InBlocksIs
    <2>2. HashInput(aad, crypt) = (InBlocks(aad) \o InBlocks(crypt)) \o <<Numbers(8 * Len(aad), 8 * Len(crypt))>>
      BY Zenon DEF HashInput
    <2> HIDE DEF A, C
    <2> QED BY <1>1, <2>1, <2>2
  <1>5. aes_gcm_ghash(aad, crypt) = ghash(buf, ghash(crypt, ghash(aad, <<>>)))
    <2>1. len_buf(m, n) = buf
      BY LenBufIs
    <2>2. aes_gcm_ghash(aad, crypt) = ghash(len_buf(Len(aad), Len(crypt)), ghash(crypt, ghash(aad, <<>>)))
      BY Zenon DEF aes_gcm_ghash
    <2> HIDE DEF buf
    <2> QED BY <1>1, <2>1, <2>2
  <1> HIDE DEF A, C, M, N
  <1>7. ghash(crypt, A) = A \o C
    BY <1>2, GhashIs DEF C
  <1> DEFINE s == A \o C
             l == M + N
  <1>8. IsSeq(s, l)
    <2>1. Joined(A \o C, A, M, C, N)
      BY <1>2, <1>3, Join
    <2> QED BY <2>1 DEF Joined
  <1>9. ghash(buf, s) = s \o <<buf>>
    <2> HIDE DEF s, l
    <2> QED BY <1>8, HashNumbers
  <1> HIDE DEF buf
  <1> QED BY <1>2, <1>4, <1>5, <1>7, <1>9 DEF aad

\* J0 is the IV with a counter of one, or the hash of the IV and its length.
LEMMA J0Is ==
    ASSUME NEW iv_len \in 0 .. MaxBytes, NEW hash
    PROVE  IsJ0(aes_gcm_prepare_j0(iv_len, hash), iv_len)
  <1> DEFINE J0 == aes_gcm_prepare_j0(iv_len, hash)
             iv == Bytes("iv", iv_len)
             B == BLOCKSIZE
             byte(k) == [is |-> "iv", at |-> k]
  <1>1. /\ B \in Nat \ {0} /\ B \in Nat /\ iv_len \in Nat /\ MaxBytes \in Nat
        /\ IvLen \in Nat /\ IvLen < B
    BY GcmBounds, MaxBytesOK, GcmSizes
  <1>2. IsSeq(iv, iv_len) /\ \A k \in 1 .. iv_len : iv[k] = byte(k)
    BY <1>1, BytesSeq
  <1>3. CASE iv_len = IvLen
    <2> DEFINE n == B - iv_len
               zeros == [k \in 1 .. n |-> Zero]
               u == iv \o zeros
               v == [u EXCEPT ![B] = One]
    <2>1. J0.block = v /\ J0.ctr = 1
      <3>1. J0 = [block |-> v, ctr |-> 1]
        BY <1>3, Zenon DEF aes_gcm_prepare_j0
      <3> HIDE DEF J0, v
      <3> QED BY <3>1
    <2>2. n \in Nat /\ iv_len + n = B /\ n # 0
      BY <1>1, <1>3
    <2>3. IsSeq(zeros, n) /\ \A k \in 1 .. n : zeros[k] = Zero
      <3> HIDE DEF n
      <3> QED BY <2>2 DEF IsSeq
    <2> HIDE DEF iv, zeros, J0
    <2>4. Joined(u, iv, iv_len, zeros, n)
      <3> HIDE DEF n
      <3> QED BY <1>2, <2>3, Join
    <2> HIDE DEF u
    <2>5. IsSeq(u, B) /\ (\A k \in 1 .. iv_len : u[k] = byte(k)) /\ \A k \in 1 .. n : u[iv_len + k] = Zero
      <3> HIDE DEF n, B, byte
      <3> QED BY <1>2, <2>2, <2>3, <2>4 DEF Joined
    <2>6. \A k \in 1 .. B : k > iv_len => u[k] = Zero
      <3> SUFFICES ASSUME NEW k \in 1 .. B, k > iv_len PROVE u[k] = Zero
        OBVIOUS
      <3> DEFINE j == k - iv_len
      <3>1. j \in 1 .. n /\ iv_len + j = k
        BY <1>1
      <3> HIDE DEF j, n
      <3>2. u[iv_len + j] = Zero
        BY <2>5, <3>1
      <3> QED BY <3>1, <3>2
    <2> DEFINE want(k) == IF k <= IvLen THEN byte(k) ELSE IF k < B THEN Zero ELSE One
    <2>7. ASSUME NEW k \in 1 .. B PROVE (IF k = B THEN One ELSE u[k]) = want(k)
      <3> HIDE DEF byte
      <3>1. CASE k <= IvLen
        <4>1. k \in 1 .. iv_len /\ k # B
          BY <1>1, <1>3, <3>1
        <4> QED BY <2>5, <3>1, <4>1
      <3>2. CASE ~(k <= IvLen) /\ k # B
        <4>1. k > iv_len /\ k < B
          BY <1>1, <1>3, <3>2
        <4> QED BY <2>6, <3>2, <4>1
      <3>3. CASE k = B
        BY <1>1, <3>3
      <3> QED BY <3>1, <3>2, <3>3
    <2>8. v = [k \in 1 .. B |-> IF k = B THEN One ELSE u[k]]
      <3>1. u = [k \in 1 .. B |-> u[k]]
        BY <2>5 DEF IsSeq
      <3> HIDE DEF B
      <3> QED BY <3>1
    <2>9. v = [k \in 1 .. B |-> want(k)]
      <3> HIDE DEF v, want
      <3> QED BY <2>7, <2>8, Zenon
    <2> HIDE DEF v
    <2>10. J0.ctr = 1 /\ J0.block = [k \in 1 .. B |-> want(k)]
      BY <2>1, <2>9, Zenon
    <2>11. IsJ0(J0, iv_len)
      BY <1>3, <2>10, Zenon DEF IsJ0
    <2> QED BY <2>11 DEF J0
  <1>4. CASE iv_len # IvLen
    <2> DEFINE buf == Numbers(0, 8 * iv_len)
               A == Cut(iv, iv_len)
               M == Blocks(iv_len)
               h == ghash(len_buf(0, iv_len), ghash(iv, <<>>))
    <2>1. J0.hash_of = h
      <3>1. J0 = [hash_of |-> h, ctr |-> hash]
        BY <1>4, Zenon DEF aes_gcm_prepare_j0
      <3> HIDE DEF J0, h
      <3> QED BY <3>1
    <2> HIDE DEF iv, J0
    <2>2. len_buf(0, iv_len) = buf
      <3> DEFINE z == 0
      <3>1. z \in 0 .. MaxBytes /\ 8 * z = 0
        BY <1>1
      <3>2. len_buf(z, iv_len) = Numbers(8 * z, 8 * iv_len)
        <4> HIDE DEF z
        <4> QED BY <3>1, LenBufIs
      <3> QED BY <3>1, <3>2
    <2>3. ghash(iv, <<>>) = A /\ IsSeq(A, M) /\ InBlocks(iv) = A
      BY <1>2, HashOne, InBlocksIs
    <2> HIDE DEF A, M
    <2>4. ghash(buf, A) = A \o <<buf>>
      BY <2>3, HashNumbers
    <2> HIDE DEF buf
    <2>5. J0.hash_of = InBlocks(iv) \o <<buf>>
      BY <2>1, <2>2, <2>3, <2>4
    <2>6. IsJ0(J0, iv_len)
      BY <1>4, <2>5, Zenon DEF IsJ0, iv, buf
    <2> QED BY <2>6 DEF J0
  <1> QED BY <1>3, <1>4

\* Counters that are less than a round apart differ.
LEMMA CountersDiffer ==
    ASSUME NEW u \in Nat, NEW d \in 1 .. Ctr - 1
    PROVE  (u + d) % Ctr # u % Ctr
  <1> DEFINE a == u \div Ctr
             r == u % Ctr
             v == u + d
             b == v \div Ctr
             s == v % Ctr
  <1>1. Ctr \in Nat \ {0} /\ u \in Int /\ v \in Int /\ v \in Nat
    BY GcmBounds
  <1>2. a \in Nat /\ r \in 0 .. Ctr - 1 /\ u = a * Ctr + r
    BY <1>1, DivModIs
  <1>3. b \in Nat /\ s \in 0 .. Ctr - 1 /\ v = b * Ctr + s
    <2> HIDE DEF v
    <2> QED BY <1>1, DivModIs
  <1> HIDE DEF a, r, b, s
  <1>4. ASSUME s = r PROVE FALSE
    <2> DEFINE e == b - a
    <2>1. e \in Int /\ d = e * Ctr /\ d >= 1 /\ d < Ctr
      <3>1. b * Ctr = a * Ctr + d
        BY <1>1, <1>2, <1>3, <1>4
      <3>2. e * Ctr = b * Ctr - a * Ctr /\ b * Ctr \in Nat /\ a * Ctr \in Nat
        BY <1>1, <1>2, <1>3
      <3> QED BY <1>1, <1>2, <1>3, <3>1, <3>2
    <2> HIDE DEF e
    <2>2. CASE e <= 0
      <3> DEFINE f == 0 - e
                 g == f * Ctr
      <3>1. f \in Nat /\ f * Ctr \in Nat /\ e * Ctr = 0 - f * Ctr
        BY <1>1, <2>1, <2>2
      <3> HIDE DEF f
      <3>2. g \in Nat /\ d = 0 - g
        BY <2>1, <3>1
      <3> HIDE DEF g
      <3> QED BY <2>1, <3>2
    <2>3. CASE e >= 1
      <3> DEFINE o == 1
      <3>1. e \in Nat /\ o \in Nat /\ o <= e /\ Ctr \in Nat
        BY <1>1, <2>1, <2>3
      <3> HIDE DEF o
      <3>2. o * Ctr <= e * Ctr
        BY <3>1, Grows
      <3>3. o * Ctr = Ctr
        BY <1>1 DEF o
      <3> QED BY <1>1, <2>1, <3>2, <3>3
    <2> QED BY <2>1, <2>2, <2>3
  <1> QED BY <1>4 DEF r, s, v

Unused(c, j, k) ==
    LET B == BLOCKSIZE
        p == (j - 1) \div B
        q == (k - 1) \div B
    IN  /\ (c + 1 + p) % Ctr # c
        /\ (c + 1 + p) % Ctr = (c + 1 + q) % Ctr /\ ((j - 1) % B) + 1 = ((k - 1) % B) + 1 => j = k

\* No byte of a text meets a byte of the key stream that another one, or the
\* tag, has met.
LEMMA NoReuse ==
    ASSUME NEW c \in 0 .. Ctr - 1, NEW n \in 0 .. MaxBytes, NEW j \in 1 .. n, NEW k \in 1 .. n
    PROVE  Unused(c, j, k)
  <1> DEFINE B == BLOCKSIZE
             R1 == Ctr - 1
             p == (j - 1) \div B
             q == (k - 1) \div B
             r == (j - 1) % B
             s == (k - 1) % B
  <1>1. /\ B \in Nat \ {0} /\ Ctr \in Nat \ {0} /\ R1 \in Nat /\ MaxBytes \in Nat /\ MaxBytes <= B * R1
        /\ j - 1 \in Nat /\ j - 1 \in Int /\ k - 1 \in Nat /\ k - 1 \in Int /\ j <= MaxBytes /\ k <= MaxBytes
    BY GcmBounds, MaxBytesOK DEF Ctr
  <1>2. p \in Nat /\ r \in 0 .. B - 1 /\ j - 1 = p * B + r
    <2> DEFINE i == j - 1
    <2>1. i \in Int /\ i \in Nat
      BY <1>1
    <2> HIDE DEF i, B
    <2>2. i \div B \in Nat /\ i % B \in 0 .. B - 1 /\ i = (i \div B) * B + (i % B)
      BY <1>1, <2>1, DivModIs
    <2> QED BY <2>2 DEF i
  <1>3. q \in Nat /\ s \in 0 .. B - 1 /\ k - 1 = q * B + s
    <2> DEFINE i == k - 1
    <2>1. i \in Int /\ i \in Nat
      BY <1>1
    <2> HIDE DEF i, B
    <2>2. i \div B \in Nat /\ i % B \in 0 .. B - 1 /\ i = (i \div B) * B + (i % B)
      BY <1>1, <2>1, DivModIs
    <2> QED BY <2>2 DEF i
  <1> HIDE DEF p, q, r, s, B, R1
  <1>4. ASSUME NEW i \in Nat, NEW t \in 0 .. B - 1, NEW l \in Nat, l - 1 = i * B + t, l <= MaxBytes PROVE i < R1
    <2> SUFFICES ASSUME R1 <= i PROVE FALSE
      BY <1>1, <1>4
    <2>1. B \in Nat
      BY <1>1
    <2>2. R1 * B <= i * B /\ R1 * B \in Nat /\ i * B \in Nat
      BY <1>1, <2>1, Grows
    <2>3. B * R1 = R1 * B
      BY <1>1
    <2> QED BY <1>1, <1>4, <2>2, <2>3
  <1>5. p < R1 /\ q < R1
    <2>1. j \in Nat /\ k \in Nat
      BY <1>1
    <2> QED BY <1>1, <1>2, <1>3, <1>4, <2>1
  <1>6. (c + 1 + p) % Ctr # c
    <2> DEFINE d == 1 + p
    <2>1. c \in Nat /\ d \in 1 .. Ctr - 1 /\ c + 1 + p = c + d /\ c % Ctr = c
      BY <1>1, <1>2, <1>5 DEF R1
    <2> HIDE DEF d
    <2>2. (c + d) % Ctr # c % Ctr
      BY <2>1, CountersDiffer
    <2> QED BY <2>1, <2>2
  <1>7. ASSUME NEW a \in Nat, NEW b \in Nat, a < b, b < R1 PROVE (c + 1 + a) % Ctr # (c + 1 + b) % Ctr
    <2> DEFINE u == c + 1 + a
               d == b - a
    <2>1. u \in Nat /\ d \in 1 .. Ctr - 1 /\ u + d = c + 1 + b
      BY <1>1, <1>7 DEF R1
    <2> HIDE DEF u, d
    <2>2. (u + d) % Ctr # u % Ctr
      BY <2>1, CountersDiffer
    <2> QED BY <2>1, <2>2 DEF u
  <1>8. ASSUME (c + 1 + p) % Ctr = (c + 1 + q) % Ctr, r + 1 = s + 1 PROVE j = k
    <2>1. ~(p < q) /\ ~(q < p)
      BY <1>2, <1>3, <1>5, <1>7, <1>8
    <2>2. p = q /\ r = s
      BY <1>1, <1>2, <1>3, <1>8, <2>1
    <2>3. j - 1 = k - 1
      BY <1>2, <1>3, <2>2
    <2> QED BY <1>1, <2>3
  <1> QED BY <1>6, <1>8, Zenon DEF p, q, r, s, B, Unused

\* aes_gcm_ae with a key schedule makes J0, encrypts and hashes as it should.
LEMMA EncryptIs ==
    ASSUME NEW iv_len \in 0 .. MaxBytes, NEW hash \in 0 .. Ctr - 1, NEW n \in 0 .. MaxBytes, NEW m \in 0 .. MaxBytes
    PROVE  IsGcm(aes_gcm_ae(TRUE, iv_len, hash, n, m), iv_len, n, m)
  <1> DEFINE J0 == aes_gcm_prepare_j0(iv_len, hash)
             c == J0.ctr
             plain == Bytes("plain", n)
             crypt == aes_gctr(inc32(c), plain)
             S == aes_gcm_ghash(Bytes("aad", m), crypt)
             sum == Bytes("S", BLOCKSIZE)
             tag == aes_gctr(c, sum)
             res == aes_gcm_ae(TRUE, iv_len, hash, n, m)
             cb(k) == (c + 1 + (k - 1) \div BLOCKSIZE) % Ctr
             at(k) == ((k - 1) % BLOCKSIZE) + 1
             byte(k) == [is |-> "plain", at |-> k]
  <1>1. /\ BLOCKSIZE \in Nat \ {0} /\ BLOCKSIZE \in Nat /\ Ctr \in Nat \ {0} /\ Ctr > 1 /\ n \in Nat /\ m \in Nat
        /\ Ctr = 2^CtrBits
    BY GcmBounds, MaxBytesOK
  <1>2. c \in 0 .. Ctr - 1 /\ c \in Nat
    <2>1. 1 \in 0 .. Ctr - 1
      BY <1>1
    <2>2. c = IF iv_len = IvLen THEN 1 ELSE hash
      BY DEF aes_gcm_prepare_j0
    <2> HIDE DEF c
    <2> QED BY <1>1, <2>1, <2>2
  <1>3. res.ret = 0 /\ res.j0 = J0 /\ res.crypt = crypt /\ res.S = S /\ res.tag = tag
    <2>1. res = [ret |-> 0, j0 |-> J0, crypt |-> crypt, S |-> S, tag |-> tag]
      BY Zenon DEF aes_gcm_ae
    <2> HIDE DEF res, J0, crypt, S, tag
    <2> QED BY <2>1
  <1>16. IsJ0(J0, iv_len)
    BY J0Is
  <1> HIDE DEF res, c, J0
  <1>4. IsSeq(plain, n) /\ (\A k \in 1 .. n : plain[k] = byte(k)) /\ IsSeq(sum, BLOCKSIZE)
        /\ (\A k \in 1 .. BLOCKSIZE : sum[k] = [is |-> "S", at |-> k])
    BY <1>1, BytesSeq
  <1> HIDE DEF plain, sum
  <1>5. inc32(c) \in 0 .. Ctr - 1
    BY <1>1, <1>2 DEF inc32
  <1>6. crypt = Stream(plain, inc32(c), n)
    <2> DEFINE i == inc32(c)
    <2>1. i \in 0 .. Ctr - 1
      BY <1>5
    <2> HIDE DEF i
    <2>2. aes_gctr(i, plain) = Stream(plain, i, n)
      BY <1>4, <2>1, GctrIs
    <2> QED BY <2>2 DEF i
  <1>7. IsSeq(crypt, n) /\ \A k \in 1 .. n : crypt[k] = Out(plain[k], CounterAt(inc32(c), k), at(k))
    <2> DEFINE i == inc32(c)
    <2> HIDE DEF i
    <2>1. /\ IsSeq(Stream(plain, i, n), n)
          /\ \A k \in 1 .. n : Stream(plain, i, n)[k] = Out(plain[k], CounterAt(i, k), at(k))
      BY <1>1, StreamSeq
    <2> HIDE DEF crypt, at
    <2> QED BY <1>6, <2>1 DEF i
  <1> HIDE DEF crypt
  <1>8. ASSUME NEW k \in 1 .. n PROVE crypt[k] = Out(byte(k), cb(k), at(k))
    <2> DEFINE q == (k - 1) \div BLOCKSIZE
    <2>1. q \in Nat
      BY <1>1
    <2> HIDE DEF q
    <2>2. (inc32(c) + q) % Ctr = (c + 1 + q) % Ctr
      BY <1>2, <2>1, Inc
    <2>3. CounterAt(inc32(c), k) = cb(k)
      BY <2>2, Zenon DEF q, CounterAt
    <2> HIDE DEF cb, at, byte
    <2> QED BY <1>4, <1>7, <2>3
  <1>9. S = HashInput(Bytes("aad", m), crypt)
    BY <1>7, HashIs
  <1>10. ASSUME NEW k \in 1 .. BLOCKSIZE PROVE tag[k] = [of |-> [is |-> "S", at |-> k], cb |-> c, at |-> k]
    <2>1. tag = Stream(sum, c, BLOCKSIZE)
      BY <1>2, <1>4, GctrIs
    <2>2. Stream(sum, c, BLOCKSIZE)[k] = Out(sum[k], CounterAt(c, k), at(k))
      BY <1>1, StreamSeq
    <2>3. CounterAt(c, k) = c
      <3>1. (k - 1) \div BLOCKSIZE = 0 /\ c + 0 = c /\ c % Ctr = c
        BY <1>1, <1>2
      <3> QED BY <3>1 DEF CounterAt
    <2>4. at(k) = k /\ sum[k] = [is |-> "S", at |-> k]
      BY <1>1, <1>4
    <2> HIDE DEF tag, at
    <2>5. tag[k] = Out(sum[k], c, k)
      BY <2>1, <2>2, <2>3, <2>4
    <2> QED BY <2>4, <2>5, Zenon DEF Out
  <1>11. ASSUME NEW j \in 1 .. n, NEW k \in 1 .. n
         PROVE  /\ crypt[j].cb # c
                /\ (crypt[j].cb = crypt[k].cb /\ crypt[j].at = crypt[k].at) => j = k
    <2>1. cb(j) # c /\ (cb(j) = cb(k) /\ at(j) = at(k) => j = k)
      <3>1. Unused(c, j, k)
        BY <1>2, NoReuse
      <3> QED BY <3>1, Zenon DEF Unused
    <2> HIDE DEF cb, at, byte
    <2>2. crypt[j] = Out(byte(j), cb(j), at(j)) /\ crypt[k] = Out(byte(k), cb(k), at(k))
      BY <1>8
    <2>3. crypt[j].cb = cb(j) /\ crypt[k].cb = cb(k) /\ crypt[j].at = at(j) /\ crypt[k].at = at(k)
      BY <2>2 DEF Out
    <2> QED BY <2>1, <2>3
  <1>12. Len(crypt) = n
    BY <1>7, SeqIs
  <1> HIDE DEF S, tag
  <1>13. \A k \in 1 .. n : crypt[k] = [of |-> [is |-> "plain", at |-> k],
                                       cb |-> (c + 1 + (k - 1) \div BLOCKSIZE) % 2^CtrBits,
                                       at |-> ((k - 1) % BLOCKSIZE) + 1]
    BY <1>8, Zenon DEF Out, Ctr
  <1> DEFINE Want(ret, j, cr, s, tg) ==
        /\ ret = 0
        /\ IsJ0(j, iv_len)
        /\ \A k \in 1 .. n : cr[k] = [of |-> [is |-> "plain", at |-> k],
                                      cb |-> (j.ctr + 1 + (k - 1) \div BLOCKSIZE) % 2^CtrBits,
                                      at |-> ((k - 1) % BLOCKSIZE) + 1]
        /\ Len(cr) = n
        /\ s = HashInput(Bytes("aad", m), cr)
        /\ \A k \in 1 .. BLOCKSIZE : tg[k] = [of |-> [is |-> "S", at |-> k], cb |-> j.ctr, at |-> k]
        /\ \A i, k \in 1 .. n : /\ cr[i].cb # j.ctr
                                /\ (cr[i].cb = cr[k].cb /\ cr[i].at = cr[k].at) => i = k
  <1>14. Want(0, J0, crypt, S, tag)
    BY <1>9, <1>10, <1>11, <1>12, <1>13, <1>16, Zenon DEF c
  <1>15. Want(res.ret, res.j0, res.crypt, res.S, res.tag)
    <2> HIDE DEF Want
    <2> QED BY <1>3, <1>14
  <1> QED BY <1>15, Zenon DEF IsGcm, res

\* gf_mult multiplies in the field, for words of every width and every
\* polynomial R, and aes_gcm_ae makes J0, encrypts and hashes what GCM says, for
\* every size of a block, of the counter and of size_t, and IVs and texts of every
\* length whose blocks the counter covers and whose bits size_t counts.
THEOREM GcmCorrect == Spec => []GcmRight
  <1>1. Init => GcmRight
    BY DEF Init, GcmRight
  <1>2. GcmRight /\ [Next]_vars => GcmRight'
    <2> SUFFICES ASSUME GcmRight, [Next]_vars PROVE GcmRight'
      OBVIOUS
    <2>1. CASE Multiply
      <3>1. PICK x \in [1 .. 4 -> 0 .. 2^WordBits - 1], y \in Multipliers : Call("gf_mult", <<x, y>>, gf_mult(x, y))
        BY <2>1 DEF Multiply
      <3>2. x \in Elements /\ y \in Elements
        BY MultipliersOK DEF Elements
      <3> DEFINE Want(a, b, r) == Poly(r) = Reduce(Product(Poly(a), Poly(b)))
      <3>3. Want(x, y, gf_mult(x, y))
        BY <3>2, GfMult
      <3>4. fn' = "gf_mult" /\ args' = <<x, y>> /\ result' = gf_mult(x, y)
        BY <3>1 DEF Call
      <3>5. args'[1] = x /\ args'[2] = y
        BY <3>4
      <3>6. Want(args'[1], args'[2], result')
        <4> HIDE DEF Want
        <4> QED BY <3>3, <3>4, <3>5
      <3>7. fn' # "aes_gcm_ae"
        BY <3>4
      <3> QED BY <3>6, <3>7, Zenon DEF GcmRight
    <2>2. CASE Encrypt
      <3>1. PICK aes \in BOOLEAN, hash \in 0 .. 2^CtrBits - 1, iv_len \in 0 .. MaxBytes, n \in 0 .. MaxBytes,
                 m \in 0 .. MaxBytes :
                Call("aes_gcm_ae", <<aes, iv_len, n, m>>, aes_gcm_ae(aes, iv_len, hash, n, m))
        BY <2>2, Zenon DEF Encrypt
      <3> DEFINE Want(a, i, p, d, r) == IF a THEN IsGcm(r, i, p, d) ELSE r = [ret |-> -1]
                 res == aes_gcm_ae(aes, iv_len, hash, n, m)
      <3>2. Want(aes, iv_len, n, m, res)
        <4>1. CASE aes = TRUE
          <5>1. hash \in 0 .. Ctr - 1
            BY DEF Ctr
          <5>2. IsGcm(aes_gcm_ae(TRUE, iv_len, hash, n, m), iv_len, n, m)
            BY <5>1, EncryptIs
          <5> QED BY <4>1, <5>2, Zenon
        <4>2. CASE aes = FALSE
          BY <4>2, Zenon DEF aes_gcm_ae
        <4> QED BY <4>1, <4>2, Zenon
      <3> HIDE DEF res
      <3>4. fn' = "aes_gcm_ae" /\ args' = <<aes, iv_len, n, m>> /\ result' = res
        BY <3>1, Zenon DEF Call, res
      <3>5. args'[1] = aes /\ args'[2] = iv_len /\ args'[3] = n /\ args'[4] = m
        BY <3>4
      <3>6. Want(args'[1], args'[2], args'[3], args'[4], result')
        <4> HIDE DEF Want
        <4> QED BY <3>2, <3>4, <3>5, Zenon
      <3>7. fn' # "gf_mult"
        BY <3>4
      <3> QED BY <3>6, <3>7, Zenon DEF GcmRight
    <2>3. CASE Divide \/ AddLong \/ ShiftLong \/ SortArray \/ Parse \/ Move \/ CopyText \/ Concat \/ Find \/ Tokenize
               \/ Return
      <3>1. fn' \notin {"gf_mult", "aes_gcm_ae"}
        BY <2>3 DEF Divide, AddLong, ShiftLong, SortArray, Parse, Move, CopyText, Concat, Find, Tokenize, Return, Call
      <3> QED BY <3>1 DEF GcmRight
    <2>4. CASE UNCHANGED vars
      BY <2>4 DEF vars, GcmRight
    <2> QED BY <2>1, <2>2, <2>3, <2>4 DEF Next, Calls
  <1> QED BY <1>1, <1>2, PTL DEF Spec

=============================================================================
