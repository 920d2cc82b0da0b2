------------------------------ MODULE Library -------------------------------
(***************************************************************************)
(* Calls of the library's and the applications' pure functions: a program  *)
(* calls one with arguments from small sets, and gets its result.  The     *)
(* functions are in Arith, Sort, Strtol, Strings and Gcm; the properties   *)
(* compare what they return with what they should.                         *)
(***************************************************************************)
EXTENDS Integers, Sequences, Arith, Sort, Strtol, Strings, Gcm

CONSTANTS MaxSort,      \* bound: length of an array to be sorted
          Keys,         \* its elements
          MaxText,      \* bound: characters of a numeral, besides the NUL
          Alphabet,     \* characters of numerals
          MemSize,      \* bound: bytes that string functions work on
          Chars,        \* their characters, 0 among them
          MaxCalls,     \* bound: calls of strtok that follow each other
          Multipliers,  \* second factors of gf_mult
          MaxBytes      \* bound: bytes of IV, plain text and additional data

ASSUME KeysOK == Keys \subseteq Int
ASSUME MemSizeOK == MemSize \in Nat \ {0} /\ MaxCalls \in Nat \ {0}
ASSUME MultipliersOK == Multipliers \subseteq [1 .. 4 -> 0 .. 2^WordBits - 1]
\* As texts in a memory of 2^23 bytes: their blocks do not use up a counter of
\* 32 bits, and their lengths in bits fit in 32 bits.
ASSUME MaxBytesOK ==
    MaxBytes \in Nat /\ MaxBytes <= BLOCKSIZE * (2^CtrBits - 1) /\ 8 * MaxBytes < 2^SizeBits

VARIABLES fn,       \* the function that was called, "none" before and after
          args, result

vars == <<fn, args, result>>

Init == fn = "none" /\ args = <<>> /\ result = <<>>

Call(f, a, r) == fn' = f /\ args' = a /\ result' = r

Return == fn # "none" /\ fn' = "none" /\ args' = <<>> /\ result' = <<>>

Divide == \E x, d \in 0 .. 2^Double - 1 :
    d # 0 /\ Call("divide", <<x, d>>, <<div_called(x, d, Double), div_pos(x, d, Double),
                                         mul_called(x, d, Double)>>)

AddLong == \E a, b \in dint, known \in BOOLEAN :
    Call("long", <<Value(a), Value(b)>>,
         <<l_add(a, b, known), l_sub(a, b, known), l_lt(a, b, TRUE), l_lt(a, b, FALSE),
           l_le(a, b, TRUE), l_le(a, b, FALSE)>>)

ShiftLong == \E a \in dint, f \in 0 .. Double - 1 :
    Call("shift", <<Value(a), f>>, <<l_lsl(a, f), l_asr(a, f), l_lsr(a, f)>>)

SortArray == \E n \in 0 .. MaxSort : \E s \in [1 .. n -> Keys] :
    Call("qsort", s, qsort(s))

Parse == \E n \in 0 .. MaxText : \E s \in [1 .. n -> Alphabet], base \in {0, 8, 10, 16} :
    LET t == Append(s, NUL)
    IN  Call("strtol", <<t, base>>, <<strtol(t, base), strtoul(t, base)>>)

Memory == [1 .. MemSize -> Chars]

Move == \E m \in Memory, s1, s2 \in 1 .. MemSize, n \in 0 .. MemSize :
    /\ s1 + n <= MemSize + 1 /\ s2 + n <= MemSize + 1
    /\ Call("memmove", <<m, s1, s2, n>>, memmove(m, s1, s2, n))

\* The source is a string in the last cells; the target does not overlap it.
Half == MemSize \div 2

CopyText == \E m \in Memory, n \in 0 .. Half :
    /\ m[MemSize] = 0
    /\ Call("strncpy", <<m, n>>, strncpy(m, 1, Half + 1, n))

\* The characters that are copied of the source, if n is the limit.
Copied(m, n) == LET len == EndOf(m, Half + 1) - (Half + 1) IN IF len < n THEN len ELSE n

\* The string at 1, of any length, ends before the source and has room for more.
Concat == \E m \in Memory, n \in 0 .. Half :
    /\ m[MemSize] = 0 /\ EndOf(m, 1) + Copied(m, n) <= Half
    /\ Call("strncat", <<m, n>>, strncat(m, 1, Half + 1, n))

Find == \E m \in Memory :
    /\ m[MemSize] = 0
    /\ Call("strstr", m, strstr(m, 1, Half + 1))

\* Each call of strtok may name other separators.
Tokenize == \E m \in Memory, seps \in [1 .. MaxCalls -> SUBSET (Chars \ {0})] :
    /\ m[MemSize] = 0
    /\ Call("strtok", <<m, seps>>, tokens(m, 1, seps))

Multiply == \E x \in [1 .. 4 -> 0 .. 2^WordBits - 1], y \in Multipliers :
    Call("gf_mult", <<x, y>>, gf_mult(x, y))

\* aes is false if aes_encrypt_init fails.
Encrypt == \E aes \in BOOLEAN, hash \in 0 .. 2^CtrBits - 1, iv_len, plain_len, aad_len \in 0 .. MaxBytes :
    Call("aes_gcm_ae", <<aes, iv_len, plain_len, aad_len>>, aes_gcm_ae(aes, iv_len, hash, plain_len, aad_len))

Calls == \/ Divide \/ AddLong \/ ShiftLong \/ SortArray \/ Parse \/ Move \/ CopyText
         \/ Concat \/ Find \/ Tokenize \/ Multiply \/ Encrypt

Next == (fn = "none" /\ Calls) \/ Return

Spec == Init /\ [][Next]_vars

----------------------------------------------------------------------------
(* Properties.                                                             *)

\* Division of unsigned and signed numbers, with any divisor but 0, the least
\* number and divisors with the top bit set among them, and multiplication;
\* long long addition, subtraction and comparison with their carries, with and
\* without the compiler's shortcut, and shifts by less than, exactly and more
\* than a word, are those of numbers of twice the word's width.
ArithRight ==
    LET a == args[1]
        b == args[2]
        int(x) == ToInt(x, Double)
        top == 2^Double
    IN  /\ fn = "divide" => /\ result[1] = SignedDivision(a, b, Double)
                            /\ result[2] = UnsignedDivision(a, b)
                            /\ result[3] = (a * b) % top
        /\ fn = "long" => result = <<Pair((a + b) % top), Pair((a - b) % top), int(a) < int(b), a < b,
                                     int(a) <= int(b), a <= b>>
        /\ fn = "shift" => result = <<Pair((a * 2^b) % top), Pair((int(a) \div 2^b) % top), Pair(a \div 2^b)>>

\* qsort returns its array, sorted: on ranges that it sorts by insertion, and
\* on those that it partitions around each kind of pivot, with equal elements
\* and after partitions that swap nothing.
SortRight ==
    fn = "qsort" =>
        LET occurrences(s, k) == Cardinality({ i \in DOMAIN s : s[i] = k })
        IN  /\ Len(result) = Len(args)
            /\ \A i \in 1 .. Len(result) - 1 : result[i] <= result[i + 1]
            /\ \A k \in Keys : occurrences(args, k) = occurrences(result, k)

\* strtol and strtoul return the number, or the limit and ERANGE if it has no
\* room in a long, and the place where they stopped; no accumulation passes the
\* range, at the least number neither.
ParseRight ==
    fn = "strtol" => result = <<StrtolSpec(args[1], args[2]), StrtoulSpec(args[1], args[2])>>

\* The tokens ts of the string at 1, as C defines them: call k searches from
\* where the token before ended, behind its separator, unless it ended with the
\* string or there was none; it skips the separators of its own set, seps[k],
\* and returns the run up to the next of them, or null if there is none.
IsTokenized(m, seps, ts) ==
    LET e == EndOf(m, 1)
        start(k) == IF k = 1 THEN 1 ELSE ts[k - 1].to + 1
        over(k) == k > 1 /\ ts[k - 1].to \in {0, e}
        empty(k) == \A i \in start(k) .. e - 1 : m[i] \in seps[k]
        run(k, a, b) == /\ start(k) <= a /\ a < b /\ b <= e
                        /\ \A i \in start(k) .. a - 1 : m[i] \in seps[k]
                        /\ \A i \in a .. b - 1 : m[i] \notin seps[k]
                        /\ b = e \/ m[b] \in seps[k]
    IN  \A k \in DOMAIN seps : IF over(k) \/ empty(k) THEN ts[k] = [from |-> 0, to |-> 0]
                                                      ELSE run(k, ts[k].from, ts[k].to)

\* memmove moves n bytes whatever the overlap and writes no other; strncpy
\* writes exactly n bytes, and strncat the characters and one zero behind the
\* text of the target; strstr finds the first occurrence; the calls of strtok
\* that follow each other return the tokens of the string as it was, although
\* they overwrite separators and each may have others.
StringsRight ==
    LET m == args[1]
        n == args[2]
        t == Half + 1
        chars == Copied(m, n)
        e == EndOf(m, 1)
        at(s, i, k) == \A j \in 0 .. k - 1 : args[i + j] = args[s + j]
    IN  /\ fn = "memmove" => result = [i \in 1 .. MemSize |-> IF i \in n .. n + args[4] - 1
                                                              THEN m[args[3] + i - n] ELSE m[i]]
        /\ fn = "strncpy" => result = [i \in 1 .. MemSize |-> IF i > n THEN m[i]
                                                              ELSE IF i <= chars THEN m[Half + i] ELSE 0]
        /\ fn = "strncat" => result = [i \in 1 .. MemSize |-> IF i \in e .. e + chars - 1 THEN m[t + i - e]
                                                              ELSE IF i = e + chars THEN 0 ELSE m[i]]
        /\ fn = "strstr" =>
               LET len == EndOf(args, t) - t
                   hits == { i \in 1 .. EndOf(args, 1) : i + len <= EndOf(args, 1) /\ at(t, i, len) }
               IN  IF hits = {} THEN result = 0 ELSE result \in hits /\ \A i \in hits : result <= i
        /\ fn = "strtok" => IsTokenized(m, n, result)

\* gf_mult is multiplication of polynomials modulo the field's polynomial.
\* aes_gcm_ae makes J0 from the IV, encrypts and hashes what GCM says, with the
\* lengths in bits, for IVs and texts of whole and partial blocks and counters
\* that wrap; it returns -1 and no output exactly if it has no key schedule.
GcmRight ==
    /\ fn = "gf_mult" =>
           Poly(result) = Reduce(Product(Poly(args[1]), Poly(args[2])))
    /\ fn = "aes_gcm_ae" => IF args[1] THEN IsGcm(result, args[2], args[3], args[4])
                                       ELSE result = [ret |-> -1]
=============================================================================
