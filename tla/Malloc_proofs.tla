---------------------------- MODULE Malloc_proofs ----------------------------
(***************************************************************************)
(* Proofs about Malloc, for every size of the pool and all requests.       *)
(*                                                                         *)
(* The inductive invariant names what the words of the pool stand for: a   *)
(* set of chunks C with lengths ln, of which R are reserved, and a list L  *)
(* of the others (Shape).  One lemma says what each function of malloc.c   *)
(* does to these; one lemma per action then shows that it keeps the        *)
(* invariant and is a step of Heap.                                        *)
(***************************************************************************)
EXTENDS Malloc, FiniteSetTheorems, WellFoundedInduction, TLAPS

\* A memory of the pool.
Memory == [MemWord -> Nat]

\* The pool is cut into chunks at C; chunk c has ln[c] blocks.
Tiles(C, ln) ==
    /\ C \in SUBSET Pool /\ 0 \in C
    /\ ln \in [C -> 1 .. nr_of_blocks]
    /\ \A c \in C : c + ln[c] \in C \cup {nr_of_blocks}
    /\ \A c, d \in C : c < d => c + ln[c] <= d

\* The headers say so, and that the chunks in R are reserved.
Headers(m, C, R, ln) ==
    /\ \A c \in C : m[4 * c] = IF c \in R THEN HDR_RESERVED + ln[c] ELSE ln[c]
    /\ m[4 * nr_of_blocks] = HDR_RESERVED

\* The list is L[0] .. L[k], from the sentinel and back to it.
After(k, i) == IF i = k THEN 0 ELSE i + 1

Ring(m, k, L) ==
    /\ k \in Nat /\ L \in [0 .. k -> Block] /\ L[0] = nr_of_blocks
    /\ \A i, j \in 0 .. k : L[i] = L[j] => i = j
    /\ \A i \in 0 .. k : /\ m[4 * L[i] + 1] = L[After(k, i)]
                         /\ m[4 * L[After(k, i)] + 2] = L[i]

\* The list holds the chunks that are not reserved.
Lists(k, L, F) ==
    /\ \A i \in 1 .. k : L[i] \in F
    /\ \A c \in F : \E i \in 1 .. k : L[i] = c

Shape(m, C, R, ln, k, L) ==
    /\ m \in Memory
    /\ Tiles(C, ln) /\ R \in SUBSET C /\ Headers(m, C, R, ln)
    /\ Ring(m, k, L) /\ Lists(k, L, C \ R)

----------------------------------------------------------------------------
(* Words and headers.                                                      *)

\* The size of the pool as the provers need it.
LEMMA Sizes ==
    /\ nr_of_blocks \in Nat /\ nr_of_blocks > 0
    /\ HDR_RESERVED \in Nat /\ HDR_RESERVED > nr_of_blocks
    /\ Pool \subseteq Block /\ nr_of_blocks \in Block /\ 0 \in Pool
    /\ \A b \in Pool : b \in Nat /\ b < nr_of_blocks
    /\ \A b \in Block : b \in Nat /\ b <= nr_of_blocks
  BY PoolOK, HeaderOK DEF Pool, Block

\* The words of a block are in the memory.
LEMMA BlockWords ==
    \A b \in Block : 4 * b \in MemWord /\ 4 * b + 1 \in MemWord /\ 4 * b + 2 \in MemWord
  BY Sizes DEF MemWord, Block

\* A header gives back the length and the reserved bit that it was made of.
LEMMA HeaderFields ==
    ASSUME NEW n \in 0 .. nr_of_blocks
    PROVE  /\ n % HDR_RESERVED = n /\ (n \div HDR_RESERVED) % 2 = 0
           /\ (HDR_RESERVED + n) % HDR_RESERVED = n
           /\ ((HDR_RESERVED + n) \div HDR_RESERVED) % 2 = 1
  <1> DEFINE H0 == HDR_RESERVED
  <1>1. H0 \in Nat /\ H0 > n /\ n \in Nat
    BY Sizes
  <1> HIDE DEF H0
  <1>2. n \div H0 = 0 /\ n % H0 = n
    BY <1>1
  <1>3. (H0 + n) \div H0 = 1 /\ (H0 + n) % H0 = n
    BY <1>1
  <1> QED BY <1>2, <1>3 DEF H0

\* What a header says about its chunk.
LEMMA ReadHeader ==
    ASSUME NEW m, NEW C, NEW R, NEW ln, Tiles(C, ln), R \in SUBSET C, Headers(m, C, R, ln)
    PROVE  /\ \A c \in C : length(m, c) = ln[c] /\ (is_reserved(m, c) <=> c \in R)
           /\ length(m, nr_of_blocks) = 0 /\ is_reserved(m, nr_of_blocks)
  <1>1. ASSUME NEW c \in C PROVE length(m, c) = ln[c] /\ (is_reserved(m, c) <=> c \in R)
    <2>1. ln[c] \in 0 .. nr_of_blocks
      BY Sizes DEF Tiles
    <2>2. CASE c \in R
      BY <2>1, <2>2, HeaderFields DEF Headers, length, is_reserved, head
    <2>3. CASE c \notin R
      BY <2>1, <2>3, HeaderFields DEF Headers, length, is_reserved, head
    <2> QED BY <2>2, <2>3
  <1>2. length(m, nr_of_blocks) = 0 /\ is_reserved(m, nr_of_blocks)
    <2>1. 0 \in 0 .. nr_of_blocks
      BY Sizes
    <2>2. HDR_RESERVED % HDR_RESERVED = 0 /\ (HDR_RESERVED \div HDR_RESERVED) % 2 = 1
      <3>1. HDR_RESERVED + 0 = HDR_RESERVED
        BY Sizes
      <3> QED BY <2>1, <3>1, HeaderFields
    <2> QED BY <2>2 DEF Headers, length, is_reserved, head
  <1> QED BY <1>1, <1>2

\* A header that is written changes one word.
LEMMA SetHeadWords ==
    ASSUME NEW m \in Memory, NEW b \in Block, NEW n \in Nat
    PROVE  /\ set_head(m, b, 0, n) \in Memory /\ set_head(m, b, 1, n) \in Memory
           /\ \A a \in MemWord : /\ set_head(m, b, 0, n)[a] = IF a = 4 * b THEN n ELSE m[a]
                                 /\ set_head(m, b, 1, n)[a] = IF a = 4 * b THEN HDR_RESERVED + n ELSE m[a]
  <1>1. 0 * HDR_RESERVED + n = n /\ 1 * HDR_RESERVED + n = HDR_RESERVED + n /\ HDR_RESERVED + n \in Nat
    BY Sizes
  <1>2. /\ set_head(m, b, 0, n) = [m EXCEPT ![4 * b] = n]
        /\ set_head(m, b, 1, n) = [m EXCEPT ![4 * b] = HDR_RESERVED + n]
    BY <1>1 DEF set_head
  <1> QED BY <1>1, <1>2 DEF Memory

\* insert_after behind the sentinel changes four links.
LEMMA InsertWords ==
    ASSUME NEW m \in Memory, NEW x \in Block, NEW b \in Pool, b # x,
           m[4 * nr_of_blocks + 1] = x
    PROVE  /\ insert_after(m, nr_of_blocks, b) \in Memory
           /\ \A a \in MemWord : insert_after(m, nr_of_blocks, b)[a] =
                  IF a = 4 * x + 2 THEN b
                  ELSE IF a = 4 * b + 1 THEN x
                  ELSE IF a = 4 * b + 2 THEN nr_of_blocks
                  ELSE IF a = 4 * nr_of_blocks + 1 THEN b ELSE m[a]
  <1> DEFINE N == nr_of_blocks
             m1 == [m EXCEPT ![4 * x + 2] = b]
             m2 == [m1 EXCEPT ![4 * b + 1] = x]
             m3 == [m2 EXCEPT ![4 * b + 2] = N]
             m4 == [m3 EXCEPT ![4 * N + 1] = b]
  <1>1. N \in Nat /\ b \in Nat /\ x \in Nat /\ b # N
    BY Sizes
  <1>2. 4 * x + 2 \in MemWord /\ 4 * b + 1 \in MemWord /\ 4 * b + 2 \in MemWord /\ 4 * N + 1 \in MemWord
    BY Sizes, BlockWords
  <1>3. next(m1, N) = x
    BY <1>1, <1>2 DEF next, Memory
  <1>4. insert_after(m, N, b) = m4
    BY <1>3 DEF insert_after, set_prev, set_next, next
  <1> HIDE DEF N
  <1>5. m4 \in Memory
    BY <1>1 DEF Memory
  <1>6. \A a \in MemWord : m4[a] =
            IF a = 4 * x + 2 THEN b ELSE IF a = 4 * b + 1 THEN x ELSE IF a = 4 * b + 2 THEN N
            ELSE IF a = 4 * N + 1 THEN b ELSE m[a]
    <2> SUFFICES ASSUME NEW a \in MemWord
                 PROVE  m4[a] = IF a = 4 * x + 2 THEN b ELSE IF a = 4 * b + 1 THEN x
                                ELSE IF a = 4 * b + 2 THEN N
                                ELSE IF a = 4 * N + 1 THEN b ELSE m[a]
      OBVIOUS
    <2>1. m4[a] = IF a = 4 * N + 1 THEN b ELSE IF a = 4 * b + 2 THEN N
                  ELSE IF a = 4 * b + 1 THEN x ELSE IF a = 4 * x + 2 THEN b ELSE m[a]
      BY DEF Memory
    <2> QED BY <1>1, <2>1
  <1> QED BY <1>4, <1>5, <1>6 DEF N

\* unlink changes two links.
LEMMA UnlinkWords ==
    ASSUME NEW m \in Memory, NEW c \in Block, NEW p \in Block, NEW q \in Block,
           m[4 * c + 2] = p, m[4 * c + 1] = q
    PROVE  /\ unlink(m, c) \in Memory
           /\ \A a \in MemWord : unlink(m, c)[a] =
                  IF a = 4 * p + 1 THEN q ELSE IF a = 4 * q + 2 THEN p ELSE m[a]
  <1> DEFINE m1 == [m EXCEPT ![4 * p + 1] = q]
             m2 == [m1 EXCEPT ![4 * q + 2] = p]
  <1>1. p \in Nat /\ q \in Nat /\ c \in Nat
    BY Sizes
  <1>2. 4 * p + 1 \in MemWord /\ 4 * q + 2 \in MemWord /\ 4 * c + 1 \in MemWord /\ 4 * c + 2 \in MemWord
    BY BlockWords
  <1>3. m1[4 * c + 1] = q /\ m1[4 * c + 2] = p
    BY <1>1, <1>2 DEF Memory
  <1>4. unlink(m, c) = m2
    BY <1>3 DEF unlink, set_prev, set_next, next, prev
  <1>5. m2 \in Memory
    BY <1>1 DEF Memory
  <1>6. \A a \in MemWord : m2[a] = IF a = 4 * p + 1 THEN q ELSE IF a = 4 * q + 2 THEN p ELSE m[a]
    BY <1>1 DEF Memory
  <1> QED BY <1>4, <1>5, <1>6

----------------------------------------------------------------------------
(* The list.                                                               *)

Inserted(k, L, b) ==
    [i \in 0 .. k + 1 |-> IF i = 0 THEN nr_of_blocks ELSE IF i = 1 THEN b ELSE L[i - 1]]

Removed(k, L, j) == [i \in 0 .. k - 1 |-> IF i < j THEN L[i] ELSE L[i + 1]]

\* After is the successor on a ring of k + 1 places.
LEMMA AfterFacts ==
    \A k \in Nat :
        /\ \A i \in 0 .. k : After(k, i) \in 0 .. k
        /\ \A i, j \in 0 .. k : After(k, i) = After(k, j) => i = j
  BY DEF After

\* The words of a ring: every member is a block, with its links in memory.
LEMMA RingFacts ==
    ASSUME NEW m, NEW k, NEW L, Ring(m, k, L)
    PROVE  /\ k \in Nat
           /\ \A i \in 0 .. k : /\ L[i] \in Block /\ L[i] \in Nat
                                /\ After(k, i) \in 0 .. k
                                /\ 4 * L[i] + 1 \in MemWord /\ 4 * L[i] + 2 \in MemWord
           /\ 0 \in 0 .. k /\ L[0] = nr_of_blocks
  <1>1. k \in Nat /\ L \in [0 .. k -> Block] /\ L[0] = nr_of_blocks
    BY DEF Ring
  <1>2. ASSUME NEW i \in 0 .. k
        PROVE  /\ L[i] \in Block /\ L[i] \in Nat /\ After(k, i) \in 0 .. k
               /\ 4 * L[i] + 1 \in MemWord /\ 4 * L[i] + 2 \in MemWord
    <2>1. L[i] \in Block /\ After(k, i) \in 0 .. k
      BY <1>1, AfterFacts
    <2> QED BY <2>1, Sizes, BlockWords
  <1> QED BY <1>1, <1>2

\* insert_after(sentinel, b) puts b at the front of the list.
LEMMA RingInsert ==
    ASSUME NEW m \in Memory, NEW k, NEW L, Ring(m, k, L),
           NEW b \in Pool, \A i \in 0 .. k : L[i] # b
    PROVE  /\ insert_after(m, nr_of_blocks, b) \in Memory
           /\ Ring(insert_after(m, nr_of_blocks, b), k + 1, Inserted(k, L, b))
           /\ \A a \in MemWord : /\ \A i \in 0 .. k : a # 4 * L[i] + 1 /\ a # 4 * L[i] + 2
                                 /\ a # 4 * b + 1 /\ a # 4 * b + 2
                                 => insert_after(m, nr_of_blocks, b)[a] = m[a]
  <1> DEFINE N == nr_of_blocks
             x == L[After(k, 0)]
             n == insert_after(m, N, b)
             M == Inserted(k, L, b)
  <1>1. k \in Nat /\ 0 \in 0 .. k /\ After(k, 0) \in 0 .. k /\ L[0] = N
    <2>1. k \in Nat /\ 0 \in 0 .. k /\ L[0] = N
      BY RingFacts
    <2> QED BY <2>1, AfterFacts
  <1>2. x \in Block /\ b # x /\ m[4 * N + 1] = x
    BY <1>1, RingFacts DEF Ring
  <1>3. n \in Memory /\ \A a \in MemWord : n[a] =
                  IF a = 4 * x + 2 THEN b ELSE IF a = 4 * b + 1 THEN x ELSE IF a = 4 * b + 2 THEN N
                  ELSE IF a = 4 * N + 1 THEN b ELSE m[a]
    BY <1>2, InsertWords
  <1>4. N \in Nat /\ b \in Nat /\ x \in Nat /\ b # N /\ b \in Block /\ N \in Block
    <2>1. b \in Nat /\ b < nr_of_blocks /\ b \in Block
      BY Sizes
    <2>2. N \in Nat /\ N \in Block
      BY Sizes
    <2>3. x \in Nat
      <3> HIDE DEF x
      <3> QED BY <1>2, Sizes
    <2> QED BY <2>1, <2>2, <2>3
  <1>5. 4 * b + 1 \in MemWord /\ 4 * b + 2 \in MemWord /\ 4 * N + 1 \in MemWord /\ 4 * x + 2 \in MemWord
    BY <1>2, <1>4, BlockWords
  <1>6. M \in [0 .. k + 1 -> Block] /\ M[0] = N /\ M[1] = b /\ \A i \in 2 .. k + 1 : M[i] = L[i - 1]
    <2>1. \A i \in 2 .. k + 1 : i - 1 \in 0 .. k
      BY <1>1
    <2>2. \A i \in 0 .. k + 1 : i = 0 \/ i = 1 \/ i \in 2 .. k + 1
      BY <1>1
    <2>3. \A i \in 0 .. k : L[i] \in Block
      BY RingFacts
    <2>4. M = [i \in 0 .. k + 1 |-> IF i = 0 THEN N ELSE IF i = 1 THEN b ELSE L[i - 1]]
      BY DEF Inserted
    <2> HIDE DEF M, N
    <2>5. ASSUME NEW i \in 0 .. k + 1 PROVE M[i] \in Block
      BY <1>1, <1>4, <2>1, <2>2, <2>3, <2>4
    <2>6. 0 \in 0 .. k + 1 /\ 1 \in 0 .. k + 1 /\ \A i \in 2 .. k + 1 : i \in 0 .. k + 1 /\ i # 0 /\ i # 1
      BY <1>1
    <2> QED BY <2>4, <2>5, <2>6
  <1> HIDE DEF n, M, N
  <1>7. \A i, j \in 0 .. k + 1 : M[i] = M[j] => i = j
    <2> SUFFICES ASSUME NEW i \in 0 .. k + 1, NEW j \in 0 .. k + 1, M[i] = M[j] PROVE i = j
      OBVIOUS
    <2>1. \A l \in 2 .. k + 1 : l - 1 \in 0 .. k /\ M[l] # N /\ M[l] # b
      BY <1>1, <1>6 DEF Ring
    <2>2. CASE i \in {0, 1} \/ j \in {0, 1}
      BY <1>1, <1>4, <1>6, <2>1, <2>2
    <2>3. CASE i \in 2 .. k + 1 /\ j \in 2 .. k + 1
      <3>1. L[i - 1] = L[j - 1] /\ i - 1 \in 0 .. k /\ j - 1 \in 0 .. k
        BY <1>6, <2>1, <2>3
      <3>2. i - 1 = j - 1
        BY <3>1 DEF Ring
      <3> QED BY <3>2
    <2> QED BY <1>1, <2>2, <2>3
  <1>8. ASSUME NEW i \in 0 .. k + 1
        PROVE  n[4 * M[i] + 1] = M[After(k + 1, i)] /\ n[4 * M[After(k + 1, i)] + 2] = M[i]
    <2>1. CASE i = 0
      <3>1. After(k + 1, i) = 1
        BY <1>1, <2>1 DEF After
      <3> QED BY <1>2, <1>3, <1>4, <1>5, <1>6, <2>1, <3>1
    <2>2. CASE i = 1
      <3>1. M[After(k + 1, 1)] = x
        BY <1>1, <1>6 DEF After
      <3> HIDE DEF x
      <3> QED BY <1>2, <1>3, <1>4, <1>5, <1>6, <2>2, <3>1
    <2>3. CASE i \in 2 .. k + 1
      <3> DEFINE h == i - 1
                 y == L[After(k, h)]
      <3>1. h \in 0 .. k /\ h # 0 /\ M[i] = L[h] /\ After(k, h) \in 0 .. k
        <4>1. h \in 0 .. k /\ h # 0 /\ M[i] = L[h]
          BY <1>1, <1>6, <2>3
        <4> QED BY <1>1, <4>1, AfterFacts
      <3>2. M[After(k + 1, i)] = y
        BY <1>1, <1>6, <2>3 DEF After
      <3>3. L[h] # N /\ L[h] # b /\ y # b /\ y # x
        <4>1. After(k, h) # After(k, 0)
          BY <1>1, <3>1, AfterFacts
        <4> QED BY <1>1, <3>1, <4>1 DEF Ring
      <3>4. m[4 * L[h] + 1] = y /\ m[4 * y + 2] = L[h]
        BY <3>1 DEF Ring
      <3>5. L[h] \in Nat /\ y \in Nat /\ 4 * L[h] + 1 \in MemWord /\ 4 * y + 2 \in MemWord
        BY <3>1, RingFacts
      <3> HIDE DEF h, x, y
      <3>6. n[4 * L[h] + 1] = y /\ n[4 * y + 2] = L[h]
        BY <1>3, <1>4, <3>3, <3>4, <3>5
      <3> QED BY <3>1, <3>2, <3>6
    <2> QED BY <1>1, <2>1, <2>2, <2>3
  <1>9. Ring(n, k + 1, M)
    BY <1>1, <1>6, <1>7, <1>8 DEF Ring, N
  <1>10. \A a \in MemWord : /\ \A i \in 0 .. k : a # 4 * L[i] + 1 /\ a # 4 * L[i] + 2
                            /\ a # 4 * b + 1 /\ a # 4 * b + 2
                            => n[a] = m[a]
    BY <1>1, <1>3
  <1> QED BY <1>3, <1>9, <1>10 DEF n, M, N

\* unlink takes its chunk out of the list.
LEMMA RingUnlink ==
    ASSUME NEW m \in Memory, NEW k, NEW L, Ring(m, k, L), NEW j \in 1 .. k
    PROVE  /\ unlink(m, L[j]) \in Memory
           /\ Ring(unlink(m, L[j]), k - 1, Removed(k, L, j))
           /\ \A a \in MemWord : (\A i \in 0 .. k : a # 4 * L[i] + 1 /\ a # 4 * L[i] + 2)
                                 => unlink(m, L[j])[a] = m[a]
  <1> DEFINE p == L[j - 1]
             q == L[After(k, j)]
             n == unlink(m, L[j])
             M == Removed(k, L, j)
  <1>1. k \in Nat /\ j \in 0 .. k /\ j - 1 \in 0 .. k /\ After(k, j - 1) = j /\ After(k, j) \in 0 .. k
    BY RingFacts DEF After
  <1>2. p \in Block /\ q \in Block /\ L[j] \in Block /\ p \in Nat /\ q \in Nat
    BY <1>1, RingFacts
  <1>3. m[4 * L[j] + 2] = p /\ m[4 * L[j] + 1] = q
    BY <1>1 DEF Ring
  <1>4. n \in Memory /\ \A a \in MemWord : n[a] =
                  IF a = 4 * p + 1 THEN q ELSE IF a = 4 * q + 2 THEN p ELSE m[a]
    BY <1>2, <1>3, UnlinkWords
  <1>5. M \in [0 .. k - 1 -> Block] /\ \A i \in 0 .. k - 1 : M[i] = IF i < j THEN L[i] ELSE L[i + 1]
    <2>1. \A i \in 0 .. k - 1 : i \in 0 .. k /\ i + 1 \in 0 .. k
      BY <1>1
    <2> QED BY <2>1, RingFacts DEF Removed
  <1> HIDE DEF n, M
  <1>6. M[0] = nr_of_blocks
    BY <1>1, <1>5 DEF Ring
  <1>7. \A h, i \in 0 .. k - 1 : M[h] = M[i] => h = i
    <2> SUFFICES ASSUME NEW h \in 0 .. k - 1, NEW i \in 0 .. k - 1, M[h] = M[i] PROVE h = i
      OBVIOUS
    <2> DEFINE up(l) == IF l < j THEN l ELSE l + 1
    <2>1. up(h) \in 0 .. k /\ up(i) \in 0 .. k /\ L[up(h)] = L[up(i)]
      BY <1>1, <1>5
    <2>2. up(h) = up(i)
      BY <2>1 DEF Ring
    <2> QED BY <2>2
  <1>8. ASSUME NEW i \in 0 .. k - 1
        PROVE  n[4 * M[i] + 1] = M[After(k - 1, i)] /\ n[4 * M[After(k - 1, i)] + 2] = M[i]
    <2> DEFINE h == IF i < j THEN i ELSE i + 1
               y == L[After(k, h)]
    <2>1. h \in 0 .. k /\ M[i] = L[h] /\ h # j /\ After(k, h) \in 0 .. k
      <3>1. h \in 0 .. k /\ M[i] = L[h] /\ h # j
        BY <1>1, <1>5
      <3> QED BY <1>1, <3>1, AfterFacts
    <2>2. CASE i = j - 1
      <3>1. M[i] = p
        BY <1>5, <2>2
      <3>2. M[After(k - 1, i)] = q
        BY <1>1, <1>5, <2>2 DEF After
      <3>3. 4 * p + 1 \in MemWord /\ 4 * q + 2 \in MemWord
        BY <1>1, RingFacts
      <3> HIDE DEF p, q
      <3> QED BY <1>2, <1>4, <3>1, <3>2, <3>3
    <2>3. CASE i # j - 1
      <3>1. M[After(k - 1, i)] = y
        BY <1>1, <1>5, <2>3 DEF After
      <3>2. L[h] # p /\ y # q
        <4>1. After(k, h) # After(k, j)
          BY <1>1, <2>1, AfterFacts
        <4>2. h # j - 1
          BY <1>1, <2>3
        <4> QED BY <1>1, <2>1, <4>1, <4>2 DEF Ring
      <3>3. m[4 * L[h] + 1] = y /\ m[4 * y + 2] = L[h]
        BY <2>1 DEF Ring
      <3>4. L[h] \in Nat /\ y \in Nat /\ 4 * L[h] + 1 \in MemWord /\ 4 * y + 2 \in MemWord
        BY <2>1, RingFacts
      <3> HIDE DEF h, p, q, y
      <3>5. n[4 * L[h] + 1] = y /\ n[4 * y + 2] = L[h]
        BY <1>2, <1>4, <3>2, <3>3, <3>4
      <3> QED BY <2>1, <3>1, <3>5
    <2> QED BY <2>2, <2>3
  <1>9. Ring(n, k - 1, M)
    BY <1>1, <1>5, <1>6, <1>7, <1>8 DEF Ring
  <1>10. \A a \in MemWord : (\A i \in 0 .. k : a # 4 * L[i] + 1 /\ a # 4 * L[i] + 2) => n[a] = m[a]
    BY <1>1, <1>4
  <1> QED BY <1>4, <1>9, <1>10 DEF n, M

----------------------------------------------------------------------------
(* The chunks.                                                             *)

\* Bounds of the chunks of a tiling.
LEMMA TileFacts ==
    ASSUME NEW C, NEW ln, Tiles(C, ln)
    PROVE  /\ C \subseteq Block /\ \A c \in C : c \in Nat /\ c < nr_of_blocks
           /\ \A c \in C : /\ ln[c] \in Nat /\ ln[c] >= 1 /\ c + ln[c] \in Block
                           /\ c + ln[c] <= nr_of_blocks
           /\ C \cup {nr_of_blocks} \subseteq Block
           /\ nr_of_blocks \notin C
  <1>1. C \subseteq Block /\ \A c \in C : c \in Nat /\ c < nr_of_blocks
    BY Sizes DEF Tiles
  <1>2. C \cup {nr_of_blocks} \subseteq Block /\ nr_of_blocks \notin C
    BY <1>1, Sizes
  <1>3. \A c \in C : c + ln[c] \in Block
    BY <1>2 DEF Tiles
  <1>4. \A c \in C : ln[c] \in Nat /\ ln[c] >= 1
    BY Sizes DEF Tiles
  <1> QED BY <1>1, <1>2, <1>3, <1>4, Sizes

\* Other chunks, and the sentinel, are outside a chunk.
LEMMA Apart ==
    ASSUME NEW C, NEW ln, Tiles(C, ln), NEW b \in C, NEW x \in C \cup {nr_of_blocks}, x # b
    PROVE  x \in Nat /\ (x < b \/ x >= b + ln[b])
  <1>1. CASE x = nr_of_blocks
    BY <1>1, TileFacts, Sizes
  <1>2. CASE x \in C
    <2>1. x \in Nat /\ b \in Nat
      BY <1>2, TileFacts
    <2> QED BY <1>2, <2>1 DEF Tiles
  <1> QED BY <1>1, <1>2

\* The words of chunk b behind its header.
Data(b, n) == 4 * b + 1 .. 4 * (b + n) - 1

\* The data of a chunk are in the memory, and are not its header nor header
\* or links of another.
LEMMA DataApart ==
    ASSUME NEW C, NEW ln, Tiles(C, ln), NEW b \in C, NEW a \in Data(b, ln[b])
    PROVE  /\ a \in MemWord /\ a # 4 * b
           /\ \A x \in C \cup {nr_of_blocks} :
                  x # b => a # 4 * x /\ a # 4 * x + 1 /\ a # 4 * x + 2
  <1>1. b \in Nat /\ ln[b] \in Nat /\ b + ln[b] <= nr_of_blocks /\ nr_of_blocks \in Nat
    BY TileFacts, Sizes
  <1>2. a \in Int /\ a >= 4 * b + 1 /\ a <= 4 * (b + ln[b]) - 1
    BY <1>1 DEF Data
  <1>3. a \in MemWord /\ a # 4 * b
    BY <1>1, <1>2 DEF MemWord
  <1>4. ASSUME NEW x \in C \cup {nr_of_blocks}, x # b
        PROVE  a # 4 * x /\ a # 4 * x + 1 /\ a # 4 * x + 2
    <2>1. x \in Nat /\ (x < b \/ x >= b + ln[b])
      BY <1>4, Apart
    <2> QED BY <1>1, <1>2, <2>1
  <1> QED BY <1>3, <1>4

Joined(C, ln, c, d) ==
    [x \in C \ {d} |-> IF x = c THEN ln[c] + ln[d] ELSE ln[x]]

\* Two neighbours become one chunk.
LEMMA TilesJoin ==
    ASSUME NEW C, NEW ln, Tiles(C, ln), NEW c \in C, NEW d \in C, d = c + ln[c]
    PROVE  Tiles(C \ {d}, Joined(C, ln, c, d))
  <1> DEFINE K == C \ {d}
             l == Joined(C, ln, c, d)
  <1>1. c \in Nat /\ d \in Nat /\ ln[c] \in Nat /\ ln[d] \in Nat /\ ln[c] >= 1 /\ ln[d] >= 1
        /\ d + ln[d] <= nr_of_blocks /\ nr_of_blocks \in Nat
    BY TileFacts, Sizes
  <1>2. \A x \in K : x \in C /\ x \in Nat /\ ln[x] \in 1 .. nr_of_blocks /\ ln[x] \in Nat
    BY TileFacts DEF Tiles
  <1>3. \A x \in K : l[x] = IF x = c THEN ln[c] + ln[d] ELSE ln[x]
    BY DEF Joined
  <1>4. K \in SUBSET Pool /\ 0 \in K
    <2>1. d # 0
      BY <1>1
    <2> QED BY <2>1 DEF Tiles
  <1>5. l \in [K -> 1 .. nr_of_blocks]
    <2>1. ln[c] + ln[d] \in 1 .. nr_of_blocks
      BY <1>1
    <2> QED BY <1>2, <2>1 DEF Joined
  <1> HIDE DEF l
  <1>6. ASSUME NEW x \in K PROVE x + l[x] \in K \cup {nr_of_blocks}
    <2>1. CASE x = c
      <3>1. x + l[x] = d + ln[d]
        BY <1>1, <1>3, <2>1
      <3>2. d + ln[d] # d
        BY <1>1
      <3> QED BY <3>1, <3>2 DEF Tiles
    <2>2. CASE x # c
      <3>1. x + l[x] = x + ln[x] /\ x + ln[x] \in C \cup {nr_of_blocks}
        BY <1>2, <1>3, <2>2 DEF Tiles
      <3>2. x + ln[x] # d
        <4>1. CASE x < c
          <5>1. x + ln[x] <= c
            BY <1>2, <4>1 DEF Tiles
          <5> QED BY <1>1, <1>2, <5>1
        <4>2. CASE x > c
          <5>1. c + ln[c] <= x
            BY <1>2, <4>2 DEF Tiles
          <5> QED BY <1>1, <1>2, <5>1
        <4> QED BY <1>1, <1>2, <2>2, <4>1, <4>2
      <3> QED BY <3>1, <3>2
    <2> QED BY <2>1, <2>2
  <1>7. ASSUME NEW x \in K, NEW y \in K, x < y PROVE x + l[x] <= y
    <2>1. x + ln[x] <= y
      BY <1>2, <1>7 DEF Tiles
    <2>2. CASE x = c
      <3>1. d < y
        BY <1>1, <1>2, <2>1, <2>2
      <3>2. d + ln[d] <= y
        BY <1>2, <3>1 DEF Tiles
      <3> QED BY <1>1, <1>2, <1>3, <2>2, <3>2
    <2>3. CASE x # c
      BY <1>3, <2>1, <2>3
    <2> QED BY <2>2, <2>3
  <1> QED BY <1>4, <1>5, <1>6, <1>7 DEF Tiles, l

Cut(C, ln, c, n) ==
    [x \in C \cup {c + n} |-> IF x = c THEN n ELSE IF x = c + n THEN ln[c] - n ELSE ln[x]]

\* A chunk is cut in two.
LEMMA TilesCut ==
    ASSUME NEW C, NEW ln, Tiles(C, ln), NEW c \in C, NEW n \in Nat, n >= 1, n < ln[c]
    PROVE  /\ c + n \in Pool /\ c + n \notin C
           /\ Tiles(C \cup {c + n}, Cut(C, ln, c, n))
  <1> DEFINE d == c + n
             K == C \cup {d}
             l == Cut(C, ln, c, n)
  <1>1. c \in Nat /\ ln[c] \in Nat /\ c + ln[c] <= nr_of_blocks /\ nr_of_blocks \in Nat
    BY TileFacts, Sizes
  <1>2. d \in Pool /\ d \in Nat /\ d > c
    BY <1>1 DEF Pool
  <1>3. d \notin C
    <2> SUFFICES ASSUME d \in C PROVE FALSE
      OBVIOUS
    <2>1. c + ln[c] <= d
      BY <1>1, <1>2 DEF Tiles
    <2> QED BY <1>1, <2>1
  <1>4. \A x \in C : x \in Nat /\ ln[x] \in 1 .. nr_of_blocks /\ ln[x] \in Nat
    BY TileFacts DEF Tiles
  <1>5. l[c] = n /\ l[d] = ln[c] - n /\ \A x \in C : x # c => l[x] = ln[x]
    BY <1>1, <1>2, <1>3 DEF Cut
  <1>6. K \in SUBSET Pool /\ 0 \in K
    BY <1>2 DEF Tiles
  <1>7. l \in [K -> 1 .. nr_of_blocks]
    <2>1. n \in 1 .. nr_of_blocks /\ ln[c] - n \in 1 .. nr_of_blocks
      BY <1>1
    <2> QED BY <1>3, <1>4, <2>1 DEF Cut
  <1> HIDE DEF l
  <1>8. ASSUME NEW x \in K PROVE x + l[x] \in K \cup {nr_of_blocks}
    <2>1. CASE x = c
      BY <1>5, <2>1
    <2>2. CASE x = d
      <3>1. d + l[d] = c + ln[c]
        BY <1>1, <1>5
      <3> QED BY <2>2, <3>1 DEF Tiles
    <2>3. CASE x \in C /\ x # c
      BY <1>5, <2>3 DEF Tiles
    <2> QED BY <2>1, <2>2, <2>3
  <1>9. ASSUME NEW x \in K, NEW y \in K, x < y PROVE x + l[x] <= y
    <2>1. CASE x = c
      <3>1. CASE y = d
        BY <1>1, <1>5, <2>1, <3>1
      <3>2. CASE y \in C
        <4>1. c + ln[c] <= y
          BY <1>9, <2>1, <3>2 DEF Tiles
        <4> QED BY <1>1, <1>4, <1>5, <2>1, <3>2, <4>1
      <3> QED BY <3>1, <3>2
    <2>2. CASE x = d
      <3>1. y \in C /\ c < y
        BY <1>1, <1>2, <1>4, <1>9, <2>2
      <3>2. c + ln[c] <= y
        BY <3>1 DEF Tiles
      <3>3. d + l[d] = c + ln[c]
        BY <1>1, <1>5
      <3> QED BY <2>2, <3>2, <3>3
    <2>3. CASE x \in C /\ x # c
      <3>1. CASE y \in C
        BY <1>5, <1>9, <2>3, <3>1 DEF Tiles
      <3>2. CASE y = d
        <4>1. x < c
          <5>1. ~ (c < x)
            <6> SUFFICES ASSUME c < x PROVE FALSE
              OBVIOUS
            <6>1. c + ln[c] <= x
              BY <2>3 DEF Tiles
            <6> QED BY <1>1, <1>4, <1>9, <2>3, <3>2, <6>1
          <5> QED BY <1>1, <1>4, <2>3, <5>1
        <4>2. x + ln[x] <= c
          BY <2>3, <4>1 DEF Tiles
        <4> QED BY <1>1, <1>2, <1>4, <1>5, <2>3, <3>2, <4>2
      <3> QED BY <3>1, <3>2
    <2> QED BY <2>1, <2>2, <2>3
  <1> QED BY <1>2, <1>3, <1>6, <1>7, <1>8, <1>9 DEF Tiles, l

----------------------------------------------------------------------------
(* What the functions of malloc.c do to the shape of the pool.             *)

\* The data of the chunks in S are the same in m and n.
Kept(m, n, S, ln) == \A b \in S : \A a \in Data(b, ln[b]) : n[a] = m[a]

\* A ring depends on the links of its members only.
LEMMA RingFrame ==
    ASSUME NEW m, NEW n, NEW k, NEW L, Ring(m, k, L),
           \A i \in 0 .. k : n[4 * L[i] + 1] = m[4 * L[i] + 1] /\ n[4 * L[i] + 2] = m[4 * L[i] + 2]
    PROVE  Ring(n, k, L)
  <1>1. \A i \in 0 .. k : After(k, i) \in 0 .. k
    BY RingFacts
  <1>2. \A i \in 0 .. k : n[4 * L[i] + 1] = L[After(k, i)] /\ n[4 * L[After(k, i)] + 2] = L[i]
    BY <1>1 DEF Ring
  <1> QED BY <1>2 DEF Ring

\* The members of the list are the free chunks and the sentinel.
LEMMA Members ==
    ASSUME NEW m, NEW C, NEW R, NEW ln, NEW k, NEW L, Shape(m, C, R, ln, k, L)
    PROVE  /\ k \in Nat
           /\ \A i \in 0 .. k : L[i] \in (C \ R) \cup {nr_of_blocks}
           /\ \A i \in 1 .. k : L[i] \in C \ R
           /\ \A c \in C \ R : \E i \in 1 .. k : L[i] = c
           /\ \A i, j \in 0 .. k : L[i] = L[j] => i = j
           /\ L \in [0 .. k -> Block] /\ L[0] = nr_of_blocks
  <1>1. k \in Nat /\ L[0] = nr_of_blocks /\ \A i \in 0 .. k : i = 0 \/ i \in 1 .. k
    BY DEF Shape, Ring
  <1> QED BY <1>1 DEF Shape, Ring, Lists

\* Words that no change of the links of the list touches.
LEMMA NotLinks ==
    ASSUME NEW m, NEW C, NEW R, NEW ln, NEW k, NEW L, Shape(m, C, R, ln, k, L)
    PROVE  /\ \A c \in C \cup {nr_of_blocks} :
                  /\ 4 * c \in MemWord
                  /\ \A x \in Block : 4 * c # 4 * x + 1 /\ 4 * c # 4 * x + 2
                  /\ \A x \in Block : x # c => 4 * c # 4 * x
           /\ \A b \in R : \A a \in Data(b, ln[b]) :
                  /\ a \in MemWord
                  /\ \A i \in 0 .. k : a # 4 * L[i] + 1 /\ a # 4 * L[i] + 2
                  /\ \A c \in C \cup {nr_of_blocks} : a # 4 * c
  <1>1. Tiles(C, ln) /\ R \in SUBSET C
    BY DEF Shape
  <1>2. ASSUME NEW c \in C \cup {nr_of_blocks}
        PROVE  /\ 4 * c \in MemWord
               /\ \A x \in Block : 4 * c # 4 * x + 1 /\ 4 * c # 4 * x + 2
               /\ \A x \in Block : x # c => 4 * c # 4 * x
    <2>1. c \in Block
      BY <1>1, TileFacts
    <2> QED BY <2>1, Sizes, BlockWords
  <1>3. ASSUME NEW b \in R, NEW a \in Data(b, ln[b])
        PROVE  /\ a \in MemWord
               /\ \A i \in 0 .. k : a # 4 * L[i] + 1 /\ a # 4 * L[i] + 2
               /\ \A c \in C \cup {nr_of_blocks} : a # 4 * c
    <2>1. b \in C
      BY <1>1
    <2>2. /\ a \in MemWord /\ a # 4 * b
          /\ \A x \in C \cup {nr_of_blocks} : x # b => a # 4 * x /\ a # 4 * x + 1 /\ a # 4 * x + 2
      BY <1>1, <2>1, DataApart
    <2>3. \A i \in 0 .. k : L[i] \in C \cup {nr_of_blocks} /\ L[i] # b
      BY <1>1, <2>1, Members, TileFacts
    <2> QED BY <2>2, <2>3
  <1> QED BY <1>2, <1>3

\* The members after one was put in front.
LEMMA ListsInsert ==
    ASSUME NEW k \in Nat, NEW L, NEW F, NEW b, Lists(k, L, F)
    PROVE  Lists(k + 1, Inserted(k, L, b), F \cup {b})
  <1> DEFINE M == Inserted(k, L, b)
  <1>1. M[1] = b /\ \A i \in 2 .. k + 1 : M[i] = L[i - 1] /\ i - 1 \in 1 .. k
    <2>1. 1 \in 0 .. k + 1 /\ \A i \in 2 .. k + 1 : i \in 0 .. k + 1 /\ i # 0 /\ i # 1 /\ i - 1 \in 1 .. k
      OBVIOUS
    <2> QED BY <2>1 DEF Inserted
  <1>2. \A i \in 1 .. k : i + 1 \in 2 .. k + 1 /\ M[i + 1] = L[i]
    <2> SUFFICES ASSUME NEW i \in 1 .. k PROVE i + 1 \in 2 .. k + 1 /\ M[i + 1] = L[i]
      OBVIOUS
    <2> HIDE DEF M
    <2>1. i + 1 \in 2 .. k + 1 /\ (i + 1) - 1 = i
      OBVIOUS
    <2> QED BY <1>1, <2>1
  <1>3. \A i \in 1 .. k + 1 : i = 1 \/ i \in 2 .. k + 1
    OBVIOUS
  <1>4. 1 \in 1 .. k + 1 /\ \A i \in 2 .. k + 1 : i \in 1 .. k + 1
    OBVIOUS
  <1> HIDE DEF M
  <1>5. \A i \in 1 .. k + 1 : M[i] \in F \cup {b}
    BY <1>1, <1>3 DEF Lists
  <1>6. \A c \in F \cup {b} : \E i \in 1 .. k + 1 : M[i] = c
    BY <1>1, <1>2, <1>4 DEF Lists
  <1> QED BY <1>5, <1>6 DEF Lists, M

\* The members after one was taken out.
LEMMA ListsRemove ==
    ASSUME NEW k \in Nat, NEW L, NEW F, Lists(k, L, F), NEW j \in 1 .. k,
           \A h, i \in 0 .. k : L[h] = L[i] => h = i
    PROVE  Lists(k - 1, Removed(k, L, j), F \ {L[j]})
  <1> DEFINE M == Removed(k, L, j)
  <1>1. \A i \in 0 .. k - 1 : M[i] = IF i < j THEN L[i] ELSE L[i + 1]
    BY DEF Removed
  <1> HIDE DEF M
  <1>2. ASSUME NEW i \in 1 .. k - 1 PROVE M[i] \in F \ {L[j]}
    <2>1. CASE i < j
      <3>1. i \in 1 .. k /\ i \in 0 .. k /\ j \in 0 .. k /\ M[i] = L[i] /\ i # j
        BY <1>1, <2>1
      <3> QED BY <3>1 DEF Lists
    <2>2. CASE ~ (i < j)
      <3>1. i + 1 \in 1 .. k /\ i + 1 \in 0 .. k /\ j \in 0 .. k /\ M[i] = L[i + 1] /\ i + 1 # j
        BY <1>1, <2>2
      <3> QED BY <3>1 DEF Lists
    <2> QED BY <2>1, <2>2
  <1>3. ASSUME NEW c \in F \ {L[j]} PROVE \E i \in 1 .. k - 1 : M[i] = c
    <2>1. PICK i \in 1 .. k : L[i] = c
      BY DEF Lists
    <2>2. CASE i < j
      BY <1>1, <2>1, <2>2
    <2>3. CASE i > j
      <3>1. i - 1 \in 1 .. k - 1 /\ M[i - 1] = L[i]
        BY <1>1, <2>3
      <3> QED BY <2>1, <3>1
    <2> QED BY <2>1, <2>2, <2>3
  <1> QED BY <1>2, <1>3 DEF Lists, M

\* The end of malloc: the candidate gets the reserved bit and leaves the list.
LEMMA ShapeReserve ==
    ASSUME NEW m, NEW C, NEW R, NEW ln, NEW k, NEW L, Shape(m, C, R, ln, k, L), NEW j \in 1 .. k
    PROVE  LET n == unlink(set_head(m, L[j], 1, ln[L[j]]), L[j])
           IN  /\ Shape(n, C, R \cup {L[j]}, ln, k - 1, Removed(k, L, j))
               /\ Kept(m, n, R, ln)
  <1> DEFINE c == L[j]
             n1 == set_head(m, c, 1, ln[c])
             n == unlink(n1, c)
  <1>1. m \in Memory /\ Tiles(C, ln) /\ R \in SUBSET C /\ Headers(m, C, R, ln) /\ Ring(m, k, L)
        /\ Lists(k, L, C \ R)
    BY DEF Shape
  <1>2. k \in Nat /\ j \in 0 .. k /\ c \in C \ R /\ \A i \in 0 .. k : L[i] \in Block
    BY <1>1, Members, RingFacts
  <1>3. c \in Block /\ ln[c] \in Nat
    BY <1>1, <1>2, TileFacts
  <1> HIDE DEF c
  <1>4. n1 \in Memory /\ \A a \in MemWord : n1[a] = IF a = 4 * c THEN HDR_RESERVED + ln[c] ELSE m[a]
    BY <1>1, <1>3, SetHeadWords
  <1> HIDE DEF n1
  <1>5. Ring(n1, k, L)
    <2>1. ASSUME NEW i \in 0 .. k
          PROVE  n1[4 * L[i] + 1] = m[4 * L[i] + 1] /\ n1[4 * L[i] + 2] = m[4 * L[i] + 2]
      <3>1. L[i] \in Nat /\ 4 * L[i] + 1 \in MemWord /\ 4 * L[i] + 2 \in MemWord /\ c \in Nat
        BY <1>1, <1>3, RingFacts, Sizes
      <3> QED BY <1>4, <3>1
    <2> QED BY <1>1, <2>1, RingFrame
  <1>6. /\ n \in Memory /\ Ring(n, k - 1, Removed(k, L, j))
        /\ \A a \in MemWord : (\A i \in 0 .. k : a # 4 * L[i] + 1 /\ a # 4 * L[i] + 2) => n[a] = n1[a]
    BY <1>4, <1>5, RingUnlink DEF c
  <1> HIDE DEF n
  <1>7. \A x \in C \cup {nr_of_blocks} : n[4 * x] = IF x = c THEN HDR_RESERVED + ln[c] ELSE m[4 * x]
    <2> SUFFICES ASSUME NEW x \in C \cup {nr_of_blocks}
                 PROVE  n[4 * x] = IF x = c THEN HDR_RESERVED + ln[c] ELSE m[4 * x]
      OBVIOUS
    <2>1. 4 * x \in MemWord /\ (x # c => 4 * x # 4 * c)
          /\ \A i \in 0 .. k : 4 * x # 4 * L[i] + 1 /\ 4 * x # 4 * L[i] + 2
      BY <1>2, <1>3, NotLinks
    <2> QED BY <1>4, <1>6, <2>1
  <1>8. Headers(n, C, R \cup {c}, ln)
    BY <1>1, <1>2, <1>7, TileFacts DEF Headers
  <1>9. Lists(k - 1, Removed(k, L, j), C \ (R \cup {c}))
    <2>1. C \ (R \cup {c}) = (C \ R) \ {c}
      OBVIOUS
    <2>2. \A h, i \in 0 .. k : L[h] = L[i] => h = i
      BY Members
    <2>3. Lists(k - 1, Removed(k, L, j), (C \ R) \ {L[j]})
      BY <1>1, <1>2, <2>2, ListsRemove
    <2> QED BY <2>1, <2>3 DEF c
  <1>10. Kept(m, n, R, ln)
    <2> SUFFICES ASSUME NEW b \in R, NEW a \in Data(b, ln[b]) PROVE n[a] = m[a]
      BY DEF Kept
    <2>1. a \in MemWord /\ a # 4 * c /\ \A i \in 0 .. k : a # 4 * L[i] + 1 /\ a # 4 * L[i] + 2
      BY <1>2, NotLinks
    <2> QED BY <1>4, <1>6, <2>1
  <1>11. Shape(n, C, R \cup {c}, ln, k - 1, Removed(k, L, j))
    BY <1>1, <1>2, <1>6, <1>8, <1>9 DEF Shape
  <1> QED BY <1>10, <1>11 DEF n, n1, c

\* free: the chunk loses the reserved bit and enters the list.
LEMMA ShapeFree ==
    ASSUME NEW m, NEW C, NEW R, NEW ln, NEW k, NEW L, Shape(m, C, R, ln, k, L), NEW p \in R
    PROVE  LET n == insert_after(clear_reserved(m, p), nr_of_blocks, p)
           IN  /\ Shape(n, C, R \ {p}, ln, k + 1, Inserted(k, L, p))
               /\ Kept(m, n, R \ {p}, ln)
  <1> DEFINE n1 == set_head(m, p, 0, ln[p])
             n == insert_after(n1, nr_of_blocks, p)
  <1>1. m \in Memory /\ Tiles(C, ln) /\ R \in SUBSET C /\ Headers(m, C, R, ln) /\ Ring(m, k, L)
        /\ Lists(k, L, C \ R)
    BY DEF Shape
  <1>2. p \in C /\ p \in Pool /\ p \in Block /\ ln[p] \in Nat /\ k \in Nat
    BY <1>1, TileFacts, Members DEF Tiles
  <1>3. clear_reserved(m, p) = n1
    BY <1>1, <1>2, ReadHeader DEF clear_reserved
  <1>4. n1 \in Memory /\ \A a \in MemWord : n1[a] = IF a = 4 * p THEN ln[p] ELSE m[a]
    BY <1>1, <1>2, SetHeadWords
  <1> HIDE DEF n1
  <1>5. Ring(n1, k, L)
    <2>1. ASSUME NEW i \in 0 .. k
          PROVE  n1[4 * L[i] + 1] = m[4 * L[i] + 1] /\ n1[4 * L[i] + 2] = m[4 * L[i] + 2]
      <3>1. L[i] \in Nat /\ 4 * L[i] + 1 \in MemWord /\ 4 * L[i] + 2 \in MemWord /\ p \in Nat
        BY <1>1, <1>2, RingFacts, Sizes
      <3> QED BY <1>4, <3>1
    <2> QED BY <1>1, <2>1, RingFrame
  <1>6. \A i \in 0 .. k : L[i] # p /\ L[i] \in Block
    BY <1>1, <1>2, Members, TileFacts, RingFacts
  <1>7. /\ n \in Memory /\ Ring(n, k + 1, Inserted(k, L, p))
        /\ \A a \in MemWord : /\ \A i \in 0 .. k : a # 4 * L[i] + 1 /\ a # 4 * L[i] + 2
                              /\ a # 4 * p + 1 /\ a # 4 * p + 2
                              => n[a] = n1[a]
    BY <1>2, <1>4, <1>5, <1>6, RingInsert
  <1> HIDE DEF n
  <1>8. \A x \in C \cup {nr_of_blocks} : n[4 * x] = IF x = p THEN ln[p] ELSE m[4 * x]
    <2> SUFFICES ASSUME NEW x \in C \cup {nr_of_blocks}
                 PROVE  n[4 * x] = IF x = p THEN ln[p] ELSE m[4 * x]
      OBVIOUS
    <2>1. 4 * x \in MemWord /\ (x # p => 4 * x # 4 * p) /\ 4 * x # 4 * p + 1 /\ 4 * x # 4 * p + 2
          /\ \A i \in 0 .. k : 4 * x # 4 * L[i] + 1 /\ 4 * x # 4 * L[i] + 2
      BY <1>2, <1>6, NotLinks
    <2> QED BY <1>4, <1>7, <2>1
  <1>9. Headers(n, C, R \ {p}, ln)
    BY <1>1, <1>2, <1>8, TileFacts DEF Headers
  <1>10. Lists(k + 1, Inserted(k, L, p), C \ (R \ {p}))
    <2>1. C \ (R \ {p}) = (C \ R) \cup {p}
      BY <1>2
    <2>2. Lists(k + 1, Inserted(k, L, p), (C \ R) \cup {p})
      BY <1>1, <1>2, ListsInsert
    <2> QED BY <2>1, <2>2
  <1>11. Kept(m, n, R \ {p}, ln)
    <2> SUFFICES ASSUME NEW b \in R \ {p}, NEW a \in Data(b, ln[b]) PROVE n[a] = m[a]
      BY DEF Kept
    <2>1. a \in MemWord /\ a # 4 * p /\ \A i \in 0 .. k : a # 4 * L[i] + 1 /\ a # 4 * L[i] + 2
      BY <1>2, NotLinks
    <2>2. a # 4 * p + 1 /\ a # 4 * p + 2
      BY <1>1, <1>2, DataApart
    <2> QED BY <1>4, <1>7, <2>1, <2>2
  <1>12. Shape(n, C, R \ {p}, ln, k + 1, Inserted(k, L, p))
    BY <1>1, <1>2, <1>7, <1>9, <1>10 DEF Shape
  <1> QED BY <1>3, <1>11, <1>12 DEF n

\* malloc gives back the rest of a candidate that is too large: as if the
\* candidate were cut before it is reserved.
LEMMA ShapeSplit ==
    ASSUME NEW m, NEW C, NEW R, NEW ln, NEW k, NEW L, Shape(m, C, R, ln, k, L), NEW j \in 1 .. k,
           NEW w \in Nat, w >= 1, w < ln[L[j]]
    PROVE  LET c == L[j]
               d == c + w
               n2 == insert_after(set_head(m, d, 0, ln[c] - w), nr_of_blocks, d)
               n == set_head(n2, c, 0, w)
           IN  /\ Shape(n, C \cup {d}, R, Cut(C, ln, c, w), k + 1, Inserted(k, L, d))
               /\ Kept(m, n, R, ln) /\ n2 \in Memory
  <1> DEFINE c == L[j]
             d == c + w
             l == Cut(C, ln, c, w)
             n1 == set_head(m, d, 0, ln[c] - w)
             n2 == insert_after(n1, nr_of_blocks, d)
             n == set_head(n2, c, 0, w)
  <1>1. m \in Memory /\ Tiles(C, ln) /\ R \in SUBSET C /\ Headers(m, C, R, ln) /\ Ring(m, k, L)
        /\ Lists(k, L, C \ R)
    BY DEF Shape
  <1>2. k \in Nat /\ c \in C \ R /\ \A i \in 0 .. k : L[i] \in Block /\ L[i] \in C \cup {nr_of_blocks}
    BY <1>1, Members, RingFacts
  <1>3. c \in Block /\ c \in Nat /\ ln[c] \in Nat /\ ln[c] - w \in Nat
    <2>1. c \in Block /\ c \in Nat /\ ln[c] \in Nat
      BY <1>1, <1>2, TileFacts
    <2> QED BY <2>1
  <1> HIDE DEF c
  <1>4. d \in Pool /\ d \notin C /\ Tiles(C \cup {d}, l)
    BY <1>1, <1>2, TilesCut DEF c
  <1>5. d \in Block /\ d \in Nat /\ d # nr_of_blocks /\ d # c
    <2> HIDE DEF d
    <2>1. d \in Block /\ d \in Nat /\ d < nr_of_blocks
      BY <1>4, Sizes
    <2> QED BY <1>2, <1>4, <2>1, Sizes
  <1>6. l[c] = w /\ l[d] = ln[c] - w /\ \A x \in C : x # c => l[x] = ln[x]
    BY <1>2, <1>4, <1>5 DEF Cut
  <1> HIDE DEF d, l
  <1>7. n1 \in Memory /\ \A a \in MemWord : n1[a] = IF a = 4 * d THEN ln[c] - w ELSE m[a]
    <2> DEFINE v == ln[c] - w
    <2>1. v \in Nat
      BY <1>3
    <2> HIDE DEF v
    <2>2. /\ set_head(m, d, 0, v) \in Memory
          /\ \A a \in MemWord : set_head(m, d, 0, v)[a] = IF a = 4 * d THEN v ELSE m[a]
      BY <1>1, <1>5, <2>1, SetHeadWords
    <2> QED BY <2>2 DEF v
  <1> HIDE DEF n1
  <1>8. Ring(n1, k, L)
    <2>1. ASSUME NEW i \in 0 .. k
          PROVE  n1[4 * L[i] + 1] = m[4 * L[i] + 1] /\ n1[4 * L[i] + 2] = m[4 * L[i] + 2]
      <3>1. L[i] \in Nat /\ 4 * L[i] + 1 \in MemWord /\ 4 * L[i] + 2 \in MemWord
        BY <1>1, RingFacts
      <3> QED BY <1>5, <1>7, <3>1
    <2> QED BY <1>1, <2>1, RingFrame
  <1>9. \A i \in 0 .. k : L[i] # d
    BY <1>2, <1>4, <1>5
  <1>10. /\ n2 \in Memory /\ Ring(n2, k + 1, Inserted(k, L, d))
         /\ \A a \in MemWord : /\ \A i \in 0 .. k : a # 4 * L[i] + 1 /\ a # 4 * L[i] + 2
                               /\ a # 4 * d + 1 /\ a # 4 * d + 2
                               => n2[a] = n1[a]
    BY <1>4, <1>7, <1>8, <1>9, RingInsert
  <1> HIDE DEF n2
  <1>11. n \in Memory /\ \A a \in MemWord : n[a] = IF a = 4 * c THEN w ELSE n2[a]
    BY <1>3, <1>10, SetHeadWords
  <1> HIDE DEF n
  <1>12. Ring(n, k + 1, Inserted(k, L, d))
    <2> DEFINE M == Inserted(k, L, d)
    <2> HIDE DEF M
    <2>1. ASSUME NEW i \in 0 .. k + 1
          PROVE  n[4 * M[i] + 1] = n2[4 * M[i] + 1] /\ n[4 * M[i] + 2] = n2[4 * M[i] + 2]
      <3>1. M[i] \in Nat /\ 4 * M[i] + 1 \in MemWord /\ 4 * M[i] + 2 \in MemWord
        BY <1>10, RingFacts DEF M
      <3> QED BY <1>3, <1>11, <3>1
    <2> QED BY <1>10, <2>1, RingFrame DEF M
  <1>13. \A x \in C \cup {d, nr_of_blocks} :
            n[4 * x] = IF x = c THEN w ELSE IF x = d THEN ln[c] - w ELSE m[4 * x]
    <2> SUFFICES ASSUME NEW x \in C \cup {d, nr_of_blocks}
                 PROVE  n[4 * x] = IF x = c THEN w ELSE IF x = d THEN ln[c] - w ELSE m[4 * x]
      OBVIOUS
    <2>1. x \in Block
      BY <1>1, <1>5, TileFacts
    <2>2. x \in Nat /\ 4 * x \in MemWord
      BY <2>1, Sizes, BlockWords
    <2>3. \A i \in 0 .. k : L[i] \in Nat
      BY <1>1, RingFacts
    <2>4. 4 * x # 4 * d + 1 /\ 4 * x # 4 * d + 2 /\ (x # c => 4 * x # 4 * c) /\ (x # d => 4 * x # 4 * d)
          /\ \A i \in 0 .. k : 4 * x # 4 * L[i] + 1 /\ 4 * x # 4 * L[i] + 2
      BY <1>3, <1>5, <2>2, <2>3
    <2> QED BY <1>5, <1>7, <1>10, <1>11, <2>2, <2>4
  <1>14. Headers(n, C \cup {d}, R, l)
    <2>1. d \notin R /\ c \notin R /\ nr_of_blocks # c
      BY <1>1, <1>2, <1>4, TileFacts
    <2> QED BY <1>1, <1>5, <1>6, <1>13, <2>1 DEF Headers
  <1>15. Lists(k + 1, Inserted(k, L, d), (C \cup {d}) \ R)
    <2>1. (C \cup {d}) \ R = (C \ R) \cup {d}
      BY <1>1, <1>4
    <2> QED BY <1>1, <1>2, <2>1, ListsInsert
  <1>16. Kept(m, n, R, ln)
    <2> SUFFICES ASSUME NEW b \in R, NEW a \in Data(b, ln[b]) PROVE n[a] = m[a]
      BY DEF Kept
    <2>1. a \in MemWord /\ a # 4 * c /\ \A i \in 0 .. k : a # 4 * L[i] + 1 /\ a # 4 * L[i] + 2
      BY <1>2, NotLinks
    <2>2. b \in C \cup {d} /\ l[b] = ln[b] /\ d # b
      BY <1>1, <1>2, <1>4, <1>6
    <2>3. a # 4 * d /\ a # 4 * d + 1 /\ a # 4 * d + 2
      BY <1>4, <2>2, DataApart
    <2> QED BY <1>7, <1>10, <1>11, <2>1, <2>3
  <1>17. Shape(n, C \cup {d}, R, l, k + 1, Inserted(k, L, d))
    BY <1>1, <1>4, <1>11, <1>12, <1>14, <1>15 DEF Shape
  <1> QED BY <1>10, <1>16, <1>17 DEF n, n2, n1, l, d, c

\* One merge of malloc: the free neighbour d leaves the list and becomes part
\* of the candidate c.
LEMMA ShapeMerge ==
    ASSUME NEW m, NEW C, NEW R, NEW ln, NEW k, NEW L, Shape(m, C, R, ln, k, L),
           NEW j \in 1 .. k, NEW h \in 1 .. k, L[h] = L[j] + ln[L[j]]
    PROVE  LET c == L[j]
               d == L[h]
               n == set_head(unlink(m, d), c, 0, ln[c] + ln[d])
           IN  /\ Shape(n, C \ {d}, R, Joined(C, ln, c, d), k - 1, Removed(k, L, h))
               /\ Kept(m, n, R, ln)
  <1> DEFINE c == L[j]
             d == L[h]
             w == ln[c] + ln[d]
             l == Joined(C, ln, c, d)
             n1 == unlink(m, d)
             n == set_head(n1, c, 0, w)
  <1>1. m \in Memory /\ Tiles(C, ln) /\ R \in SUBSET C /\ Headers(m, C, R, ln) /\ Ring(m, k, L)
        /\ Lists(k, L, C \ R)
    BY DEF Shape
  <1>2. k \in Nat /\ c \in C \ R /\ d \in C \ R
        /\ \A i \in 0 .. k : L[i] \in Block /\ L[i] \in C \cup {nr_of_blocks}
    BY <1>1, Members, RingFacts
  <1>3. c \in Block /\ c \in Nat /\ d \in Nat /\ w \in Nat /\ c # d
    <2>1. c \in Block /\ c \in Nat /\ d \in Nat /\ ln[c] \in Nat /\ ln[d] \in Nat /\ ln[c] >= 1
      BY <1>1, <1>2, TileFacts
    <2> QED BY <2>1
  <1>4. Tiles(C \ {d}, l)
    BY <1>1, <1>2, TilesJoin
  <1>5. /\ n1 \in Memory /\ Ring(n1, k - 1, Removed(k, L, h))
        /\ \A a \in MemWord : (\A i \in 0 .. k : a # 4 * L[i] + 1 /\ a # 4 * L[i] + 2) => n1[a] = m[a]
    BY <1>1, RingUnlink
  <1>6. l[c] = w /\ \A x \in C \ {d} : x # c => l[x] = ln[x]
    BY <1>2, <1>3 DEF Joined
  <1> HIDE DEF n1, w, c, l
  <1>7. n \in Memory /\ \A a \in MemWord : n[a] = IF a = 4 * c THEN w ELSE n1[a]
    BY <1>3, <1>5, SetHeadWords
  <1> HIDE DEF n
  <1>8. Ring(n, k - 1, Removed(k, L, h))
    <2> DEFINE M == Removed(k, L, h)
    <2> HIDE DEF M
    <2>1. ASSUME NEW i \in 0 .. k - 1
          PROVE  n[4 * M[i] + 1] = n1[4 * M[i] + 1] /\ n[4 * M[i] + 2] = n1[4 * M[i] + 2]
      <3>1. M[i] \in Nat /\ 4 * M[i] + 1 \in MemWord /\ 4 * M[i] + 2 \in MemWord
        BY <1>5, RingFacts DEF M
      <3> QED BY <1>3, <1>7, <3>1
    <2> QED BY <1>5, <2>1, RingFrame DEF M
  <1>9. \A x \in C \cup {nr_of_blocks} : n[4 * x] = IF x = c THEN w ELSE m[4 * x]
    <2> SUFFICES ASSUME NEW x \in C \cup {nr_of_blocks}
                 PROVE  n[4 * x] = IF x = c THEN w ELSE m[4 * x]
      OBVIOUS
    <2>1. 4 * x \in MemWord /\ (x # c => 4 * x # 4 * c)
          /\ \A i \in 0 .. k : 4 * x # 4 * L[i] + 1 /\ 4 * x # 4 * L[i] + 2
      BY <1>2, <1>3, NotLinks
    <2> QED BY <1>5, <1>7, <2>1
  <1>10. Headers(n, C \ {d}, R, l)
    <2>1. c \notin R /\ nr_of_blocks # c
      BY <1>1, <1>2, TileFacts
    <2> QED BY <1>1, <1>6, <1>9, <2>1 DEF Headers
  <1>11. Lists(k - 1, Removed(k, L, h), (C \ {d}) \ R)
    <2>1. (C \ {d}) \ R = (C \ R) \ {d}
      OBVIOUS
    <2>2. \A i, g \in 0 .. k : L[i] = L[g] => i = g
      BY Members
    <2>3. Lists(k - 1, Removed(k, L, h), (C \ R) \ {L[h]})
      BY <1>1, <1>2, <2>2, ListsRemove
    <2> QED BY <2>1, <2>3
  <1>12. Kept(m, n, R, ln)
    <2> SUFFICES ASSUME NEW b \in R, NEW a \in Data(b, ln[b]) PROVE n[a] = m[a]
      BY DEF Kept
    <2>1. a \in MemWord /\ a # 4 * c /\ \A i \in 0 .. k : a # 4 * L[i] + 1 /\ a # 4 * L[i] + 2
      <3>1. c \in C \cup {nr_of_blocks}
        BY <1>2
      <3> QED BY <3>1, NotLinks
    <2> QED BY <1>5, <1>7, <2>1
  <1>13. Shape(n, C \ {d}, R, l, k - 1, Removed(k, L, h))
    <2>1. R \in SUBSET (C \ {d})
      BY <1>1, <1>2
    <2> QED BY <1>4, <1>7, <1>8, <1>10, <1>11, <2>1 DEF Shape
  <1> QED BY <1>12, <1>13 DEF n, n1, w, l, c

\* The holder of a chunk may write its data.
LEMMA ShapeWrite ==
    ASSUME NEW m, NEW C, NEW R, NEW ln, NEW k, NEW L, Shape(m, C, R, ln, k, L), NEW b \in R,
           NEW n \in Memory, \A a \in MemWord : a \notin Data(b, ln[b]) => n[a] = m[a]
    PROVE  Shape(n, C, R, ln, k, L) /\ Kept(m, n, R \ {b}, ln)
  <1>1. m \in Memory /\ Tiles(C, ln) /\ R \in SUBSET C /\ Headers(m, C, R, ln) /\ Ring(m, k, L)
        /\ Lists(k, L, C \ R)
    BY DEF Shape
  <1>2. \A a \in Data(b, ln[b]) : /\ \A i \in 0 .. k : a # 4 * L[i] + 1 /\ a # 4 * L[i] + 2
                                  /\ \A c \in C \cup {nr_of_blocks} : a # 4 * c
    BY NotLinks
  <1>3. Ring(n, k, L)
    <2>1. ASSUME NEW i \in 0 .. k
          PROVE  n[4 * L[i] + 1] = m[4 * L[i] + 1] /\ n[4 * L[i] + 2] = m[4 * L[i] + 2]
      <3>1. 4 * L[i] + 1 \in MemWord /\ 4 * L[i] + 2 \in MemWord
        BY <1>1, RingFacts
      <3> QED BY <1>2, <3>1
    <2> QED BY <1>1, <2>1, RingFrame
  <1>4. \A x \in C \cup {nr_of_blocks} : n[4 * x] = m[4 * x]
    BY <1>2, NotLinks
  <1>5. Headers(n, C, R, ln)
    BY <1>1, <1>4 DEF Headers
  <1>6. Kept(m, n, R \ {b}, ln)
    <2> SUFFICES ASSUME NEW x \in R \ {b}, NEW a \in Data(x, ln[x]) PROVE n[a] = m[a]
      BY DEF Kept
    <2>1. a \in MemWord
      BY NotLinks
    <2>2. x \in C /\ b \in C /\ x # b
      BY <1>1
    <2>3. x \in Nat /\ b \in Nat /\ ln[x] \in Nat /\ ln[b] \in Nat /\ (x < b \/ x >= b + ln[b])
          /\ (b < x \/ b >= x + ln[x])
      BY <1>1, <2>2, Apart, TileFacts
    <2>4. a \notin Data(b, ln[b])
      BY <2>3 DEF Data
    <2> QED BY <2>1, <2>4
  <1> QED BY <1>1, <1>3, <1>5, <1>6 DEF Shape

\* init makes the pool one free chunk.
LEMMA ShapeInit ==
    ASSUME NEW m \in Memory
    PROVE  \E C, ln, k, L : Shape(init(m), C, {}, ln, k, L)
  <1> DEFINE N == nr_of_blocks
             m1 == set_head(m, N, 1, 0)
             m2 == [m1 EXCEPT ![4 * N + 1] = N]
             m3 == [m2 EXCEPT ![4 * N + 2] = N]
             m4 == set_head(m3, 0, 0, N)
             n == insert_after(m4, N, 0)
             L0 == [i \in 0 .. 0 |-> N]
             ln == [c \in {0} |-> N]
             M == Inserted(0, L0, 0)
  <1>1. N \in Nat /\ N > 0 /\ N \in Block /\ 0 \in Block /\ 0 \in Pool /\ HDR_RESERVED \in Nat
    BY Sizes
  <1>2. 4 * N \in MemWord /\ 4 * N + 1 \in MemWord /\ 4 * N + 2 \in MemWord /\ 0 \in MemWord
        /\ 4 * 0 = 0
    <2>1. 4 * 0 \in MemWord /\ 4 * N \in MemWord /\ 4 * N + 1 \in MemWord /\ 4 * N + 2 \in MemWord
      BY <1>1, BlockWords
    <2> QED BY <2>1
  <1>3. init(m) = n
    BY DEF init, set_next, set_prev
  <1> HIDE DEF N
  <1>4. m1 \in Memory /\ m1[4 * N] = HDR_RESERVED
    <2>1. m1 \in Memory /\ \A a \in MemWord : m1[a] = IF a = 4 * N THEN HDR_RESERVED + 0 ELSE m[a]
      BY <1>1, SetHeadWords
    <2> QED BY <1>1, <1>2, <2>1
  <1> HIDE DEF m1
  <1>5. m3 \in Memory /\ m3[4 * N] = HDR_RESERVED /\ m3[4 * N + 1] = N /\ m3[4 * N + 2] = N
    BY <1>1, <1>2, <1>4 DEF Memory
  <1> HIDE DEF m3
  <1>6. m4 \in Memory /\ m4[0] = N /\ m4[4 * N] = HDR_RESERVED /\ m4[4 * N + 1] = N /\ m4[4 * N + 2] = N
    <2>1. m4 \in Memory /\ \A a \in MemWord : m4[a] = IF a = 4 * 0 THEN N ELSE m3[a]
      BY <1>1, <1>5, SetHeadWords
    <2> QED BY <1>1, <1>2, <1>5, <2>1
  <1> HIDE DEF m4
  <1>7. L0 \in [0 .. 0 -> Block] /\ \A i \in 0 .. 0 : L0[i] = N /\ i = 0
    BY <1>1
  <1> HIDE DEF L0
  <1>8. Ring(m4, 0, L0)
    <2>1. \A i \in 0 .. 0 : After(0, i) \in 0 .. 0
      BY DEF After
    <2>2. 0 \in 0 .. 0
      OBVIOUS
    <2> QED BY <1>1, <1>6, <1>7, <2>1, <2>2 DEF Ring, N
  <1>9. /\ n \in Memory /\ Ring(n, 0 + 1, M)
        /\ \A a \in MemWord : /\ \A i \in 0 .. 0 : a # 4 * L0[i] + 1 /\ a # 4 * L0[i] + 2
                              /\ a # 4 * 0 + 1 /\ a # 4 * 0 + 2
                              => n[a] = m4[a]
    <2>1. \A i \in 0 .. 0 : L0[i] # 0
      BY <1>1, <1>7
    <2> QED BY <1>1, <1>6, <1>8, <2>1, RingInsert DEF N
  <1> HIDE DEF n
  <1>10. n[4 * 0] = N /\ n[4 * N] = HDR_RESERVED
    BY <1>1, <1>2, <1>6, <1>7, <1>9
  <1>11. Headers(n, {0}, {}, ln)
    BY <1>1, <1>10 DEF Headers, N
  <1>12. Tiles({0}, ln)
    BY <1>1 DEF Tiles, N
  <1>13. Lists(0 + 1, M, {0} \ {})
    <2>1. Lists(0, L0, {})
      BY DEF Lists
    <2>2. {0} \ {} = {} \cup {0}
      OBVIOUS
    <2> QED BY <2>1, <2>2, ListsInsert
  <1>14. Shape(n, {0}, {}, ln, 0 + 1, M)
    BY <1>9, <1>11, <1>12, <1>13 DEF Shape
  <1> HIDE DEF ln, M
  <1> QED BY <1>3, <1>14, Zenon

----------------------------------------------------------------------------
(* The inductive invariant.                                                *)

\* The allocations in S have the blocks that their words need.
Sized(S, num, ln) == \A b \in S : b \in Nat /\ num[b] \in Nat /\ ln[b] = BlocksOf(4 * num[b])

\* The search stands at place j of the list, and the chunks before it are too
\* small and end at the sentinel or a reserved chunk.
Search(C, ln, k, L, j) ==
    pc \in {"scan", "merge"} =>
        /\ j \in 0 .. k /\ L[j] = ptr
        /\ \A i \in 1 .. j : (pc = "merge" => i < j) =>
               L[i] + ln[L[i]] \notin C \ Live /\ ln[L[i]] < blocks
        /\ pc = "merge" => j > 0 /\ len = ln[ptr]

\* What each place in the code knows about the call.
Control ==
    /\ pc = "idle" <=> call = NoCall
    /\ pc \in {"scan", "merge"} => /\ sentinel = nr_of_blocks /\ blocks = BlocksOf(call.bytes)
                                   /\ H!Allocates(call) \/ H!Moves(call)
    /\ pc = "free" => H!Releases(call)
    /\ sentinel = NULL => Live = {}

Pooled ==
    sentinel # NULL =>
        \E C, ln, k, L, j : Shape(mem, C, Live, ln, k, L) /\ Sized(Live, live, ln) /\ Search(C, ln, k, L, j)

MallocInv == MallocTypeOK /\ Control /\ Pooled

\* What a call looks like.
LEMMA CallFacts ==
    /\ NoCall \notin Calls
    /\ \A c \in Calls :
           /\ c.fn \in {"malloc", "calloc", "realloc", "free"}
           /\ c.p \in Live \cup {NULL}
           /\ c.fn \in {"malloc", "calloc"} => c.p = NULL
           /\ c.fn # "free" => c.bytes \in Requests
           /\ c.fn = "free" => c.bytes = 0
  BY DEF Calls, NoCall

\* The blocks of a request hold its words.
LEMMA Rounding ==
    /\ \A n \in Nat : /\ BlocksOf(4 * n) \in Nat /\ BlocksOf(4 * n) >= 1
                      /\ n <= 4 * BlocksOf(4 * n) - 1
    /\ \A r \in Requests : /\ r \in Nat /\ WordsOf(r) \in Nat /\ 4 * WordsOf(r) = r
                           /\ BlocksOf(r) = BlocksOf(4 * WordsOf(r))
                           /\ BlocksOf(r) \in Nat /\ BlocksOf(r) >= 1
  <1>1. ASSUME NEW n \in Nat
        PROVE  BlocksOf(4 * n) \in Nat /\ BlocksOf(4 * n) >= 1 /\ n <= 4 * BlocksOf(4 * n) - 1
    BY DEF BlocksOf
  <1>2. ASSUME NEW r \in Requests
        PROVE  r \in Nat /\ WordsOf(r) \in Nat /\ 4 * WordsOf(r) = r
    BY RequestsOK DEF WordsOf
  <1>3. ASSUME NEW r \in Requests
        PROVE  BlocksOf(r) = BlocksOf(4 * WordsOf(r)) /\ BlocksOf(r) \in Nat /\ BlocksOf(r) >= 1
    BY <1>1, <1>2
  <1> QED BY <1>1, <1>2, <1>3

\* The words of an allocation of n words are data of its chunk.
LEMMA WordsAreData ==
    ASSUME NEW b \in Nat, NEW n \in Nat, NEW w \in Nat, n <= 4 * w - 1
    PROVE  /\ \A i \in 1 .. n : Word(b, i) \in Data(b, w)
           /\ Word(b, 1) .. Word(b, n) \subseteq Data(b, w)
  BY DEF Word, Data

\* The allocations in S keep their words.
LEMMA WordsKept ==
    ASSUME NEW m, NEW n, NEW S, NEW ln, NEW num, Kept(m, n, S, ln), Sized(S, num, ln)
    PROVE  \A b \in S : \A i \in 1 .. num[b] : n[Word(b, i)] = m[Word(b, i)]
  <1> SUFFICES ASSUME NEW b \in S, NEW i \in 1 .. num[b] PROVE n[Word(b, i)] = m[Word(b, i)]
    OBVIOUS
  <1>1. b \in Nat /\ num[b] \in Nat /\ ln[b] \in Nat /\ num[b] <= 4 * ln[b] - 1
    BY Rounding DEF Sized
  <1>2. Word(b, i) \in Data(b, ln[b])
    BY <1>1, WordsAreData
  <1> QED BY <1>2 DEF Kept

\* The caller sees no difference while the data are kept.
LEMMA SameView ==
    ASSUME NEW ln, Sized(Live, live, ln), Kept(mem, mem', Live, ln), UNCHANGED live
    PROVE  UNCHANGED HeapView
  <1>1. \A b \in Live : \A i \in 1 .. live[b] : mem'[Word(b, i)] = mem[Word(b, i)]
    BY WordsKept
  <1>2. Live' = Live
    BY DEF Live
  <1> QED BY <1>1, <1>2 DEF HeapView

\* The view of the caller, in the terms of Heap.
LEMMA ViewFacts ==
    /\ H!Live = Live /\ DOMAIN HeapView = Live
    /\ \A b \in Live : /\ HeapView[b].n = live[b]
                       /\ HeapView[b].w = [i \in 1 .. live[b] |-> mem[Word(b, i)]]
                       /\ HeapView[b] = [n |-> live[b], w |-> [i \in 1 .. live[b] |-> mem[Word(b, i)]]]
    /\ H!Calls = Calls
  BY DEF H!Live, HeapView, H!Calls, Calls, NULL, H!NULL

----------------------------------------------------------------------------
(* Free space, as the caller sees it.                                      *)

LessThan == { p \in Nat \X Nat : p[1] < p[2] }

\* A nonempty set of numbers has a least one.
LEMMA Least ==
    ASSUME NEW S, S \subseteq Nat, S # {}
    PROVE  \E x \in S : \A y \in S : x <= y
  <1>1. IsWellFoundedOn(LessThan, Nat)
    BY NatLessThanWellFounded DEF LessThan, OpToRel
  <1>2. PICK x \in S : \A y \in S : ~(<<y, x>> \in LessThan)
    BY <1>1, WFMin, Zenon
  <1>3. \A y \in S : ~(y < x)
    BY <1>2 DEF LessThan
  <1> QED BY <1>3

\* Every block of the pool is in a chunk.
LEMMA Cover ==
    ASSUME NEW C, NEW ln, Tiles(C, ln), NEW g \in Pool
    PROVE  \E c \in C : c <= g /\ g < c + ln[c]
  <1> DEFINE S == { x \in Nat : \E c \in C : c <= g /\ x = g - c }
  <1>1. g \in Nat /\ g < nr_of_blocks
    BY Sizes
  <1>2. g \in S
    <2>1. 0 \in C /\ 0 <= g /\ g = g - 0
      BY <1>1 DEF Tiles
    <2> QED BY <1>1, <2>1
  <1>3. PICK x \in S : \A y \in S : x <= y
    BY <1>2, Least
  <1>4. PICK c \in C : c <= g /\ x = g - c
    BY <1>3
  <1>5. c \in Nat /\ ln[c] \in Nat /\ ln[c] >= 1 /\ c + ln[c] \in C \cup {nr_of_blocks}
    BY TileFacts DEF Tiles
  <1>6. g < c + ln[c]
    <2> SUFFICES ASSUME c + ln[c] <= g PROVE FALSE
      BY <1>1, <1>5
    <2>1. c + ln[c] \in C
      BY <1>1, <1>5, Sizes
    <2>2. g - (c + ln[c]) \in Nat
      BY <1>1, <1>5
    <2>3. g - (c + ln[c]) \in S
      BY <2>1, <2>2
    <2>4. x <= g - (c + ln[c])
      BY <1>3, <2>3
    <2> QED BY <1>1, <1>4, <1>5, <2>4
  <1> QED BY <1>4, <1>6

\* The occupied blocks are those of the reserved chunks.
LEMMA OccupiedBlocks ==
    ASSUME NEW ln, Sized(Live, live, ln)
    PROVE  \A x : x \in H!Occupied <=> \E b \in Live : x \in b .. b + ln[b] - 1
  <1>1. \A b \in Live : H!Extent(b, H!BlocksOf(4 * HeapView[b].n)) = b .. b + ln[b] - 1
    BY ViewFacts DEF Sized, H!Extent, H!BlocksOf, BlocksOf
  <1>2. H!Occupied = UNION { H!Extent(b, H!BlocksOf(4 * HeapView[b].n)) : b \in Live }
    BY ViewFacts DEF H!Occupied
  <1> QED BY <1>1, <1>2

\* A free chunk has room for what it is long enough for.
LEMMA GapInChunk ==
    ASSUME NEW C, NEW ln, Tiles(C, ln), Live \subseteq C, Sized(Live, live, ln),
           NEW c \in C \ Live, NEW w \in Nat, w <= ln[c]
    PROVE  c \in Pool /\ c \in H!Gaps(w)
  <1>1. c \in Pool /\ c \in Nat /\ ln[c] \in Nat /\ c + ln[c] <= nr_of_blocks /\ nr_of_blocks \in Nat
    BY TileFacts, Sizes DEF Tiles
  <1>2. ASSUME NEW x \in c .. c + w - 1
        PROVE  x \in Pool /\ x \notin H!Occupied
    <2>1. x \in Nat /\ c <= x /\ x < c + ln[c] /\ x \in Pool
      BY <1>1 DEF Pool
    <2>2. ASSUME NEW b \in Live PROVE x \notin b .. b + ln[b] - 1
      <3>1. b \in C /\ b # c
        OBVIOUS
      <3>2. b \in Nat /\ ln[b] \in Nat /\ (b < c \/ b >= c + ln[c]) /\ (c < b \/ c >= b + ln[b])
        BY <3>1, Apart, TileFacts
      <3> QED BY <1>1, <2>1, <3>2
    <2> QED BY <2>1, <2>2, OccupiedBlocks
  <1>3. H!Pool = Pool
    BY DEF H!Pool, Pool
  <1> QED BY <1>1, <1>2, <1>3 DEF H!Gaps, H!Extent

\* If every free chunk is too short and ends at a reserved one, there is no
\* room: a gap does not extend over the end of a chunk.
LEMMA NoGap ==
    ASSUME NEW C, NEW ln, Tiles(C, ln), Live \subseteq C, Sized(Live, live, ln), NEW w \in Nat, w >= 1,
           \A c \in C \ Live : c + ln[c] \notin C \ Live /\ ln[c] < w
    PROVE  H!Gaps(w) = {}
  <1> SUFFICES ASSUME NEW g \in H!Gaps(w) PROVE FALSE
    OBVIOUS
  <1>1. g \in Pool /\ g \in Nat /\ \A x \in g .. g + w - 1 : x \in Pool /\ x \notin H!Occupied
    BY Sizes DEF H!Gaps, H!Extent, H!Pool, Pool
  <1>2. PICK c \in C : c <= g /\ g < c + ln[c]
    BY <1>1, Cover
  <1>3. c \in Nat /\ ln[c] \in Nat /\ c + ln[c] \in C \cup {nr_of_blocks}
    BY TileFacts DEF Tiles
  <1>4. CASE c \in Live
    <2>1. g \in H!Occupied
      BY <1>1, <1>2, <1>3, <1>4, OccupiedBlocks
    <2>2. g \in g .. g + w - 1
      BY <1>1
    <2> QED BY <1>1, <2>1, <2>2
  <1>5. CASE c \notin Live
    <2> DEFINE e == c + ln[c]
    <2>1. ln[c] < w /\ e \notin C \ Live
      BY <1>5
    <2>2. e \in g .. g + w - 1
      BY <1>1, <1>2, <1>3, <2>1
    <2>3. e \in Pool /\ e \notin H!Occupied
      BY <1>1, <2>2
    <2>4. e \in Live
      BY <1>3, <2>1, <2>3, Sizes
    <2>5. e \in Nat /\ ln[e] \in Nat /\ ln[e] >= 1
      BY <2>4, TileFacts
    <2> HIDE DEF e
    <2>6. e \in e .. e + ln[e] - 1
      BY <2>5
    <2> QED BY <2>3, <2>4, <2>6, OccupiedBlocks
  <1> QED BY <1>4, <1>5

----------------------------------------------------------------------------
(* Every action keeps the invariant and is a step, or a stutter, of Heap.  *)

Refines == [H!HeapNext]_(H!heapVars)

\* The initial state.
LEMMA InitOK == Init => MallocInv /\ H!HeapInit
  <1> SUFFICES ASSUME Init PROVE MallocInv /\ H!HeapInit
    OBVIOUS
  <1>1. Live = {}
    BY DEF Init, Live
  <1>2. MallocTypeOK
    BY <1>1, Sizes DEF Init, MallocTypeOK
  <1>3. Control /\ Pooled
    BY <1>1 DEF Init, Control, Pooled
  <1>4. HeapView = [b \in {} |-> 0]
    BY <1>1 DEF HeapView
  <1>5. H!HeapInit
    BY <1>4 DEF Init, H!HeapInit, H!NoCall, NoCall, H!NULL, NULL
  <1> QED BY <1>2, <1>3, <1>5 DEF MallocInv

\* Entering malloc, calloc or realloc.
LEMMA StepCallMalloc ==
    ASSUME MallocInv, NEW c \in Calls, CallMalloc(c)
    PROVE  MallocInv' /\ Refines
  <1>1. MallocTypeOK /\ Control /\ Pooled
    BY DEF MallocInv
  <1>2. /\ pc = "idle" /\ call' = c /\ sentinel' = nr_of_blocks
        /\ mem' = (IF sentinel = NULL THEN init(mem) ELSE mem)
        /\ blocks' = BlocksOf(c.bytes) /\ ptr' = nr_of_blocks /\ ret' = NULL /\ pc' = "scan"
        /\ live' = live /\ len' = len
        /\ c.fn \in {"malloc", "calloc"} \/ (c.fn = "realloc" /\ (c.p = NULL \/ c.bytes # 0))
    BY DEF CallMalloc
  <1>3. Live' = Live /\ Calls' = Calls
    BY <1>2 DEF Live, Calls
  <1>4. c.bytes \in Requests /\ c # NoCall /\ BlocksOf(c.bytes) \in Nat
    BY <1>2, CallFacts, Rounding
  <1>5. H!Allocates(c) \/ H!Moves(c)
    BY <1>2 DEF H!Allocates, H!Moves, H!NULL, NULL
  <1>6. nr_of_blocks # NULL /\ nr_of_blocks \in Block
    BY Sizes DEF NULL
  <1>7. Control'
    BY <1>2, <1>4, <1>5, <1>6 DEF Control, H!Allocates, H!Moves
  <1>8. mem' \in Memory /\ Pooled' /\ HeapView' = HeapView
    <2>1. ASSUME NEW C, NEW ln, NEW k, NEW L, Shape(mem', C, Live', ln, k, L), Sized(Live', live', ln)
          PROVE  Pooled'
      <3>1. 0 \in 0 .. k /\ L[0] = nr_of_blocks
        BY <2>1, Members
      <3>2. Search(C, ln, k, L, 0)'
        BY <1>2, <3>1 DEF Search
      <3> QED BY <2>1, <3>2, Zenon DEF Pooled
    <2>2. CASE sentinel = NULL
      <3>1. Live = {} /\ Live' = {} /\ mem \in Memory
        BY <1>1, <1>3, <2>2 DEF Control, MallocTypeOK, Memory
      <3>2. PICK C, ln, k, L : Shape(init(mem), C, {}, ln, k, L)
        BY <3>1, ShapeInit
      <3>3. Shape(mem', C, Live', ln, k, L)
        BY <1>2, <2>2, <3>1, <3>2
      <3>4. Sized(Live', live', ln)
        BY <3>1 DEF Sized
      <3>5. HeapView' = HeapView
        BY <3>1 DEF HeapView
      <3>6. mem' \in Memory
        BY <3>3 DEF Shape
      <3> QED BY <2>1, <3>3, <3>4, <3>5, <3>6
    <2>3. CASE sentinel # NULL
      <3>1. PICK C, ln, k, L, j : Shape(mem, C, Live, ln, k, L) /\ Sized(Live, live, ln)
        BY <1>1, <2>3 DEF Pooled
      <3>2. mem' = mem
        BY <1>2, <2>3
      <3>3. Shape(mem', C, Live', ln, k, L) /\ Sized(Live', live', ln)
        BY <1>2, <1>3, <3>1, <3>2
      <3>4. HeapView' = HeapView
        BY <1>2, <1>3, <3>2 DEF HeapView
      <3>5. mem' \in Memory
        BY <3>3 DEF Shape
      <3> QED BY <2>1, <3>3, <3>4, <3>5
    <2> QED BY <2>2, <2>3
  <1>9. MallocTypeOK'
    BY <1>1, <1>2, <1>3, <1>4, <1>6, <1>8 DEF MallocTypeOK, Memory
  <1>10. H!HeapCall(c)
    BY <1>1, <1>2, <1>8 DEF H!HeapCall, Control, H!NoCall, NoCall, H!NULL, NULL
  <1>11. c \in H!Calls
    BY ViewFacts
  <1>12. Refines
    BY <1>10, <1>11 DEF Refines, H!HeapNext
  <1> QED BY <1>7, <1>8, <1>9, <1>12 DEF MallocInv

\* Entering free, or realloc to size zero.
LEMMA StepCallFree ==
    ASSUME MallocInv, NEW c \in Calls, CallFree(c)
    PROVE  MallocInv' /\ Refines
  <1>1. MallocTypeOK /\ Control /\ Pooled
    BY DEF MallocInv
  <1>2. /\ pc = "idle" /\ call' = c /\ sentinel' = sentinel /\ mem' = mem /\ live' = live
        /\ blocks' = blocks /\ ptr' = ptr /\ len' = len /\ ret' = NULL /\ pc' = "free"
        /\ c.fn = "free" \/ (c.fn = "realloc" /\ c.p # NULL /\ c.bytes = 0)
    BY DEF CallFree, locals
  <1>3. Live' = Live /\ Calls' = Calls /\ HeapView' = HeapView
    BY <1>2 DEF Live, Calls, HeapView
  <1>4. c # NoCall
    BY CallFacts
  <1>5. H!Releases(c)
    BY <1>2 DEF H!Releases, H!NULL, NULL
  <1>6. Control'
    BY <1>1, <1>2, <1>3, <1>4, <1>5 DEF Control, H!Releases
  <1>7. MallocTypeOK'
    BY <1>1, <1>2, <1>3 DEF MallocTypeOK
  <1>8. Pooled'
    <2> SUFFICES ASSUME sentinel' # NULL PROVE Pooled'
      BY DEF Pooled
    <2>1. PICK C, ln, k, L, j : Shape(mem, C, Live, ln, k, L) /\ Sized(Live, live, ln)
      BY <1>1, <1>2 DEF Pooled
    <2>2. Shape(mem', C, Live', ln, k, L) /\ Sized(Live', live', ln)
      BY <1>2, <1>3, <2>1
    <2>3. Search(C, ln, k, L, 0)'
      BY <1>2 DEF Search
    <2> QED BY <2>2, <2>3, Zenon DEF Pooled
  <1>9. H!HeapCall(c) /\ c \in H!Calls
    BY <1>1, <1>2, <1>3, ViewFacts DEF H!HeapCall, Control, H!NoCall, NoCall, H!NULL, NULL
  <1>10. Refines
    BY <1>9 DEF Refines, H!HeapNext
  <1> QED BY <1>6, <1>7, <1>8, <1>10 DEF MallocInv

\* The search goes to the next chunk of the list, or has seen them all.
LEMMA StepScan ==
    ASSUME MallocInv, Scan
    PROVE  MallocInv' /\ Refines
  <1>1. MallocTypeOK /\ Control /\ Pooled
    BY DEF MallocInv
  <1>2. /\ pc = "scan" /\ mem' = mem /\ sentinel' = sentinel /\ live' = live
        /\ sentinel = nr_of_blocks /\ blocks = BlocksOf(call.bytes) /\ (H!Allocates(call) \/ H!Moves(call))
    BY <1>1 DEF Scan, Control
  <1>3. Live' = Live /\ Calls' = Calls /\ HeapView' = HeapView
    BY <1>2 DEF Live, Calls, HeapView
  <1>4. nr_of_blocks # NULL /\ nr_of_blocks \in Block
    BY Sizes DEF NULL
  <1>5. PICK C, ln, k, L, j :
            Shape(mem, C, Live, ln, k, L) /\ Sized(Live, live, ln) /\ Search(C, ln, k, L, j)
    BY <1>1, <1>2, <1>4 DEF Pooled
  <1>6. /\ Shape(mem', C, Live', ln, k, L) /\ Sized(Live', live', ln)
        /\ Tiles(C, ln) /\ Live \subseteq C /\ Headers(mem, C, Live, ln) /\ Ring(mem, k, L)
    BY <1>2, <1>3, <1>5 DEF Shape
  <1>7. /\ j \in 0 .. k /\ L[j] = ptr /\ k \in Nat /\ L[0] = nr_of_blocks
        /\ \A i \in 1 .. j : L[i] + ln[L[i]] \notin C \ Live /\ ln[L[i]] < blocks
    BY <1>2, <1>5, Members DEF Search
  <1>8. next(mem, ptr) = L[After(k, j)] /\ After(k, j) \in 0 .. k
    BY <1>6, <1>7, AfterFacts DEF Ring, next
  <1>9. call \in Calls /\ call.bytes \in Requests /\ blocks \in Nat /\ blocks >= 1
    BY <1>1, <1>2, CallFacts, Rounding DEF Control, MallocTypeOK, H!Allocates, H!Moves
  <1>10. CASE L[After(k, j)] = nr_of_blocks
    <2>1. After(k, j) = 0
      BY <1>7, <1>8, <1>10, <1>5, Members
    <2>2. j = k
      BY <1>7, <2>1 DEF After
    <2>3. \A c \in C \ Live : c + ln[c] \notin C \ Live /\ ln[c] < blocks
      BY <1>5, <1>7, <2>2, Members
    <2>4. H!Gaps(BlocksOf(call.bytes)) = {}
      BY <1>2, <1>5, <1>6, <1>9, <2>3, NoGap
    <2>5. Return(NULL)
      BY <1>2, <1>8, <1>10 DEF Scan
    <2>6. /\ ret' = NULL /\ call' = NoCall /\ pc' = "idle"
          /\ ptr' = nr_of_blocks /\ len' = 0 /\ blocks' = 0
      BY <2>5 DEF Return
    <2>7. H!HeapFail
      BY <1>2, <1>3, <2>4, <2>6
         DEF H!HeapFail, H!Answer, H!BlocksOf, BlocksOf, H!NoCall, NoCall, H!NULL, NULL
    <2>8. MallocTypeOK'
      BY <1>1, <1>2, <1>3, <1>4, <2>6, Sizes DEF MallocTypeOK, Block
    <2>9. Control'
      BY <1>1, <1>2, <1>3, <1>4, <2>6 DEF Control
    <2>10. Search(C, ln, k, L, 0)'
      BY <2>6 DEF Search
    <2>11. Pooled'
      BY <1>6, <2>10, Zenon DEF Pooled
    <2>12. Refines
      BY <2>7 DEF Refines, H!HeapNext
    <2> QED BY <2>8, <2>9, <2>11, <2>12 DEF MallocInv
  <1>11. CASE L[After(k, j)] # nr_of_blocks
    <2> DEFINE p == L[After(k, j)]
    <2>1. /\ ptr' = p /\ len' = length(mem, p) /\ pc' = "merge"
          /\ call' = call /\ ret' = ret /\ blocks' = blocks
      BY <1>2, <1>8, <1>11 DEF Scan
    <2>2. After(k, j) # 0 /\ After(k, j) = j + 1 /\ j + 1 \in 1 .. k
      BY <1>7, <1>8, <1>11 DEF After
    <2>3. p \in C /\ p \in Block /\ ln[p] \in Block /\ length(mem, p) = ln[p]
      <3>1. p \in C \ Live
        BY <1>5, <2>2, Members
      <3>2. length(mem, p) = ln[p] /\ p \in Block
        BY <1>6, <3>1, ReadHeader, TileFacts
      <3>3. ln[p] \in 1 .. nr_of_blocks
        BY <1>6, <3>1 DEF Tiles
      <3> HIDE DEF p
      <3> QED BY <3>1, <3>2, <3>3, Sizes DEF Block
    <2>4. MallocTypeOK'
      BY <1>1, <1>2, <1>3, <2>1, <2>3 DEF MallocTypeOK
    <2>5. Control'
      BY <1>1, <1>2, <1>3, <2>1 DEF Control, H!Allocates, H!Moves
    <2>6. Search(C, ln, k, L, j + 1)'
      <3>1. \A i \in 1 .. j + 1 : i < j + 1 => i \in 1 .. j
        BY <1>7
      <3>2. L[j + 1] = p /\ j + 1 \in 0 .. k /\ j + 1 > 0
        BY <1>7, <2>2
      <3> QED BY <1>3, <1>7, <2>1, <2>3, <3>1, <3>2 DEF Search
    <2>7. Pooled'
      BY <1>6, <2>6, Zenon DEF Pooled
    <2>8. Refines
      BY <1>3, <2>1 DEF Refines, H!heapVars
    <2> QED BY <2>4, <2>5, <2>7, <2>8 DEF MallocInv
  <1> QED BY <1>10, <1>11

\* The candidate is too small.
LEMMA StepTooSmall ==
    ASSUME MallocInv, TooSmall
    PROVE  MallocInv' /\ Refines
  <1>1. MallocTypeOK /\ Control /\ Pooled
    BY DEF MallocInv
  <1>2. /\ pc = "merge" /\ pc' = "scan" /\ is_reserved(mem, ptr + len) /\ len < blocks
        /\ mem' = mem /\ sentinel' = sentinel /\ live' = live /\ call' = call /\ ret' = ret
        /\ ptr' = ptr /\ len' = len /\ blocks' = blocks /\ sentinel = nr_of_blocks
    BY <1>1 DEF TooSmall, Control, locals
  <1>3. Live' = Live /\ Calls' = Calls /\ HeapView' = HeapView /\ nr_of_blocks # NULL
    BY <1>2, Sizes DEF Live, Calls, HeapView, NULL
  <1>4. PICK C, ln, k, L, j :
            Shape(mem, C, Live, ln, k, L) /\ Sized(Live, live, ln) /\ Search(C, ln, k, L, j)
    BY <1>1, <1>2, <1>3 DEF Pooled
  <1>5. /\ Shape(mem', C, Live', ln, k, L) /\ Sized(Live', live', ln)
        /\ Tiles(C, ln) /\ Live \in SUBSET C /\ Headers(mem, C, Live, ln)
    BY <1>2, <1>3, <1>4 DEF Shape
  <1>6. /\ j \in 0 .. k /\ L[j] = ptr /\ j > 0 /\ len = ln[ptr]
        /\ \A i \in 1 .. j : i < j => L[i] + ln[L[i]] \notin C \ Live /\ ln[L[i]] < blocks
    BY <1>2, <1>4 DEF Search
  <1>7. ptr + ln[ptr] \notin C \ Live
    BY <1>2, <1>5, <1>6, ReadHeader
  <1>8. \A i \in 1 .. j : L[i] + ln[L[i]] \notin C \ Live /\ ln[L[i]] < blocks
    <2>1. \A i \in 1 .. j : i < j \/ i = j
      BY <1>6
    <2> QED BY <1>2, <1>6, <1>7, <2>1
  <1>9. Search(C, ln, k, L, j)'
    BY <1>2, <1>3, <1>6, <1>8 DEF Search
  <1>10. Pooled'
    BY <1>5, <1>9, Zenon DEF Pooled
  <1>11. MallocTypeOK' /\ Control'
    BY <1>1, <1>2, <1>3 DEF MallocTypeOK, Control, H!Allocates, H!Moves
  <1>12. Refines
    BY <1>2, <1>3 DEF Refines, H!heapVars
  <1> QED BY <1>10, <1>11, <1>12 DEF MallocInv

\* A free neighbour is merged into the candidate.
LEMMA StepMerge ==
    ASSUME MallocInv, Merge
    PROVE  MallocInv' /\ Refines
  <1>1. MallocTypeOK /\ Control /\ Pooled
    BY DEF MallocInv
  <1>2. /\ pc = "merge" /\ pc' = pc /\ ~ is_reserved(mem, ptr + len)
        /\ len' = len + length(mem, ptr + len)
        /\ mem' = set_head(unlink(mem, ptr + len), ptr, 0, len')
        /\ sentinel' = sentinel /\ live' = live /\ call' = call /\ ret' = ret
        /\ ptr' = ptr /\ blocks' = blocks /\ sentinel = nr_of_blocks
    BY <1>1 DEF Merge, Control
  <1>3. Live' = Live /\ Calls' = Calls /\ nr_of_blocks # NULL
    BY <1>2, Sizes DEF Live, Calls, NULL
  <1>4. PICK C, ln, k, L, j :
            Shape(mem, C, Live, ln, k, L) /\ Sized(Live, live, ln) /\ Search(C, ln, k, L, j)
    BY <1>1, <1>2, <1>3 DEF Pooled
  <1>5. Tiles(C, ln) /\ Live \in SUBSET C /\ Headers(mem, C, Live, ln)
    BY <1>4 DEF Shape
  <1>6. /\ k \in Nat /\ j \in 1 .. k /\ L[j] = ptr /\ len = ln[ptr]
        /\ \A i \in 1 .. j : i < j => L[i] + ln[L[i]] \notin C \ Live /\ ln[L[i]] < blocks
    BY <1>2, <1>4, Members DEF Search
  <1>7. ptr \in C \ Live /\ \A h, i \in 0 .. k : L[h] = L[i] => h = i
    BY <1>4, <1>6, Members
  <1> DEFINE d == ptr + ln[ptr]
  <1>8. d \in C \ Live
    <2>1. d \in C \cup {nr_of_blocks}
      BY <1>5, <1>7 DEF Tiles
    <2> QED BY <1>2, <1>5, <1>6, <2>1, ReadHeader
  <1>9. PICK h \in 1 .. k : L[h] = d
    BY <1>4, <1>8, Members
  <1>10. length(mem, d) = ln[d] /\ len' = ln[ptr] + ln[d]
    BY <1>2, <1>5, <1>6, <1>8, ReadHeader
  <1> DEFINE K == C \ {d}
             l == Joined(C, ln, ptr, d)
             M == Removed(k, L, h)
             g == IF h < j THEN j - 1 ELSE j
  <1>11. Shape(mem', K, Live, l, k - 1, M) /\ Kept(mem, mem', Live, ln)
    <2>1. mem' = set_head(unlink(mem, L[h]), L[j], 0, ln[L[j]] + ln[L[h]])
      BY <1>2, <1>6, <1>9, <1>10
    <2>2. L[h] = L[j] + ln[L[j]]
      BY <1>6, <1>9
    <2> HIDE DEF d
    <2>3. Shape(mem', C \ {L[h]}, Live, Joined(C, ln, L[j], L[h]), k - 1, Removed(k, L, h))
          /\ Kept(mem, mem', Live, ln)
      BY <1>4, <1>6, <2>1, <2>2, ShapeMerge
    <2> QED BY <1>6, <1>9, <2>3
  <1>12. d # ptr /\ h # j
    <2>1. ptr \in Nat /\ ln[ptr] \in Nat /\ ln[ptr] >= 1
      BY <1>5, <1>7, TileFacts
    <2>2. d # ptr
      BY <2>1
    <2> QED BY <1>6, <1>9, <2>2
  <1> HIDE DEF d
  <1>13. l[ptr] = len' /\ \A x \in K : x # ptr => l[x] = ln[x]
    BY <1>7, <1>10, <1>12 DEF Joined
  <1>14. \A i \in 0 .. k - 1 : M[i] = IF i < h THEN L[i] ELSE L[i + 1]
    BY DEF Removed
  <1> HIDE DEF l, M
  <1>15. g \in 0 .. k - 1 /\ M[g] = ptr /\ g > 0
    <2>1. CASE h < j
      BY <1>6, <1>14, <2>1
    <2>2. CASE h > j
      BY <1>6, <1>14, <2>2
    <2> QED BY <1>6, <1>12, <2>1, <2>2
  <1>16. ASSUME NEW i \in 1 .. g, i < g PROVE M[i] + l[M[i]] \notin K \ Live /\ l[M[i]] < blocks
    <2> DEFINE f == IF i < h THEN i ELSE i + 1
    <2>1. f \in 1 .. j /\ f < j /\ f \in 0 .. k /\ j \in 0 .. k /\ f # h /\ h \in 0 .. k /\ M[i] = L[f]
          /\ f \in 1 .. k
      BY <1>6, <1>12, <1>14, <1>15, <1>16
    <2> HIDE DEF f
    <2>2. L[f] # ptr /\ L[f] # d /\ L[f] \in C
      BY <1>4, <1>6, <1>7, <1>9, <2>1, Members
    <2>3. l[M[i]] = ln[L[f]]
      BY <1>13, <2>1, <2>2
    <2> QED BY <1>6, <2>1, <2>3
  <1>17. Sized(Live', live', l)
    <2>1. \A b \in Live : b \in K /\ b # ptr
      BY <1>5, <1>7, <1>8
    <2> QED BY <1>2, <1>3, <1>4, <1>13, <2>1 DEF Sized
  <1>18. Shape(mem', K, Live', l, k - 1, M)
    BY <1>3, <1>11
  <1>19. \A i \in 1 .. g : i < g => M[i] + l[M[i]] \notin K \ Live /\ l[M[i]] < blocks
    BY <1>16
  <1>20. Pooled'
    <2> HIDE DEF g, K
    <2> SUFFICES ASSUME NEW Kc, NEW lc, NEW kc, NEW Mc, NEW gc,
                        Kc = K, lc = l, kc = k - 1, Mc = M, gc = g
                 PROVE  Pooled'
      OBVIOUS
    <2>1. Shape(mem', Kc, Live', lc, kc, Mc) /\ Sized(Live', live', lc)
      BY <1>17, <1>18
    <2>2. Search(Kc, lc, kc, Mc, gc)'
      BY <1>2, <1>3, <1>13, <1>15, <1>19 DEF Search
    <2> QED BY <2>1, <2>2, Zenon DEF Pooled
  <1>21. len' \in Block /\ mem' \in Memory
    <2>1. Tiles(K, l) /\ mem' \in Memory
      BY <1>11 DEF Shape
    <2>2. ptr \in K
      BY <1>7, <1>12
    <2> HIDE DEF K
    <2>3. l[ptr] \in 1 .. nr_of_blocks
      BY <2>1, <2>2 DEF Tiles
    <2> QED BY <1>13, <2>1, <2>3, Sizes DEF Block
  <1>22. MallocTypeOK'
    BY <1>1, <1>2, <1>3, <1>21 DEF MallocTypeOK, Memory
  <1>23. Control'
    BY <1>1, <1>2, <1>3 DEF Control, H!Allocates, H!Moves
  <1>24. HeapView' = HeapView
    BY <1>2, <1>4, <1>11, SameView
  <1>25. Refines
    BY <1>2, <1>24 DEF Refines, H!heapVars
  <1> QED BY <1>20, <1>22, <1>23, <1>25 DEF MallocInv

\* The caller writes into an allocation.
LEMMA StepWrite ==
    ASSUME MallocInv, NEW b \in Live, NEW v \in Vals, Write(b, v)
    PROVE  MallocInv' /\ Refines
  <1>1. MallocTypeOK /\ Control /\ Pooled
    BY DEF MallocInv
  <1>2. /\ pc = "idle" /\ pc' = pc
        /\ mem' = [a \in MemWord |-> IF a \in Word(b, 1) .. Word(b, live[b]) THEN v + a - 4 * b ELSE mem[a]]
        /\ sentinel' = sentinel /\ live' = live /\ call' = call /\ ret' = ret
        /\ ptr' = ptr /\ len' = len /\ blocks' = blocks
    BY DEF Write, locals
  <1>3. Live' = Live /\ Calls' = Calls /\ sentinel # NULL
    BY <1>1, <1>2 DEF Live, Calls, Control
  <1>4. PICK C, ln, k, L, j : Shape(mem, C, Live, ln, k, L) /\ Sized(Live, live, ln)
    BY <1>1, <1>3 DEF Pooled
  <1>5. b \in Nat /\ live[b] \in Nat /\ v \in Nat /\ ln[b] \in Nat /\ live[b] <= 4 * ln[b] - 1
    BY <1>4, Rounding, ValsOK DEF Sized
  <1>6. mem \in Memory /\ mem' \in Memory
    <2>1. mem \in Memory
      BY <1>1 DEF MallocTypeOK, Memory
    <2>2. \A a \in MemWord : a \in Word(b, 1) .. Word(b, live[b]) => v + a - 4 * b \in Nat
      BY <1>5 DEF Word, MemWord
    <2> QED BY <1>2, <2>1, <2>2 DEF Memory
  <1>7. Word(b, 1) .. Word(b, live[b]) \subseteq Data(b, ln[b])
    BY <1>5, WordsAreData
  <1>8. \A a \in MemWord : a \notin Data(b, ln[b]) => mem'[a] = mem[a]
    BY <1>2, <1>7
  <1>9. Shape(mem', C, Live, ln, k, L) /\ Kept(mem, mem', Live \ {b}, ln)
    BY <1>4, <1>6, <1>8, ShapeWrite
  <1>10. Search(C, ln, k, L, 0)'
    BY <1>2 DEF Search
  <1>11. Pooled'
    <2>1. Shape(mem', C, Live', ln, k, L) /\ Sized(Live', live', ln)
      BY <1>2, <1>3, <1>4, <1>9
    <2> QED BY <1>10, <2>1, Zenon DEF Pooled
  <1>12. MallocTypeOK'
    BY <1>1, <1>2, <1>3, <1>6 DEF MallocTypeOK, Memory
  <1>13. Control'
    BY <1>1, <1>2, <1>3 DEF Control
  <1> DEFINE W == [i \in 1 .. live[b] |-> v + i]
  <1>14. [i \in 1 .. live[b] |-> mem'[Word(b, i)]] = W
    <2> SUFFICES ASSUME NEW i \in 1 .. live[b] PROVE mem'[Word(b, i)] = v + i
      OBVIOUS
    <2>1. Word(b, i) \in MemWord /\ Word(b, i) \in Word(b, 1) .. Word(b, live[b])
          /\ v + Word(b, i) - 4 * b = v + i
      <3>1. Word(b, i) \in Word(b, 1) .. Word(b, live[b]) /\ v + Word(b, i) - 4 * b = v + i
        BY <1>5 DEF Word
      <3>2. Word(b, i) \in Data(b, ln[b])
        BY <1>7, <3>1
      <3>3. Word(b, i) \in MemWord
        BY <1>4, <3>2, NotLinks
      <3> QED BY <3>1, <3>3
    <2> QED BY <1>2, <2>1
  <1>15. \A x \in Live \ {b} : \A i \in 1 .. live[x] : mem'[Word(x, i)] = mem[Word(x, i)]
    <2>1. Sized(Live \ {b}, live, ln)
      BY <1>4 DEF Sized
    <2> QED BY <1>9, <2>1, WordsKept
  <1>16. HeapView' = [HeapView EXCEPT ![b].w = W]
    <2>1. HeapView' = [x \in Live |-> [n |-> live[x], w |-> [i \in 1 .. live[x] |-> mem'[Word(x, i)]]]]
      BY <1>2, <1>3 DEF HeapView
    <2>2. HeapView'[b] = [n |-> live[b], w |-> W]
      BY <1>14, <2>1
    <2>3. \A x \in Live \ {b} : HeapView'[x] = HeapView[x]
      BY <1>15, <2>1 DEF HeapView
    <2> HIDE DEF W
    <2>4. [HeapView[b] EXCEPT !.w = W] = [n |-> live[b], w |-> W]
      <3>1. HeapView[b] = [n |-> live[b], w |-> [i \in 1 .. live[b] |-> mem[Word(b, i)]]]
        BY ViewFacts
      <3>2. PICK y : HeapView[b] = [n |-> live[b], w |-> y]
        BY <3>1
      <3>3. \A h : h = HeapView[b] => [h EXCEPT !.w = W] = [n |-> live[b], w |-> W]
        <4> SUFFICES ASSUME NEW h, h = HeapView[b] PROVE [h EXCEPT !.w = W] = [n |-> live[b], w |-> W]
          OBVIOUS
        <4>1. h = [n |-> live[b], w |-> y]
          BY <3>2
        <4> QED BY <4>1
      <3> QED BY <3>3
    <2> QED BY <2>1, <2>2, <2>3, <2>4 DEF HeapView
  <1>17. H!HeapWrite(b, v)
    BY <1>1, <1>2, <1>16, ViewFacts DEF H!HeapWrite, Control, H!NoCall, NoCall, H!NULL, NULL
  <1>18. Refines
    BY <1>17, ViewFacts DEF Refines, H!HeapNext
  <1> QED BY <1>11, <1>12, <1>13, <1>18 DEF MallocInv

\* free, and realloc to size zero.
LEMMA StepFree ==
    ASSUME MallocInv, Free
    PROVE  MallocInv' /\ Refines
  <1> DEFINE p == call.p
  <1>1. MallocTypeOK /\ Control /\ Pooled
    BY DEF MallocInv
  <1>2. /\ pc = "free" /\ mem' = (IF p = NULL THEN mem ELSE Freed(mem, p))
        /\ live' = [x \in Live \ {p} |-> live[x]] /\ sentinel' = sentinel
        /\ ret' = NULL /\ call' = NoCall /\ pc' = "idle"
        /\ ptr' = nr_of_blocks /\ len' = 0 /\ blocks' = 0
    BY DEF Free, Return
  <1>3. p \in Live \cup {NULL} /\ H!Releases(call)
    BY <1>1, <1>2, CallFacts DEF Control, MallocTypeOK
  <1> HIDE DEF p
  <1>4. Live' = Live \ {p} /\ \A x \in Live \ {p} : live'[x] = live[x]
    BY <1>2 DEF Live
  <1>5. mem \in Memory /\ nr_of_blocks # NULL /\ NULL \notin Live /\ nr_of_blocks \in Block /\ 0 \in Block
    BY <1>1, Sizes DEF MallocTypeOK, Memory, NULL
  <1>6. /\ mem' \in Memory /\ Pooled'
        /\ \A x \in Live' : \A i \in 1 .. live[x] : mem'[Word(x, i)] = mem[Word(x, i)]
    <2>1. CASE sentinel = NULL
      BY <1>1, <1>2, <1>3, <1>4, <1>5, <2>1 DEF Control, Pooled
    <2>2. CASE sentinel # NULL
      <3>1. PICK C, ln, k, L, j : Shape(mem, C, Live, ln, k, L) /\ Sized(Live, live, ln)
        BY <1>1, <2>2 DEF Pooled
      <3>2. sentinel = nr_of_blocks
        BY <1>1, <2>2 DEF MallocTypeOK
      <3>3. Sized(Live', live', ln) /\ Sized(Live', live, ln)
        BY <1>4, <3>1 DEF Sized
      <3>4. PICK q, M : Shape(mem', C, Live', ln, q, M) /\ Kept(mem, mem', Live', ln)
        <4>1. CASE p = NULL
          <5>1. Live' = Live /\ mem' = mem
            BY <1>2, <1>4, <1>5, <4>1
          <5>2. Kept(mem, mem', Live', ln)
            BY <5>1 DEF Kept
          <5> QED BY <3>1, <5>1, <5>2
        <4>2. CASE p # NULL
          <5>1. p \in Live /\ mem' = insert_after(clear_reserved(mem, p), nr_of_blocks, p)
            BY <1>2, <1>3, <3>2, <4>2 DEF Freed
          <5>2. /\ Shape(mem', C, Live \ {p}, ln, k + 1, Inserted(k, L, p))
                /\ Kept(mem, mem', Live \ {p}, ln)
            BY <3>1, <5>1, ShapeFree
          <5> QED BY <1>4, <5>2
        <4> QED BY <4>1, <4>2
      <3>5. Search(C, ln, q, M, 0)'
        BY <1>2 DEF Search
      <3>6. Pooled'
        BY <3>3, <3>4, <3>5, Zenon DEF Pooled
      <3>7. mem' \in Memory
        BY <3>4 DEF Shape
      <3> QED BY <3>3, <3>4, <3>6, <3>7, WordsKept
    <2> QED BY <2>1, <2>2
  <1>7. MallocTypeOK'
    BY <1>1, <1>2, <1>4, <1>5, <1>6 DEF MallocTypeOK, Memory
  <1>8. Control'
    BY <1>1, <1>2, <1>4 DEF Control
  <1>9. HeapView' = [x \in Live \ {p} |-> HeapView[x]]
    BY <1>4, <1>6 DEF HeapView
  <1>10. H!HeapRelease
    BY <1>2, <1>3, <1>9, ViewFacts DEF H!HeapRelease, H!Answer, H!NoCall, NoCall, H!NULL, NULL, p
  <1>11. Refines
    BY <1>10 DEF Refines, H!HeapNext
  <1> QED BY <1>6, <1>7, <1>8, <1>11 DEF MallocInv

\* The candidate, cut to size, becomes a reserved chunk.
LEMMA PlacedShape ==
    ASSUME NEW C, NEW ln, NEW k, NEW L, NEW j \in 1 .. k, Shape(mem, C, Live, ln, k, L),
           L[j] = ptr, len = ln[ptr], blocks \in Nat, blocks >= 1, blocks <= len,
           sentinel = nr_of_blocks
    PROVE  \E C2, ln2, k2, L2 :
               /\ Shape(Placed, C2, Live \cup {ptr}, ln2, k2, L2)
               /\ ln2[ptr] = blocks /\ \A b \in Live : ln2[b] = ln[b]
               /\ Kept(mem, Placed, Live, ln)
  <1>1. Tiles(C, ln) /\ Live \in SUBSET C
    BY DEF Shape
  <1>2. ptr \in C \ Live /\ k \in Nat
    BY Members
  <1>3. ptr \in Block /\ ptr \in Nat /\ len \in Nat
    BY <1>1, <1>2, TileFacts
  <1>4. CASE ~ (len > blocks)
    <2>1. len = blocks
      BY <1>3, <1>4
    <2>2. Placed = unlink(set_head(mem, L[j], 1, ln[L[j]]), L[j])
      BY <1>4, <2>1 DEF Placed
    <2>3. Shape(Placed, C, Live \cup {ptr}, ln, k - 1, Removed(k, L, j)) /\ Kept(mem, Placed, Live, ln)
      BY <2>2, ShapeReserve
    <2> QED BY <2>1, <2>3
  <1>5. CASE len > blocks
    <2> DEFINE d == L[j] + blocks
               n2 == insert_after(set_head(mem, d, 0, ln[L[j]] - blocks), nr_of_blocks, d)
               n == set_head(n2, L[j], 0, blocks)
               l == Cut(C, ln, L[j], blocks)
               M == Inserted(k, L, d)
    <2>1. Shape(n, C \cup {d}, Live, l, k + 1, M) /\ Kept(mem, n, Live, ln) /\ n2 \in Memory
      BY <1>5, ShapeSplit
    <2>2. d \notin C /\ d # ptr
      <3>1. d \notin C
        BY <1>1, <1>2, <1>5, TilesCut
      <3> QED BY <1>2, <3>1
    <2>3. l[ptr] = blocks /\ \A b \in Live : l[b] = ln[b]
      BY <1>1, <1>2, <2>2 DEF Cut
    <2>4. M[j + 1] = ptr /\ j + 1 \in 1 .. k + 1
      BY <1>2 DEF Inserted
    <2>5. Placed = unlink(set_head(n2, ptr, 1, blocks), ptr)
      BY <1>5 DEF Placed
    <2> HIDE DEF d, n2, l, M
    <2>6. set_head(n, ptr, 1, blocks) = set_head(n2, ptr, 1, blocks)
      BY <2>1 DEF set_head, Memory
    <2> HIDE DEF n
    <2>7. /\ Shape(unlink(set_head(n, M[j + 1], 1, l[M[j + 1]]), M[j + 1]),
                   C \cup {d}, Live \cup {M[j + 1]}, l, (k + 1) - 1, Removed(k + 1, M, j + 1))
          /\ Kept(n, unlink(set_head(n, M[j + 1], 1, l[M[j + 1]]), M[j + 1]), Live, l)
      BY <2>1, <2>4, ShapeReserve
    <2>8. /\ Shape(Placed, C \cup {d}, Live \cup {ptr}, l, (k + 1) - 1, Removed(k + 1, M, j + 1))
          /\ Kept(n, Placed, Live, l)
      BY <2>3, <2>4, <2>5, <2>6, <2>7
    <2>9. Kept(mem, Placed, Live, ln)
      BY <2>1, <2>3, <2>8 DEF Kept
    <2> QED BY <2>3, <2>8, <2>9
  <1> QED BY <1>4, <1>5

\* Where malloc has found room for a request: what Place starts from.
LEMMA Found ==
    ASSUME MallocInv, Place
    PROVE  \E C, ln, C2, ln2, k2, L2 :
               /\ Tiles(C, ln) /\ Live \in SUBSET C /\ Headers(mem, C, Live, ln)
               /\ Sized(Live, live, ln) /\ ptr \in C \ Live /\ len = ln[ptr]
               /\ Shape(Placed, C2, Live \cup {ptr}, ln2, k2, L2)
               /\ ln2[ptr] = blocks /\ \A b \in Live : ln2[b] = ln[b]
               /\ Kept(mem, Placed, Live, ln)
  <1>1. MallocTypeOK /\ Control /\ Pooled
    BY DEF MallocInv
  <1>2. /\ pc = "merge" /\ len >= blocks
        /\ sentinel = nr_of_blocks /\ blocks = BlocksOf(call.bytes) /\ (H!Allocates(call) \/ H!Moves(call))
    BY <1>1 DEF Place, Control
  <1>3. nr_of_blocks # NULL
    BY Sizes DEF NULL
  <1>4. PICK C, ln, k, L, j :
            Shape(mem, C, Live, ln, k, L) /\ Sized(Live, live, ln) /\ Search(C, ln, k, L, j)
    BY <1>1, <1>2, <1>3 DEF Pooled
  <1>5. Tiles(C, ln) /\ Live \in SUBSET C /\ Headers(mem, C, Live, ln)
    BY <1>4 DEF Shape
  <1>6. k \in Nat /\ j \in 1 .. k /\ L[j] = ptr /\ len = ln[ptr]
    BY <1>2, <1>4, Members DEF Search
  <1>7. ptr \in C \ Live
    BY <1>4, <1>6, Members
  <1>8. blocks \in Nat /\ blocks >= 1 /\ blocks <= len
    <2>1. call \in Calls
      BY <1>1, <1>2 DEF Control, MallocTypeOK
    <2>2. call.bytes \in Requests
      BY <1>2, <2>1, CallFacts DEF H!Allocates, H!Moves
    <2>3. blocks \in Nat /\ blocks >= 1 /\ len \in Nat
      BY <1>2, <1>5, <1>6, <1>7, <2>2, Rounding, TileFacts
    <2> QED BY <1>2, <2>3
  <1>9. PICK C2, ln2, k2, L2 :
               /\ Shape(Placed, C2, Live \cup {ptr}, ln2, k2, L2)
               /\ ln2[ptr] = blocks /\ \A b \in Live : ln2[b] = ln[b]
               /\ Kept(mem, Placed, Live, ln)
    BY <1>2, <1>4, <1>6, <1>8, PlacedShape
  <1> QED BY <1>4, <1>5, <1>6, <1>7, <1>9, Zenon

\* A new allocation, and the allocations in K that remain.
LEMMA AllocationMade ==
    ASSUME MallocInv, Place, NEW K, K \subseteq Live,
           NEW C2, NEW ln, NEW ln2, NEW k3, NEW L3,
           Sized(Live, live, ln), ptr \notin Live, ln2[ptr] = blocks, \A b \in Live : ln2[b] = ln[b],
           Shape(mem', C2, K \cup {ptr}, ln2, k3, L3), Kept(mem, mem', K, ln),
           live' = [x \in K \cup {ptr} |-> IF x = ptr THEN WordsOf(call.bytes) ELSE live[x]]
    PROVE  /\ MallocInv' /\ H!Allocated(ptr, K)
           /\ HeapView'[ptr].n = WordsOf(call.bytes)
           /\ \A i \in 1 .. WordsOf(call.bytes) :
                  HeapView'[ptr].w[i] = mem'[Word(ptr, i)] /\ Word(ptr, i) \in Data(ptr, blocks)
  <1> DEFINE n == WordsOf(call.bytes)
  <1>1. MallocTypeOK /\ Control /\ Pooled
    BY DEF MallocInv
  <1>2. /\ pc = "merge" /\ sentinel' = sentinel
        /\ ret' = ptr /\ call' = NoCall /\ pc' = "idle"
        /\ ptr' = nr_of_blocks /\ len' = 0 /\ blocks' = 0
        /\ sentinel = nr_of_blocks /\ blocks = BlocksOf(call.bytes) /\ (H!Allocates(call) \/ H!Moves(call))
    BY <1>1 DEF Place, Return, Control
  <1>3. call.bytes \in Requests
    <2>1. call \in Calls
      BY <1>1, <1>2 DEF Control, MallocTypeOK
    <2> QED BY <1>2, <2>1, CallFacts DEF H!Allocates, H!Moves
  <1>4. n \in Nat /\ blocks = BlocksOf(4 * n) /\ n <= 4 * blocks - 1 /\ blocks \in Nat
    BY <1>2, <1>3, Rounding
  <1>5. Live' = K \cup {ptr} /\ live'[ptr] = n /\ \A x \in K : live'[x] = live[x]
    BY DEF Live
  <1> HIDE DEF n
  <1>6. mem' \in Memory /\ Tiles(C2, ln2) /\ K \cup {ptr} \subseteq C2 /\ C2 \subseteq Pool
    BY DEF Shape, Tiles
  <1>7. ptr \in Pool /\ ptr \in Nat /\ nr_of_blocks \in Block /\ 0 \in Block /\ nr_of_blocks # NULL
    <2>1. ptr \in Pool
      BY <1>6
    <2> QED BY <2>1, Sizes DEF NULL
  <1>8. Sized(K, live, ln) /\ Sized(Live', live', ln2)
    BY <1>4, <1>5, <1>7 DEF Sized
  <1>9. \A x \in K : \A i \in 1 .. live[x] : mem'[Word(x, i)] = mem[Word(x, i)]
    BY <1>8, WordsKept
  <1>10. \A i \in 1 .. n : Word(ptr, i) \in Data(ptr, blocks)
    BY <1>4, <1>7, WordsAreData
  <1>11. \A i \in 1 .. n : mem'[Word(ptr, i)] \in Nat
    <2>1. \A i \in 1 .. n : Word(ptr, i) \in MemWord
      BY <1>6, <1>10, DataApart
    <2> QED BY <1>6, <2>1 DEF Memory
  <1>12. MallocTypeOK'
    <2>1. \A b \in Live' : live'[b] \in Nat
      BY <1>8 DEF Sized
    <2>2. Live' \subseteq Pool
      BY <1>5, <1>6
    <2> QED BY <1>1, <1>2, <1>6, <1>7, <2>1, <2>2 DEF MallocTypeOK, Memory
  <1>13. Control'
    BY <1>2, <1>7 DEF Control
  <1>14. Pooled'
    <2>1. Search(C2, ln2, k3, L3, 0)'
      BY <1>2 DEF Search
    <2>2. Shape(mem', C2, Live', ln2, k3, L3)
      BY <1>5
    <2> QED BY <1>8, <2>1, <2>2, Zenon DEF Pooled
  <1>15. HeapView' = [x \in K \cup {ptr} |->
                        [n |-> live'[x], w |-> [i \in 1 .. live'[x] |-> mem'[Word(x, i)]]]]
    BY <1>5 DEF HeapView
  <1>16. /\ DOMAIN HeapView' = K \cup {ptr}
         /\ HeapView'[ptr].n = n /\ HeapView'[ptr].w = [i \in 1 .. n |-> mem'[Word(ptr, i)]]
    BY <1>5, <1>15
  <1>17. \A x \in K : HeapView'[x] = HeapView[x]
    <2> SUFFICES ASSUME NEW x \in K PROVE HeapView'[x] = HeapView[x]
      OBVIOUS
    <2>1. HeapView'[x] = [n |-> live[x], w |-> [i \in 1 .. live[x] |-> mem'[Word(x, i)]]]
      BY <1>5, <1>15
    <2>2. [i \in 1 .. live[x] |-> mem'[Word(x, i)]] = [i \in 1 .. live[x] |-> mem[Word(x, i)]]
      BY <1>9
    <2> QED BY <2>1, <2>2, ViewFacts
  <1>18. HeapView'[ptr].w \in [1 .. n -> Nat]
    BY <1>11, <1>16
  <1>19. H!Allocated(ptr, K)
    BY <1>2, <1>16, <1>17, <1>18
       DEF H!Allocated, H!Answer, H!WordsOf, WordsOf, n, H!NoCall, NoCall, H!NULL, NULL
  <1>20. \A i \in 1 .. n : HeapView'[ptr].w[i] = mem'[Word(ptr, i)] /\ Word(ptr, i) \in Data(ptr, blocks)
    BY <1>10, <1>16
  <1> QED BY <1>12, <1>13, <1>14, <1>16, <1>19, <1>20 DEF MallocInv, n

\* malloc or calloc, or realloc of nothing, returns the candidate.
LEMMA StepPlaceNew ==
    ASSUME MallocInv, Place, ~ (call.fn = "realloc" /\ call.p # NULL)
    PROVE  MallocInv' /\ Refines
  <1> DEFINE n == WordsOf(call.bytes)
  <1>1. PICK C, ln, C2, ln2, k2, L2 :
               /\ Tiles(C, ln) /\ Live \in SUBSET C /\ Headers(mem, C, Live, ln)
               /\ Sized(Live, live, ln) /\ ptr \in C \ Live /\ len = ln[ptr]
               /\ Shape(Placed, C2, Live \cup {ptr}, ln2, k2, L2)
               /\ ln2[ptr] = blocks /\ \A b \in Live : ln2[b] = ln[b]
               /\ Kept(mem, Placed, Live, ln)
    BY Found
  <1>2. /\ mem' = (IF call.fn = "calloc" THEN Cleared(Placed, ptr, n) ELSE Placed)
        /\ live' = [x \in Live \cup {ptr} |-> IF x = ptr THEN n ELSE live[x]]
        /\ len >= blocks
    BY DEF Place
  <1>3. /\ H!Allocates(call) /\ blocks = BlocksOf(call.bytes) /\ call.bytes \in Requests
        /\ n \in Nat /\ blocks \in Nat /\ n <= 4 * blocks - 1 /\ ptr \in Nat
    <2>1. MallocTypeOK /\ Control
      BY DEF MallocInv
    <2>2. /\ H!Allocates(call) /\ blocks = BlocksOf(call.bytes) /\ call \in Calls
      BY <2>1 DEF Place, Control, MallocTypeOK, H!Allocates, H!Moves, H!NULL, NULL
    <2>3. call.bytes \in Requests
      BY <2>2, CallFacts DEF H!Allocates
    <2>4. ptr \in Nat
      BY <1>1, TileFacts
    <2> QED BY <2>2, <2>3, <2>4, Rounding
  <1>4. Word(ptr, 1) .. Word(ptr, n) \subseteq Data(ptr, blocks)
    BY <1>3, WordsAreData
  <1> HIDE DEF n
  <1>5. /\ Shape(mem', C2, Live \cup {ptr}, ln2, k2, L2) /\ Kept(mem, mem', Live, ln)
        /\ call.fn = "calloc" => \A a \in MemWord : a \in Word(ptr, 1) .. Word(ptr, n) => mem'[a] = 0
    <2>1. CASE call.fn # "calloc"
      BY <1>1, <1>2, <2>1
    <2>2. CASE call.fn = "calloc"
      <3>1. mem' = [a \in MemWord |-> IF a \in Word(ptr, 1) .. Word(ptr, n) THEN 0 ELSE Placed[a]]
        BY <1>2, <2>2 DEF Cleared
      <3>2. Placed \in Memory /\ mem' \in Memory
        BY <1>1, <3>1 DEF Shape, Memory
      <3>3. \A a \in MemWord : a \notin Data(ptr, ln2[ptr]) => mem'[a] = Placed[a]
        BY <1>1, <1>4, <3>1
      <3>4. Shape(mem', C2, Live \cup {ptr}, ln2, k2, L2)
            /\ Kept(Placed, mem', (Live \cup {ptr}) \ {ptr}, ln2)
        <4>1. ptr \in Live \cup {ptr}
          OBVIOUS
        <4> QED BY <1>1, <3>2, <3>3, <4>1, ShapeWrite
      <3>5. Kept(mem, mem', Live, ln)
        BY <1>1, <3>4 DEF Kept
      <3> QED BY <3>1, <3>4, <3>5
    <2> QED BY <2>1, <2>2
  <1>6. /\ MallocInv' /\ H!Allocated(ptr, Live) /\ HeapView'[ptr].n = n
        /\ \A i \in 1 .. n : HeapView'[ptr].w[i] = mem'[Word(ptr, i)] /\ Word(ptr, i) \in Data(ptr, blocks)
    BY <1>1, <1>2, <1>5, AllocationMade DEF n
  <1>7. ptr \in H!Gaps(H!BlocksOf(call.bytes)) /\ ptr \in H!Pool
    <2>1. ln[ptr] \in Nat /\ blocks <= ln[ptr]
      BY <1>1, <1>2, <1>3, TileFacts
    <2>2. ptr \in Pool /\ ptr \in H!Gaps(blocks)
      BY <1>1, <1>3, <2>1, GapInChunk
    <2> QED BY <1>3, <2>2 DEF H!BlocksOf, BlocksOf, H!Pool, Pool
  <1>8. call.fn = "calloc" => \A i \in 1 .. n : HeapView'[ptr].w[i] = 0
    <2> SUFFICES ASSUME call.fn = "calloc", NEW i \in 1 .. n PROVE mem'[Word(ptr, i)] = 0
      BY <1>6
    <2>1. Word(ptr, i) \in Word(ptr, 1) .. Word(ptr, n)
      BY <1>3 DEF Word
    <2>2. Word(ptr, i) \in MemWord
      <3>1. Tiles(C2, ln2) /\ ptr \in C2
        BY <1>1 DEF Shape
      <3> QED BY <1>1, <1>6, <3>1, DataApart
    <2> QED BY <1>5, <2>1, <2>2
  <1>9. H!HeapAlloc(ptr)
    BY <1>3, <1>6, <1>7, <1>8, ViewFacts DEF H!HeapAlloc
  <1>10. Refines
    BY <1>7, <1>9 DEF Refines, H!HeapNext
  <1> QED BY <1>6, <1>10

\* realloc copies what fits into the candidate and frees the old chunk.
LEMMA StepPlaceMove ==
    ASSUME MallocInv, Place, call.fn = "realloc" /\ call.p # NULL
    PROVE  MallocInv' /\ Refines
  <1> DEFINE n == WordsOf(call.bytes)
             p == call.p
             c == IF block_size(p) < call.bytes THEN WordsOf(block_size(p)) ELSE n
             m4 == Copied(Placed, ptr, p, c)
  <1>1. PICK C, ln, C2, ln2, k2, L2 :
               /\ Tiles(C, ln) /\ Live \in SUBSET C /\ Headers(mem, C, Live, ln)
               /\ Sized(Live, live, ln) /\ ptr \in C \ Live /\ len = ln[ptr]
               /\ Shape(Placed, C2, Live \cup {ptr}, ln2, k2, L2)
               /\ ln2[ptr] = blocks /\ \A b \in Live : ln2[b] = ln[b]
               /\ Kept(mem, Placed, Live, ln)
    BY Found
  <1>2. /\ mem' = Freed(m4, p) /\ len >= blocks /\ sentinel = nr_of_blocks
        /\ live' = [x \in (Live \ {p}) \cup {ptr} |-> IF x = ptr THEN n ELSE live[x]]
    BY DEF Place, MallocInv, Control
  <1>3. /\ H!Moves(call) /\ blocks = BlocksOf(call.bytes) /\ call.bytes \in Requests /\ p \in Live
        /\ n \in Nat /\ blocks \in Nat /\ n <= 4 * blocks - 1 /\ ptr \in Nat /\ 4 * n = call.bytes
    <2>1. MallocTypeOK /\ Control
      BY DEF MallocInv
    <2>2. H!Moves(call) /\ blocks = BlocksOf(call.bytes) /\ call \in Calls
      BY <2>1 DEF Place, Control, MallocTypeOK, H!Allocates, H!Moves, H!NULL, NULL
    <2>3. call.bytes \in Requests /\ p \in Live
      BY <2>2, CallFacts
    <2>4. ptr \in Nat
      BY <1>1, TileFacts
    <2> QED BY <2>2, <2>3, <2>4, Rounding
  <1>4. /\ p \in Nat /\ p # ptr /\ ln[p] \in Nat /\ ln[p] >= 1 /\ length(mem, p) = ln[p]
        /\ live[p] \in Nat /\ live[p] <= 4 * ln[p] - 1
    <2>1. p \in C /\ p # ptr
      BY <1>1, <1>3
    <2>2. p \in Nat /\ ln[p] \in Nat /\ ln[p] >= 1 /\ length(mem, p) = ln[p]
      BY <1>1, <2>1, TileFacts, ReadHeader
    <2>3. live[p] \in Nat /\ live[p] <= 4 * ln[p] - 1
      BY <1>1, <1>3, Rounding DEF Sized
    <2> QED BY <2>1, <2>2, <2>3
  <1>5. /\ c \in Nat /\ c <= n /\ c <= 4 * ln[p] - 1
        /\ \A i \in 1 .. n : i <= live[p] => i <= c
    <2>1. block_size(p) = 16 * ln[p] - 4
      BY <1>4 DEF block_size
    <2>2. WordsOf(block_size(p)) = 4 * ln[p] - 1
      BY <1>4, <2>1 DEF WordsOf
    <2> HIDE DEF n, p
    <2> QED BY <1>3, <1>4, <2>1, <2>2
  <1> HIDE DEF c, n, p
  <1>6. Tiles(C2, ln2) /\ ptr \in C2 /\ p \in C2 /\ ln2[p] = ln[p] /\ Placed \in Memory
    BY <1>1, <1>3 DEF Shape
  <1>7. \A a \in MemWord : m4[a] = IF a \in Word(ptr, 1) .. Word(ptr, c)
                                   THEN Placed[Word(p, a - 4 * ptr)] ELSE Placed[a]
    BY DEF Copied
  <1>8. \A i \in 1 .. c : /\ Word(ptr, i) \in Word(ptr, 1) .. Word(ptr, c) /\ Word(ptr, i) - 4 * ptr = i
                          /\ Word(p, i) \in Data(p, ln[p]) /\ Word(p, i) \in MemWord
                          /\ Word(ptr, i) \in MemWord
    <2> SUFFICES ASSUME NEW i \in 1 .. c
                 PROVE  /\ Word(ptr, i) \in Word(ptr, 1) .. Word(ptr, c) /\ Word(ptr, i) - 4 * ptr = i
                        /\ Word(p, i) \in Data(p, ln[p]) /\ Word(p, i) \in MemWord
                        /\ Word(ptr, i) \in MemWord
      OBVIOUS
    <2>1. Word(ptr, i) \in Word(ptr, 1) .. Word(ptr, c) /\ Word(ptr, i) - 4 * ptr = i
      BY <1>3, <1>5 DEF Word
    <2>2. Word(p, i) \in Data(p, ln[p])
      BY <1>4, <1>5, WordsAreData
    <2>3. c <= 4 * blocks - 1
      BY <1>3, <1>5
    <2>4. Word(ptr, i) \in Data(ptr, ln2[ptr])
      BY <1>1, <1>3, <1>5, <2>3, WordsAreData
    <2>5. Word(p, i) \in MemWord /\ Word(ptr, i) \in MemWord
      BY <1>6, <2>2, <2>4, DataApart
    <2> QED BY <2>1, <2>2, <2>5
  <1>9. m4 \in Memory
    <2>1. ASSUME NEW a \in MemWord, a \in Word(ptr, 1) .. Word(ptr, c)
          PROVE  Placed[Word(p, a - 4 * ptr)] \in Nat
      <3>1. a - 4 * ptr \in 1 .. c
        BY <1>3, <1>5, <2>1 DEF Word
      <3> QED BY <1>6, <1>8, <3>1 DEF Memory
    <2> QED BY <1>6, <2>1 DEF Copied, Memory
  <1>10. /\ Shape(m4, C2, Live \cup {ptr}, ln2, k2, L2)
         /\ Kept(Placed, m4, (Live \cup {ptr}) \ {ptr}, ln2)
    <2>1. c <= 4 * blocks - 1
      BY <1>3, <1>5
    <2>2. Word(ptr, 1) .. Word(ptr, c) \subseteq Data(ptr, ln2[ptr])
      BY <1>1, <1>3, <1>5, <2>1, WordsAreData
    <2>3. \A a \in MemWord : a \notin Data(ptr, ln2[ptr]) => m4[a] = Placed[a]
      BY <1>7, <2>2
    <2>4. ptr \in Live \cup {ptr}
      OBVIOUS
    <2> HIDE DEF m4
    <2> QED BY <1>1, <1>9, <2>3, <2>4, ShapeWrite
  <1> HIDE DEF m4
  <1>11. /\ Shape(mem', C2, (Live \cup {ptr}) \ {p}, ln2, k2 + 1, Inserted(k2, L2, p))
         /\ Kept(m4, mem', (Live \cup {ptr}) \ {p}, ln2)
    <2>1. mem' = insert_after(clear_reserved(m4, p), nr_of_blocks, p)
      BY <1>2 DEF Freed
    <2>2. p \in Live \cup {ptr}
      BY <1>3
    <2> QED BY <1>10, <2>1, <2>2, ShapeFree
  <1>12. (Live \cup {ptr}) \ {p} = (Live \ {p}) \cup {ptr}
    BY <1>4
  <1>13. Kept(mem, mem', Live \ {p}, ln)
    BY <1>1, <1>10, <1>11 DEF Kept
  <1>14. /\ MallocInv' /\ H!Allocated(ptr, Live \ {p}) /\ HeapView'[ptr].n = n
         /\ \A i \in 1 .. n : HeapView'[ptr].w[i] = mem'[Word(ptr, i)] /\ Word(ptr, i) \in Data(ptr, blocks)
    <2>1. Shape(mem', C2, (Live \ {p}) \cup {ptr}, ln2, k2 + 1, Inserted(k2, L2, p))
      BY <1>11, <1>12
    <2>2. Live \ {p} \subseteq Live
      OBVIOUS
    <2> QED BY <1>1, <1>2, <1>13, <2>1, <2>2, AllocationMade DEF n
  <1>15. ptr \in H!Gaps(H!BlocksOf(call.bytes)) /\ ptr \in H!Pool
    <2>1. ln[ptr] \in Nat /\ blocks <= ln[ptr]
      BY <1>1, <1>2, <1>3, TileFacts
    <2>2. ptr \in Pool /\ ptr \in H!Gaps(blocks)
      BY <1>1, <1>3, <2>1, GapInChunk
    <2> QED BY <1>3, <2>2 DEF H!BlocksOf, BlocksOf, H!Pool, Pool
  <1>16. ASSUME NEW i \in 1 .. n, i <= live[p] PROVE HeapView'[ptr].w[i] = HeapView[p].w[i]
    <2>1. i \in 1 .. c /\ i \in 1 .. live[p]
      BY <1>3, <1>4, <1>5, <1>16
    <2>2. mem'[Word(ptr, i)] = m4[Word(ptr, i)]
      <3>1. ptr \in (Live \cup {ptr}) \ {p} /\ Word(ptr, i) \in Data(ptr, ln2[ptr])
        BY <1>1, <1>4, <1>14
      <3> QED BY <1>11, <3>1 DEF Kept
    <2>3. m4[Word(ptr, i)] = Placed[Word(p, i)]
      BY <1>7, <1>8, <2>1
    <2>4. Placed[Word(p, i)] = mem[Word(p, i)]
      BY <1>1, <1>3, <1>8, <2>1 DEF Kept
    <2>5. HeapView[p].w[i] = mem[Word(p, i)]
      BY <1>3, <2>1, ViewFacts
    <2> QED BY <1>14, <2>2, <2>3, <2>4, <2>5
  <1>17. H!HeapMove(ptr)
    BY <1>3, <1>14, <1>15, <1>16, ViewFacts DEF H!HeapMove, p
  <1>18. Refines
    BY <1>15, <1>17 DEF Refines, H!HeapNext
  <1> QED BY <1>14, <1>18

----------------------------------------------------------------------------
(* The two walks of PoolConsistent, over the headers and over the list.    *)

\* A chunk but the first, and the end of the pool, is where another one ends.
LEMMA Predecessor ==
    ASSUME NEW C, NEW ln, Tiles(C, ln), NEW b \in C \cup {nr_of_blocks}, b # 0
    PROVE  \E a \in C : a \in 0 .. b - 1 /\ a + ln[a] = b
  <1>1. b \in Nat /\ b <= nr_of_blocks /\ nr_of_blocks \in Nat
    BY TileFacts, Sizes
  <1>2. b - 1 \in Pool
    BY <1>1 DEF Pool
  <1>3. PICK a \in C : a <= b - 1 /\ b - 1 < a + ln[a]
    BY <1>2, Cover
  <1>4. a \in Nat /\ ln[a] \in Nat
    BY TileFacts
  <1>5. a + ln[a] <= b
    <2>1. CASE b = nr_of_blocks
      BY <2>1, TileFacts
    <2>2. CASE b \in C
      BY <1>1, <1>3, <1>4, <2>2 DEF Tiles
    <2> QED BY <2>1, <2>2
  <1> QED BY <1>1, <1>3, <1>4, <1>5

\* The equation of IsHead.
HeadStep(f) == [b \in Block |-> b = 0 \/ \E a \in 0 .. b - 1 : f[a] /\ a + length(mem, a) = b]

\* A walk over the headers finds the chunks.
LEMMA HeadsAreChunks ==
    ASSUME NEW C, NEW R, NEW ln, Tiles(C, ln), R \in SUBSET C, Headers(mem, C, R, ln)
    PROVE  \A b \in Block : IsHead[b] <=> b \in C \cup {nr_of_blocks}
  <1> DEFINE E == C \cup {nr_of_blocks}
             g == [b \in Block |-> b \in E]
  <1>0. \A a \in C : length(mem, a) = ln[a]
    BY ReadHeader
  <1>1. \A b \in Block : /\ b \in Nat /\ b <= nr_of_blocks
                         /\ \A a \in 0 .. b - 1 : a \in Block /\ a # nr_of_blocks /\ a < b
    BY Sizes DEF Block
  <1>2. \A b \in Block : b \in E <=> (b = 0 \/ \E a \in 0 .. b - 1 : a \in E /\ a + length(mem, a) = b)
    <2> SUFFICES ASSUME NEW b \in Block
                 PROVE  b \in E <=> (b = 0 \/ \E a \in 0 .. b - 1 : a \in E /\ a + length(mem, a) = b)
      OBVIOUS
    <2>1. ASSUME b \in E, b # 0 PROVE \E a \in 0 .. b - 1 : a \in E /\ a + length(mem, a) = b
      <3>1. PICK a \in C : a \in 0 .. b - 1 /\ a + ln[a] = b
        BY <2>1, Predecessor
      <3> QED BY <1>0, <3>1
    <2>2. ASSUME NEW a \in 0 .. b - 1, a \in E, a + length(mem, a) = b PROVE b \in E
      <3>1. a \in C
        BY <1>1, <2>2
      <3>2. b = a + ln[a]
        BY <1>0, <2>2, <3>1
      <3> QED BY <3>1, <3>2 DEF Tiles
    <2>3. 0 \in E
      BY DEF Tiles
    <2> QED BY <2>1, <2>2, <2>3
  <1>3. g = HeadStep(g)
    <2>1. \A b \in Block : g[b] <=> b \in E
      OBVIOUS
    <2> HIDE DEF E, g
    <2>2. ASSUME NEW b \in Block
          PROVE  (b \in E) = (b = 0 \/ \E a \in 0 .. b - 1 : g[a] /\ a + length(mem, a) = b)
      <3>1. \A a \in 0 .. b - 1 : g[a] <=> a \in E
        BY <1>1, <2>1
      <3>2. (\E a \in 0 .. b - 1 : g[a] /\ a + length(mem, a) = b)
            <=> (\E a \in 0 .. b - 1 : a \in E /\ a + length(mem, a) = b)
        BY <3>1, Zenon
      <3>3. b \in E <=> (b = 0 \/ \E a \in 0 .. b - 1 : g[a] /\ a + length(mem, a) = b)
        BY <1>2, <3>2
      <3> QED BY <3>3
    <2> QED BY <2>2, Zenon DEF HeadStep, g
  <1>4. IsHead = HeadStep(IsHead)
    BY <1>3 DEF IsHead, HeadStep
  <1>5. \A b \in Block : IsHead[b] <=> (b = 0 \/ \E a \in 0 .. b - 1 : IsHead[a] /\ a + length(mem, a) = b)
    BY <1>4 DEF HeadStep
  <1> DEFINE D == { b \in Block : ~ (IsHead[b] <=> b \in E) }
  <1> HIDE DEF E
  <1> SUFFICES ASSUME D # {} PROVE FALSE
    BY DEF E
  <1>6. D \subseteq Nat
    BY Sizes
  <1>7. PICK d \in D : \A e \in D : d <= e
    BY <1>6, Least
  <1>8. d \in Block /\ ~ (IsHead[d] <=> d \in E)
    OBVIOUS
  <1>9. \A a \in 0 .. d - 1 : IsHead[a] <=> a \in E
    <2> SUFFICES ASSUME NEW a \in 0 .. d - 1, ~ (IsHead[a] <=> a \in E) PROVE FALSE
      OBVIOUS
    <2>1. a \in D
      BY <1>1, <1>8
    <2> QED BY <1>1, <1>7, <1>8, <2>1
  <1>10. (\E a \in 0 .. d - 1 : IsHead[a] /\ a + length(mem, a) = d)
         <=> (\E a \in 0 .. d - 1 : a \in E /\ a + length(mem, a) = d)
    BY <1>9, Zenon
  <1> QED BY <1>2, <1>5, <1>8, <1>10

\* The equation of Nth.
NthStep(f) == [i \in Nat |-> IF i = 0 THEN nr_of_blocks ELSE next(mem, f[i - 1])]

\* A walk around the ring is the walk over its places, again and again.
LEMMA Around ==
    ASSUME NEW k \in Nat, NEW i \in Nat, i # 0
    PROVE  /\ i - 1 \in Nat /\ (i - 1) % (k + 1) \in 0 .. k
           /\ After(k, (i - 1) % (k + 1)) = i % (k + 1)
  <1> DEFINE n == k + 1
             q == (i - 1) \div n
             r == (i - 1) % n
  <1>1. n \in Nat /\ n > 0 /\ i - 1 \in Nat
    OBVIOUS
  <1> HIDE DEF n
  <1>2. q \in Nat /\ r \in 0 .. n - 1 /\ i - 1 = n * q + r
    BY <1>1
  <1> HIDE DEF q, r
  <1>3. CASE r = n - 1
    <2> DEFINE u == q + 1
    <2>1. i = n * u + 0 /\ u \in Nat
      BY <1>1, <1>2, <1>3
    <2> HIDE DEF u
    <2>2. i % n = 0
      BY <1>1, <2>1
    <2> QED BY <1>1, <1>2, <1>3, <2>2 DEF After, n, r
  <1>4. CASE r # n - 1
    <2>1. i = n * q + (r + 1) /\ r + 1 \in 0 .. n - 1
      BY <1>1, <1>2, <1>4
    <2>2. i % n = r + 1
      BY <1>1, <1>2, <2>1
    <2> QED BY <1>1, <1>2, <1>4, <2>2 DEF After, n, r
  <1> QED BY <1>3, <1>4

\* The list that is followed forwards is the ring.
LEMMA NthIsRing ==
    ASSUME NEW k, NEW L, Ring(mem, k, L)
    PROVE  \A i \in Nat : i % (k + 1) \in 0 .. k /\ Nth[i] = L[i % (k + 1)]
  <1> DEFINE g == [i \in Nat |-> L[i % (k + 1)]]
  <1>1. k \in Nat /\ L[0] = nr_of_blocks
    BY RingFacts
  <1>2. \A i \in Nat : i % (k + 1) \in 0 .. k
    BY <1>1
  <1>3. 0 % (k + 1) = 0
    BY <1>1
  <1>4. ASSUME NEW i \in Nat, i # 0 PROVE L[i % (k + 1)] = next(mem, L[(i - 1) % (k + 1)])
    <2>1. /\ (i - 1) % (k + 1) \in 0 .. k /\ After(k, (i - 1) % (k + 1)) = i % (k + 1)
      BY <1>1, <1>4, Around
    <2> QED BY <2>1 DEF Ring, next
  <1>5. g = NthStep(g)
    <2>1. \A i \in Nat : g[i] = L[i % (k + 1)]
      OBVIOUS
    <2> HIDE DEF g
    <2>2. ASSUME NEW i \in Nat
          PROVE  L[i % (k + 1)] = IF i = 0 THEN nr_of_blocks ELSE next(mem, g[i - 1])
      <3>1. CASE i = 0
        BY <1>1, <1>3, <3>1
      <3>2. CASE i # 0
        <4>1. i - 1 \in Nat
          BY <3>2
        <4>2. g[i - 1] = L[(i - 1) % (k + 1)]
          BY <2>1, <4>1
        <4> QED BY <1>4, <3>2, <4>2
      <3> QED BY <3>1, <3>2
    <2> QED BY <2>2, Zenon DEF NthStep, g
  <1>6. Nth = NthStep(Nth)
    BY <1>5, Zenon DEF Nth, NthStep
  <1>7. \A i \in Nat : Nth[i] = IF i = 0 THEN nr_of_blocks ELSE next(mem, Nth[i - 1])
    BY <1>6 DEF NthStep
  <1> DEFINE D == { i \in Nat : Nth[i] # L[i % (k + 1)] }
  <1> SUFFICES ASSUME D # {} PROVE FALSE
    BY <1>2
  <1>8. PICK d \in D : \A e \in D : d <= e
    BY Least
  <1>9. d \in Nat /\ Nth[d] # L[d % (k + 1)]
    OBVIOUS
  <1>10. d # 0
    BY <1>1, <1>3, <1>7, <1>9
  <1>11. Nth[d - 1] = L[(d - 1) % (k + 1)]
    <2>1. d - 1 \in Nat /\ ~ (d <= d - 1)
      BY <1>9, <1>10
    <2> QED BY <1>8, <2>1
  <1> QED BY <1>4, <1>7, <1>9, <1>10, <1>11

\* The walk over the list finds the free chunks, and needs no more steps than
\* the pool has blocks.
LEMMA LinkedIsFree ==
    ASSUME NEW C, NEW R, NEW ln, NEW k, NEW L, Shape(mem, C, R, ln, k, L)
    PROVE  Linked = C \ R
  <1>1. /\ Ring(mem, k, L) /\ Tiles(C, ln)
        /\ k \in Nat /\ L \in [0 .. k -> Block] /\ L[0] = nr_of_blocks
        /\ \A i \in 1 .. k : L[i] \in C \ R
        /\ \A c \in C \ R : \E i \in 1 .. k : L[i] = c
        /\ \A i, j \in 0 .. k : L[i] = L[j] => i = j
    <2>1. Ring(mem, k, L) /\ Tiles(C, ln)
      BY DEF Shape
    <2> QED BY <2>1, Members
  <1>2. k <= nr_of_blocks
    <2>1. IsFiniteSet(0 .. k) /\ Cardinality(0 .. k) = k + 1
      BY <1>1, FS_Interval
    <2>2. IsFiniteSet(Block) /\ Cardinality(Block) = nr_of_blocks + 1
      BY Sizes, FS_Interval DEF Block
    <2>3. ~ (nr_of_blocks + 1 < k + 1)
      <3> SUFFICES ASSUME Cardinality(Block) < Cardinality(0 .. k) PROVE FALSE
        BY <2>1, <2>2
      <3>1. \E x, y \in 0 .. k : x # y /\ L[x] = L[y]
        BY <1>1, <2>1, <2>2, FS_PigeonHole
      <3> QED BY <1>1, <3>1
    <2> QED BY <1>1, <2>3, Sizes
  <1>3. \A i \in Nat : i % (k + 1) \in 0 .. k /\ Nth[i] = L[i % (k + 1)]
    BY <1>1, NthIsRing
  <1>4. \A i \in 1 .. k : i \in Nat /\ i \in Block /\ i % (k + 1) = i
    BY <1>1, <1>2, Sizes DEF Block
  <1>5. nr_of_blocks \notin C
    BY <1>1, TileFacts
  <1>6. ASSUME NEW c \in Linked PROVE c \in C \ R
    <2>1. PICK i \in Block : c = Nth[i]
      BY DEF Linked
    <2>2. c # nr_of_blocks /\ i \in Nat
      BY Sizes DEF Linked
    <2>3. i % (k + 1) \in 0 .. k /\ i % (k + 1) # 0
      BY <1>1, <1>3, <2>1, <2>2
    <2>4. i % (k + 1) \in 1 .. k
      BY <1>1, <2>3
    <2> QED BY <1>1, <1>3, <2>1, <2>2, <2>4
  <1>7. ASSUME NEW c \in C \ R PROVE c \in Linked
    <2>1. PICK i \in 1 .. k : L[i] = c
      BY <1>1
    <2>2. Nth[i] = c /\ i \in Block /\ c # nr_of_blocks
      BY <1>3, <1>4, <1>5, <2>1
    <2> QED BY <2>2 DEF Linked
  <1> QED BY <1>6, <1>7

\* The invariant implies that the pool is consistent.
LEMMA InvConsistent == MallocInv => PoolConsistent
  <1> SUFFICES ASSUME MallocInv, sentinel # NULL PROVE PoolConsistent
    BY DEF PoolConsistent
  <1>1. PICK C, ln, k, L, j : Shape(mem, C, Live, ln, k, L) /\ Sized(Live, live, ln)
    BY DEF MallocInv, Pooled
  <1>2. Tiles(C, ln) /\ Live \in SUBSET C /\ Headers(mem, C, Live, ln) /\ Ring(mem, k, L)
    BY <1>1 DEF Shape
  <1>3. /\ \A c \in C : length(mem, c) = ln[c] /\ (is_reserved(mem, c) <=> c \in Live)
        /\ is_reserved(mem, nr_of_blocks)
    BY <1>2, ReadHeader
  <1>4. \A b \in Block : IsHead[b] <=> b \in C \cup {nr_of_blocks}
    BY <1>2, HeadsAreChunks
  <1>5. Chunks = C /\ IsHead[nr_of_blocks]
    <2>1. \A b \in Pool : b \in Block /\ b # nr_of_blocks
      BY Sizes
    <2>2. nr_of_blocks \in Block /\ C \subseteq Pool
      BY <1>2, Sizes DEF Tiles
    <2> QED BY <1>4, <2>1, <2>2 DEF Chunks
  <1>6. Linked = C \ Live
    BY <1>1, LinkedIsFree
  <1>7. \A b \in C : length(mem, b) > 0
    BY <1>2, <1>3, TileFacts
  <1>8. \A b \in Live : length(mem, b) = BlocksOf(4 * live[b])
    BY <1>1, <1>2, <1>3 DEF Sized
  <1>9. Live = { b \in Chunks : is_reserved(mem, b) }
    BY <1>2, <1>3, <1>5
  <1>10. Linked = { b \in Chunks : ~ is_reserved(mem, b) }
    BY <1>3, <1>5, <1>6
  <1>11. ASSUME NEW b \in Linked \cup {nr_of_blocks}
         PROVE  prev(mem, next(mem, b)) = b /\ next(mem, prev(mem, b)) = b
    <2>1. k \in Nat /\ \A i \in 0 .. k : After(k, i) \in 0 .. k
      BY <1>2, RingFacts
    <2>2. PICK i \in 0 .. k : L[i] = b
      <3>1. CASE b = nr_of_blocks
        BY <1>2, <3>1, RingFacts
      <3>2. CASE b \in C \ Live
        <4>1. PICK i \in 1 .. k : L[i] = b
          BY <1>1, <3>2, Members
        <4>2. i \in 0 .. k
          BY <2>1
        <4> QED BY <4>1, <4>2
      <3> QED BY <1>6, <3>1, <3>2
    <2>3. next(mem, b) = L[After(k, i)] /\ prev(mem, L[After(k, i)]) = b
      BY <1>2, <2>2 DEF Ring, next, prev
    <2>4. PICK h \in 0 .. k : After(k, h) = i
      <3>1. CASE i = 0
        BY <2>1, <3>1 DEF After
      <3>2. CASE i # 0
        <4>1. i - 1 \in 0 .. k /\ After(k, i - 1) = i
          BY <2>1, <3>2 DEF After
        <4> QED BY <4>1
      <3> QED BY <3>1, <3>2
    <2>5. prev(mem, b) = L[h] /\ next(mem, L[h]) = b
      BY <1>2, <2>2, <2>4 DEF Ring, next, prev
    <2> QED BY <2>3, <2>5
  <1> QED BY <1>3, <1>5, <1>7, <1>8, <1>9, <1>10, <1>11 DEF PoolConsistent

----------------------------------------------------------------------------
(* Theorems.                                                               *)

\* Every step keeps the invariant and refines Heap.
LEMMA StepOK == MallocInv /\ [Next]_vars => MallocInv' /\ Refines
  <1> SUFFICES ASSUME MallocInv, [Next]_vars PROVE MallocInv' /\ Refines
    OBVIOUS
  <1>1. ASSUME NEW c \in Calls, CallMalloc(c) \/ CallFree(c) PROVE MallocInv' /\ Refines
    BY <1>1, StepCallMalloc, StepCallFree
  <1>2. ASSUME NEW b \in Live, NEW v \in Vals, Write(b, v) PROVE MallocInv' /\ Refines
    BY <1>2, StepWrite
  <1>3. CASE Scan
    BY <1>3, StepScan
  <1>4. CASE Merge
    BY <1>4, StepMerge
  <1>5. CASE TooSmall
    BY <1>5, StepTooSmall
  <1>6. CASE Place
    BY <1>6, StepPlaceNew, StepPlaceMove
  <1>7. CASE Free
    BY <1>7, StepFree
  <1>8. CASE UNCHANGED vars
    <2>1. MallocInv'
      BY <1>8 DEF vars, MallocInv, MallocTypeOK, Control, Pooled, Search, Live, Calls,
                  H!Allocates, H!Moves, H!Releases
    <2>2. Refines
      BY <1>8 DEF vars, Refines, H!heapVars, HeapView, Live
    <2> QED BY <2>1, <2>2
  <1> QED BY <1>1, <1>2, <1>3, <1>4, <1>5, <1>6, <1>7, <1>8 DEF Next, Serve

\* The invariant always holds.
LEMMA AlwaysMallocInv == Spec => []MallocInv
  <1>1. Init => MallocInv
    BY InitOK
  <1>2. MallocInv /\ [Next]_vars => MallocInv'
    BY StepOK
  <1> QED BY <1>1, <1>2, PTL DEF Spec

\* Types, for every size of the pool and all requests: the search follows only
\* links to blocks of the pool, and malloc returns such a block or NULL.
THEOREM MallocTypeCorrect == Spec => []MallocTypeOK
  <1>1. MallocInv => MallocTypeOK
    BY DEF MallocInv
  <1> QED BY <1>1, AlwaysMallocInv, PTL

\* The headers tile the pool, reserved chunks are what the caller holds, and
\* the list links every free chunk and nothing else, both ways, in every state
\* of every search, for every size of the pool and all requests.
THEOREM PoolCorrect == Spec => []PoolConsistent
  <1>1. MallocInv => PoolConsistent
    BY InvConsistent
  <1> QED BY <1>1, AlwaysMallocInv, PTL

\* malloc.c implements Heap: allocations are disjoint, keep their data through
\* every search, merge, split and move, and are refused only if no free space of
\* that size is left in one piece.
THEOREM HeapRefinement == Spec => ImplementsHeap
  <1>1. Init => H!HeapInit
    BY InitOK
  <1>2. MallocInv /\ [Next]_vars => [H!HeapNext]_(H!heapVars)
    BY StepOK DEF Refines
  <1> QED BY <1>1, <1>2, AlwaysMallocInv, PTL DEF Spec, ImplementsHeap, H!HeapSpec
=============================================================================
