-------------------------------- MODULE Sort --------------------------------
(***************************************************************************)
(* qsort (qsort.c): Bentley and McIlroy's quicksort, on a sequence of      *)
(* numbers.  Elements equal to the pivot are kept at both ends of the range*)
(* while it is partitioned and then swapped to the middle; a partition that*)
(* swapped nothing is taken as a sign of sorted input.                     *)
(***************************************************************************)
EXTENDS Integers, Sequences

CONSTANTS SMALL,    \* shorter ranges are sorted by insertion (7)
          LARGE     \* longer ranges take the median of nine as pivot (40)

ASSUME LimitsOK == SMALL \in Nat /\ SMALL > 1 /\ LARGE \in Nat /\ LARGE >= SMALL

swap(s, i, j) == [s EXCEPT ![i] = s[j], ![j] = s[i]]

\* vecswap: n elements from i on and n from j on.
vecswap(s, i, j, n) ==
    [k \in DOMAIN s |-> IF k \in i .. i + n - 1 THEN s[k - i + j]
                        ELSE IF k \in j .. j + n - 1 THEN s[k - j + i] ELSE s[k]]

min(x, y) == IF x < y THEN x ELSE y

\* The index of the median of three elements.
med3(s, a, b, c) ==
    IF s[a] < s[b]
    THEN IF s[b] < s[c] THEN b ELSE IF s[a] < s[c] THEN c ELSE a
    ELSE IF s[b] > s[c] THEN b ELSE IF s[a] < s[c] THEN a ELSE c

\* One turn of the inner loop of the insertion sort: the element at l sinks.
sink_turn(p, a) ==
    IF p.l > a /\ p.s[p.l - 1] > p.s[p.l]
    THEN [s |-> swap(p.s, p.l, p.l - 1), l |-> p.l - 1]
    ELSE p

sink(s, a, m) ==
    LET p[k \in 0 .. m - a] == IF k = 0 THEN [s |-> s, l |-> m] ELSE sink_turn(p[k - 1], a)
    IN  p[m - a].s

\* Insertion sort of s[a .. a + n - 1].
insertion(s, a, n) ==
    LET sorted[m \in a .. a + n] == IF m = a THEN s ELSE sink(sorted[m - 1], a, m - 1)
    IN  sorted[a + n]

\* The index of the pivot.
pivot(s, a, n) ==
    LET m == a + n \div 2
        z == a + n - 1
        d == n \div 8
    IN  IF n <= SMALL THEN m
        ELSE IF n <= LARGE THEN med3(s, a, m, z)
        ELSE med3(s, med3(s, a, a + d, a + 2 * d), med3(s, m - d, m, m + d),
                     med3(s, z - 2 * d, z - d, z))

\* The array, the four pointers, and whether anything was swapped.
cursors(s, pa, pb, pc, pd, cnt) == [s |-> s, pa |-> pa, pb |-> pb, pc |-> pc, pd |-> pd, cnt |-> cnt]

\* One turn of the loops that partition around the pivot s[a]: pb climbs over
\* elements up to the pivot, then pc comes down over elements from the pivot on,
\* equal ones are put aside at pa and pd, and two that stop both are swapped.
partition_turn(p, a) ==
    LET v == p.s[a]
        b == p.s[p.pb]
        c == p.s[p.pc]
    IN  IF p.pb > p.pc THEN p
        ELSE IF b < v THEN cursors(p.s, p.pa, p.pb + 1, p.pc, p.pd, p.cnt)
        ELSE IF b = v THEN cursors(swap(p.s, p.pa, p.pb), p.pa + 1, p.pb + 1, p.pc, p.pd, TRUE)
        ELSE IF c > v THEN cursors(p.s, p.pa, p.pb, p.pc - 1, p.pd, p.cnt)
        ELSE IF c = v THEN cursors(swap(p.s, p.pc, p.pd), p.pa, p.pb, p.pc - 1, p.pd - 1, TRUE)
        ELSE cursors(swap(p.s, p.pb, p.pc), p.pa, p.pb + 1, p.pc - 1, p.pd, TRUE)

\* Every turn brings pb and pc closer, so that n turns are enough.
partition(s, a, n) ==
    LET z == a + n - 1
        p[k \in 0 .. n] == IF k = 0 THEN cursors(s, a + 1, a + 1, z, z, FALSE) ELSE partition_turn(p[k - 1], a)
    IN  p[n]

\* Fault: the equal elements at the upper end are counted one too many.
gather_upper(p, a, n) ==
    LET r == min(p.pa - a, p.pb - p.pa)
        t == min(p.pd - p.pc, a + n - p.pd)
    IN  vecswap(vecswap(p.s, a, p.pb - r, r), p.pb, a + n - t, t)

\* The equal elements go to the middle.
gather(p, a, n) ==
    LET r == min(p.pa - a, p.pb - p.pa)
        t == min(p.pd - p.pc, a + n - p.pd - 1)
    IN  vecswap(vecswap(p.s, a, p.pb - r, r), p.pb, a + n - t, t)

\* The ranges s[a .. a + n - 1] of arrays of the given length.
ranges(len) == { c \in [s : [1 .. len -> Int], a : Nat, n : Nat] : c.a >= 1 /\ c.a + c.n <= len + 1 }

\* qsort: the lower part by recursion, the upper part by going round the loop.
qsort(array) ==
    LET sort[c \in ranges(Len(array))] ==
            IF c.n < SMALL THEN insertion(c.s, c.a, c.n)
            ELSE LET p == partition(swap(c.s, c.a, pivot(c.s, c.a, c.n)), c.a, c.n)
                     g == gather(p, c.a, c.n)
                     lower == p.pb - p.pa
                     upper == p.pd - p.pc
                     h == IF lower > 1 THEN sort[[s |-> g, a |-> c.a, n |-> lower]] ELSE g
                 IN  IF ~p.cnt THEN insertion(p.s, c.a, c.n)
                     ELSE IF upper > 1 THEN sort[[s |-> h, a |-> c.a + c.n - upper, n |-> upper]]
                     ELSE h
    IN  sort[[s |-> array, a |-> 1, n |-> Len(array)]]
=============================================================================
