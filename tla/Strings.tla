------------------------------ MODULE Strings -------------------------------
(***************************************************************************)
(* Functions of string.c that move, cut or search character arrays, on a   *)
(* memory of their own: a function from addresses 1 .. n to characters, in *)
(* which a string ends at the first 0.                                     *)
(***************************************************************************)
EXTENDS Integers, Sequences

----------------------------------------------------------------------------
(* Copying.                                                                *)

\* Both loops of memmove write s1 + i in one turn; they differ in the order.
copy_up(m, s1, s2, n) ==
    LET copied[i \in 0 .. n] ==
            IF i = 0 THEN m
            ELSE LET c == copied[i - 1] IN [c EXCEPT ![s1 + i - 1] = c[s2 + i - 1]]
    IN  copied[n]

copy_down(m, s1, s2, n) ==
    LET copied[i \in 0 .. n] ==
            IF i = 0 THEN m
            ELSE LET c == copied[i - 1] IN [c EXCEPT ![s1 + n - i] = c[s2 + n - i]]
    IN  copied[n]

memmove(m, s1, s2, n) ==
    IF s1 <= s2 THEN copy_up(m, s1, s2, n) ELSE copy_down(m, s1, s2, n)

\* One turn of the first loop of strncpy: ns is decremented before each test, so
\* that it is -1 after a source that is not shorter than n, and no zeros follow.
strncpy_copy(p) ==
    IF ~p.more THEN p
    ELSE IF p.ns = 0 THEN [m |-> p.m, s1 |-> p.s1, s2 |-> p.s2, ns |-> -1, more |-> FALSE]
    ELSE [m |-> [p.m EXCEPT ![p.s1] = p.m[p.s2]], s1 |-> p.s1 + 1, s2 |-> p.s2 + 1,
          ns |-> p.ns - 1, more |-> p.m[p.s2] # 0]

\* One turn of the second loop.
strncpy_pad(p) ==
    IF p.ns > 0
    THEN [m |-> [p.m EXCEPT ![p.s1] = 0], s1 |-> p.s1 + 1, s2 |-> p.s2, ns |-> p.ns - 1, more |-> p.more]
    ELSE p

strncpy(m, s1, s2, n) ==
    LET copy[k \in 0 .. n + 1] ==
            IF k = 0 THEN [m |-> m, s1 |-> s1, s2 |-> s2, ns |-> n, more |-> TRUE]
            ELSE strncpy_copy(copy[k - 1])
        pad[k \in 0 .. n] == IF k = 0 THEN copy[n + 1] ELSE strncpy_pad(pad[k - 1])
    IN  pad[n].m

EndOf(m, s) == CHOOSE i \in DOMAIN m : i >= s /\ m[i] = 0 /\ \A j \in s .. i - 1 : m[j] # 0

\* strncat: one turn of its loop, which copies at most n characters.
strncat_copy(p) ==
    IF p.n = 0 \/ p.m[p.s2] = 0 THEN p
    ELSE [m |-> [p.m EXCEPT ![p.s1] = p.m[p.s2]], s1 |-> p.s1 + 1, s2 |-> p.s2 + 1, n |-> p.n - 1]

strncat(m, s1, s2, n) ==
    LET copy[k \in 0 .. n] ==
            IF k = 0 THEN [m |-> m, s1 |-> EndOf(m, s1), s2 |-> s2, n |-> n]
            ELSE strncat_copy(copy[k - 1])
    IN  [copy[n].m EXCEPT ![copy[n].s1] = 0]

----------------------------------------------------------------------------
(* Searching.  An address 0 is the null pointer.                           *)

Text(m, s) == { m[i] : i \in s .. EndOf(m, s) - 1 }

\* The length of the part of s1 with, and without, characters of the set S.
strspn(m, s1, S) == (CHOOSE i \in s1 .. EndOf(m, s1) :
                        m[i] \notin S /\ \A j \in s1 .. i - 1 : m[j] \in S) - s1
strcspn(m, s1, S) == (CHOOSE i \in s1 .. EndOf(m, s1) :
                        m[i] \in S \cup {0} /\ \A j \in s1 .. i - 1 : m[j] \notin S \cup {0}) - s1

\* The inner loop of strstr at r1 ends at the end of s2, or at a difference
\* before it.
matches(m, r1, s2) ==
    LET ends(k) == m[s2 + k] = 0 \/ m[r1 + k] # m[s2 + k]
        k == CHOOSE i \in 0 .. EndOf(m, s2) - s2 : ends(i) /\ \A j \in 0 .. i - 1 : ~ends(j)
    IN  m[s2 + k] = 0

strstr(m, s1, s2) ==
    LET found == { r1 \in s1 .. EndOf(m, s1) : matches(m, r1, s2) }
    IN  IF found = {} THEN 0 ELSE CHOOSE r1 \in found : \A r \in found : r1 <= r

\* Fault: the next call starts at the separator that was overwritten.
strtok_last(m, s1, S, last) ==
    LET from == IF s1 # 0 THEN s1 ELSE last
        start == from + strspn(m, from, S)
        e == start + strcspn(m, start, S)
    IN  IF from = 0 THEN [m |-> m, ret |-> 0, last |-> last]
        ELSE IF m[start] = 0 THEN [m |-> m, ret |-> 0, last |-> 0]
        ELSE IF m[e] = 0 THEN [m |-> m, ret |-> start, last |-> 0]
        ELSE [m |-> [m EXCEPT ![e] = 0], ret |-> start, last |-> e]

\* strtok: a null s1 continues at `last'; the separator after the token is
\* overwritten, and the next call starts behind it.
strtok(m, s1, S, last) ==
    LET from == IF s1 # 0 THEN s1 ELSE last
        start == from + strspn(m, from, S)
        e == start + strcspn(m, start, S)
    IN  IF from = 0 THEN [m |-> m, ret |-> 0, last |-> last]
        ELSE IF m[start] = 0 THEN [m |-> m, ret |-> 0, last |-> 0]
        ELSE IF m[e] = 0 THEN [m |-> m, ret |-> start, last |-> 0]
        ELSE [m |-> [m EXCEPT ![e] = 0], ret |-> start, last |-> e + 1]

\* The calls strtok(s1, ..), strtok(0, ..), .., one for each set of separators in
\* seps, and where their tokens begin and end in the memory that they leave.
tokens(m, s1, seps) ==
    LET N == Len(seps)
        call[k \in 1 .. N] ==
            IF k = 1 THEN strtok(m, s1, seps[1], 0)
            ELSE LET c == call[k - 1] IN strtok(c.m, 0, seps[k], c.last)
        end(a) == IF a = 0 THEN 0 ELSE EndOf(call[N].m, a)
    IN  [k \in 1 .. N |-> [from |-> call[k].ret, to |-> end(call[k].ret)]]
=============================================================================
