------------------------------- MODULE Malloc -------------------------------
(***************************************************************************)
(* The allocator of the C library (runtime/src/malloc.c): a pool of blocks *)
(* of 4 words, chunks of blocks with a header word, and a circular doubly  *)
(* linked list of the free chunks.  malloc takes the first chunk that fits *)
(* and merges chunks as it searches; free only links the chunk in again.   *)
(*                                                                         *)
(* The memory is modelled word by word: the links of a free chunk share    *)
(* their words with the caller's data, and a block inside a chunk is all   *)
(* data.  A pointer to pool[b] is the index b.  The loops of malloc take   *)
(* one step per iteration.                                                 *)
(***************************************************************************)
EXTENDS Integers

CONSTANTS nr_of_blocks,   \* blocks of the pool
          HDR_RESERVED,   \* the header bit of a reserved chunk (2^31)
          Requests,       \* the sizes asked for, in bytes (whole words)
          Vals            \* the values that the caller stores

ASSUME PoolOK == nr_of_blocks \in Nat \ {0}
ASSUME HeaderOK == HDR_RESERVED \in Nat /\ HDR_RESERVED > nr_of_blocks
\* "no guard against excessive values of `bytes'": the caller stays below the
\* sizes whose rounding overflows a word.
ASSUME RequestsOK == \A n \in Requests : n \in Nat /\ n % 4 = 0 /\ n + 19 < 2 * HDR_RESERVED
ASSUME ValsOK == Vals \subseteq Nat

VARIABLES
    mem,                \* the words of pool[0 .. nr_of_blocks]
    sentinel,           \* NULL before the first call
    live,               \* auxiliary: allocation -> the words asked for
    call, ret,          \* the call being served, and the last result
    pc,                 \* where malloc is
    ptr, len, blocks    \* its local variables

vars == <<mem, sentinel, live, call, ret, pc, ptr, len, blocks>>
locals == <<ptr, len, blocks>>

NULL == -1
Pool == 0 .. nr_of_blocks - 1
Block == 0 .. nr_of_blocks
Live == DOMAIN live
MemWord == 0 .. 4 * (nr_of_blocks + 1) - 1

WordsOf(bytes) == bytes \div 4
NoCall == [fn |-> "none", p |-> NULL, bytes |-> 0]
Calls == [fn : {"malloc", "calloc"}, p : {NULL}, bytes : Requests]
         \cup [fn : {"realloc"}, p : Live \cup {NULL}, bytes : Requests]
         \cup [fn : {"free"}, p : Live \cup {NULL}, bytes : {0}]

----------------------------------------------------------------------------
(* Fields of a block, in a memory m, and updates of them.                  *)

head(m, b) == m[4 * b]
next(m, b) == m[4 * b + 1]
prev(m, b) == m[4 * b + 2]

length(m, b) == head(m, b) % HDR_RESERVED
is_reserved(m, b) == (head(m, b) \div HDR_RESERVED) % 2 = 1

set_head(m, b, res, n) == [m EXCEPT ![4 * b] = res * HDR_RESERVED + n]
set_next(m, b, c) == [m EXCEPT ![4 * b + 1] = c]
set_prev(m, b, c) == [m EXCEPT ![4 * b + 2] = c]

\* Fault: the chunk stays reserved.
clear_reserved_missing(m, b) == m

clear_reserved(m, b) == set_head(m, b, 0, length(m, b))

insert_after(m, a, b) ==
    LET m1 == set_prev(m, next(m, a), b)
        m2 == set_next(m1, b, next(m1, a))
        m3 == set_prev(m2, b, a)
    IN  set_next(m3, a, b)

\* Fault: only the forward link is taken out.
unlink_forward(m, a) == set_next(m, prev(m, a), next(m, a))

unlink(m, a) ==
    LET m1 == set_next(m, prev(m, a), next(m, a))
    IN  set_prev(m1, next(m1, a), prev(m1, a))

\* The pool after init().
init(m) ==
    LET s  == nr_of_blocks
        m1 == set_prev(set_next(set_head(m, s, 1, 0), s, s), s, s)
    IN  insert_after(set_head(m1, 0, 0, nr_of_blocks), s, 0)

\* The words of an allocation, user_part, as the caller numbers them.
Word(b, i) == 4 * b + i
block_size(b) == length(mem, b) * 16 - 4

----------------------------------------------------------------------------
(* Calls.                                                                  *)

\* The local variables are dead after a return.
Return(r) ==
    /\ ret' = r /\ call' = NoCall /\ pc' = "idle"
    /\ ptr' = nr_of_blocks /\ len' = 0 /\ blocks' = 0

\* Entry of malloc, which calloc and realloc share.
BlocksOf(bytes) == (bytes + 4 + 16 - 1) \div 16

CallMalloc(c) ==
    /\ pc = "idle"
    /\ c.fn \in {"malloc", "calloc"} \/ (c.fn = "realloc" /\ (c.p = NULL \/ c.bytes # 0))
    /\ call' = c
    /\ mem' = IF sentinel = NULL THEN init(mem) ELSE mem
    /\ sentinel' = nr_of_blocks
    /\ blocks' = BlocksOf(c.bytes)
    /\ ptr' = nr_of_blocks
    /\ ret' = NULL
    /\ pc' = "scan"
    /\ UNCHANGED <<live, len>>

\* Entry of free, and of realloc to size zero.
CallFree(c) ==
    /\ pc = "idle"
    /\ c.fn = "free" \/ (c.fn = "realloc" /\ c.p # NULL /\ c.bytes = 0)
    /\ call' = c
    /\ ret' = NULL
    /\ pc' = "free"
    /\ UNCHANGED <<mem, sentinel, live, locals>>

\* Fault: a search without success returns where it ended.
Scan_returns_end ==
    /\ pc = "scan"
    /\ LET p == next(mem, ptr)
       IN  IF p = sentinel
           THEN Return(p)
           ELSE /\ ptr' = p /\ len' = length(mem, p) /\ pc' = "merge"
                /\ UNCHANGED <<call, ret, blocks>>
    /\ UNCHANGED <<mem, sentinel, live>>

\* Fault: the search does not notice that it is back at the sentinel.
Scan_endless ==
    /\ pc = "scan"
    /\ ptr' = next(mem, ptr) /\ len' = length(mem, ptr') /\ pc' = "merge"
    /\ UNCHANGED <<mem, sentinel, live, call, ret, blocks>>

\* do: the next chunk of the list.
Scan ==
    /\ pc = "scan"
    /\ LET p == next(mem, ptr)
       IN  IF p = sentinel
           THEN Return(NULL)
           ELSE /\ ptr' = p /\ len' = length(mem, p) /\ pc' = "merge"
                /\ UNCHANGED <<call, ret, blocks>>
    /\ UNCHANGED <<mem, sentinel, live>>

\* for: one free successor is merged into the candidate.
Merge ==
    /\ pc = "merge"
    /\ ~ is_reserved(mem, ptr + len)
    /\ len' = len + length(mem, ptr + len)
    /\ mem' = set_head(unlink(mem, ptr + len), ptr, 0, len')
    /\ UNCHANGED <<sentinel, live, call, ret, pc, ptr, blocks>>

\* while: the candidate is too small.
TooSmall ==
    /\ pc = "merge"
    /\ is_reserved(mem, ptr + len)
    /\ len < blocks
    /\ pc' = "scan"
    /\ UNCHANGED <<mem, sentinel, live, call, ret, locals>>

\* The pool after the candidate is split and reserved.
Placed ==
    LET new_block == ptr + blocks
        m1 == IF len > blocks
              THEN insert_after(set_head(mem, new_block, 0, len - blocks), sentinel, new_block)
              ELSE mem
    IN  unlink(set_head(m1, ptr, 1, blocks), ptr)

\* free(p).
Freed(m, p) == insert_after(clear_reserved(m, p), sentinel, p)

\* memset of calloc, and memcpy of realloc: whole words.
Cleared(m, b, n) == [a \in MemWord |-> IF a \in Word(b, 1) .. Word(b, n) THEN 0 ELSE m[a]]
Copied(m, b, p, n) ==
    [a \in MemWord |-> IF a \in Word(b, 1) .. Word(b, n) THEN m[Word(p, a - 4 * b)] ELSE m[a]]

\* The candidate fits: malloc returns it, and the function that called it
\* completes.
Place ==
    /\ pc = "merge"
    /\ is_reserved(mem, ptr + len)
    /\ len >= blocks
    /\ LET n == WordsOf(call.bytes)
           p == call.p
           c == IF block_size(p) < call.bytes THEN WordsOf(block_size(p)) ELSE n
       IN  IF call.fn = "realloc" /\ p # NULL
           THEN /\ mem' = Freed(Copied(Placed, ptr, p, c), p)
                /\ live' = [x \in (Live \ {p}) \cup {ptr} |-> IF x = ptr THEN n ELSE live[x]]
           ELSE /\ mem' = IF call.fn = "calloc" THEN Cleared(Placed, ptr, n) ELSE Placed
                /\ live' = [x \in Live \cup {ptr} |-> IF x = ptr THEN n ELSE live[x]]
    /\ Return(ptr)
    /\ UNCHANGED sentinel

Free ==
    /\ pc = "free"
    /\ mem' = IF call.p = NULL THEN mem ELSE Freed(mem, call.p)
    /\ live' = [x \in Live \ {call.p} |-> live[x]]
    /\ Return(NULL)
    /\ UNCHANGED sentinel

\* The caller fills an allocation with data.
Write(b, v) ==
    /\ pc = "idle"
    /\ mem' = [a \in MemWord |-> IF a \in Word(b, 1) .. Word(b, live[b]) THEN v + a - 4 * b
                                                                         ELSE mem[a]]
    /\ UNCHANGED <<sentinel, live, call, ret, pc, locals>>

Init ==
    /\ mem = [a \in MemWord |-> 0]
    /\ sentinel = NULL
    /\ live = [b \in {} |-> 0]
    /\ call = NoCall /\ ret = NULL /\ pc = "idle"
    /\ ptr = nr_of_blocks /\ len = 0 /\ blocks = 0

Serve == Scan \/ Merge \/ TooSmall \/ Place \/ Free

Next ==
    \/ \E c \in Calls : CallMalloc(c) \/ CallFree(c)
    \/ \E b \in Live, v \in Vals : Write(b, v)
    \/ Serve

Spec == Init /\ [][Next]_vars /\ WF_vars(Serve)

----------------------------------------------------------------------------
(* Properties.                                                             *)

\* Types: malloc follows only links to blocks of the pool, and returns a
\* block of the pool (never the sentinel) or NULL.
MallocTypeOK ==
    /\ mem \in [MemWord -> Nat]
    /\ sentinel \in {NULL, nr_of_blocks}
    /\ Live \subseteq Pool /\ \A b \in Live : live[b] \in Nat
    /\ call \in Calls \cup {NoCall}
    /\ ret \in Pool \cup {NULL}
    /\ pc \in {"idle", "scan", "merge", "free"}
    /\ ptr \in Block /\ len \in Block /\ blocks \in Nat

\* The blocks at which the walk over the headers finds a chunk.
IsHead[b \in Block] ==
    b = 0 \/ \E a \in 0 .. b - 1 : IsHead[a] /\ a + length(mem, a) = b
Chunks == { b \in Pool : IsHead[b] }

\* The list, followed forwards from the sentinel.
Nth[i \in Nat] == IF i = 0 THEN nr_of_blocks ELSE next(mem, Nth[i - 1])
Linked == { Nth[i] : i \in Block } \ {nr_of_blocks}

\* The headers tile the pool exactly, reserved chunks are what the caller
\* holds, and the list links every free chunk and nothing else, both ways.
PoolConsistent ==
    sentinel # NULL =>
        /\ IsHead[nr_of_blocks] /\ is_reserved(mem, nr_of_blocks)
        /\ \A b \in Chunks : length(mem, b) > 0
        /\ Live = { b \in Chunks : is_reserved(mem, b) }
        /\ \A b \in Live : length(mem, b) = BlocksOf(4 * live[b])
        /\ Linked = { b \in Chunks : ~ is_reserved(mem, b) }
        /\ \A b \in Linked \cup {nr_of_blocks} :
               prev(mem, next(mem, b)) = b /\ next(mem, prev(mem, b)) = b

\* Every call is answered: the search always comes back to the sentinel,
\* although it takes chunks out of the list that it is following.
CallsReturn == pc # "idle" ~> pc = "idle"

HeapView == [b \in Live |-> [n |-> live[b], w |-> [i \in 1 .. live[b] |-> mem[Word(b, i)]]]]

H == INSTANCE Heap WITH heap <- HeapView

\* Allocations are disjoint, keep the caller's data through every search,
\* merge and split, are moved intact, and are refused only if no free space
\* of that size is left in one piece.
ImplementsHeap == H!HeapSpec
=============================================================================
