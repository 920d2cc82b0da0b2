-------------------------------- MODULE Heap --------------------------------
(***************************************************************************)
(* What malloc, calloc, realloc and free promise their caller.  The heap   *)
(* is a set of disjoint allocations; how free storage is organised does    *)
(* not show.  A call is made in one step and answered in a later one.      *)
(***************************************************************************)
EXTENDS Integers

CONSTANTS nr_of_blocks,   \* blocks of the pool
          Requests,       \* the sizes asked for, in bytes (whole words)
          Vals            \* the values that the caller stores

VARIABLES heap,   \* allocation -> its size n and its words w, a function of 1 .. n
          call,   \* the call that is being served, or NoCall
          ret     \* what the last call returned

heapVars == <<heap, call, ret>>

NULL == -1
Pool == 0 .. nr_of_blocks - 1
Live == DOMAIN heap

\* A request takes whole blocks of 4 words, of which one word is the header.
WordsOf(bytes) == bytes \div 4
BlocksOf(bytes) == (bytes + 4 + 16 - 1) \div 16

NoCall == [fn |-> "none", p |-> NULL, bytes |-> 0]
Calls == [fn : {"malloc", "calloc"}, p : {NULL}, bytes : Requests]
         \cup [fn : {"realloc"}, p : Live \cup {NULL}, bytes : Requests]
         \cup [fn : {"free"}, p : Live \cup {NULL}, bytes : {0}]

\* realloc of nothing allocates, realloc to nothing frees.
Allocates(c) == c.fn \in {"malloc", "calloc"} \/ (c.fn = "realloc" /\ c.p = NULL)
Moves(c) == c.fn = "realloc" /\ c.p # NULL /\ c.bytes # 0
Releases(c) == c.fn = "free" \/ (c.fn = "realloc" /\ c.p # NULL /\ c.bytes = 0)

\* The places where k more blocks meet no allocation.
Extent(b, k) == b .. b + k - 1
Occupied == UNION { Extent(b, BlocksOf(4 * heap[b].n)) : b \in Live }
Gaps(k) == { b \in Pool : Extent(b, k) \subseteq Pool \ Occupied }

Answer(r) == ret' = r /\ call' = NoCall

HeapInit == heap = [b \in {} |-> 0] /\ call = NoCall /\ ret = NULL

HeapCall(c) ==
    /\ call = NoCall
    /\ call' = c /\ ret' = NULL
    /\ UNCHANGED heap

\* The caller stores words in an allocation.
HeapWrite(b, v) ==
    /\ call = NoCall
    /\ heap' = [heap EXCEPT ![b].w = [i \in 1 .. heap[b].n |-> v + i]]
    /\ UNCHANGED <<call, ret>>

\* A new allocation b; the others in keep stay as they are.
Allocated(b, keep) ==
    /\ DOMAIN heap' = keep \cup {b}
    /\ \A x \in keep : heap'[x] = heap[x]
    /\ heap'[b].n = WordsOf(call.bytes)
    /\ heap'[b].w \in [1 .. WordsOf(call.bytes) -> Nat]
    /\ Answer(b)

HeapAlloc(b) ==
    /\ Allocates(call)
    /\ b \in Gaps(BlocksOf(call.bytes))
    /\ Allocated(b, Live)
    /\ call.fn = "calloc" => \A i \in 1 .. heap'[b].n : heap'[b].w[i] = 0

\* The words that fit are moved to a place that is free while the old
\* allocation still exists, which is released.
HeapMove(b) ==
    /\ Moves(call)
    /\ b \in Gaps(BlocksOf(call.bytes))
    /\ Allocated(b, Live \ {call.p})
    /\ \A i \in 1 .. heap'[b].n : i <= heap[call.p].n => heap'[b].w[i] = heap[call.p].w[i]

\* A call fails only if there is no room, and then changes nothing.
HeapFail ==
    /\ Allocates(call) \/ Moves(call)
    /\ Gaps(BlocksOf(call.bytes)) = {}
    /\ Answer(NULL)
    /\ UNCHANGED heap

HeapRelease ==
    /\ Releases(call)
    /\ heap' = [x \in Live \ {call.p} |-> heap[x]]
    /\ Answer(NULL)

HeapNext ==
    \/ \E c \in Calls : HeapCall(c)
    \/ \E b \in Live, v \in Vals : HeapWrite(b, v)
    \/ \E b \in Pool : HeapAlloc(b) \/ HeapMove(b)
    \/ HeapFail
    \/ HeapRelease

HeapSpec == HeapInit /\ [][HeapNext]_heapVars
=============================================================================
