# A TLA+ model of the trv32p3 processor and its runtime

The repository holds a processor model for an ASIP design tool: a 32-bit RISC-V
core with three pipeline stages (`trv32p3/lib`, in nML and PDG), its C runtime
library, two cryptographic applications, a regression suite and vendored
libraries.  This directory models the parts that carry the repository's own
logic, checks them with TLC and proves their main properties with TLAPS.

All paths below are relative to `src/trv32p3/`.

## 1. Inventory

| Part | State | Operations | Must be correct about |
|---|---|---|---|
| Data memory interface, `lib/dm.p` | column and size flip-flops (`dm_merge`); delayed store, one-entry write-back buffer (`dm_wbb`); the array `eDM` | one load or store request per cycle, response one cycle later, debug reads and writes | a load sees every earlier store byte by byte; no store is lost or written twice |
| Program control unit, `lib/trv32p3_pcu.p` | `PC`, `pif_PC`, `pid_PC`, `r_booting` | `user_issue`, `user_next_pc`, once per cycle | one jump at a time; the word issued belongs to the address it is issued with; wrong-path instructions leave no trace |
| Pipeline, `lib/trv32p3.n`, `alu.n`, `ldst.n`, `ctrl.n`, `hzrd.n` | instructions in ID and EX, `X`, `pid_D1` | the stage actions of each rule, hardware stall | programs behave as if executed one instruction at a time |
| Program memory, `lib/pm.p` | fetch address | fetch | word addressing |
| Primitives, `lib/trv32p3.p` | none | add .. zext | signedness, shift amount |
| Instruction-accurate hook, `lib/trv32p3_iapcu.h` | `PC` | set the next PC | mask of the LSB |
| Heap, `lib/runtime/src/malloc.c` | headers and links in the pool, `sentinel` | malloc, calloc, realloc, free | disjoint allocations, data kept, no false "out of memory" |
| Start and exit, `crt0.c`, `atexit.c`, `stdlib.h` | handler table, call stack | `_start`, `__cxa_atexit`, `__cxa_finalize`, exit, abort | each handler once, in reverse order, destructors last |
| Hosted I/O, `runtime/src/stdio.c` | table of FILE entries, `errno`; on the other side the host's streams | fopen, fclose, freopen, tmpfile, fdopen, mkstemp, close, ... each one call to the host | table and host streams agree, whatever the host answers |
| Divider, `lib/div.p` | `cnt`, `PA`, `B`, result address, sign | one division step per cycle, requests at any time | quotient, remainder, zero and overflow cases; the write is announced a cycle ahead |
| 64-bit and division library, `trv32p3_longlong.h`, `trv32p3_div.c`, `trv32p3_mul.c` | none | arithmetic on word pairs | carries, shifts by 0 and by 32 and more, divisors with the top bit set |
| `strtol.c`, `strtoul.c`, `qsort.c`, `string.c` | the static pointer of strtok | conversions, sorting, copying, searching | overflow limits, order, overlap, tokens |
| SHA-256 (`applications/sha-256`) | chaining values, block buffer | hash | block splitting and padding |
| AES-256-GCM (`applications/aes-256-gcm`) | counter, hash value | encrypt and authenticate | J0, counters, hash input, lengths, field multiplication |
| Test harness (`bin/`, `regression/`) | processes | run with a timeout | the right processes are killed, the exit status survives, nothing is left |
| Vendored: `libs/`, SoftFloat | | | not part of this project |

How they interact.  In every clock cycle the PCU issues the fetched word into
ID, the instruction in ID names its memory access, and the instruction in EX
receives or delivers data; the memory interface answers in the next cycle.  All
parts read the registers as the previous cycle left them.  The runtime runs on
the core as ordinary code; `_start` calls constructors, `main` and, through
`exit`, the registered handlers, which call back into the same handler table.

What is hard.  Stores are announced one cycle before their data exist, so loads
overtake them.  Branches resolve in EX while two younger instructions are in
flight, one of which may itself be jumping, stalling or accessing memory.
Addresses are formed in ID, registers are written in EX.  `malloc` takes chunks
out of the list it is following, and its links share words with user data.
Exit handlers change the table that is being walked.  Calls to the host may fail
halfway, or nobody may answer.  In `run_with_timeout.sh` five kinds of processes
end, list and kill each other in any order.

## 2. Modules

| Module | Models |
|---|---|
| `FlatMem` | what the declarations of DMb, DMh and DMw promise: an unbuffered byte memory |
| `DataMem` | `dm_merge` and `dm_wbb`, one action per clock cycle, and debug accesses |
| `Insn` | instruction records, and what each rule reads and computes |
| `Isa` | the instruction set: one instruction per step |
| `Core` | PCU, stages, stall and fetch: the signals and registers of one cycle |
| `System` | `Core` driving `DataMem`; it implements `Isa` |
| `System_proofs` | invariants of `DataMem` and of `System`; they implement `FlatMem` and `Isa` |
| `Prims` | the functions of `trv32p3.p`, for the instances TLC checks |
| `Heap` | what malloc, calloc, realloc and free promise |
| `Malloc` | `malloc.c`, word by word; it implements `Heap` |
| `Malloc_proofs` | invariant of `Malloc`; it implements `Heap` |
| `Exit` | `crt0.c`, `atexit.c` and the exit functions |
| `Exit_proofs` | invariant of `Exit` |
| `Stdio` | the FILE table of `stdio.c`, and the host's streams as the library uses them |
| `Stdio_proofs` | invariant of `Stdio` |
| `Divider` | the divide unit of `div.p`, one action per kind of clock cycle |
| `Divider_proofs` | invariant of `Divider` |
| `RunWithTimeout` | `run_with_timeout.sh`: script, killer, sleep, command and its children |
| `RunWithTimeout_proofs` | invariants of `RunWithTimeout` |
| `Sha256` | blocks, padding and length field of `sha256` |
| `Sha256_proofs` | invariant of `Sha256` |
| `Arith`, `Sort`, `Strtol`, `Strings`, `Gcm` | pure functions as operators, each beside what it should compute |
| `Library` | a program that calls these functions |
| `Library_proofs` | what the loops of these functions compute, and invariants of `Library` |
| `MCDataMem`, `MCSystem`, `MCMalloc`, `MCExit`, `MCStdio`, `MCDivider`, `MCRunWithTimeout`, `MCSha256`, `MCLibrary` | the bounds of the checked instances |

State and actions keep the names of the source (`edm_wbb_ff`, `user_issue`,
`insert_after`, ...).  Operators marked *Fault* are deliberately wrong variants
of the definition that follows them; nothing uses them, and they exist to
show that the properties notice such an error.

Decisions that a reader should know:

- **Cycle.** A register assignment in nML or PDG takes effect in the next cycle,
  so a clock cycle is one action whose right-hand sides are unprimed.
- **Read and write of the array in one cycle.** `eDM` reads with one cycle of
  latency and writes with none; whether a read sees a write of the same cycle
  is left open in `Cycle` (either value), and the result does not depend on it.
- **Generated control.** The tool generates the stage control.  From the way the
  PCU uses it we take that a stalled or killed instruction does not advance and
  announces no access (`Advances`).  Whether a kill also ends the issue delay of
  the killed instruction is not visible in the source: `user_issue` allows both.
- **Alignment.** `dm_merge` supports aligned addresses only.  A program that
  forms another address leaves the model, in the cycle in which it does
  (`AccessAligned`); this is the only reason a run of `System` can stop.
- **Memory sizes.** The data memory of the model is as large as the address space
  (`AddrIsWord` of `System`).  The real one has 2^23 bytes (`DM_SIZE_NBIT` in
  `lib/trv32p3_define.h`), and the RTL drops the upper address bits (`dm.p:38`), so that
  there addresses that are equal in the lower 23 bits name the same byte.  The
  model has no such aliases; it covers programs that stay within the memory.  Program
  memory wraps after `NumWords` words, as the address bits of the RTL do.  A debugger that rewrites the program is left out.
- **Instructions** are records.  Shift-immediate, `oriu`, `lui` and `auipc` are
  members of `AluInsn` with other operands.  Encodings, assembly syntax, and the
  compiler's pseudo branch (a branch over a jal) are left out.
- **Heap.** A pointer to `pool[b]` is the number `b`.  Links of a free chunk and
  user data occupy the same words, and users write numbers that look like links
  and headers.  Sizes are whole words, and small enough not to overflow the
  rounding, which the source says it does not guard against (`RequestsOK`).  The
  loop of `malloc` takes one step per iteration.  `live` records what the caller
  was given; its contents are read from the pool.
- **Exit.** User code (constructors, main, handlers, destructors) may register
  handlers, call `exit` and `abort`, or return.
- **Hosted I/O.** The host is external: it answers 0 or an error, and an error of
  fclose or freopen may or may not have closed the stream.  Without a host the
  value that the function preset is used (`STDIO_SAFE_NOHOSTED`, which `stdio.c`
  defines): EBADF in most functions, but 0 in fdopen, close, remove and rename, so
  that fdopen then enters a FILE without a stream.  A program uses the FILEs that it
  was given and has not closed, may close one twice while its entry is free, and
  drops a FILE whose freopen failed, as the null result tells it to.  `held`, `leaked`
  and `lost` are auxiliary: what the program has, the entries whose freopen failed, and
  the host streams that a failed fclose or freopen left open.  `freopen` does not clear
  `in_use` when it fails (`stdio.c:182`), and no later call does: each such failure costs
  the table one entry for ever, and `TableExact` states this loss as it is.
  `stdio.h:80` says that freopen does not support the standard streams; the code has no
  such guard, and the model calls it with them too.
  Functions that only pass a call on (formatted and character I/O) are left out.
- **Divider.** The word width is a parameter.  The unit is not instantiated by
  `trv32p3.n`, so any request may come in any cycle.  The result is compared with the
  behavioural functions at the top of the same file.
- **Run with timeout.** Each shell command that another process can observe is a
  step.  Process ids are sequences of digits, because `remove_from_list` works on
  text.  The sleep is longer than launching the command.  Two things the script
  does not prevent are allowed by the properties and named in them: a SIGHUP that
  arrives before `sleep_pid` is set leaves the sleep running (`early`), and children
  that the command forks after the listing survive it (`late`).
- **SHA-256.** Bytes of the message are named by their position; positions behind
  the end are other bytes.  A call of `sha256_transform` records the block it is given;
  the compression that it makes of it (`sha-256.c:64`) is left out.
- **Pure functions.** Words have few bits, and the limits 7 and 40 of qsort are
  parameters.  Division by zero is undefined in C and left out.  `strtol` of "0x"
  without a digit returns 0 with the end at the beginning of the text, where C asks
  for the end behind the "0"; the reference follows the code there.  The reference
  shares `prefix` (spaces, sign, base) and `AfterDigits` (where the digits end) with the
  code; what it checks is the value, the limits and the intermediate results.
- **Strings.** The target of strncat is a text of any length, empty or not, that ends
  before the source and has room for what is appended; otherwise C leaves the result
  undefined.  The calls of strtok are `MaxCalls` in a row, each with a set of
  separators of its own; tokens are read from the memory after the last call.
- **GCM.** Bytes of the key stream are named by counter and position, and a hash by
  its input.  J0 is a block for an IV of 12 bytes and a hash otherwise, whose last 32
  bits, the counter, may then be any.  Lengths in bits are computed in `size_t` (`SizeBits`),
  before PUTU64 widens them; the reference uses the exact ones.  They agree for texts
  whose bits `size_t` counts (`MaxBytesOK`), which with 32 bits is every text in a memory
  of 2^23 bytes.  If `aes_encrypt_init` has no memory, `aes_gcm_ae` returns -1 and nothing else.

## 3. What TLC checks

| Run | Instance | Shows |
|---|---|---|
| `datamem` | 2 rows, bytes of 1 bit, 9 accesses of all sizes on overlapping lanes, debugger on one of these | types; the buffer never has to hold two stores; the flip-flops describe the access in EX; refinement of `FlatMem` |
| `system_mem` | words of 4 bits, 3 registers, all 11^4 loops of four instructions over loads, stores, address producers and branches | types; the access completed is that of the instruction in EX; refinement of `Isa` |
| `system_ctrl` | the same, over all 12^4 loops of branches, jal, jalr, auipc, lui, a load and a store | the inductive invariant; one jump at a time; PC pipeline; link values; refinement of `Isa`; the pipeline never stops |
| `malloc` | 3 blocks, requests of 0, 4 and 7 words | types; headers tile the pool and the list holds the free chunks; refinement of `Heap`; every call returns |
| `exit` | a table of 3 entries, 4 registrations, 2 calls of exit, 2 constructors, 2 destructors | table bounds; each accepted handler once; destructors; reverse order; the program ends |
| `stdio` | a table of 2 entries, 1 standard stream, 4 host ids, 1 descriptor, with and without a host | types; the entries in use are those the program holds and those lost by a failed freopen; every FILE has a stream of its own and every stream a FILE, unless its fclose or freopen failed |
| `divider` | 4-bit words, all operands and operations, destinations X0 and X1 | types; in every cycle of a division the quotient so far and the rest make up the operands, and the result is that of the reference; the write is announced exactly one cycle ahead; every division ends |
| `timeout` | a command that forks up to two children | the script ends with the command's status; killer and sleep are gone when it does; a killed command leaves no child that was there at the listing; the script ends even if the command does not |
| `timeout_pid` | the pid of the listing subshell is 125, the killer's is 12 | violated: the killer kills itself |
| `sha256` | blocks of 8 bytes, a length of 2 bytes, messages of 0 to 40 bytes | number of blocks, padding and length field of every message; all bytes of messages shorter than a block, and of whole blocks |
| `sha256_tail` | the same | violated: the tail of longer messages is not what is hashed |
| `library` | 3-bit words, arrays of up to 9 elements with 3 keys, numerals of up to 5 characters with 5-bit longs, memories of 6 bytes, 4 calls of strtok, a field of 256 elements, IVs and texts of up to 9 bytes in blocks of 4, a counter of 3 bits and `size_t` of 7 | each function computes what its definition says |

The two violations are disagreements between the code and its own comments:

- `run_with_timeout.sh:71` says that on timeout the killer should not kill itself
  before finishing.  `remove_from_list` deletes the first occurrence of the killer's
  pid in the list, as text.  If a pid listed before it contains it, that pid is cut
  and the killer's stays: it kills itself, the command survives, and the script
  waits for it.
- `sha-256.c:148` says that the data left in the buffer are padded.  The loop over
  full blocks has already advanced `pdata`, and line 141 advances it again; the tail of
  a message of more than one block is read from behind the message.  The lengths
  in the application's test data avoid this case (`TestedLengths`).

Why the bounds are enough.  A hazard of the pipeline involves at most the two
instructions in flight and the one being issued, and the write buffer one store
and two rows; four instruction slots contain every sequence of three followed by
one that observes the outcome.  Words of four bits give every access size its
lanes and a wrap-around of addresses.  Three blocks allow three adjacent free
chunks, two free chunks around a reserved one, splits, and failure for lack of a
piece that is large enough.  The heap sizes are the smallest and the largest
request of two blocks, so that data end next to a header.  In `exit` the table
overflows, and one call of exit nests in a handler of another.  In `stdio` the table
fills and entries and ids are reused; the theorems hold for every size.  Four-bit
words contain all sign, zero and overflow combinations of a division.  Two
children allow one before and one after the listing.  Messages of up to five
blocks contain every position of the end in a block several times, and reach
both sides of the place where the length no longer fits.  The sizes of `library`
reach all branches: nine elements pass the lowered limit of the median of nine,
five characters overflow a five-bit long in every base, six bytes allow two
strings, a target with text to which a character is appended, and all overlaps,
four calls find the last token of three and one more that finds none, nine bytes
two full blocks and a rest, three counter bits a wrap.

Fairness.  `System` assumes only that the clock ticks (weak fairness of the one
action).  `Malloc` assumes that the processor executes the allocator (weak
fairness of its steps, none of the caller's).  `Exit` assumes that the runtime is
executed and that user code returns; the number of registrations is bounded
(`MaxReg`), because a handler that always registers another never lets exit end.
`Divider` assumes that the clock ticks while a division is in progress.
`RunWithTimeout` assumes that the system schedules script and killer and that the sleep
ends, and not that the command or its children do.

Deadlock is checked, except in `System`, where a program may leave the model as
described, and in `Exit`, `RunWithTimeout` and `Sha256`, which end.

## 4. What is proved

All theorems hold for every value of the constants that satisfies the named
assumptions: any number of rows, byte and word size, register set, program and,
for the core, any functions in place of the primitives; any size of the pool, the
handler table and the FILE table; any width of the divider and size of a block.
Every safety invariant and every safety action property that a passing run checks is
also a theorem.

`System_proofs`, data memory: `DmTypeCorrect`, `NoStoreLost`, `DmInvariant`, `DmRefinement`.
The inductive invariant `DmIInv` adds to the types that (1) the buffer is not
full while another store awaits its data, (2) the delayed address, strobe and
size are those of the store in EX, (3) for a load in EX, column, row and, if the
buffer is full, the result of the address comparison are still right.  (3) is
needed because the comparison is made before the buffer is filled.  The
refinement maps the memory to the array overlaid by the buffer (`ArchMem`).

`System_proofs`, pipeline: `TypeCorrect`, `Invariant`, `AssertHolds`, `LinkCorrect`,
`PipelineCorrect`, `AccessCorrect`, `Refinement`.  The invariant `SysInv` says that ID and EX hold consecutive
instructions of the program with their addresses (`InOrder`, `PcPipeline`), how
long a jump still holds back the issue (`IssueBlocked`), that PC is the link
value while jal is in ID and jalr in EX (`LinkIsNext`), that PCs are even, and
that the memory's access is that of EX (`AccessIsEX`).  Without `IssueBlocked`
nothing excludes a jal in ID behind a jalr in EX, and the assertion of
`user_next_pc` could not be shown.  The refinement maps the architectural PC to
the address of the oldest instruction in flight; the cycle in which EX completes
an instruction is one step of `Isa`, every other cycle a stutter.

`Stdio_proofs`: `StdioTypeCorrect`, `TableCorrect`, `BackedCorrect`, from
`FOPEN_MAX` positive and ids for the standard streams.  The inductive invariant
`StdioInv` adds that without a host no stream is open, and that no FILE has a stream
that a failed fclose or freopen left open.  The last is needed for freopen, which takes
the old stream out of the host's.  One lemma covers each way in which the table changes; that the search
finds a first free entry follows from the well-foundedness of the naturals.

`Malloc_proofs`: `MallocTypeCorrect`, `PoolCorrect`, `HeapRefinement`, from a pool of
at least one block, a reserved bit above every length, and requests of whole words
that do not overflow the rounding.  `PoolConsistent` is not inductive: its walks do
not say where the search stands.  `MallocInv` says that there are a set of chunks with
their lengths, a list of the free ones starting at the sentinel, and a place of the
search in this list, such that the words of the pool describe them (`Shape`), every
allocation has the blocks that its words need (`Sized`), and the chunks before the
place of the search are too small and end at a reserved chunk or the sentinel
(`Search`).  The last is why a refusal is right: every gap starts in a free chunk and
cannot reach over the end of it.  One lemma says what each of split, reserve, merge,
free, init and a write by the caller does to the shape, and that the data of the other
allocations are kept; then one lemma per action gives the invariant and the step of
`Heap`.  The walks of `PoolConsistent` are recursive functions.  The proof exhibits a
function that solves the equation of each, and compares the two at the first place
where they could differ.

`Exit_proofs`: `TypeCorrect`, `RunOnce`, `AllDestructed`, `ReverseOrder`.  The
invariant `ExitInv` describes the call stack (`StackOK`, `BootOK`), the handlers in the
table in the order of their registration (`TableOK`), that a handler was called if and
only if it was accepted and is no longer in the table (`CallsOK`), and how far each
call of `_fini` is (`FiniOK`).  That an entry is taken out of the table before it is
called is what makes nested calls of exit safe.

`RunWithTimeout_proofs`: `StatusKept`, `NothingLeft`, `TreeKilled`, from a finite number of
children (`KidsFinite`).  `StatusInv` follows the status from the command's end to the
script's; `SleepInv` relates killer, sleep and `sleep_pid`; `TreeInv` says which
processes the killer's list still holds at each place.  `TreeKilled` has a hypothesis:
the killer's pid is not part of the text of the pid listed before it.  Without it the
statement is false, which is what the run `timeout_pid` shows.

`Divider_proofs`: `DivTypeCorrect`, `DividesRight`, `WritesAnnounced`.  `DivInv` says for
every number of digits done that quotient so far times divisor plus rest is the part of
the dividend already used, and that the rest is below the divisor (`WorkInv`), and what
the two output registers hold (`WriteInv`, `SeenInv`).  The provers know nothing of powers:
the laws that are used are the assumption `PowersOfTwo` of `Divider`, which TLC
evaluates.

`Sha256_proofs`: `PadsRight`, `TestedRight`.  `ShaInv` says which blocks have been absorbed
and what the buffer holds at each place of `sha256`.  The hypothesis `BitsFit` is that
the number of bits of a message fits the length field; beyond it the code loses bits.
`PowerOK` of `Sha256` says that the range of the length field is a number.

`Library_proofs`: `ArithCorrect`, `ParseCorrect`, `StringsCorrect`, `SortCorrect`,
`GcmCorrect`.  The state of `Library` is one call, so that each theorem rests on lemmas
about the functions.  A loop is a recursive function of the number of its turns: a lemma
gives what it holds after each turn, as a closed form where there is one (the bits of
the dividend already divided, the bytes already moved), else as an invariant of the
turns (the accumulated value of `digits` and its limit, the memory and pointer that each
call of strtok leaves).  That such a function exists is `Recursion`; that the invariant
holds at each turn is `UpTo`.  Both are proved from the well-foundedness of the
naturals, with a set in the place of the predicate, because the prover takes no
operators as parameters.  `ArithCorrect` covers every width and all operands, with the
divisor's top bit set and the least dividend among them; `ParseCorrect` every width of a
long, base and text; `StringsCorrect` every memory and overlap, target texts of strncat of
every length that leaves room, and every number of calls of strtok with any separators
in each.  That a token is still a string after the calls that follow it, because they
write only behind it, is a step of its own (`Found`, `Tokens`).  The
laws of powers of two that are used are the assumptions `PowersOfTwo` of `Arith` and
`LongRange` of `Strtol`, which TLC evaluates; `MemSizeOK` says that a memory is not
empty and strtok is called, and `KeysOK` that keys are numbers.

`SortCorrect` covers arrays of every length and all values of the two limits that
`LimitsOK` allows.  Every swap, and so every loop, rearranges its range by a permutation
(`Rearranged`), and permutations keep the number of occurrences (`SameCount`).
`Parting` is the invariant of the turns of the partition: what lies below `pa`, between
`pa` and `pb`, between `pc` and `pd` and above `pd` is equal to, less than, greater than
and equal to the pivot.  The swaps that gather the equal elements in the middle leave
the smaller ones before and the greater ones behind them.  The recursion is a function
on all ranges of all arrays; that it exists, and that it sorts, goes by induction on the
length of the range, because both parts are shorter than the range that was partitioned.

`GcmCorrect` has two parts.  For gf_mult, elements are sets of exponents: xor_block is
their symmetric difference (`XorBlock`) and shift_right_block moves each exponent up by
one (`ShiftBlock`), carries between words included.  A step of `Reduce` is linear and
commutes with multiplication by x, hence so does the reduction (`ReduceSum`,
`ReduceTimes`); `Multiplied` is then the invariant of the turns: v is the reduced
multiple of y by a power of x, and z the reduced product of y with the bits of x seen so
far.  It holds for any word width and any constant R.  For aes_gcm_ae, the cipher text
is `Stream`, the closed form of the loop of aes_gctr, the hash takes the blocks of
`Cut` (`GhashIs`), and J0 is the IV, zeros and a one, or the hash of the IV and its length
(`J0Is`).  That the length block holds the exact lengths (`LenBufIs`) needs the second part
of `MaxBytesOK`, 8 times the length below 2^SizeBits.  That no counter block is used twice (`NoReuse`) needs `MaxBytesOK`:
the blocks of a text are fewer than the values of the counter, as a memory of 2^23
bytes and a counter of 32 bits ensure.  `GcmPowers` holds the laws
of powers of two.

Only model-checked: liveness (`Progress`, `CallsReturn`, `ExitEnds`, `DivEnds`,
`ScriptEnds`), which needs fairness; the primitives, which are parameters of the proofs.

## 5. Plan

Done: the processor core, the runtime parts and the two scripts and applications of the
tables above, with a theorem for each safety property.  Open: proofs about the
primitives of `Prims`, which the proofs of the core take as parameters.

## 6. Not modelled

- Mathematics and floating point (`math.c`, `e_*.c`, `s_atan.c`, SoftFloat): numerical
  approximation, and third-party code.
- The AES cipher and the SHA-256 compression function: fixed arithmetic on tables,
  without branches or state; the test vectors of the applications cover them.
- Encodings and operand conversions (`opc.n`, `cv.n`): static tables for the
  generated decoder.  Compiler headers: declarations for a code generator that is
  not in the repository.
- `libs/`: newlib, compiler-rt, libcxx and libcxxabi.  They are third-party
  snapshots and make up all but a few percent of the lines of the repository
  (newlib's character set tables alone are larger than the processor model), which
  is why the share of lines modelled here is small.
- rand, ctype, character comparison and search: one-line loops and tables.
- `regression/domake` and the interrupt handler of `clean_on_interrupt.sh`: they drive
  tools that are not in the repository.
