-------------------------------- MODULE Exit --------------------------------
(***************************************************************************)
(* Start-up and termination of a program: _start, _init and _fini (crt0.c),*)
(* the table of exit handlers (atexit.c) and exit, abort and _Exit         *)
(* (stdlib.h).  Constructors, main, exit handlers and destructors are user *)
(* code: each may register handlers, or end the program, before it returns.*)
(*                                                                         *)
(* The state is the call stack.  Its top frame is one of                   *)
(*   boot: entry of _start;   init: in _init, n constructors left to call; *)
(*   user: in user code;      exit: in the loop of __cxa_finalize;         *)
(*   fini: in _fini, destructor n to call next.                            *)
(***************************************************************************)
EXTENDS Integers, Sequences

CONSTANTS CAPACITY,   \* entries of the table (64)
          NumCtors,   \* constructors of the list _ctors_start .. _ctors_end
          NumDtors,   \* destructors of the list _dtors_start .. _dtors_end
          MaxReg,     \* bound: handlers that user code tries to register
          MaxExit     \* bound: calls of exit by user code

ASSUME CapacityOK == CAPACITY \in Nat \ {0}
ASSUME ListsOK == NumCtors \in Nat /\ NumDtors \in Nat
ASSUME BoundsOK == MaxReg \in Nat /\ MaxExit \in Nat

VARIABLES
    stack,      \* the frames, innermost first
    atexits,    \* the table: handlers in its entries 0 .. CAPACITY - 1
    atexit_nxt, \* next available element
    tries,      \* registrations attempted; the n-th one is handler n
    exits,      \* calls of exit by user code
    halted,     \* how the program ended: "no", "exit" or "abort"
    order,      \* auxiliary: handlers and destructors in the order of their calls
    accepted    \* auxiliary: handlers whose registration returned 0

vars == <<stack, atexits, atexit_nxt, tries, exits, halted, order, accepted>>
tableVars == <<atexits, atexit_nxt, tries, accepted>>

FINI == 0          \* _fini, as an exit handler
None == -1         \* an entry that was never written

Frame(k, n) == [k |-> k, n |-> n]

top == Head(stack)
In(k) == halted = "no" /\ top.k = k
Push(f) == stack' = <<f>> \o stack
Replace(f) == stack' = <<f>> \o Tail(stack)
Pop == stack' = Tail(stack)

----------------------------------------------------------------------------
(* atexit.c.                                                               *)

\* Fault: the table is taken for full one entry too late.
cxa_atexit_late(h) ==
    IF atexit_nxt > CAPACITY
    THEN UNCHANGED <<atexits, atexit_nxt, accepted>>
    ELSE /\ atexits' = [atexits EXCEPT ![atexit_nxt] = h]
         /\ atexit_nxt' = atexit_nxt + 1
         /\ accepted' = accepted \cup {h}

\* __cxa_atexit: the handler is entered, or refused if the table is full.
cxa_atexit(h) ==
    IF atexit_nxt = CAPACITY
    THEN UNCHANGED <<atexits, atexit_nxt, accepted>>
    ELSE /\ atexits' = [atexits EXCEPT ![atexit_nxt] = h]
         /\ atexit_nxt' = atexit_nxt + 1
         /\ accepted' = accepted \cup {h}

\* A call of handler h, made by __cxa_finalize.
CallHandler(h) ==
    /\ Push(IF h = FINI THEN Frame("fini", 1) ELSE Frame("user", 0))
    /\ order' = Append(order, h)

\* Fault: the first entry runs first.
Finalize_fifo ==
    /\ In("exit") /\ atexit_nxt # 0
    /\ CallHandler(atexits[0])
    /\ atexits' = [i \in 0 .. CAPACITY - 1 |-> IF i + 1 < CAPACITY THEN atexits[i + 1] ELSE None]
    /\ atexit_nxt' = atexit_nxt - 1
    /\ UNCHANGED <<tries, exits, halted, accepted>>

\* __cxa_finalize: the last entry is removed, then called; its slot can be
\* taken again by a registration that it makes.
Finalize ==
    /\ In("exit") /\ atexit_nxt # 0
    /\ CallHandler(atexits[atexit_nxt - 1])
    /\ atexit_nxt' = atexit_nxt - 1
    /\ UNCHANGED <<atexits, tries, exits, halted, accepted>>

\* Fault: the first entry of the table is forgotten.
ClibExit_early ==
    /\ In("exit") /\ atexit_nxt <= 1
    /\ halted' = "exit"
    /\ UNCHANGED <<stack, tableVars, exits, order>>

\* Fault: only the outermost call of exit ends the program.
ClibExit_outermost ==
    /\ In("exit") /\ atexit_nxt = 0 /\ Len(stack) = 1
    /\ halted' = "exit"
    /\ UNCHANGED <<stack, tableVars, exits, order>>

\* exit: the table is empty, and the simulator is told.
ClibExit ==
    /\ In("exit") /\ atexit_nxt = 0
    /\ halted' = "exit"
    /\ UNCHANGED <<stack, tableVars, exits, order>>

----------------------------------------------------------------------------
(* crt0.c.                                                                 *)

Start ==
    /\ In("boot")
    /\ cxa_atexit(FINI)
    /\ Replace(Frame("init", NumCtors))
    /\ UNCHANGED <<tries, exits, halted, order>>

\* _init: the constructors, from the last of the list to the first.
Construct ==
    /\ In("init") /\ top.n > 0
    /\ stack' = <<Frame("user", 0), Frame("init", top.n - 1)>> \o Tail(stack)
    /\ UNCHANGED <<tableVars, exits, halted, order>>

\* exit(main(argc, argv)).
CallMain ==
    /\ In("init") /\ top.n = 0
    /\ stack' = <<Frame("user", 0), Frame("exit", 0)>> \o Tail(stack)
    /\ UNCHANGED <<tableVars, exits, halted, order>>

\* _fini: the destructors, from the first to the last.  Destructor n is
\* recorded as -n.
Destruct ==
    /\ In("fini") /\ top.n <= NumDtors
    /\ stack' = <<Frame("user", 0), Frame("fini", top.n + 1)>> \o Tail(stack)
    /\ order' = Append(order, - top.n)
    /\ UNCHANGED <<tableVars, exits, halted>>

\* Fault: _dtors_end is taken for the last destructor itself.
FiniReturns_early ==
    /\ In("fini") /\ top.n >= NumDtors
    /\ Pop
    /\ UNCHANGED <<tableVars, exits, halted, order>>

FiniReturns ==
    /\ In("fini") /\ top.n > NumDtors
    /\ Pop
    /\ UNCHANGED <<tableVars, exits, halted, order>>

----------------------------------------------------------------------------
(* What user code may do.                                                  *)

Register ==
    /\ In("user") /\ tries < MaxReg
    /\ tries' = tries + 1
    /\ cxa_atexit(tries + 1)
    /\ UNCHANGED <<stack, exits, halted, order>>

CallExit ==
    /\ In("user") /\ exits < MaxExit
    /\ exits' = exits + 1
    /\ Push(Frame("exit", 0))
    /\ UNCHANGED <<tableVars, halted, order>>

\* abort and _Exit run no handlers.
Abort ==
    /\ In("user")
    /\ halted' = "abort"
    /\ UNCHANGED <<stack, tableVars, exits, order>>

UserReturns ==
    /\ In("user")
    /\ Pop
    /\ UNCHANGED <<tableVars, exits, halted, order>>

Init ==
    /\ stack = <<Frame("boot", 0)>>
    /\ atexits = [i \in 0 .. CAPACITY - 1 |-> None]
    /\ atexit_nxt = 0
    /\ tries = 0 /\ exits = 0
    /\ halted = "no"
    /\ order = <<>> /\ accepted = {}

Runtime == Start \/ Construct \/ CallMain \/ Finalize \/ ClibExit \/ Destruct \/ FiniReturns

Next == Runtime \/ Register \/ CallExit \/ Abort \/ UserReturns

\* The processor executes the library, and user code comes to its end.
Spec == Init /\ [][Next]_vars /\ WF_vars(Runtime) /\ WF_vars(UserReturns)

----------------------------------------------------------------------------
(* Properties.                                                             *)

Handler == 0 .. MaxReg
Started == { order[i] : i \in 1 .. Len(order) }

\* Types: the table never holds more than CAPACITY handlers, only handlers
\* are called, and the frame of _start or of exit is always left.
ExitTypeOK ==
    /\ \A i \in 1 .. Len(stack) :
           stack[i].k \in {"boot", "init", "user", "exit", "fini"} /\ stack[i].n \in Nat
    /\ stack # <<>>
    /\ atexits \in [0 .. CAPACITY - 1 -> Handler \cup {None}]
    /\ atexit_nxt \in 0 .. CAPACITY
    /\ tries \in 0 .. MaxReg /\ exits \in 0 .. MaxExit
    /\ halted \in {"no", "exit", "abort"}
    /\ \A i \in 1 .. Len(order) : order[i] \in Handler \cup { - n : n \in 1 .. NumDtors }
    /\ accepted \subseteq Handler

\* exit runs every handler that was accepted, and none twice, also those that
\* were registered while handlers ran and those left to a nested exit.
HandlersRunOnce ==
    /\ \A i, j \in 1 .. Len(order) : order[i] = order[j] => i = j
    /\ halted = "exit" => accepted \subseteq Started

\* Destructors run in the order of their list, and exit runs all of them
\* unless user code that _fini called ended the program itself.
DestructorsRun ==
    /\ \A i, j \in 1 .. Len(order) : i < j /\ order[i] < 0 /\ order[j] < 0 => order[j] < order[i]
    /\ (halted = "exit" /\ \A i \in 1 .. Len(stack) : stack[i].k # "fini")
           => \A n \in 1 .. NumDtors : - n \in Started

\* When a handler is called, everything registered after it has been called:
\* handlers run in the reverse order of registration, _fini last of all.
LastInFirstOut ==
    [][\A h \in accepted : order' = Append(order, h) =>
           \A g \in accepted : g > h => g \in Started]_vars

\* A program that calls exit comes to an end, whatever handlers register.
ExitEnds == (halted = "no" /\ top.k = "exit") ~> (halted # "no")
=============================================================================
