---------------------------- MODULE Exit_proofs ----------------------------
(***************************************************************************)
(* Proofs about start-up and termination: for every size of the table and  *)
(* of the lists, whatever user code registers and wherever it calls exit.  *)
(***************************************************************************)
EXTENDS Exit, TLAPS

Frames == [k : {"boot", "init", "user", "exit", "fini"}, n : Nat]

\* The stack: user code and _fini always return to a caller.
StackOK ==
    /\ stack \in Seq(Frames) /\ stack # <<>>
    /\ stack[Len(stack)].k \notin {"user", "fini"}

ScalarsOK ==
    /\ atexits \in [0 .. CAPACITY - 1 -> Handler \cup {None}]
    /\ atexit_nxt \in 0 .. CAPACITY
    /\ tries \in 0 .. MaxReg /\ exits \in 0 .. MaxExit
    /\ halted \in {"no", "exit", "abort"}
    /\ order \in Seq(Handler \cup { - n : n \in 1 .. NumDtors })
    /\ accepted \subseteq 0 .. tries

\* At the entry of _start nothing has happened; later _fini is registered.
BootOK ==
    /\ \A i \in 1 .. Len(stack) : stack[i].k = "boot" =>
           Len(stack) = 1 /\ atexit_nxt = 0 /\ order = <<>> /\ accepted = {} /\ halted = "no"
    /\ (\A i \in 1 .. Len(stack) : stack[i].k # "boot") => FINI \in accepted

\* The entries in use are the accepted handlers that have not been called, in
\* the order of their registration.
TableOK ==
    /\ \A i \in 0 .. atexit_nxt - 1 : atexits[i] \in accepted \ Started
    /\ \A i, j \in 0 .. atexit_nxt - 1 : i < j => atexits[i] < atexits[j]
    /\ \A h \in accepted \ Started : \E i \in 0 .. atexit_nxt - 1 : atexits[i] = h

\* What has been called was accepted, and nothing was called twice.
CallsOK ==
    /\ \A h \in Started : h >= 0 => h \in accepted
    /\ \A i, j \in 1 .. Len(order) : order[i] = order[j] => i = j
    /\ \A i, j \in 1 .. Len(order) : i < j /\ order[i] < 0 /\ order[j] < 0 => order[j] < order[i]

\* There is one frame of _fini at most, and it has called the destructors
\* before its next one; a call of _fini that has returned has called all.
FiniOK ==
    /\ \A i, j \in 1 .. Len(stack) : stack[i].k = "fini" /\ stack[j].k = "fini" => i = j
    /\ \A i \in 1 .. Len(stack) : stack[i].k = "fini" =>
           /\ FINI \in Started
           /\ stack[i].n \in 1 .. NumDtors + 1
           /\ \A m \in 1 .. NumDtors : - m \in Started <=> m < stack[i].n
    /\ FINI \notin Started => \A m \in 1 .. NumDtors : - m \notin Started
    /\ FINI \in Started =>
           \/ \E i \in 1 .. Len(stack) : stack[i].k = "fini"
           \/ \A m \in 1 .. NumDtors : - m \in Started

\* The inductive invariant.
ExitInv ==
    /\ StackOK /\ ScalarsOK /\ BootOK /\ TableOK /\ CallsOK /\ FiniOK
    /\ halted = "exit" => atexit_nxt = 0

----------------------------------------------------------------------------
(* The stack.                                                              *)

\* A call puts a frame before the others, which keep their order.
LEMMA PushFrame ==
    ASSUME NEW s \in Seq(Frames), NEW f \in Frames
    PROVE  /\ <<f>> \o s \in Seq(Frames)
           /\ Len(<<f>> \o s) = Len(s) + 1
           /\ (<<f>> \o s)[1] = f
           /\ \A i \in 2 .. Len(s) + 1 : (<<f>> \o s)[i] = s[i - 1]
  OBVIOUS

\* A return removes the first frame.
LEMMA PopFrame ==
    ASSUME NEW s \in Seq(Frames), s # <<>>
    PROVE  /\ Tail(s) \in Seq(Frames)
           /\ Len(Tail(s)) = Len(s) - 1
           /\ \A i \in 1 .. Len(s) - 1 : Tail(s)[i] = s[i + 1]
           /\ Head(s) = s[1] /\ Len(s) \in Nat \ {0}
  OBVIOUS

\* The frame of the caller may change while it calls.
LEMMA CallFrame ==
    ASSUME NEW s \in Seq(Frames), s # <<>>, NEW f \in Frames, NEW g \in Frames
    PROVE  /\ <<f, g>> \o Tail(s) \in Seq(Frames)
           /\ Len(<<f, g>> \o Tail(s)) = Len(s) + 1
           /\ (<<f, g>> \o Tail(s))[1] = f
           /\ (<<f, g>> \o Tail(s))[2] = g
           /\ \A i \in 3 .. Len(s) + 1 : (<<f, g>> \o Tail(s))[i] = s[i - 1]
  OBVIOUS

\* The calls recorded after one more call.
LEMMA OneMoreCall ==
    ASSUME NEW S, NEW s \in Seq(S), NEW h \in S
    PROVE  /\ Append(s, h) \in Seq(S)
           /\ Len(Append(s, h)) = Len(s) + 1
           /\ Append(s, h)[Len(s) + 1] = h
           /\ \A i \in 1 .. Len(s) : Append(s, h)[i] = s[i]
           /\ { Append(s, h)[i] : i \in 1 .. Len(Append(s, h)) } = { s[i] : i \in 1 .. Len(s) } \cup {h}
           /\ Append(s, h) # s
  <1>1. /\ Append(s, h) \in Seq(S)
        /\ Len(Append(s, h)) = Len(s) + 1
        /\ Append(s, h)[Len(s) + 1] = h
        /\ \A i \in 1 .. Len(s) : Append(s, h)[i] = s[i]
    OBVIOUS
  <1>2. Len(s) \in Nat
    OBVIOUS
  <1>3. 1 .. Len(s) + 1 = 1 .. Len(s) \cup {Len(s) + 1}
    BY <1>2
  <1>4. Append(s, h) # s
    BY <1>1, <1>2
  <1> QED BY <1>1, <1>2, <1>3, <1>4

\* One record of calls cannot end with two different calls.
LEMMA LastCall ==
    ASSUME NEW S, NEW s \in Seq(S), NEW a \in S, NEW b \in S, Append(s, a) = Append(s, b)
    PROVE  a = b
  <1>1. Append(s, a)[Len(s) + 1] = a
    OBVIOUS
  <1>2. Append(s, b)[Len(s) + 1] = b
    OBVIOUS
  <1> QED BY <1>1, <1>2

----------------------------------------------------------------------------
(* The steps.                                                              *)

\* The state in which nothing has run.
LEMMA InitInv == Init => ExitInv
  <1> SUFFICES ASSUME Init PROVE ExitInv
    OBVIOUS
  <1>1. /\ stack = <<[k |-> "boot", n |-> 0]>> /\ Len(stack) = 1
        /\ stack[1] = [k |-> "boot", n |-> 0]
    BY DEF Init, Frame
  <1>2. StackOK
    BY <1>1 DEF StackOK, Frames
  <1>3. ScalarsOK
    BY CapacityOK, BoundsOK DEF Init, ScalarsOK
  <1>4. Started = {}
    BY DEF Init, Started
  <1>5. BootOK
    BY <1>1 DEF Init, BootOK
  <1>6. TableOK /\ CallsOK
    BY <1>4 DEF Init, TableOK, CallsOK
  <1>7. FiniOK
    BY <1>1, <1>4 DEF FiniOK
  <1> QED BY <1>2, <1>3, <1>5, <1>6, <1>7 DEF ExitInv, Init

\* The facts that a step keeps as long as it leaves the table and the record
\* of calls alone.
LEMMA TableKept ==
    ASSUME ExitInv, UNCHANGED <<tableVars, order>>, exits' \in 0 .. MaxExit,
           halted' \in {"no", "exit", "abort"}
    PROVE  ScalarsOK' /\ TableOK' /\ CallsOK' /\ Started' = Started
  <1>1. Started' = Started
    BY DEF Started
  <1>2. ScalarsOK'
    BY DEF ExitInv, ScalarsOK, tableVars
  <1>3. TableOK'
    BY <1>1 DEF ExitInv, TableOK, tableVars
  <1>4. CallsOK'
    BY <1>1 DEF ExitInv, CallsOK, tableVars
  <1> QED BY <1>1, <1>2, <1>3, <1>4

\* The frame of _fini may move in the stack, as calls above it come and go.
LEMMA FiniKept ==
    ASSUME ExitInv, Started' = Started, NEW d \in Int,
           \A i \in 1 .. Len(stack') : stack'[i].k = "fini" =>
               i - d \in 1 .. Len(stack) /\ stack'[i] = stack[i - d],
           \A i \in 1 .. Len(stack) : stack[i].k = "fini" =>
               i + d \in 1 .. Len(stack') /\ stack'[i + d].k = "fini"
    PROVE  FiniOK'
  <1>1. \A i, j \in 1 .. Len(stack') : stack'[i].k = "fini" /\ stack'[j].k = "fini" => i = j
    <2> SUFFICES ASSUME NEW i \in 1 .. Len(stack'), NEW j \in 1 .. Len(stack'),
                        stack'[i].k = "fini", stack'[j].k = "fini"
                 PROVE  i = j
      OBVIOUS
    <2>1. i - d = j - d
      BY DEF ExitInv, FiniOK
    <2> QED BY <2>1
  <1>2. ASSUME NEW i \in 1 .. Len(stack'), stack'[i].k = "fini"
        PROVE  /\ FINI \in Started
               /\ stack'[i].n \in 1 .. NumDtors + 1
               /\ \A m \in 1 .. NumDtors : - m \in Started <=> m < stack'[i].n
    BY <1>2 DEF ExitInv, FiniOK
  <1> QED BY <1>1, <1>2 DEF ExitInv, FiniOK

\* _init calls user code.
LEMMA CallsUser ==
    ASSUME ExitInv, UNCHANGED <<tableVars, order, exits, halted>>,
           top.k = "init", NEW g \in Frames, g.k \in {"init", "exit"},
           stack' = <<Frame("user", 0), g>> \o Tail(stack)
    PROVE  ExitInv'
  <1> DEFINE u == Frame("user", 0)
  <1>1. u \in Frames /\ u.k = "user"
    BY DEF Frame, Frames
  <1> HIDE DEF u
  <1>2. stack \in Seq(Frames) /\ stack # <<>> /\ stack[Len(stack)].k \notin {"user", "fini"}
    BY DEF ExitInv, StackOK
  <1>3. stack[1].k = "init" /\ Len(stack) \in Nat \ {0}
    BY <1>2, PopFrame DEF top
  <1>4. /\ stack' \in Seq(Frames)
        /\ Len(stack') = Len(stack) + 1
        /\ stack'[1] = u
        /\ stack'[2] = g
        /\ \A i \in 3 .. Len(stack) + 1 : stack'[i] = stack[i - 1]
    BY <1>1, <1>2, CallFrame DEF u
  <1>5. ScalarsOK' /\ TableOK' /\ CallsOK' /\ Started' = Started
    BY TableKept DEF ExitInv, ScalarsOK
  <1>6. StackOK'
    BY <1>2, <1>3, <1>4 DEF StackOK
  <1>7. \A i \in 1 .. Len(stack) : stack[i].k # "boot"
    BY <1>3 DEF ExitInv, BootOK
  <1>8. BootOK'
    BY <1>1, <1>3, <1>4, <1>7 DEF ExitInv, BootOK, tableVars
  <1>9. FiniOK'
    <2> DEFINE d == 1
    <2>1. \A i \in 1 .. Len(stack') : stack'[i].k = "fini" =>
              i - d \in 1 .. Len(stack) /\ stack'[i] = stack[i - d]
      BY <1>1, <1>3, <1>4
    <2>2. \A i \in 1 .. Len(stack) : stack[i].k = "fini" =>
              i + d \in 1 .. Len(stack') /\ stack'[i + d].k = "fini"
      BY <1>3, <1>4
    <2>3. d \in Int
      OBVIOUS
    <2> HIDE DEF d
    <2> QED BY <1>5, <2>1, <2>2, <2>3, FiniKept, Zenon
  <1> QED BY <1>5, <1>6, <1>8, <1>9 DEF ExitInv, tableVars

\* User code calls exit, or returns.
LEMMA UserCalls ==
    ASSUME ExitInv, CallExit \/ UserReturns
    PROVE  ExitInv'
  <1> DEFINE e == Frame("exit", 0)
  <1>1. e \in Frames /\ e.k = "exit"
    BY DEF Frame, Frames
  <1> HIDE DEF e
  <1>2. stack \in Seq(Frames) /\ stack # <<>> /\ stack[Len(stack)].k \notin {"user", "fini"}
    BY DEF ExitInv, StackOK
  <1>3. stack[1].k = "user" /\ Len(stack) \in Nat \ {0} /\ halted = "no"
    BY <1>2, PopFrame DEF top, CallExit, UserReturns, In
  <1>4. \A i \in 1 .. Len(stack) : stack[i].k # "boot"
    BY <1>3 DEF ExitInv, BootOK
  <1>5. exits' \in 0 .. MaxExit /\ UNCHANGED <<tableVars, order, halted>>
    BY BoundsOK DEF ExitInv, ScalarsOK, CallExit, UserReturns
  <1>6. ScalarsOK' /\ TableOK' /\ CallsOK' /\ Started' = Started
    BY <1>5, TableKept DEF ExitInv, ScalarsOK
  <1>7. CASE CallExit
    <2>1. /\ stack' \in Seq(Frames)
          /\ Len(stack') = Len(stack) + 1
          /\ stack'[1] = e
          /\ \A i \in 2 .. Len(stack) + 1 : stack'[i] = stack[i - 1]
      BY <1>1, <1>2, <1>7, PushFrame DEF e, CallExit, Push
    <2>2. /\ stack'[Len(stack')] = stack[Len(stack)]
          /\ \A i \in 1 .. Len(stack') : stack'[i].k # "boot"
      BY <1>1, <1>3, <1>4, <2>1
    <2>3. StackOK' /\ BootOK'
      BY <1>2, <1>3, <1>4, <1>5, <2>1, <2>2 DEF ExitInv, StackOK, BootOK, tableVars
    <2> DEFINE d == 1
    <2>4. \A i \in 1 .. Len(stack') : stack'[i].k = "fini" =>
              i - d \in 1 .. Len(stack) /\ stack'[i] = stack[i - d]
      BY <1>1, <1>3, <2>1
    <2>5. \A i \in 1 .. Len(stack) : stack[i].k = "fini" =>
              i + d \in 1 .. Len(stack') /\ stack'[i + d].k = "fini"
      BY <1>3, <2>1
    <2>6. d \in Int
      OBVIOUS
    <2> HIDE DEF d
    <2>7. FiniOK'
      BY <1>6, <2>4, <2>5, <2>6, FiniKept, Zenon
    <2> QED BY <1>5, <1>6, <2>3, <2>7 DEF ExitInv, tableVars
  <1>8. CASE UserReturns
    <2>1. /\ stack' \in Seq(Frames)
          /\ Len(stack') = Len(stack) - 1
          /\ \A i \in 1 .. Len(stack) - 1 : stack'[i] = stack[i + 1]
      BY <1>2, <1>8, PopFrame DEF UserReturns, Pop
    <2>2. Len(stack) > 1
      BY <1>2, <1>3
    <2>3. StackOK' /\ BootOK'
      BY <1>2, <1>3, <1>4, <1>5, <2>1, <2>2 DEF ExitInv, StackOK, BootOK, tableVars
    <2> DEFINE d == -1
    <2>4. \A i \in 1 .. Len(stack') : stack'[i].k = "fini" =>
              i - d \in 1 .. Len(stack) /\ stack'[i] = stack[i - d]
      BY <1>3, <2>1
    <2>5. \A i \in 1 .. Len(stack) : stack[i].k = "fini" =>
              i + d \in 1 .. Len(stack') /\ stack'[i + d].k = "fini"
      BY <1>3, <2>1
    <2>6. d \in Int
      OBVIOUS
    <2> HIDE DEF d
    <2>7. FiniOK'
      BY <1>6, <2>4, <2>5, <2>6, FiniKept, Zenon
    <2> QED BY <1>5, <1>6, <2>3, <2>7 DEF ExitInv, tableVars
  <1> QED BY <1>7, <1>8

\* The program ends: by exit when the table is empty, or by abort.
LEMMA Ends ==
    ASSUME ExitInv, ClibExit \/ Abort
    PROVE  ExitInv'
  <1>1. /\ UNCHANGED <<stack, tableVars, order, exits>> /\ halted = "no"
        /\ halted' \in {"exit", "abort"} /\ top.k # "boot"
        /\ halted' = "exit" => atexit_nxt = 0
    BY DEF ClibExit, Abort, In
  <1>2. ScalarsOK' /\ TableOK' /\ CallsOK' /\ Started' = Started
    BY <1>1, TableKept DEF ExitInv, ScalarsOK
  <1>3. stack \in Seq(Frames) /\ stack # <<>>
    BY DEF ExitInv, StackOK
  <1>4. Len(stack) \in Nat \ {0} /\ stack[1].k # "boot"
    BY <1>1, <1>3, PopFrame DEF top
  <1>5. StackOK' /\ BootOK' /\ FiniOK'
    BY <1>1, <1>2, <1>4 DEF ExitInv, StackOK, BootOK, FiniOK, tableVars
  <1> QED BY <1>1, <1>2, <1>5 DEF ExitInv, tableVars

\* __cxa_atexit of a handler that is newer than all accepted ones.
LEMMA Enters ==
    ASSUME ExitInv, NEW h \in Handler, \A g \in accepted : g < h, cxa_atexit(h),
           tries' \in tries .. MaxReg, h <= tries', UNCHANGED <<exits, halted, order>>
    PROVE  /\ ScalarsOK' /\ TableOK' /\ CallsOK' /\ Started' = Started
           /\ accepted \subseteq accepted'
           /\ atexit_nxt = 0 => h \in accepted'
  <1>1. Started' = Started
    BY DEF Started
  <1>2. /\ h \in Nat /\ h \notin accepted /\ h \notin Started
        /\ accepted \subseteq 0 .. tries /\ tries \in 0 .. MaxReg
        /\ atexit_nxt \in 0 .. CAPACITY
    BY BoundsOK DEF ExitInv, ScalarsOK, CallsOK, Handler
  <1>3. CASE atexit_nxt = CAPACITY
    <2>1. UNCHANGED <<atexits, atexit_nxt, accepted>>
      BY <1>3 DEF cxa_atexit
    <2>2. accepted' \subseteq 0 .. tries' /\ tries' \in 0 .. MaxReg
      BY <1>2, <2>1, BoundsOK
    <2>3. ScalarsOK'
      BY <2>1, <2>2 DEF ExitInv, ScalarsOK
    <2>4. TableOK' /\ CallsOK'
      BY <1>1, <2>1 DEF ExitInv, TableOK, CallsOK
    <2> QED BY <1>1, <1>3, <2>1, <2>3, <2>4, CapacityOK
  <1>4. CASE atexit_nxt # CAPACITY
    <2>1. /\ atexits' = [atexits EXCEPT ![atexit_nxt] = h]
          /\ atexit_nxt' = atexit_nxt + 1
          /\ accepted' = accepted \cup {h}
      BY <1>4 DEF cxa_atexit
    <2>2. atexit_nxt \in 0 .. CAPACITY - 1 /\ atexit_nxt' \in 0 .. CAPACITY
      BY <1>2, <1>4, <2>1, CapacityOK
    <2>3. accepted' \subseteq 0 .. tries' /\ tries' \in 0 .. MaxReg
      BY <1>2, <2>1, BoundsOK
    <2>4. ScalarsOK'
      BY <2>1, <2>2, <2>3 DEF ExitInv, ScalarsOK
    <2>5. /\ atexits'[atexit_nxt] = h
          /\ \A i \in 0 .. atexit_nxt - 1 : atexits'[i] = atexits[i]
          /\ 0 .. atexit_nxt' - 1 = (0 .. atexit_nxt - 1) \cup {atexit_nxt}
      BY <2>1, <2>2, CapacityOK DEF ExitInv, ScalarsOK
    <2>6. TableOK'
      <3>1. \A i \in 0 .. atexit_nxt' - 1 : atexits'[i] \in accepted' \ Started
        BY <1>2, <2>1, <2>5 DEF ExitInv, TableOK
      <3>2. \A i, j \in 0 .. atexit_nxt' - 1 : i < j => atexits'[i] < atexits'[j]
        <4> SUFFICES ASSUME NEW i \in 0 .. atexit_nxt' - 1, NEW j \in 0 .. atexit_nxt' - 1, i < j
                     PROVE  atexits'[i] < atexits'[j]
          OBVIOUS
        <4>1. i \in 0 .. atexit_nxt - 1
          BY <2>1, <2>2
        <4>2. CASE j = atexit_nxt
          BY <2>5, <4>1, <4>2 DEF ExitInv, TableOK
        <4>3. CASE j # atexit_nxt
          BY <2>5, <4>1, <4>3 DEF ExitInv, TableOK
        <4> QED BY <4>2, <4>3
      <3>3. ASSUME NEW g \in accepted' \ Started
            PROVE  \E i \in 0 .. atexit_nxt' - 1 : atexits'[i] = g
        BY <2>1, <2>5 DEF ExitInv, TableOK
      <3> QED BY <1>1, <3>1, <3>2, <3>3 DEF TableOK
    <2>7. CallsOK'
      BY <1>1, <2>1 DEF ExitInv, CallsOK
    <2> QED BY <1>1, <2>1, <2>4, <2>6, <2>7
  <1> QED BY <1>3, <1>4

\* _start registers _fini.
LEMMA StartStep ==
    ASSUME ExitInv, Start
    PROVE  ExitInv'
  <1> DEFINE f == Frame("init", NumCtors)
  <1>1. f \in Frames /\ f.k = "init"
    BY ListsOK DEF Frame, Frames
  <1> HIDE DEF f
  <1>2. stack \in Seq(Frames) /\ stack # <<>>
    BY DEF ExitInv, StackOK
  <1>3. stack[1].k = "boot" /\ Len(stack) \in Nat \ {0}
    BY <1>2, PopFrame DEF top, Start, In
  <1>4. Len(stack) = 1 /\ atexit_nxt = 0 /\ order = <<>> /\ accepted = {} /\ halted = "no"
    BY <1>3 DEF ExitInv, BootOK
  <1>5. tries' \in tries .. MaxReg /\ FINI \in Handler /\ FINI <= tries'
    BY BoundsOK DEF ExitInv, ScalarsOK, Start, FINI, Handler
  <1>6. cxa_atexit(FINI) /\ UNCHANGED <<exits, halted, order>> /\ \A g \in accepted : g < FINI
    BY <1>4 DEF Start
  <1>7. /\ ScalarsOK' /\ TableOK' /\ CallsOK' /\ Started' = Started
        /\ FINI \in accepted'
    BY <1>4, <1>5, <1>6, Enters
  <1>8. Tail(stack) \in Seq(Frames) /\ Len(Tail(stack)) = 0
    BY <1>2, <1>4, PopFrame
  <1>9. stack' \in Seq(Frames) /\ stack' # <<>> /\ Len(stack') = 1 /\ stack'[1].k = "init"
    BY <1>1, <1>8, PushFrame DEF f, Start, Replace
  <1>10. StackOK' /\ BootOK'
    BY <1>7, <1>9 DEF StackOK, BootOK
  <1>11. Started = {}
    BY <1>4 DEF Started
  <1>12. FiniOK'
    BY <1>7, <1>9, <1>11 DEF FiniOK
  <1>13. halted' = "no"
    BY <1>4 DEF Start
  <1> QED BY <1>7, <1>10, <1>12, <1>13 DEF ExitInv

\* User code registers a handler.
LEMMA RegisterStep ==
    ASSUME ExitInv, Register
    PROVE  ExitInv'
  <1>1. stack \in Seq(Frames) /\ stack # <<>>
    BY DEF ExitInv, StackOK
  <1>2. stack[1].k = "user" /\ Len(stack) \in Nat \ {0} /\ halted = "no"
    BY <1>1, PopFrame DEF top, Register, In
  <1>3. /\ tries + 1 \in Handler /\ tries' = tries + 1 /\ tries' \in tries .. MaxReg
        /\ tries + 1 <= tries' /\ \A g \in accepted : g < tries + 1
    BY BoundsOK DEF ExitInv, ScalarsOK, Register, Handler
  <1>4. /\ ScalarsOK' /\ TableOK' /\ CallsOK' /\ Started' = Started
        /\ accepted \subseteq accepted'
    BY <1>3, Enters DEF Register
  <1>5. UNCHANGED <<stack, halted>>
    BY DEF Register
  <1>6. StackOK' /\ BootOK' /\ FiniOK'
    BY <1>2, <1>4, <1>5 DEF ExitInv, StackOK, BootOK, FiniOK
  <1> QED BY <1>2, <1>4, <1>5, <1>6 DEF ExitInv

\* _init calls a constructor or main.
LEMMA InitStep ==
    ASSUME ExitInv, Construct \/ CallMain
    PROVE  ExitInv'
  <1>1. stack \in Seq(Frames) /\ stack # <<>>
    BY DEF ExitInv, StackOK
  <1>2. top \in Frames
    BY <1>1 DEF top
  <1>3. UNCHANGED <<tableVars, order, exits, halted>> /\ top.k = "init"
    BY DEF Construct, CallMain, In
  <1>4. CASE Construct
    <2>1. Frame("init", top.n - 1) \in Frames /\ Frame("init", top.n - 1).k \in {"init", "exit"}
      BY <1>2, <1>4 DEF Construct, Frame, Frames
    <2> QED BY <1>3, <1>4, <2>1, CallsUser DEF Construct
  <1>5. CASE CallMain
    <2>1. Frame("exit", 0) \in Frames /\ Frame("exit", 0).k \in {"init", "exit"}
      BY DEF Frame, Frames
    <2> QED BY <1>3, <1>5, <2>1, CallsUser DEF CallMain
  <1> QED BY <1>4, <1>5

Called == Handler \cup { - n : n \in 1 .. NumDtors }

\* __cxa_finalize takes the newest handler that has not been called.
LEMMA Newest ==
    ASSUME ExitInv, Finalize, NEW h, h = atexits[atexit_nxt - 1]
    PROVE  /\ h \in Handler /\ h \in accepted /\ h \notin Started
           /\ \A g \in accepted \ Started : g # h =>
                  g < h /\ \E i \in 0 .. atexit_nxt - 2 : atexits[i] = g
           /\ order' = Append(order, h)
           /\ stack' = <<IF h = FINI THEN Frame("fini", 1) ELSE Frame("user", 0)>> \o stack
           /\ atexit_nxt' = atexit_nxt - 1 /\ atexit_nxt' \in 0 .. CAPACITY
           /\ UNCHANGED <<atexits, tries, exits, halted, accepted>>
           /\ halted = "no" /\ top.k = "exit"
  <1>1. /\ atexit_nxt \in 1 .. CAPACITY /\ atexit_nxt - 1 \in 0 .. atexit_nxt - 1
        /\ accepted \subseteq Handler
    BY CapacityOK, BoundsOK DEF ExitInv, ScalarsOK, Finalize, Handler
  <1>2. h \in accepted /\ h \notin Started
    BY <1>1 DEF ExitInv, TableOK
  <1>3. ASSUME NEW g \in accepted \ Started, g # h
        PROVE  g < h /\ \E i \in 0 .. atexit_nxt - 2 : atexits[i] = g
    <2>1. PICK i \in 0 .. atexit_nxt - 1 : atexits[i] = g
      BY DEF ExitInv, TableOK
    <2>2. i # atexit_nxt - 1
      BY <1>3, <2>1
    <2>3. i < atexit_nxt - 1 /\ i \in 0 .. atexit_nxt - 2
      BY <1>1, <2>2
    <2> QED BY <1>1, <2>1, <2>3 DEF ExitInv, TableOK
  <1> QED BY <1>1, <1>2, <1>3, CapacityOK DEF Finalize, CallHandler, Push, In

\* The call of a handler.
LEMMA FinalizeStep ==
    ASSUME ExitInv, Finalize
    PROVE  ExitInv'
  <1> DEFINE h == atexits[atexit_nxt - 1]
             f == IF h = FINI THEN Frame("fini", 1) ELSE Frame("user", 0)
  <1>1. /\ h \in Handler /\ h \in accepted /\ h \notin Started
        /\ \A g \in accepted \ Started : g # h => \E i \in 0 .. atexit_nxt - 2 : atexits[i] = g
        /\ order' = Append(order, h)
        /\ stack' = <<f>> \o stack
        /\ atexit_nxt' = atexit_nxt - 1 /\ atexit_nxt' \in 0 .. CAPACITY
        /\ UNCHANGED <<atexits, tries, exits, halted, accepted>>
        /\ halted = "no" /\ top.k = "exit"
    BY Newest
  <1>2. /\ f \in Frames /\ f.k \in {"fini", "user"}
        /\ f.k = "fini" <=> h = FINI
        /\ f.k = "fini" => f.n = 1
    BY DEF Frame, Frames
  <1> HIDE DEF f
  <1>3. stack \in Seq(Frames) /\ stack # <<>> /\ stack[Len(stack)].k \notin {"user", "fini"}
    BY DEF ExitInv, StackOK
  <1>4. stack[1].k = "exit" /\ Len(stack) \in Nat \ {0}
    BY <1>1, <1>3, PopFrame DEF top
  <1>5. /\ stack' \in Seq(Frames)
        /\ Len(stack') = Len(stack) + 1
        /\ stack'[1] = f
        /\ \A i \in 2 .. Len(stack) + 1 : stack'[i] = stack[i - 1]
    BY <1>1, <1>2, <1>3, PushFrame
  <1>6. order \in Seq(Called) /\ h \in Called /\ Len(order) \in Nat
    BY <1>1 DEF ExitInv, ScalarsOK, Called
  <1>7. /\ order' \in Seq(Called)
        /\ Len(order') = Len(order) + 1
        /\ order'[Len(order) + 1] = h
        /\ \A i \in 1 .. Len(order) : order'[i] = order[i]
        /\ Started' = Started \cup {h}
    BY <1>1, <1>6, OneMoreCall DEF Started
  <1>8. \A i \in 1 .. Len(stack) : stack[i].k # "boot"
    BY <1>4 DEF ExitInv, BootOK
  <1>9. StackOK'
    <2>1. stack'[Len(stack')] = stack[Len(stack)]
      BY <1>4, <1>5
    <2> QED BY <1>3, <1>4, <1>5, <2>1 DEF StackOK
  <1>10. BootOK'
    <2>1. \A i \in 1 .. Len(stack') : stack'[i].k # "boot"
      BY <1>2, <1>4, <1>5, <1>8
    <2> QED BY <1>1, <1>8, <2>1 DEF ExitInv, BootOK
  <1>11. ScalarsOK'
    BY <1>1, <1>7 DEF ExitInv, ScalarsOK, Called
  <1>12. TableOK'
    <2>1. atexit_nxt \in 1 .. CAPACITY
      BY <1>1, CapacityOK DEF ExitInv, ScalarsOK
    <2>2. \A i \in 0 .. atexit_nxt - 2 : i \in 0 .. atexit_nxt - 1 /\ i < atexit_nxt - 1
      BY <2>1
    <2>3. \A i \in 0 .. atexit_nxt - 2 : atexits[i] \in accepted \ Started /\ atexits[i] # h
      <3>1. atexit_nxt - 1 \in 0 .. atexit_nxt - 1
        BY <2>1
      <3>2. \A i \in 0 .. atexit_nxt - 2 : atexits[i] < h /\ atexits[i] \in accepted \ Started
        BY <2>2, <3>1 DEF ExitInv, TableOK
      <3>3. h \in Int
        BY <1>1 DEF Handler
      <3> QED BY <3>2, <3>3
    <2>4. atexit_nxt' - 1 = atexit_nxt - 2
      BY <1>1, <2>1
    <2>5. \A i, j \in 0 .. atexit_nxt - 2 : i < j => atexits[i] < atexits[j]
      BY <2>2 DEF ExitInv, TableOK
    <2> QED BY <1>1, <1>7, <2>3, <2>4, <2>5 DEF TableOK
  <1>13. CallsOK'
    <2>1. \A g \in Started' : g >= 0 => g \in accepted'
      BY <1>1, <1>7 DEF ExitInv, CallsOK
    <2>2. \A i \in 1 .. Len(order) : order[i] # h
      BY <1>1 DEF Started
    <2>3. \A i, j \in 1 .. Len(order') : order'[i] = order'[j] => i = j
      BY <1>6, <1>7, <2>2 DEF ExitInv, CallsOK
    <2>4. h >= 0
      BY <1>1 DEF Handler
    <2>5. \A i, j \in 1 .. Len(order') :
              i < j /\ order'[i] < 0 /\ order'[j] < 0 => order'[j] < order'[i]
      <3> SUFFICES ASSUME NEW i \in 1 .. Len(order'), NEW j \in 1 .. Len(order'),
                          i < j, order'[i] < 0, order'[j] < 0
                   PROVE  order'[j] < order'[i]
        OBVIOUS
      <3>1. j # Len(order) + 1
        BY <1>1, <1>7, <2>4 DEF Handler
      <3>2. i \in 1 .. Len(order) /\ j \in 1 .. Len(order)
        BY <1>6, <1>7, <3>1
      <3> QED BY <1>7, <3>2 DEF ExitInv, CallsOK
    <2> QED BY <2>1, <2>3, <2>5 DEF CallsOK
  <1>14. FiniOK'
    <2>1. \A m \in 1 .. NumDtors : - m # h
      BY <1>1, ListsOK DEF Handler
    <2>2. CASE h = FINI
      <3>1. \A i \in 1 .. Len(stack) : stack[i].k # "fini"
        BY <1>1, <2>2 DEF ExitInv, FiniOK
      <3>2. \A m \in 1 .. NumDtors : - m \notin Started'
        BY <1>1, <1>7, <2>1, <2>2 DEF ExitInv, FiniOK
      <3>3. \A i \in 1 .. Len(stack') : stack'[i].k = "fini" => i = 1
        BY <1>4, <1>5, <3>1
      <3>4. 1 \in 1 .. Len(stack') /\ stack'[1].k = "fini" /\ stack'[1].n = 1
        BY <1>2, <1>4, <1>5, <2>2
      <3>5. FINI \in Started'
        BY <1>7, <2>2
      <3> QED BY <3>2, <3>3, <3>4, <3>5, ListsOK DEF FiniOK
    <2>3. CASE h # FINI
      <3>1. /\ FINI \in Started' <=> FINI \in Started
            /\ \A m \in 1 .. NumDtors : - m \in Started' <=> - m \in Started
        BY <1>7, <2>1, <2>3
      <3>2. \A i \in 1 .. Len(stack') : stack'[i].k = "fini" =>
                i - 1 \in 1 .. Len(stack) /\ stack'[i] = stack[i - 1]
        BY <1>2, <1>4, <1>5, <2>3
      <3>3. \A i \in 1 .. Len(stack) : stack[i].k = "fini" =>
                i + 1 \in 1 .. Len(stack') /\ stack'[i + 1].k = "fini"
        BY <1>4, <1>5
      <3>4. ASSUME NEW i \in 1 .. Len(stack'), NEW j \in 1 .. Len(stack'),
                   stack'[i].k = "fini", stack'[j].k = "fini"
            PROVE  i = j
        <4>1. i - 1 = j - 1
          BY <3>2, <3>4 DEF ExitInv, FiniOK
        <4> QED BY <1>4, <1>5, <4>1
      <3>5. ASSUME NEW i \in 1 .. Len(stack'), stack'[i].k = "fini"
            PROVE  /\ FINI \in Started
                   /\ stack'[i].n \in 1 .. NumDtors + 1
                   /\ \A m \in 1 .. NumDtors : - m \in Started <=> m < stack'[i].n
        BY <3>2, <3>5 DEF ExitInv, FiniOK
      <3> QED BY <3>1, <3>3, <3>4, <3>5 DEF ExitInv, FiniOK
    <2> QED BY <2>2, <2>3
  <1> QED BY <1>1, <1>9, <1>10, <1>11, <1>12, <1>13, <1>14 DEF ExitInv

\* _fini calls its next destructor.
LEMMA DestructStep ==
    ASSUME ExitInv, Destruct
    PROVE  ExitInv'
  <1> DEFINE N == top.n
             u == Frame("user", 0)
             g == Frame("fini", N + 1)
  <1>1. stack \in Seq(Frames) /\ stack # <<>> /\ stack[Len(stack)].k \notin {"user", "fini"}
    BY DEF ExitInv, StackOK
  <1>2. /\ stack[1].k = "fini" /\ Len(stack) \in Nat \ {0} /\ stack[1] \in Frames
        /\ stack[1].n = N /\ halted = "no" /\ N <= NumDtors
    BY <1>1, PopFrame DEF top, Destruct, In
  <1>3. /\ N \in 1 .. NumDtors /\ FINI \in Started
        /\ \A m \in 1 .. NumDtors : - m \in Started <=> m < N
    BY <1>2, ListsOK DEF ExitInv, FiniOK
  <1>4. /\ stack' = <<u, g>> \o Tail(stack)
        /\ order' = Append(order, - N)
        /\ UNCHANGED <<tableVars, exits, halted>>
    BY DEF Destruct
  <1> HIDE DEF N
  <1>5. u \in Frames /\ u.k = "user" /\ g \in Frames /\ g.k = "fini" /\ g.n = N + 1
    BY <1>3, ListsOK DEF Frame, Frames
  <1> HIDE DEF u, g
  <1>6. /\ stack' \in Seq(Frames)
        /\ Len(stack') = Len(stack) + 1
        /\ stack'[1] = u
        /\ stack'[2] = g
        /\ \A i \in 3 .. Len(stack) + 1 : stack'[i] = stack[i - 1]
    BY <1>1, <1>4, <1>5, CallFrame
  <1>7. order \in Seq(Called) /\ - N \in Called /\ Len(order) \in Nat
    BY <1>3 DEF ExitInv, ScalarsOK, Called
  <1>8. /\ order' \in Seq(Called)
        /\ Len(order') = Len(order) + 1
        /\ order'[Len(order) + 1] = - N
        /\ \A i \in 1 .. Len(order) : order'[i] = order[i]
        /\ Started' = Started \cup {- N}
    BY <1>4, <1>7, OneMoreCall DEF Started
  <1>9. /\ - N \notin Started /\ - N < 0 /\ - N \in Int
        /\ \A i \in 1 .. Len(order) : order[i] < 0 => - N < order[i]
    <2>1. - N \notin Started /\ - N < 0 /\ - N \in Int
      BY <1>3, ListsOK
    <2>2. ASSUME NEW i \in 1 .. Len(order), order[i] < 0
          PROVE  - N < order[i]
      <3>1. order[i] \in Started /\ order[i] \in Called
        BY <1>7 DEF Started
      <3>2. PICK m \in 1 .. NumDtors : order[i] = - m
        BY <2>2, <3>1, BoundsOK DEF Called, Handler
      <3>3. m < N
        BY <1>3, <3>1, <3>2
      <3> QED BY <1>3, <3>2, <3>3, ListsOK
    <2> QED BY <2>1, <2>2
  <1>10. \A i \in 1 .. Len(stack) : stack[i].k # "boot"
    BY <1>2 DEF ExitInv, BootOK
  <1>11. StackOK'
    <2>1. stack'[Len(stack')] = stack[Len(stack)]
      BY <1>1, <1>2, <1>6
    <2> QED BY <1>1, <1>2, <1>6, <2>1 DEF StackOK
  <1>12. BootOK'
    <2>1. \A i \in 1 .. Len(stack') : stack'[i].k # "boot"
      BY <1>2, <1>5, <1>6, <1>10
    <2> QED BY <1>4, <1>10, <2>1 DEF ExitInv, BootOK, tableVars
  <1>13. ScalarsOK'
    BY <1>4, <1>8 DEF ExitInv, ScalarsOK, Called, tableVars
  <1>14. TableOK'
    <2>1. \A h \in accepted : h # - N
      BY <1>9 DEF ExitInv, ScalarsOK
    <2> QED BY <1>4, <1>8, <2>1 DEF ExitInv, TableOK, tableVars
  <1>15. CallsOK'
    <2>1. \A h \in Started' : h >= 0 => h \in accepted'
      BY <1>4, <1>8, <1>9 DEF ExitInv, CallsOK, tableVars
    <2>2. \A i \in 1 .. Len(order) : order[i] # - N
      BY <1>9 DEF Started
    <2>3. \A i, j \in 1 .. Len(order') : order'[i] = order'[j] => i = j
      BY <1>7, <1>8, <2>2 DEF ExitInv, CallsOK
    <2>4. \A i, j \in 1 .. Len(order') :
              i < j /\ order'[i] < 0 /\ order'[j] < 0 => order'[j] < order'[i]
      BY <1>7, <1>8, <1>9 DEF ExitInv, CallsOK
    <2> QED BY <2>1, <2>3, <2>4 DEF CallsOK
  <1>16. FiniOK'
    <2>1. \A i \in 1 .. Len(stack) : stack[i].k = "fini" => i = 1
      BY <1>2 DEF ExitInv, FiniOK
    <2>2. \A i \in 1 .. Len(stack') : stack'[i].k = "fini" => i = 2
      BY <1>2, <1>5, <1>6, <2>1
    <2>3. 2 \in 1 .. Len(stack') /\ stack'[2].k = "fini" /\ stack'[2].n = N + 1
      BY <1>2, <1>5, <1>6
    <2>4. \A m \in 1 .. NumDtors : - m \in Started' <=> m < N + 1
      <3>1. \A m \in 1 .. NumDtors : - m = - N <=> m = N
        BY <1>3, ListsOK
      <3>2. \A m \in 1 .. NumDtors : m < N + 1 <=> m < N \/ m = N
        BY <1>3, ListsOK
      <3> QED BY <1>3, <1>8, <3>1, <3>2
    <2>5. FINI \in Started' /\ N + 1 \in 1 .. NumDtors + 1
      BY <1>3, <1>8, ListsOK
    <2> QED BY <2>2, <2>3, <2>4, <2>5 DEF FiniOK
  <1> QED BY <1>2, <1>4, <1>11, <1>12, <1>13, <1>14, <1>15, <1>16 DEF ExitInv

\* _fini returns once it has called every destructor.
LEMMA FiniReturnsStep ==
    ASSUME ExitInv, FiniReturns
    PROVE  ExitInv'
  <1>1. stack \in Seq(Frames) /\ stack # <<>> /\ stack[Len(stack)].k \notin {"user", "fini"}
    BY DEF ExitInv, StackOK
  <1>2. /\ stack[1].k = "fini" /\ Len(stack) \in Nat \ {0} /\ stack[1] \in Frames
        /\ halted = "no" /\ stack[1].n > NumDtors
        /\ UNCHANGED <<tableVars, exits, halted, order>>
    BY <1>1, PopFrame DEF top, FiniReturns, In
  <1>3. /\ stack' \in Seq(Frames)
        /\ Len(stack') = Len(stack) - 1
        /\ \A i \in 1 .. Len(stack) - 1 : stack'[i] = stack[i + 1]
    BY <1>1, PopFrame DEF FiniReturns, Pop
  <1>4. ScalarsOK' /\ TableOK' /\ CallsOK' /\ Started' = Started
    BY <1>2, TableKept DEF ExitInv, ScalarsOK
  <1>5. \A m \in 1 .. NumDtors : - m \in Started
    <2>1. stack[1].n = NumDtors + 1 /\ \A m \in 1 .. NumDtors : - m \in Started <=> m < stack[1].n
      BY <1>2, ListsOK DEF ExitInv, FiniOK
    <2> QED BY <2>1, ListsOK
  <1>6. \A i \in 1 .. Len(stack) : stack[i].k # "boot"
    BY <1>2 DEF ExitInv, BootOK
  <1>7. Len(stack) > 1
    BY <1>1, <1>2
  <1>8. StackOK' /\ BootOK'
    BY <1>1, <1>2, <1>3, <1>6, <1>7 DEF ExitInv, StackOK, BootOK, tableVars
  <1>9. \A i \in 1 .. Len(stack') : stack'[i].k # "fini"
    <2>1. \A i \in 1 .. Len(stack) : stack[i].k = "fini" => i = 1
      BY <1>2 DEF ExitInv, FiniOK
    <2> QED BY <1>2, <1>3, <2>1
  <1>10. FiniOK'
    <2>1. FINI \in Started
      BY <1>2 DEF ExitInv, FiniOK
    <2> QED BY <1>4, <1>5, <1>9, <2>1 DEF FiniOK
  <1> QED BY <1>2, <1>4, <1>8, <1>10 DEF ExitInv, tableVars

\* Every step keeps the invariant.
LEMMA NextInv == ExitInv /\ [Next]_vars => ExitInv'
  <1> SUFFICES ASSUME ExitInv, [Next]_vars PROVE ExitInv'
    OBVIOUS
  <1>1. CASE Start
    BY <1>1, StartStep
  <1>2. CASE Construct \/ CallMain
    BY <1>2, InitStep
  <1>3. CASE Finalize
    BY <1>3, FinalizeStep
  <1>4. CASE ClibExit \/ Abort
    BY <1>4, Ends
  <1>5. CASE Destruct
    BY <1>5, DestructStep
  <1>6. CASE FiniReturns
    BY <1>6, FiniReturnsStep
  <1>7. CASE Register
    BY <1>7, RegisterStep
  <1>8. CASE CallExit \/ UserReturns
    BY <1>8, UserCalls
  <1>9. CASE UNCHANGED vars
    <2>1. Started' = Started
      BY <1>9 DEF vars, Started
    <2> QED BY <1>9, <2>1 DEF vars, ExitInv, StackOK, ScalarsOK, BootOK, TableOK, CallsOK, FiniOK
  <1> QED BY <1>1, <1>2, <1>3, <1>4, <1>5, <1>6, <1>7, <1>8, <1>9 DEF Next, Runtime

\* The invariant of every reachable state.
LEMMA AlwaysInv == Spec => []ExitInv
  BY InitInv, NextInv, PTL DEF Spec

----------------------------------------------------------------------------
(* The theorems.                                                           *)

\* The table of atexit.c never overflows, only what was registered or listed
\* is called, and no return leaves the stack empty.
THEOREM TypeCorrect == Spec => []ExitTypeOK
  <1>1. ExitInv => ExitTypeOK
    <2> SUFFICES ASSUME ExitInv PROVE ExitTypeOK
      OBVIOUS
    <2>1. \A i \in 1 .. Len(stack) :
              stack[i].k \in {"boot", "init", "user", "exit", "fini"} /\ stack[i].n \in Nat
      <3>1. stack \in Seq(Frames)
        BY DEF ExitInv, StackOK
      <3>2. \A i \in 1 .. Len(stack) : stack[i] \in Frames
        BY <3>1
      <3> QED BY <3>2 DEF Frames
    <2>2. \A i \in 1 .. Len(order) : order[i] \in Handler \cup { - n : n \in 1 .. NumDtors }
      BY DEF ExitInv, ScalarsOK
    <2>3. accepted \subseteq Handler
      BY BoundsOK DEF ExitInv, ScalarsOK, Handler
    <2> QED BY <2>1, <2>2, <2>3 DEF ExitInv, StackOK, ScalarsOK, ExitTypeOK
  <1> QED BY <1>1, AlwaysInv, PTL

\* exit runs every accepted handler and none twice, for a table of any size,
\* also the handlers that handlers register and those of a nested exit.
THEOREM RunOnce == Spec => []HandlersRunOnce
  <1>1. ExitInv => HandlersRunOnce
    <2> SUFFICES ASSUME ExitInv PROVE HandlersRunOnce
      OBVIOUS
    <2>1. ASSUME halted = "exit", NEW h \in accepted PROVE h \in Started
      <3>1. atexit_nxt = 0
        BY <2>1 DEF ExitInv
      <3>2. ~ \E i \in 0 .. atexit_nxt - 1 : atexits[i] = h
        BY <3>1
      <3> QED BY <2>1, <3>2 DEF ExitInv, TableOK
    <2> QED BY <2>1 DEF ExitInv, CallsOK, HandlersRunOnce
  <1> QED BY <1>1, AlwaysInv, PTL

\* Destructors run in the order of their list and, unless user code called by
\* _fini ended the program, all of them have run when exit ends it.
THEOREM AllDestructed == Spec => []DestructorsRun
  <1>1. ExitInv => DestructorsRun
    <2> SUFFICES ASSUME ExitInv PROVE DestructorsRun
      OBVIOUS
    <2>1. ASSUME halted = "exit", \A i \in 1 .. Len(stack) : stack[i].k # "fini"
          PROVE  \A n \in 1 .. NumDtors : - n \in Started
      <3>1. \A i \in 1 .. Len(stack) : stack[i].k # "boot"
        BY <2>1 DEF ExitInv, BootOK
      <3>2. FINI \in accepted
        BY <3>1 DEF ExitInv, BootOK
      <3>3. atexit_nxt = 0
        BY <2>1 DEF ExitInv
      <3>4. ~ \E i \in 0 .. atexit_nxt - 1 : atexits[i] = FINI
        BY <3>3
      <3>5. FINI \in Started
        BY <3>2, <3>4 DEF ExitInv, TableOK
      <3> QED BY <2>1, <3>5 DEF ExitInv, FiniOK
    <2> QED BY <2>1 DEF ExitInv, CallsOK, DestructorsRun
  <1> QED BY <1>1, AlwaysInv, PTL

\* Handlers are called in the reverse order of their registration.
THEOREM ReverseOrder == Spec => LastInFirstOut
  <1> DEFINE Lifo == \A h \in accepted : order' = Append(order, h) =>
                         \A g \in accepted : g > h => g \in Started
  <1>1. ExitInv /\ [Next]_vars => [Lifo]_vars
    <2> SUFFICES ASSUME ExitInv, Next, NEW h \in accepted, order' = Append(order, h),
                        NEW g \in accepted, g > h
                 PROVE  g \in Started
      OBVIOUS
    <2>1. order \in Seq(Called) /\ h \in Called /\ h >= 0 /\ h \in Int /\ g \in Int
      BY BoundsOK DEF ExitInv, ScalarsOK, Called, Handler
    <2>2. order' # order
      BY <2>1, OneMoreCall
    <2>3. ~ Destruct
      <3> SUFFICES ASSUME Destruct PROVE FALSE
        OBVIOUS
      <3>1. stack \in Seq(Frames) /\ stack # <<>>
        BY DEF ExitInv, StackOK
      <3>2. stack[1] = top /\ top.k = "fini" /\ Len(stack) \in Nat \ {0}
        BY <3>1, PopFrame DEF top, Destruct, In
      <3>3. top.n \in 1 .. NumDtors
        <4>1. stack[1].n \in 1 .. NumDtors + 1
          BY <3>2 DEF ExitInv, FiniOK
        <4>2. top.n <= NumDtors
          BY DEF Destruct
        <4> HIDE DEF top
        <4> QED BY <3>2, <4>1, <4>2, ListsOK
      <3>4. - top.n \in Called /\ order' = Append(order, - top.n)
        BY <3>3 DEF Called, Destruct
      <3>5. h = - top.n
        BY <2>1, <3>4, LastCall
      <3> QED BY <2>1, <3>3, <3>5, ListsOK
    <2>4. Finalize
      BY <2>2, <2>3 DEF Next, Runtime, Start, Construct, CallMain, ClibExit, FiniReturns,
                        Register, CallExit, Abort, UserReturns
    <2> DEFINE t == atexits[atexit_nxt - 1]
    <2>5. /\ t \in Handler /\ order' = Append(order, t)
          /\ \A k \in accepted \ Started : k # t => k < t
      BY <2>4, Newest
    <2> HIDE DEF t
    <2>6. h = t
      <3>1. t \in Called
        BY <2>5 DEF Called
      <3> QED BY <2>1, <2>5, <3>1, LastCall
    <2> QED BY <2>1, <2>5, <2>6
  <1> QED BY <1>1, AlwaysInv, PTL DEF Spec, LastInFirstOut
=============================================================================
