------------------------------ MODULE Divider -------------------------------
(***************************************************************************)
(* The multi-cycle divide unit (div.p).  A request of the core is taken in *)
(* the cycle in which the unit is idle, W division steps follow, and the   *)
(* result goes to register Q_addr_reg over the write port w1.  Requests    *)
(* that come while the unit is busy, or name register 0, are not taken.    *)
(***************************************************************************)
EXTENDS Integers

CONSTANTS W,        \* width of a word (32)
          Regs      \* register numbers that requests name

ASSUME WidthOK == W \in Nat \ {0}
ASSUME RegsOK == Regs \subseteq Nat
\* A law of arithmetic, which the proofs cite: the prover knows none of `^'.
ASSUME PowersOfTwo == \A m, n \in 0 .. W + 1 : 2^m \in Nat \ {0} /\ 2^(m + n) = 2^m * 2^n

Words == 0 .. 2^W - 1
Neg(x) == x >= 2^(W - 1)
\* Fault: the carry out of the word is kept.
Minus_wide(x) == 2^W - x
Minus(x) == (2^W - x) % 2^W
Signed(x) == IF Neg(x) THEN x - 2^W ELSE x
Word(i) == i % 2^W

Requests == [op : {"divs", "divu", "rems", "remu"}, a : Words, b : Words, wad : Regs]
NoRequest == [op |-> "none", a |-> 0, b |-> 0, wad |-> 0]
NoReg == -1
NoWrite == [addr |-> NoReg, val |-> 0]

VARIABLES
    cnt,            \* steps to go
    PA,             \* partial remainder and quotient, 2W bits
    B,              \* divisor
    Q_addr_reg, is_div, is_neg,
    w1,             \* the write made in the last cycle
    accepted,       \* auxiliary: the request in work
    seen            \* auxiliary: register announced by div_wnc in the last cycle

regs == <<cnt, PA, B, Q_addr_reg, is_div, is_neg>>
vars == <<regs, w1, accepted, seen>>

----------------------------------------------------------------------------
(* The behavioural models of the instruction-accurate simulator.           *)

Abs(i) == IF i < 0 THEN - i ELSE i
\* C's / and %, which round towards zero.
Quot(x, y) == LET q == Abs(x) \div Abs(y) IN IF (x < 0) = (y < 0) THEN q ELSE - q
Rem(x, y) == x - y * Quot(x, y)

Reference(req) ==
    LET a == req.a
        b == req.b
    IN  CASE req.op = "divs" -> Word(IF b = 0 THEN -1 ELSE Quot(Signed(a), Signed(b)))
          [] req.op = "rems" -> IF b = 0 THEN a ELSE Word(Rem(Signed(a), Signed(b)))
          [] req.op = "divu" -> Word(IF b = 0 THEN -1 ELSE a \div b)
          [] req.op = "remu" -> IF b = 0 THEN a ELSE a % b

----------------------------------------------------------------------------
(* The implementation.                                                     *)

Hi(pa) == pa \div 2^W
Lo(pa) == pa % 2^W

\* One division step: shift, and subtract if there is no borrow.
div_step(pa, b) ==
    LET new_pa == (2 * pa) % 2^(2 * W)
        diff == (Hi(new_pa) - b) % 2^(W + 1)
    IN  IF diff < 2^W THEN diff * 2^W + Lo(new_pa) + 1 ELSE new_pa

div_bsy == cnt # 0
div_adr == Q_addr_reg
\* Fault: the announcement comes in the cycle of the write.
div_wnc_late == cnt = 1
div_wnc == cnt = 2

div_start(req) == cnt = 0 /\ req.op # "none" /\ req.wad # 0

\* Operands of signed operations are made positive; the sign of a remainder
\* is that of the dividend.
Start(req) ==
    LET signed == req.op \in {"divs", "rems"}
    IN  /\ div_start(req)
        /\ PA' = IF signed /\ Neg(req.a) THEN Minus(req.a) ELSE req.a
        /\ B'  = IF signed /\ Neg(req.b) THEN Minus(req.b) ELSE req.b
        /\ is_neg' = (signed /\ Neg(req.a) # (Neg(req.b) /\ req.op = "divs"))
        /\ Q_addr_reg' = req.wad
        /\ is_div' = (req.op \in {"divs", "divu"})
        /\ cnt' = W + 1
        /\ w1' = NoWrite /\ accepted' = req

\* Fault: the counter stops at 1.
Step_sticks ==
    /\ cnt > 1
    /\ PA' = div_step(PA, B)
    /\ cnt' = IF cnt = 2 THEN 2 ELSE cnt - 1
    /\ w1' = NoWrite
    /\ UNCHANGED <<B, Q_addr_reg, is_div, is_neg, accepted>>

Step ==
    /\ cnt > 1
    /\ PA' = div_step(PA, B)
    /\ cnt' = cnt - 1
    /\ w1' = NoWrite
    /\ UNCHANGED <<B, Q_addr_reg, is_div, is_neg, accepted>>

\* Fault: a division by zero gets the sign of the dividend.
Finish_zero ==
    LET res == IF is_div THEN Lo(PA) ELSE Hi(PA)
    IN  /\ cnt = 1
        /\ w1' = [addr |-> Q_addr_reg, val |-> IF is_neg THEN Minus(res) ELSE res]
        /\ cnt' = 0
        /\ UNCHANGED <<PA, B, Q_addr_reg, is_div, is_neg, accepted>>

\* The result, with its sign; RISC-V's -1 for a division by zero.
Finish ==
    LET res == IF is_div THEN Lo(PA) ELSE Hi(PA)
        val == IF is_neg THEN Minus(res) ELSE res
    IN  /\ cnt = 1
        /\ w1' = [addr |-> Q_addr_reg, val |-> IF B = 0 /\ is_div THEN Word(-1) ELSE val]
        /\ cnt' = 0
        /\ UNCHANGED <<PA, B, Q_addr_reg, is_div, is_neg, accepted>>

Idle(req) ==
    /\ cnt = 0 /\ ~div_start(req)
    /\ w1' = NoWrite
    /\ UNCHANGED <<regs, accepted>>

\* One clock cycle.  The request that the core makes in it matters only when
\* the unit is idle.
Cycle == /\ \/ \E req \in Requests \cup {NoRequest} : Start(req) \/ Idle(req)
            \/ Step \/ Finish
         /\ seen' = IF div_wnc THEN div_adr ELSE NoReg

Init ==
    /\ cnt = 0 /\ PA = 0 /\ B = 0
    /\ Q_addr_reg = 0 /\ is_div = FALSE /\ is_neg = FALSE
    /\ w1 = NoWrite /\ accepted = NoRequest /\ seen = NoReg

\* The clock runs, at least while the unit works.
Spec == Init /\ [][Cycle]_vars /\ WF_vars(div_bsy /\ Cycle)

----------------------------------------------------------------------------
(* Properties.                                                             *)

\* Types: the widths of the registers.
DivTypeOK ==
    /\ cnt \in 0 .. W + 1
    /\ PA \in 0 .. 2^(2 * W) - 1 /\ B \in Words
    /\ Q_addr_reg \in Nat /\ is_div \in BOOLEAN /\ is_neg \in BOOLEAN
    /\ w1 \in [addr : Nat \cup {NoReg}, val : Words]
    /\ accepted \in Requests \cup {NoRequest}
    /\ seen \in Nat \cup {NoReg}

\* After n steps the first n bits of the dividend are divided: PA holds their
\* quotient and remainder and the bits still to come.  What is written is what
\* the instruction-accurate model computes, for zero divisors, -1 and the most
\* negative dividend too, whatever the core requested meanwhile.
DivResult ==
    /\ cnt # 0 =>
           LET todo == cnt - 1
               quot == PA % 2^(W - todo)
               rest == Lo(PA) \div 2^(W - todo)
               a == IF accepted.op \in {"divs", "rems"} THEN Abs(Signed(accepted.a)) ELSE accepted.a
           IN  /\ B # 0 => (quot * B + Hi(PA)) * 2^todo + rest = a /\ Hi(PA) < B
               /\ B = 0 => Hi(PA) * 2^todo + rest = a
    /\ w1 # NoWrite => w1 = [addr |-> accepted.wad, val |-> Reference(accepted)]

\* The unit writes the register file exactly in the cycles that div_wnc and
\* div_adr announced one cycle before, which is what the core needs to keep
\* the port w1 free.
WriteAnnounced == [][w1'.addr = seen]_vars

\* A request that was taken is finished.
DivEnds == div_bsy ~> ~div_bsy
=============================================================================
