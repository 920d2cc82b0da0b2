---------------------------- MODULE Stdio_proofs ----------------------------
(***************************************************************************)
(* The FILE table is exact and its entries are backed by streams of their  *)
(* own, for tables of every size and every number of host streams.         *)
(***************************************************************************)
EXTENDS Stdio, WellFoundedInduction, TLAPS

\* The FILEs that have a host stream.
Good == IF hosted THEN held ELSE {}

\* The inductive invariant.  Added to the two properties: without a host no
\* stream is open, and the stream of a FILE is not one that a failed fclose or
\* freopen left open.
StdioInv ==
    /\ StdioTypeOK /\ TableExact /\ Backed
    /\ ~hosted => open = {}
    /\ \A f \in Good : files[f].stream \notin lost

LessThan == { ss \in Nat \X Nat : ss[1] < ss[2] }

\* The order on the naturals has no infinite descent.
LEMMA LessThanWF == IsWellFoundedOn(LessThan, Nat)
BY NatLessThanWellFounded DEF LessThan, OpToRel

\* A set of table entries that is not empty has a first one: the search loop
\* of fopen, tmpfile and fdopen finds it.
LEMMA FirstFreeIn == Free # {} => FirstFree \in Free
<1> SUFFICES ASSUME Free # {} PROVE FirstFree \in Free
    OBVIOUS
<1>1. Free \subseteq Nat
    BY FopenMaxOK DEF Free, Slot
<1>2. PICK x \in Free : \A y \in Free : ~(<<y, x>> \in LessThan)
    BY <1>1, LessThanWF, WFMin, Zenon
<1>3. \A y \in Free : ~(y < x)
    BY <1>1, <1>2 DEF LessThan
<1>4. \A y \in Free : x <= y
    BY <1>1, <1>3
<1> QED
    BY <1>4 DEF FirstFree

\* The three parts of Backed, without the set of streams.
LEMMA BackedFacts ==
    ASSUME ~hosted => open = {}
    PROVE  Backed <=> /\ \A f, g \in Good : files[f].stream = files[g].stream => f = g
                      /\ \A f \in Good : files[f].stream \in open
                      /\ \A s \in open : s \notin lost => \E f \in Good : files[f].stream = s
BY DEF Backed, Good, StreamsOf

\* The same in the next state.
LEMMA BackedFactsPrime ==
    ASSUME ~hosted' => open' = {}
    PROVE  Backed' <=> /\ \A f, g \in Good' : files'[f].stream = files'[g].stream => f = g
                       /\ \A f \in Good' : files'[f].stream \in open'
                       /\ \A s \in open' : s \notin lost' => \E f \in Good' : files'[f].stream = s
BY DEF Backed, Good, StreamsOf

----------------------------------------------------------------------------
(* The initial state.                                                      *)

\* The invariant holds when the program starts, with a host and without one.
LEMMA InitInv == Init => StdioInv
<1> SUFFICES ASSUME Init PROVE StdioInv
    OBVIOUS
<1> USE FopenMaxOK, StreamsOK
<1>1. Std = FOPEN_MAX .. FOPEN_MAX + NumStd - 1 /\ Std \subseteq File
    BY DEF Std, File, Slot
<1>2. \A f \in Std : files[f].in_use = TRUE
    BY <1>1 DEF Init, Slot
<1>3. \A f \in Slot : files[f].in_use = FALSE
    BY DEF Init, Slot, File
<1>4. \A f \in Std : files[f].stream = f - FOPEN_MAX
    BY <1>1 DEF Init, Slot
<1>5. InUse = Std
    BY <1>2, <1>3 DEF InUse, Std
<1>6. StdioTypeOK
    BY <1>1 DEF Init, StdioTypeOK, Slot, File, Stream
<1>7. TableExact /\ (~hosted => open = {})
    BY <1>5 DEF Init, TableExact
<1>8. Good = IF hosted THEN Std ELSE {}
    BY DEF Init, Good
<1>9. Backed
  <2>1. \A s \in open : \E f \in Good : files[f].stream = s
    <3> SUFFICES ASSUME NEW s \in open PROVE \E f \in Good : files[f].stream = s
        OBVIOUS
    <3>1. hosted /\ s \in 0 .. NumStd - 1
        BY DEF Init
    <3>2. s + FOPEN_MAX \in Std
        BY <1>1, <3>1
    <3> QED
        BY <1>4, <1>8, <3>1, <3>2
  <2>2. \A f \in Good : files[f].stream \in open
    <3> SUFFICES ASSUME NEW f \in Good PROVE files[f].stream \in open
        OBVIOUS
    <3>1. f \in Std /\ open = 0 .. NumStd - 1
        BY <1>8 DEF Init
    <3> QED
        BY <1>1, <1>4, <3>1
  <2>3. \A f, g \in Good : files[f].stream = files[g].stream => f = g
      BY <1>1, <1>4, <1>8
  <2> QED
      BY <1>7, <2>1, <2>2, <2>3, BackedFacts
<1> QED
    BY <1>6, <1>7, <1>8, <1>9 DEF StdioInv, Init, Good

----------------------------------------------------------------------------
(* One lemma for each way in which an action changes the table.            *)

\* A call that leaves the table and the host's streams alone.
LEMMA TableUnchanged ==
    ASSUME StdioInv, UNCHANGED <<files, hosted, open, held, leaked, lost>>,
           errno' \in {0} \cup Error, fds' \subseteq Fd
    PROVE  StdioInv'
<1>1. StdioTypeOK'
    BY DEF StdioInv, StdioTypeOK
<1>2. Backed' /\ TableExact'
    BY DEF StdioInv, TableExact, Backed, InUse, StreamsOf
<1> QED
    BY <1>1, <1>2 DEF StdioInv, Good

\* fopen and fdopen take an entry for a stream that the host has opened.
LEMMA EntryTaken ==
    ASSUME StdioInv, Free # {}, NEW id \in Stream, hosted, HostOpens(id), NewFile(id),
           UNCHANGED <<hosted, fds, lost>>
    PROVE  StdioInv'
<1> DEFINE f0 == FirstFree
<1>1. f0 \in Slot /\ f0 \in File /\ ~files[f0].in_use /\ f0 \notin InUse
    BY FirstFreeIn, FopenMaxOK, StreamsOK DEF Free, Slot, File, InUse
<1>2. f0 \notin held /\ f0 \notin leaked
    BY <1>1 DEF StdioInv, TableExact
<1>3. /\ files' = [files EXCEPT ![f0] = [stream |-> id, in_use |-> TRUE]]
      /\ held' = held \cup {f0} /\ errno' = errno /\ leaked' = leaked
      /\ id \notin open /\ open' = open \cup {id}
    BY DEF NewFile, Enter, HostOpens
<1> HIDE DEF f0
<1>4. StdioTypeOK'
    BY <1>1, <1>3 DEF StdioInv, StdioTypeOK
<1>5. /\ files'[f0] = [stream |-> id, in_use |-> TRUE]
      /\ \A f \in File \ {f0} : files'[f] = files[f]
    BY <1>1, <1>3 DEF StdioInv, StdioTypeOK
<1>6. InUse' = InUse \cup {f0}
    BY <1>1, <1>5 DEF InUse
<1>7. TableExact'
    BY <1>2, <1>3, <1>6 DEF StdioInv, TableExact
<1>8. Good' = Good \cup {f0} /\ f0 \notin Good /\ Good \subseteq File
    BY <1>2, <1>3 DEF Good, StdioInv, StdioTypeOK
<1>9. \A f \in Good : files'[f] = files[f] /\ files[f].stream \in open
    BY <1>5, <1>8, BackedFacts DEF StdioInv
<1>10. Backed'
  <2>1. \A f, g \in Good' : files'[f].stream = files'[g].stream => f = g
      BY <1>3, <1>5, <1>8, <1>9, BackedFacts DEF StdioInv
  <2>2. \A f \in Good' : files'[f].stream \in open'
      BY <1>3, <1>5, <1>8, <1>9
  <2>3. \A s \in open' : s \notin lost' => \E f \in Good' : files'[f].stream = s
    <3> SUFFICES ASSUME NEW s \in open', s \notin lost'
                 PROVE  \E f \in Good' : files'[f].stream = s
        OBVIOUS
    <3>1. CASE s = id
        BY <1>5, <1>8, <3>1
    <3>2. CASE s \in open
        BY <1>8, <1>9, <3>2, BackedFacts DEF StdioInv
    <3> QED
        BY <1>3, <3>1, <3>2
  <2> QED
      BY <2>1, <2>2, <2>3, BackedFactsPrime
<1>11. \A f \in Good' : files'[f].stream \notin lost'
    BY <1>3, <1>5, <1>8, <1>9 DEF StdioInv, StdioTypeOK
<1> QED
    BY <1>4, <1>7, <1>10, <1>11 DEF StdioInv

\* fdopen without a host: the entry is in use and has no stream.
LEMMA UnbackedTaken ==
    ASSUME StdioInv, Free # {}, NEW fd \in Fd, ~hosted, NewFile(fd),
           UNCHANGED <<hosted, open, fds, lost>>
    PROVE  StdioInv'
<1> DEFINE f0 == FirstFree
<1>1. f0 \in File /\ f0 \in Slot /\ f0 \notin InUse
    BY FirstFreeIn, FopenMaxOK, StreamsOK DEF Free, Slot, File, InUse
<1>2. /\ files' = [files EXCEPT ![f0] = [stream |-> fd, in_use |-> TRUE]]
      /\ held' = held \cup {f0} /\ errno' = errno /\ leaked' = leaked
    BY DEF NewFile, Enter
<1> HIDE DEF f0
<1>3. StdioTypeOK'
    BY <1>1, <1>2 DEF StdioInv, StdioTypeOK
<1>4. /\ files'[f0] = [stream |-> fd, in_use |-> TRUE]
      /\ \A f \in File \ {f0} : files'[f] = files[f]
    BY <1>1, <1>2 DEF StdioInv, StdioTypeOK
<1>5. InUse' = InUse \cup {f0}
    BY <1>1, <1>4 DEF InUse
<1>6. TableExact'
    BY <1>1, <1>2, <1>5 DEF StdioInv, TableExact
<1>7. open' = {} /\ Good' = {}
    BY DEF StdioInv, Good
<1>8. Backed'
    BY DEF Backed
<1> QED
    BY <1>3, <1>6, <1>7, <1>8 DEF StdioInv

\* fclose of a FILE that the program holds.  The entry is given back; the
\* host's stream is closed, or it is left open and lost.
LEMMA EntryReleased ==
    ASSUME StdioInv, NEW f0 \in held, fclose(f0)
    PROVE  StdioInv'
<1>1. f0 \in File /\ files[f0].in_use
    BY DEF StdioInv, StdioTypeOK, TableExact, InUse
<1> DEFINE old == files[f0].stream
<1>2. PICK rt \in Answer(EBADF) :
      /\ HostCloses(old, rt)
      /\ errno' = IF rt = 0 THEN errno ELSE rt
    BY <1>1 DEF fclose
<1>3. /\ files' = [files EXCEPT ![f0].in_use = FALSE]
      /\ held' = held \ {f0} /\ leaked' = leaked \ {f0} /\ UNCHANGED <<hosted, fds>>
    BY <1>1 DEF fclose
<1>4. /\ files'[f0].in_use = FALSE
      /\ \A f \in File \ {f0} : files'[f] = files[f]
      /\ files' \in [File -> [stream : Stream \cup Fd, in_use : BOOLEAN]]
    BY <1>1, <1>3 DEF StdioInv, StdioTypeOK
<1>5. InUse' = InUse \ {f0}
    BY <1>1, <1>4 DEF InUse
<1>6. TableExact'
    BY <1>3, <1>5 DEF StdioInv, TableExact
<1>7. /\ Good' = Good \ {f0} /\ Good \subseteq File
      /\ \A f \in Good' : f \in File \ {f0} /\ files'[f] = files[f]
    BY <1>3, <1>4 DEF Good, StdioInv, StdioTypeOK
<1>8. hosted => f0 \in Good
    BY DEF StdioInv, Good
<1>9. /\ open' \subseteq open /\ lost' \subseteq open' /\ lost' \subseteq lost \cup {old}
      /\ open \ {old} \subseteq open' /\ lost \ {old} \subseteq lost'
      /\ old \in open' => old \in lost'
  <2>1. lost \subseteq open
      BY DEF StdioInv, StdioTypeOK
  <2> QED
      BY <1>2, <2>1 DEF HostCloses
<1>10. StdioTypeOK'
  <2>1. rt \in {0, EBADF, EIO}
      BY <1>2 DEF Answer
  <2> QED
      BY <1>2, <1>3, <1>4, <1>9, <2>1 DEF StdioInv, StdioTypeOK, Error
<1>11. \A f \in Good' : files'[f].stream = files[f].stream /\ files[f].stream # old
    BY <1>7, <1>8, BackedFacts DEF StdioInv, Good
<1>12. ~hosted' => open' = {}
    BY <1>3, <1>9 DEF StdioInv
<1>13. Backed'
  <2>1. \A f, g \in Good' : files'[f].stream = files'[g].stream => f = g
      BY <1>7, <1>11, BackedFacts DEF StdioInv
  <2>2. \A f \in Good' : files'[f].stream \in open'
      BY <1>7, <1>9, <1>11, BackedFacts DEF StdioInv
  <2>3. \A s \in open' : s \notin lost' => \E f \in Good' : files'[f].stream = s
      BY <1>7, <1>9, <1>11, BackedFacts DEF StdioInv
  <2> QED
      BY <1>12, <2>1, <2>2, <2>3, BackedFactsPrime
<1>14. \A f \in Good' : files'[f].stream \notin lost'
    BY <1>7, <1>9, <1>11 DEF StdioInv
<1> QED
    BY <1>6, <1>10, <1>12, <1>13, <1>14 DEF StdioInv

\* freopen that fails: the entry stays in use, and the program drops it.
LEMMA EntryDropped ==
    ASSUME StdioInv, NEW f0 \in held, NEW rt \in Answer(EBADF) \ {0},
           HostCloses(files[f0].stream, rt), errno' = rt,
           held' = held \ {f0}, leaked' = leaked \cup {f0}, UNCHANGED <<files, hosted, fds>>
    PROVE  StdioInv'
<1> DEFINE old == files[f0].stream
<1>1. f0 \in InUse /\ f0 \in File /\ InUse' = InUse
    BY DEF StdioInv, TableExact, InUse
<1>2. TableExact'
    BY <1>1 DEF StdioInv, TableExact
<1>3. Good' = Good \ {f0} /\ (hosted => f0 \in Good)
    BY DEF StdioInv, Good
<1>4. /\ open' \subseteq open /\ lost' \subseteq open' /\ lost' \subseteq lost \cup {old}
      /\ open \ {old} \subseteq open' /\ lost \ {old} \subseteq lost'
      /\ old \in open' => old \in lost'
  <2>1. lost \subseteq open
      BY DEF StdioInv, StdioTypeOK
  <2> QED
      BY <2>1 DEF HostCloses
<1>5. StdioTypeOK'
  <2>1. rt \in {EBADF, EIO}
      BY DEF Answer
  <2> QED
      BY <1>1, <1>4, <2>1 DEF StdioInv, StdioTypeOK, Error
<1>6. hosted => \A f \in Good' : files[f].stream # old
    BY <1>3, BackedFacts DEF StdioInv
<1>7. ~hosted => Good' = {} /\ open' = {}
    BY <1>3, <1>4 DEF StdioInv, Good
<1>8. ~hosted' => open' = {}
    BY <1>7 DEF StdioInv
<1>9. Backed'
  <2>1. \A f, g \in Good' : files'[f].stream = files'[g].stream => f = g
      BY <1>3, BackedFacts DEF StdioInv
  <2>2. \A f \in Good' : files'[f].stream \in open'
      BY <1>3, <1>4, <1>6, <1>7, BackedFacts DEF StdioInv
  <2>3. \A s \in open' : s \notin lost' => \E f \in Good' : files'[f].stream = s
      BY <1>3, <1>4, <1>6, <1>7, BackedFacts DEF StdioInv
  <2> QED
      BY <1>8, <2>1, <2>2, <2>3, BackedFactsPrime
<1>10. \A f \in Good' : files'[f].stream \notin lost'
    BY <1>3, <1>4, <1>6, <1>7 DEF StdioInv
<1> QED
    BY <1>2, <1>5, <1>8, <1>9, <1>10 DEF StdioInv

\* freopen that succeeds: the entry gets the host's new stream.
LEMMA EntryReplaced ==
    ASSUME StdioInv, hosted, NEW f0 \in held,
           NEW id \in (Stream \ open) \cup {files[f0].stream}, Enter(f0, id),
           open' = (open \ {files[f0].stream}) \cup {id},
           UNCHANGED <<errno, held, leaked, lost, hosted, fds>>
    PROVE  StdioInv'
<1> DEFINE old == files[f0].stream
<1>1. f0 \in InUse /\ f0 \in File /\ f0 \in Good /\ Good' = Good /\ Good \subseteq File
    BY DEF StdioInv, StdioTypeOK, TableExact, InUse, Good
<1>2. old \in open /\ old \notin lost /\ open \subseteq Stream /\ lost \subseteq open
    BY <1>1, BackedFacts DEF StdioInv, StdioTypeOK
<1>3. /\ files' = [files EXCEPT ![f0] = [stream |-> id, in_use |-> TRUE]]
      /\ files'[f0] = [stream |-> id, in_use |-> TRUE]
      /\ \A f \in File \ {f0} : files'[f] = files[f]
    BY <1>1 DEF Enter, StdioInv, StdioTypeOK
<1>4. id \in Stream /\ id \notin lost /\ open' = (open \ {old}) \cup {id} /\ (id # old => id \notin open)
    BY <1>2
<1> HIDE DEF old
<1>5. StdioTypeOK'
    BY <1>1, <1>2, <1>3, <1>4 DEF StdioInv, StdioTypeOK
<1>6. InUse' = InUse
    BY <1>1, <1>3 DEF InUse
<1>7. TableExact'
    BY <1>6 DEF StdioInv, TableExact
<1>8. /\ files'[f0].stream = id
      /\ \A f \in Good \ {f0} : /\ files'[f].stream = files[f].stream
                                /\ files[f].stream # old /\ files[f].stream \in open
    BY <1>1, <1>3, BackedFacts DEF StdioInv, old
<1>9. Backed'
  <2>1. \A f, g \in Good' : files'[f].stream = files'[g].stream => f = g
      BY <1>1, <1>4, <1>8, BackedFacts DEF StdioInv
  <2>2. \A f \in Good' : files'[f].stream \in open'
      BY <1>1, <1>4, <1>8
  <2>3. \A s \in open' : s \notin lost' => \E f \in Good' : files'[f].stream = s
    <3> SUFFICES ASSUME NEW s \in open', s \notin lost'
                 PROVE  \E f \in Good' : files'[f].stream = s
        OBVIOUS
    <3>1. CASE s = id
        BY <1>1, <1>8, <3>1
    <3>2. CASE s \in open /\ s # old
      <4>1. PICK f \in Good : files[f].stream = s
          BY <3>2, BackedFacts DEF StdioInv
      <4>2. f # f0
          BY <3>2, <4>1 DEF old
      <4> QED
          BY <1>1, <1>8, <4>1, <4>2
    <3> QED
        BY <1>4, <3>1, <3>2
  <2> QED
      BY <2>1, <2>2, <2>3, BackedFactsPrime
<1>10. \A f \in Good' : files'[f].stream \notin lost'
    BY <1>1, <1>4, <1>8 DEF StdioInv
<1> QED
    BY <1>5, <1>7, <1>9, <1>10 DEF StdioInv

----------------------------------------------------------------------------
(* The theorems.                                                           *)

\* Every call keeps the invariant.
LEMMA NextInv == StdioInv /\ [Next]_vars => StdioInv'
<1> SUFFICES ASSUME StdioInv, [Next]_vars PROVE StdioInv'
    OBVIOUS
<1>0. errno \in {0} \cup Error /\ fds \subseteq Fd
    BY DEF StdioInv, StdioTypeOK
<1>1. ASSUME NEW e \in Error, Fail(e), UNCHANGED <<hosted, open, fds, lost>>
      PROVE  StdioInv'
    BY <1>0, <1>1, TableUnchanged DEF Fail
<1>2. CASE fopen
  <2>1. CASE Free = {}
      BY <1>1, <1>2, <2>1 DEF fopen, Error
  <2>2. ASSUME NEW rt \in Answer(EBADF) \ {0}, Fail(rt), UNCHANGED <<hosted, open, fds, lost>>
        PROVE  StdioInv'
      BY <1>1, <2>2 DEF Answer, Error
  <2>3. ASSUME Free # {}, 0 \in Answer(EBADF), NEW id \in Stream, HostOpens(id), NewFile(id),
               UNCHANGED <<hosted, fds, lost>>
        PROVE  StdioInv'
    <3>1. hosted
        BY <2>3 DEF Answer, EBADF
    <3> QED
        BY <2>3, <3>1, EntryTaken
  <2> QED
      BY <1>2, <2>1, <2>2, <2>3 DEF fopen
<1>3. CASE CloseHeld
    BY <1>3, EntryReleased DEF CloseHeld
<1>4. CASE CloseAgain
    BY <1>1, <1>4 DEF CloseAgain, fclose, Error
<1>5. ASSUME NEW f \in held, freopen(f) PROVE StdioInv'
  <2>1. ASSUME NEW rt \in Answer(EBADF) \ {0}, errno' = rt, UNCHANGED files,
               held' = held \ {f}, leaked' = leaked \cup {f}, HostCloses(files[f].stream, rt),
               UNCHANGED <<hosted, fds>>
        PROVE  StdioInv'
      BY <2>1, EntryDropped
  <2>2. ASSUME 0 \in Answer(EBADF), NEW id \in (Stream \ open) \cup {files[f].stream},
               Enter(f, id), open' = (open \ {files[f].stream}) \cup {id},
               UNCHANGED <<errno, held, leaked, lost, hosted, fds>>
        PROVE  StdioInv'
    <3>1. hosted
        BY <2>2 DEF Answer, EBADF
    <3> QED
        BY <2>2, <3>1, EntryReplaced
  <2> QED
      BY <1>5, <2>1, <2>2 DEF freopen
<1>6. CASE Use
    BY <1>0, <1>6, TableUnchanged DEF Use, StreamOp, Answer, Error
<1>7. CASE PathOp
    BY <1>0, <1>7, TableUnchanged DEF PathOp, Answer, Error
<1>8. CASE mkstemp
    BY <1>0, <1>8, TableUnchanged DEF mkstemp
<1>9. ASSUME NEW fd \in Fd, fdopen(fd) PROVE StdioInv'
  <2>1. CASE Free = {}
      BY <1>1, <1>9, <2>1 DEF fdopen, Error
  <2>2. CASE Free # {} /\ hosted
      BY <1>1, <1>9, <2>2, EntryTaken DEF fdopen, Error
  <2>3. CASE Free # {} /\ ~hosted
      BY <1>9, <2>3, UnbackedTaken DEF fdopen
  <2> QED
      BY <2>1, <2>2, <2>3
<1>10. ASSUME NEW fd \in Fd, close(fd) PROVE StdioInv'
    BY <1>0, <1>10, TableUnchanged DEF close, Answer, Error
<1>11. CASE UNCHANGED vars
    BY <1>0, <1>11, TableUnchanged DEF vars
<1> QED
    BY <1>2, <1>3, <1>4, <1>5, <1>6, <1>7, <1>8, <1>9, <1>10, <1>11 DEF Next, Reopen

\* The invariant holds in every state.
THEOREM StdioInvariant == Spec => []StdioInv
BY InitInv, NextInv, PTL DEF Spec

\* The variables keep their types, for every size of the table.
THEOREM StdioTypeCorrect == Spec => []StdioTypeOK
<1>1. StdioInv => StdioTypeOK
    BY DEF StdioInv
<1> QED
    BY <1>1, StdioInvariant, PTL

\* The entries in use are those that the program holds and those whose freopen
\* failed, whatever the host answers: nothing else takes an entry from the table,
\* and none that the program holds is given to another caller.
THEOREM TableCorrect == Spec => []TableExact
<1>1. StdioInv => TableExact
    BY DEF StdioInv
<1> QED
    BY <1>1, StdioInvariant, PTL

\* Each FILE that the program holds has an open host stream of its own, and
\* only a failed fclose or freopen leaves a host stream without a FILE.
THEOREM BackedCorrect == Spec => []Backed
<1>1. StdioInv => Backed
    BY DEF StdioInv
<1> QED
    BY <1>1, StdioInvariant, PTL
=============================================================================
