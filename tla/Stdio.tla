------------------------------- MODULE Stdio --------------------------------
(***************************************************************************)
(* Hosted input and output (stdio.c): the table of FILE objects, and the   *)
(* calls that the library passes on to the host that runs the simulator.   *)
(* Each function is one chess_hosted_io call: the host answers in stream_rt*)
(* (0, or an error code) and stream_id.  Without a host nothing answers,   *)
(* and stream_rt keeps the value the function put there before the call.   *)
(*                                                                         *)
(* A FILE* is an index: 0 .. FOPEN_MAX - 1 in the table, then the standard *)
(* streams.  The program uses the pointers that it was given and has not   *)
(* closed; it may also close one a second time.                            *)
(***************************************************************************)
EXTENDS Integers

CONSTANTS FOPEN_MAX,    \* entries of the table (16)
          NumStd,       \* standard streams: stdin, stdout and stderr (3)
          MaxStream     \* bound: the host's stream ids are 0 .. MaxStream

ASSUME FopenMaxOK == FOPEN_MAX \in Nat \ {0}
ASSUME StreamsOK == NumStd \in Nat /\ MaxStream \in Nat /\ MaxStream >= NumStd - 1

VARIABLES
    files,      \* the FILE objects: [stream, in_use]
    errno,
    hosted,     \* there is a host; it never changes
    open,       \* host: the ids of its open streams
    fds,        \* host: the open descriptors made by mkstemp
    held,       \* auxiliary: pointers the program may use
    leaked,     \* auxiliary: entries whose freopen failed
    lost        \* auxiliary: host streams that a failed fclose or freopen left open

vars == <<files, errno, hosted, open, fds, held, leaked, lost>>

Slot == 0 .. FOPEN_MAX - 1
File == 0 .. FOPEN_MAX + NumStd - 1
Std  == File \ Slot
Stream == 0 .. MaxStream
Fd == {3}               \* one descriptor, besides the standard ones

EBADF == 9
EMFILE == 24
EIO == 5                \* any error that the host reports
Error == {EBADF, EMFILE, EIO}

\* Fault: stream_rt is not set before the call.
Answer_unset(preset) == IF hosted THEN {0, EIO} ELSE {0, -1}

\* The values of stream_rt after a call, if it was `preset' before it.
Answer(preset) == IF hosted THEN {0, EIO} ELSE {preset}

Free == { i \in Slot : ~files[i].in_use }
FirstFree == CHOOSE i \in Free : \A j \in Free : i <= j

Enter(f, id) == files' = [files EXCEPT ![f] = [stream |-> id, in_use |-> TRUE]]
Fail(e) == errno' = e /\ UNCHANGED <<files, held, leaked>>

----------------------------------------------------------------------------
(* Functions that allocate or release a FILE.                              *)

\* The common end of fopen, tmpfile and fdopen: the first free entry is taken.
NewFile(id) ==
    /\ Enter(FirstFree, id)
    /\ held' = held \cup {FirstFree}
    /\ UNCHANGED <<errno, leaked>>

HostOpens(id) == id \notin open /\ open' = open \cup {id}

\* fopen: no free entry, a host error, or a new stream.  tmpfile is the same.
fopen ==
    /\ UNCHANGED <<hosted, fds, lost>>
    /\ \/ Free = {} /\ Fail(EMFILE) /\ UNCHANGED open
       \/ Free # {} /\ \E rt \in Answer(EBADF) \ {0} : Fail(rt) /\ UNCHANGED open
       \/ /\ Free # {} /\ 0 \in Answer(EBADF)
          /\ \E id \in Stream : HostOpens(id) /\ NewFile(id)

\* fdopen: stream_rt is preset to 0, so that without a host the call counts as
\* a success and the entry gets the descriptor for a stream.
fdopen(fd) ==
    /\ UNCHANGED <<hosted, fds, lost>>
    /\ \/ Free = {} /\ Fail(EMFILE) /\ UNCHANGED open
       \/ Free # {} /\ hosted /\ Fail(EIO) /\ UNCHANGED open
       \/ /\ Free # {} /\ hosted /\ fd \in fds
          /\ \E id \in Stream : HostOpens(id) /\ NewFile(id)
       \/ /\ Free # {} /\ ~hosted
          /\ NewFile(fd)
          /\ UNCHANGED open

\* The host's side of fclose: the stream is closed, and an error may be
\* reported; or the id is not known, or the host fails and keeps it.
HostCloses(id, rt) ==
    IF rt = 0 THEN id \in open /\ open' = open \ {id} /\ lost' = lost \ {id}
              ELSE \/ open' = open \ {id} /\ lost' = lost \ {id}
                   \/ UNCHANGED open /\ lost' = lost \cup ({id} \cap open)

\* Fault: the entry stays in use when the host reports an error.
fclose_keep(f) ==
    /\ UNCHANGED <<hosted, fds>>
    /\ IF ~files[f].in_use
       THEN Fail(EBADF) /\ UNCHANGED <<open, lost>>
       ELSE /\ held' = held \ {f} /\ leaked' = leaked \ {f}
            /\ \E rt \in Answer(EBADF) :
                   /\ HostCloses(files[f].stream, rt)
                   /\ files' = [files EXCEPT ![f].in_use = rt # 0]
                   /\ errno' = IF rt = 0 THEN errno ELSE rt

\* Fault: a FILE that is not in use is passed to the host.
fclose_unchecked(f) ==
    /\ UNCHANGED <<hosted, fds>>
    /\ files' = [files EXCEPT ![f].in_use = FALSE]
    /\ held' = held \ {f} /\ leaked' = leaked \ {f}
    /\ \E rt \in Answer(EBADF) :
           /\ HostCloses(files[f].stream, rt)
           /\ errno' = IF rt = 0 THEN errno ELSE rt

\* fclose: the entry is free before the host is asked, whatever it answers.
fclose(f) ==
    /\ UNCHANGED <<hosted, fds>>
    /\ IF ~files[f].in_use
       THEN Fail(EBADF) /\ UNCHANGED <<open, lost>>
       ELSE /\ files' = [files EXCEPT ![f].in_use = FALSE]
            /\ held' = held \ {f} /\ leaked' = leaked \ {f}
            /\ \E rt \in Answer(EBADF) :
                   /\ HostCloses(files[f].stream, rt)
                   /\ errno' = IF rt = 0 THEN errno ELSE rt

\* freopen: the host closes the stream and opens another.  If it fails the
\* entry stays as it is, in use, although its stream may be gone; as after
\* every failed freopen, the program does not use the pointer again.
freopen(f) ==
    LET old == files[f].stream
    IN  /\ UNCHANGED <<hosted, fds>>
        /\ \/ \E rt \in Answer(EBADF) \ {0} :
                  /\ errno' = rt /\ UNCHANGED files
                  /\ held' = held \ {f} /\ leaked' = leaked \cup {f}
                  /\ HostCloses(old, rt)
           \/ /\ 0 \in Answer(EBADF)
              /\ \E id \in (Stream \ open) \cup {old} :
                     Enter(f, id) /\ open' = (open \ {old}) \cup {id}
              /\ UNCHANGED <<errno, held, leaked, lost>>

----------------------------------------------------------------------------
(* Functions that pass a call on.                                          *)

\* fflush, fseek, ftell, feof: an error is copied to errno.
StreamOp(f) ==
    /\ \E rt \in Answer(EBADF) : errno' = IF rt = 0 THEN errno ELSE rt
    /\ UNCHANGED <<files, hosted, open, fds, held, leaked, lost>>

\* mkstemp: the descriptor, or an error, is stream_rt itself.
mkstemp ==
    /\ fds' = IF hosted THEN Fd ELSE fds
    /\ UNCHANGED <<files, errno, hosted, open, held, leaked, lost>>

\* remove and rename: without a host they count as a success.
PathOp ==
    /\ \E rt \in Answer(0) : errno' = IF rt = 0 THEN errno ELSE rt
    /\ UNCHANGED <<files, hosted, open, fds, held, leaked, lost>>

\* close: likewise.
close(fd) ==
    /\ \E rt \in Answer(0) :
           /\ errno' = IF rt = 0 THEN errno ELSE rt
           /\ fds' = IF rt = 0 THEN fds \ {fd} ELSE fds
    /\ UNCHANGED <<files, hosted, open, held, leaked, lost>>

Init ==
    /\ files = [f \in File |-> IF f \in Slot THEN [stream |-> 0, in_use |-> FALSE]
                                             ELSE [stream |-> f - FOPEN_MAX, in_use |-> TRUE]]
    /\ errno = 0
    /\ hosted \in BOOLEAN
    /\ open = IF hosted THEN 0 .. NumStd - 1 ELSE {}
    /\ fds = {}
    /\ held = Std
    /\ leaked = {}
    /\ lost = {}

CloseHeld == \E f \in held : fclose(f)
CloseAgain == \E f \in File : f \notin held /\ ~files[f].in_use /\ fclose(f)
Reopen == \E f \in held : freopen(f)
Use == \E f \in held : StreamOp(f)

Next == \/ fopen \/ CloseHeld \/ CloseAgain \/ Reopen \/ Use
        \/ PathOp \/ mkstemp \/ \E fd \in Fd : fdopen(fd) \/ close(fd)

Spec == Init /\ [][Next]_vars

----------------------------------------------------------------------------
(* Properties.                                                             *)

InUse == { f \in File : files[f].in_use }
StreamsOf(S) == { files[f].stream : f \in S }

\* Types.
StdioTypeOK ==
    /\ files \in [File -> [stream : Stream \cup Fd, in_use : BOOLEAN]]
    /\ errno \in {0} \cup Error
    /\ hosted \in BOOLEAN
    /\ open \subseteq Stream /\ lost \subseteq open
    /\ fds \subseteq Fd
    /\ held \subseteq File /\ leaked \subseteq File

\* The entries in use are those the program holds, and one for each freopen
\* that failed: freopen keeps the entry in use and returns no pointer to it, so
\* that no later call gives it back.  Nothing else is lost: fclose frees its
\* entry whatever the host answers, and fopen, tmpfile and fdopen report EMFILE
\* only if the files open and the entries lost by freopen fill the table.
TableExact == /\ InUse = held \cup leaked
              /\ held \cap leaked = {}

\* With a host, each FILE the program holds stands for a host stream of its own
\* that is open, and each open host stream belongs to such a FILE, unless its
\* fclose or freopen failed: no call on a FILE, nor closing one twice, reaches a
\* stream opened for another.
Backed ==
    hosted =>
        /\ \A f, g \in held : files[f].stream = files[g].stream => f = g
        /\ StreamsOf(held) \subseteq open
        /\ open \ lost \subseteq StreamsOf(held)
=============================================================================
