--------------------------- MODULE RunWithTimeout ---------------------------
(***************************************************************************)
(* bin/run_with_timeout.sh: a script runs a command and ends with its exit *)
(* status; a background subshell, the killer, sleeps for the timeout and   *)
(* then kills every descendant of the script but itself.  When the command *)
(* ends first, the script hangs up the killer, whose EXIT trap kills the   *)
(* sleep.  Script, killer, sleep, command and the children of the command  *)
(* are processes of their own and run in any order.                        *)
(***************************************************************************)
EXTENDS Integers, Sequences, FiniteSets, SequencesExt

CONSTANTS
    \* Process ids, as sequences of digits: of the killer, of the subshell in
    \* which it runs list_descendant_processes, of the command.
    KillerPid, ListPid, CmdPid,
    KidPids         \* bound: the children that the command may fork, finitely many

ASSUME PidsDistinct ==
    /\ \A p \in {KillerPid, ListPid, CmdPid} \cup KidPids : p \in Seq(0 .. 9) /\ p # <<>>
    /\ KillerPid # ListPid /\ KillerPid # CmdPid /\ ListPid # CmdPid
    /\ {KillerPid, ListPid, CmdPid} \cap KidPids = {}
ASSUME KidsFinite == IsFiniteSet(KidPids)

OwnStatus == 1      \* the command's exit status, when it ends by itself
KILLED == 137       \* 128 + 9

VARIABLES
    mpc,        \* where the script is
    rc,         \* status that cleanup has saved; -1 before
    kpc,        \* where the killer is
    hup,        \* SIGHUP is pending for the killer
    sleep_pid,  \* the killer's variable is set
    sleeping,   \* the sleep: "none", "running" or "dead"
    cmd,        \* the command: "none", "running", "done" or "killed"
    kids,       \* children of the command that are alive
    procs,      \* pids listed, then pids still to be killed
    late,       \* auxiliary: children forked after the listing
    early,      \* auxiliary: the killer got SIGHUP before sleep_pid was set
    suicide     \* auxiliary: the killer killed itself

vars == <<mpc, rc, kpc, hup, sleep_pid, sleeping, cmd, kids, procs, late, early, suicide>>
mainVars == <<mpc, rc>>
killerVars == <<kpc, sleep_pid, procs, early, suicide>>
cmdVars == <<cmd, kids, late>>

----------------------------------------------------------------------------
(* The script.                                                             *)

ForkKiller ==
    /\ mpc = "start" /\ mpc' = "launch"
    /\ kpc' = "start"
    /\ UNCHANGED <<rc, hup, sleep_pid, sleeping, procs, early, suicide, cmdVars>>

ForkCmd ==
    /\ mpc = "launch" /\ mpc' = "wait"
    /\ cmd' = "running"
    /\ UNCHANGED <<rc, hup, sleeping, kids, late, killerVars>>

\* wait $PID; exit $?, which enters cleanup: rc=$?.
WaitCmd ==
    /\ mpc = "wait" /\ cmd \in {"done", "killed"}
    /\ mpc' = "cleanup"
    /\ rc' = IF cmd = "done" THEN OwnStatus ELSE KILLED
    /\ UNCHANGED <<hup, sleeping, killerVars, cmdVars>>

\* kill -0 "$KILLER" &&
TestKiller ==
    /\ mpc = "cleanup"
    /\ mpc' = IF kpc = "dead" THEN "exit" ELSE "hup"
    /\ UNCHANGED <<rc, hup, sleeping, killerVars, cmdVars>>

\* kill -HUP "$KILLER" &&, which fails if the killer has ended meanwhile.
HangUp ==
    /\ mpc = "hup"
    /\ mpc' = IF kpc = "dead" THEN "exit" ELSE "join"
    /\ hup' = (kpc # "dead")
    /\ UNCHANGED <<rc, sleeping, killerVars, cmdVars>>

\* Fault: cleanup does not save the status, so that the killer's is returned.
WaitKiller_rc ==
    /\ mpc = "join" /\ kpc = "dead"
    /\ mpc' = "exit" /\ rc' = 129
    /\ UNCHANGED <<hup, sleeping, killerVars, cmdVars>>

\* wait "$KILLER"; exit $rc.
WaitKiller ==
    /\ mpc = "join" /\ kpc = "dead"
    /\ mpc' = "exit" /\ rc' = rc
    /\ UNCHANGED <<hup, sleeping, killerVars, cmdVars>>

----------------------------------------------------------------------------
(* The killer.                                                             *)

KillerStep(from, to) == kpc = from /\ kpc' = to /\ UNCHANGED <<mainVars, hup, early, cmdVars>>

\* The trap is set, and the sleep forked.
ForkSleep ==
    /\ KillerStep("start", "forked")
    /\ sleeping' = "running"
    /\ UNCHANGED <<sleep_pid, procs, suicide>>

\* sleep_pid=$!
SetSleepPid ==
    /\ KillerStep("forked", "waiting")
    /\ sleep_pid' = TRUE
    /\ UNCHANGED <<sleeping, procs, suicide>>

\* wait $sleep_pid; sleep_pid=
WaitSleep ==
    /\ sleeping = "dead"
    /\ KillerStep("waiting", "timeout")
    /\ sleep_pid' = FALSE
    /\ UNCHANGED <<sleeping, procs, suicide>>

\* pgrep lists by pid, list_descendant_processes children before parents: the
\* killer's only child is the subshell that runs it.
ListKiller ==
    /\ KillerStep("timeout", "listing")
    /\ procs' = <<ListPid, KillerPid>> \o IF cmd = "running" THEN <<CmdPid>> ELSE <<>>
    /\ UNCHANGED <<sleep_pid, sleeping, suicide>>

\* The first text equal to pid is cut out of the list, wherever it is; word
\* splitting drops the element of which nothing is left.
remove_from_list(list, pid) ==
    LET hit(i) == pid \in SubSeqs(list[i])
        first == CHOOSE i \in DOMAIN list : hit(i) /\ \A j \in 1 .. i - 1 : ~hit(j)
        cut == [list EXCEPT ![first] = ReplaceFirstSubSeq(<<>>, pid, @)]
    IN  IF cut[first] = <<>> THEN RemoveAt(cut, first) ELSE cut

\* Fault: the command is listed before its children.
ListCmd_first ==
    /\ KillerStep("listing", "killing")
    /\ procs' = remove_from_list(procs \o SetToSeq(IF cmd = "running" THEN kids ELSE {}), KillerPid)
    /\ UNCHANGED <<sleep_pid, sleeping, suicide>>

\* Fault: the killer's own pid stays in the list.
ListCmd_all ==
    /\ KillerStep("listing", "killing")
    /\ procs' = SubSeq(procs, 1, 2) \o SetToSeq(IF cmd = "running" THEN kids ELSE {}) \o SubSeq(procs, 3, Len(procs))
    /\ UNCHANGED <<sleep_pid, sleeping, suicide>>

\* The children of the command are listed before it, and the killer removed.
ListCmd ==
    /\ KillerStep("listing", "killing")
    /\ LET children == SetToSeq(IF cmd = "running" THEN kids ELSE {})
       IN  procs' = remove_from_list(SubSeq(procs, 1, 2) \o children \o SubSeq(procs, 3, Len(procs)), KillerPid)
    /\ UNCHANGED <<sleep_pid, sleeping, suicide>>

\* kill -s 9 -- $procs, one after the other.  The command that has ended is
\* not killed, and SIGKILL runs no trap.
KillOne ==
    /\ kpc = "killing" /\ procs # <<>>
    /\ LET p == Head(procs)
       IN  /\ cmd' = IF p = CmdPid /\ cmd = "running" THEN "killed" ELSE cmd
           /\ kids' = kids \ {p}
           /\ suicide' = (p = KillerPid)
           /\ kpc' = IF p = KillerPid THEN "dead" ELSE kpc
    /\ procs' = Tail(procs)
    /\ UNCHANGED <<mainVars, hup, sleep_pid, sleeping, late, early>>

\* wait $procs fails at once, for they are not children of the killer.
KillerEnds ==
    /\ procs = <<>>
    /\ KillerStep("killing", "dead")
    /\ UNCHANGED <<sleep_pid, sleeping, procs, suicide>>

\* Fault: the killer sets no trap.
HangsUp_notrap ==
    /\ hup /\ kpc # "dead"
    /\ kpc' = "dead"
    /\ early' = (kpc = "forked")
    /\ UNCHANGED <<mainVars, hup, sleep_pid, sleeping, procs, suicide, cmdVars>>

\* SIGHUP, and the EXIT trap: [[ $sleep_pid ]] && kill "$sleep_pid".
HangsUp ==
    /\ hup /\ kpc # "dead"
    /\ kpc' = "dead"
    /\ early' = (kpc = "forked")
    /\ sleeping' = IF sleep_pid THEN "dead" ELSE sleeping
    /\ UNCHANGED <<mainVars, hup, sleep_pid, procs, suicide, cmdVars>>

----------------------------------------------------------------------------
(* The sleep, the command and its children (external).                     *)

\* The timeout is longer than the launch of the command takes.
SleepEnds ==
    /\ sleeping = "running" /\ mpc \notin {"start", "launch"}
    /\ sleeping' = "dead"
    /\ UNCHANGED <<mainVars, hup, killerVars, cmdVars>>

CmdEnds ==
    /\ cmd = "running" /\ cmd' = "done"
    /\ UNCHANGED <<mainVars, hup, sleeping, killerVars, kids, late>>

CmdForks ==
    /\ cmd = "running"
    /\ \E p \in KidPids \ kids :
           /\ kids' = kids \cup {p}
           /\ late' = IF kpc = "killing" THEN late \cup {p} ELSE late \ {p}
    /\ UNCHANGED <<mainVars, hup, sleeping, cmd, killerVars>>

KidEnds ==
    /\ \E p \in kids : kids' = kids \ {p}
    /\ UNCHANGED <<mainVars, hup, sleeping, cmd, late, killerVars>>

Init ==
    /\ mpc = "start" /\ rc = -1
    /\ kpc = "none" /\ hup = FALSE /\ sleep_pid = FALSE /\ procs = <<>>
    /\ sleeping = "none" /\ cmd = "none" /\ kids = {}
    /\ late = {} /\ early = FALSE /\ suicide = FALSE

Main == ForkKiller \/ ForkCmd \/ WaitCmd \/ TestKiller \/ HangUp \/ WaitKiller

Killer == \/ ForkSleep \/ SetSleepPid \/ WaitSleep \/ ListKiller \/ ListCmd
          \/ KillOne \/ KillerEnds \/ HangsUp

Next == Main \/ Killer \/ SleepEnds \/ CmdEnds \/ CmdForks \/ KidEnds

\* The system schedules the script and the killer, and the sleep ends.  The
\* command need not end by itself.
Spec == Init /\ [][Next]_vars /\ WF_vars(Main) /\ WF_vars(Killer) /\ WF_vars(SleepEnds)

----------------------------------------------------------------------------
(* Properties.                                                             *)

\* The script ends with the command's own status, or with that of a killed
\* command, also when the timeout and the end of the command race.
ExitStatus == mpc = "exit" => /\ cmd = "done" => rc = OwnStatus
                              /\ cmd = "killed" => rc = KILLED
                              /\ cmd \in {"done", "killed"}

\* When the script has ended no killer and no sleep is left, except a sleep
\* that the killer had forked but not recorded in sleep_pid.
NoKillerLeft == mpc = "exit" => /\ kpc = "dead"
                                /\ sleeping = "running" => early

\* A killed command leaves no child but those forked after the listing:
\* children are killed before the command, whose end makes the script hang up
\* the killer.
KillsTree == cmd = "killed" => kids \subseteq late

\* The script ends, even if the command does not.
ScriptEnds == <>(mpc = "exit")

\* "on timeout, $KILLER should not kill itself before finishing".
KillerFinishes == ~suicide
=============================================================================
