----------------------- MODULE RunWithTimeout_proofs -----------------------
(***************************************************************************)
(* Proofs about run_with_timeout.sh: for every choice of process ids and   *)
(* any number of children, whatever the order in which the processes run.  *)
(***************************************************************************)
EXTENDS RunWithTimeout, FiniteSetTheorems, SequenceTheorems, TLAPS

----------------------------------------------------------------------------
(* The exit status, and what is left when the script has ended.            *)

\* Once cleanup has begun the command has ended, and rc is its status.
StatusInv ==
    mpc \in {"cleanup", "hup", "join", "exit"} =>
        /\ cmd \in {"done", "killed"}
        /\ rc = IF cmd = "done" THEN OwnStatus ELSE KILLED

\* The sleep, wherever the killer is: a killer that reads sleep_pid knows of
\* the sleep, and one that does not has the sleep behind it.
SleepInv ==
    /\ mpc \in {"start", "launch", "wait", "cleanup", "hup", "join", "exit"}
    /\ kpc \in {"none", "start", "forked", "waiting", "timeout", "listing", "killing", "dead"}
    /\ mpc = "start" <=> kpc = "none"
    /\ mpc = "start" => ~hup
    /\ kpc \in {"none", "start"} => sleeping = "none"
    /\ kpc = "waiting" => sleep_pid
    /\ kpc \in {"timeout", "listing", "killing"} => sleeping = "dead"
    /\ kpc = "dead" /\ sleeping = "running" => early
    /\ mpc = "exit" => kpc = "dead"

\* The script saves the status of the command before it stops the killer.
THEOREM StatusKept == Spec => []ExitStatus
  <1>1. Init => StatusInv
    BY DEF Init, StatusInv
  <1>2. StatusInv /\ [Next]_vars => StatusInv'
    <2> SUFFICES ASSUME StatusInv, [Next]_vars PROVE StatusInv'
      OBVIOUS
    <2> USE DEF StatusInv
    <2>1. CASE Main
      BY <2>1 DEF Main, ForkKiller, ForkCmd, WaitCmd, TestKiller, HangUp, WaitKiller, cmdVars
    <2>2. CASE Killer
      BY <2>2 DEF Killer, KillerStep, ForkSleep, SetSleepPid, WaitSleep, ListKiller, ListCmd,
                  KillOne, KillerEnds, HangsUp, mainVars, cmdVars
    <2>3. CASE SleepEnds \/ CmdEnds \/ CmdForks \/ KidEnds
      BY <2>3 DEF SleepEnds, CmdEnds, CmdForks, KidEnds, mainVars, cmdVars
    <2>4. CASE UNCHANGED vars
      BY <2>4 DEF vars
    <2> QED BY <2>1, <2>2, <2>3, <2>4 DEF Next
  <1>3. StatusInv => ExitStatus
    BY DEF StatusInv, ExitStatus
  <1> QED BY <1>1, <1>2, <1>3, PTL DEF Spec

\* What killer and sleep keep of each other, in every reachable state.
LEMMA SleepKept == Spec => []SleepInv
  <1>1. Init => SleepInv
    BY DEF Init, SleepInv
  <1>2. SleepInv /\ [Next]_vars => SleepInv'
    <2> SUFFICES ASSUME SleepInv, [Next]_vars PROVE SleepInv'
      OBVIOUS
    <2> USE DEF SleepInv
    <2>1. CASE Main
      BY <2>1 DEF Main, ForkKiller, ForkCmd, WaitCmd, TestKiller, HangUp, WaitKiller, killerVars
    <2>2. CASE ForkSleep \/ SetSleepPid \/ WaitSleep \/ ListKiller \/ ListCmd \/ KillerEnds
      BY <2>2 DEF KillerStep, ForkSleep, SetSleepPid, WaitSleep, ListKiller, ListCmd,
                  KillerEnds, mainVars
    <2>3. CASE KillOne
      BY <2>3 DEF KillOne, mainVars
    <2>4. CASE HangsUp
      BY <2>4 DEF HangsUp, mainVars
    <2>5. CASE SleepEnds \/ CmdEnds \/ CmdForks \/ KidEnds
      BY <2>5 DEF SleepEnds, CmdEnds, CmdForks, KidEnds, mainVars, killerVars
    <2>6. CASE UNCHANGED vars
      BY <2>6 DEF vars
    <2> QED BY <2>1, <2>2, <2>3, <2>4, <2>5, <2>6 DEF Next, Killer
  <1> QED BY <1>1, <1>2, PTL DEF Spec

\* A script that has ended leaves no killer, and no sleep that the killer had
\* recorded.
THEOREM NothingLeft == Spec => []NoKillerLeft
  <1>1. SleepInv => NoKillerLeft
    BY DEF SleepInv, NoKillerLeft
  <1> QED BY <1>1, SleepKept, PTL

----------------------------------------------------------------------------
(* The list of processes to kill.                                          *)

Pids == {KillerPid, ListPid, CmdPid} \cup KidPids

\* A pid contains itself, and nothing is left when it is cut out of itself.
LEMMA CutWhole ==
    ASSUME NEW p \in Seq(0 .. 9), p # <<>>
    PROVE  p \in SubSeqs(p) /\ ReplaceFirstSubSeq(<<>>, p, p) = <<>>
  <1>1. Len(p) \in Nat \ {0} /\ SubSeq(p, 1, Len(p)) = p
    OBVIOUS
  <1>2. p \in SubSeqs(p)
    <2>1. p = SubSeq(p, 0 + 1, Len(p)) /\ 0 \in 0 .. Len(p) /\ Len(p) \in 0 .. Len(p)
      BY <1>1
    <2> QED BY <2>1 DEF SubSeqs
  <1>3. ASSUME NEW i \in 0 .. Len(p) - 1
        PROVE  p \notin SubSeqs(SubSeq(p, 1, i))
    <2>1. SubSeq(p, 1, i) \in Seq(0 .. 9) /\ Len(SubSeq(p, 1, i)) = i
      BY <1>1
    <2> SUFFICES ASSUME NEW a \in 0 .. i, NEW b \in 0 .. i,
                        p = SubSeq(SubSeq(p, 1, i), a + 1, b)
                 PROVE  FALSE
      BY <2>1 DEF SubSeqs
    <2>2. Len(SubSeq(SubSeq(p, 1, i), a + 1, b)) <= i
      BY <1>1, <2>1
    <2> QED BY <1>1, <2>2
  <1>4. IndexFirstSubSeq(p, p) = 1
    <2> DEFINE H(i) == p \in SubSeqs(SubSeq(p, 1, i))
    <2>1. H(Len(p)) /\ \A i \in 0 .. Len(p) - 1 : ~H(i)
      BY <1>1, <1>2, <1>3
    <2> HIDE DEF H
    <2>2. (CHOOSE i \in 0 .. Len(p) : H(i) /\ \A j \in 0 .. i - 1 : ~H(j)) = Len(p)
      BY <1>1, <2>1
    <2>3. Len(p) - (Len(p) - 1) = 1
      BY <1>1
    <2> QED BY <2>2, <2>3 DEF IndexFirstSubSeq, H
  <1>5. SubSeq(p, 1, 0) = <<>> /\ SubSeq(p, 1 + Len(p), Len(p)) = <<>>
    BY <1>1
  <1>6. ReplaceSubSeqAt(1, <<>>, p, p) = <<>>
    BY <1>5 DEF ReplaceSubSeqAt
  <1> QED BY <1>2, <1>4, <1>6 DEF ReplaceFirstSubSeq

\* pgrep lists every child of the command.
LEMMA ListsAll ==
    ASSUME NEW S \in SUBSET KidPids
    PROVE  SetToSeq(S) \in Seq(S) /\ \A k \in S : \E j \in 1 .. Len(SetToSeq(S)) : SetToSeq(S)[j] = k
  <1> DEFINE n == Cardinality(S)
  <1>1. IsFiniteSet(S)
    BY KidsFinite, FS_Subset
  <1>2. n \in Nat /\ ExistsBijection(1 .. n, S)
    BY <1>1, FS_CardinalityType
  <1>3. \E f \in [1 .. n -> S] : IsInjective(f)
    BY <1>2 DEF ExistsBijection, Bijection, Injection, IsInjective
  <1> DEFINE f == SetToSeq(S)
  <1>4. f \in [1 .. n -> S] /\ IsInjective(f)
    BY <1>3 DEF SetToSeq
  <1> HIDE DEF f
  <1>5. f \in Injection(1 .. n, S)
    BY <1>4 DEF Injection, IsInjective
  <1>6. Cardinality(1 .. n) = n
    BY <1>2, FS_Interval
  <1>7. f \in Surjection(1 .. n, S)
    BY <1>1, <1>5, <1>6, FS_Injection
  <1>8. f \in Seq(S) /\ Len(f) = n
    BY <1>2, <1>4
  <1> QED BY <1>7, <1>8 DEF Surjection, f

\* A list taken apart after its first two elements.
LEMMA FirstTwo ==
    ASSUME NEW S, NEW x \in S, NEW y \in S, NEW t \in Seq(S)
    PROVE  LET s == <<x, y>> \o t
           IN  SubSeq(s, 1, 2) = <<x, y>> /\ SubSeq(s, 3, Len(s)) = t
  <1> DEFINE s == <<x, y>> \o t
             a == SubSeq(s, 1, 2)
             b == SubSeq(s, 3, Len(s))
  <1>1. /\ s \in Seq(S) /\ Len(s) = Len(t) + 2 /\ Len(t) \in Nat /\ s[1] = x /\ s[2] = y
        /\ \A i \in 1 .. Len(t) : s[i + 2] = t[i]
    OBVIOUS
  <1> HIDE DEF s
  <1>2. a \in Seq(S) /\ Len(a) = 2 /\ a[1] = x /\ a[2] = y
    <2>1. \A i \in 1 .. 2 : s[i] \in S
      BY <1>1
    <2> QED BY <1>1, <2>1, SubSeqProperties
  <1>3. b \in Seq(S) /\ Len(b) = Len(t) /\ \A i \in 1 .. Len(t) : b[i] = t[i]
    <2>1. \A i \in 3 .. Len(s) : s[i] \in S
      BY <1>1
    <2>2. /\ b \in Seq(S) /\ Len(b) = Len(t)
          /\ \A i \in 1 .. Len(s) - 3 + 1 : b[i] = s[3 + i - 1]
      BY <1>1, <2>1, SubSeqProperties
    <2> QED BY <1>1, <2>2
  <1> HIDE DEF a, b
  <1>4. a = <<x, y>> /\ b = t
    BY <1>1, <1>2, <1>3
  <1> QED BY <1>4 DEF a, b, s

\* When the pid of the listing subshell does not contain that of the killer,
\* remove_from_list removes the killer and nothing else.
LEMMA RemovesKiller ==
    ASSUME KillerPid \notin SubSeqs(ListPid), NEW c \in Seq(Pids)
    PROVE  remove_from_list(<<ListPid, KillerPid>> \o c, KillerPid) = <<ListPid>> \o c
  <1> DEFINE list == <<ListPid, KillerPid>> \o c
             hit(i) == KillerPid \in SubSeqs(list[i])
             Q(i) == hit(i) /\ \A j \in 1 .. i - 1 : ~hit(j)
  <1>1. /\ ListPid \in Pids /\ KillerPid \in Pids
        /\ KillerPid \in Seq(0 .. 9) /\ KillerPid # <<>>
    BY PidsDistinct DEF Pids
  <1>2. /\ list \in Seq(Pids) /\ Len(list) = Len(c) + 2 /\ Len(c) \in Nat
        /\ list[1] = ListPid /\ list[2] = KillerPid
        /\ \A i \in 1 .. Len(c) : list[i + 2] = c[i]
        /\ DOMAIN list = 1 .. Len(list)
    BY <1>1
  <1> HIDE DEF list
  <1>3. Q(2) /\ 2 \in DOMAIN list
    BY <1>1, <1>2, CutWhole
  <1>4. \A i \in DOMAIN list : Q(i) => i = 2
    BY <1>2, <1>3
  <1>5. (CHOOSE i \in DOMAIN list : Q(i)) = 2
    BY <1>3, <1>4
  <1> DEFINE cut == [list EXCEPT ![2] = ReplaceFirstSubSeq(<<>>, KillerPid, list[2])]
  <1>6. cut[2] = <<>>
    BY <1>1, <1>2, CutWhole
  <1>7. remove_from_list(list, KillerPid) = RemoveAt(cut, 2)
    BY <1>5, <1>6 DEF remove_from_list
  <1>8. RemoveAt(cut, 2) = <<ListPid>> \o c
    <2> DEFINE P == Pids \cup {<<>>}
               a == SubSeq(cut, 1, 2 - 1)
               b == SubSeq(cut, 2 + 1, Len(cut))
    <2>1. /\ cut \in Seq(P) /\ Len(cut) = Len(c) + 2 /\ cut[1] = ListPid
          /\ \A i \in 1 .. Len(c) : cut[i + 2] = c[i]
      BY <1>1, <1>2, CutWhole
    <2> HIDE DEF cut
    <2>2. a \in Seq(P) /\ Len(a) = 1 /\ a[1] = ListPid
      <3>1. \A i \in 1 .. 2 - 1 : cut[i] \in P
        BY <1>2, <2>1
      <3> QED BY <2>1, <3>1, SubSeqProperties
    <2>3. b \in Seq(P) /\ Len(b) = Len(c) /\ \A i \in 1 .. Len(c) : b[i] = c[i]
      <3>1. \A i \in 2 + 1 .. Len(cut) : cut[i] \in P
        BY <1>2, <2>1
      <3>2. /\ b \in Seq(P) /\ Len(b) = Len(c)
            /\ \A i \in 1 .. Len(cut) - (2 + 1) + 1 : b[i] = cut[2 + 1 + i - 1]
        BY <1>2, <2>1, <3>1, SubSeqProperties
      <3> QED BY <1>2, <2>1, <3>2
    <2> HIDE DEF a, b, P
    <2>4. a = <<ListPid>> /\ b = c
      BY <2>2, <2>3, <1>2
    <2> QED BY <2>4 DEF RemoveAt, a, b
  <1> QED BY <1>7, <1>8 DEF list

----------------------------------------------------------------------------
(* Killing the tree of processes.                                          *)

Waits(k, i) == \E j \in 1 .. i - 1 : procs[j] = k

\* In the list, the children come before the command, so that those alive
\* when the command is killed were forked after the listing.
TreeInv ==
    /\ kids \subseteq KidPids
    /\ sleeping = "dead" \/ hup => mpc \notin {"start", "launch"}
    /\ kpc = "listing" => \E c \in {<<>>, <<CmdPid>>} : procs = <<ListPid, KillerPid>> \o c
    /\ kpc = "killing" =>
           /\ procs \in Seq(Pids)
           /\ \A i \in 1 .. Len(procs) : procs[i] # KillerPid
           /\ cmd = "running" => \A i \in 1 .. Len(procs) : procs[i] = CmdPid =>
                                     \A k \in kids \ late : Waits(k, i)
    /\ cmd = "killed" => kids \subseteq late
    /\ ~suicide

\* The list that the killer makes of the processes.
LEMMA ListStep ==
    ASSUME KillerPid \notin SubSeqs(ListPid), TreeInv, ListCmd
    PROVE  TreeInv'
  <1> DEFINE S == IF cmd = "running" THEN kids ELSE {}
             c == SetToSeq(S)
  <1>1. S \in SUBSET KidPids
    BY DEF TreeInv
  <1>2. c \in Seq(S) /\ \A k \in S : \E j \in 1 .. Len(c) : c[j] = k
    BY <1>1, ListsAll
  <1>3. PICK t \in {<<>>, <<CmdPid>>} : procs = <<ListPid, KillerPid>> \o t
    BY DEF TreeInv, ListCmd, KillerStep
  <1>4. ListPid \in Pids /\ KillerPid \in Pids /\ CmdPid \in Pids /\ KidPids \subseteq Pids
    BY DEF Pids
  <1>5. /\ t \in Seq(Pids) /\ Len(t) \in {0, 1}
        /\ \A i \in 1 .. Len(t) : t[i] = CmdPid
    <2>1. CASE t = <<>>
      BY <2>1
    <2>2. CASE t = <<CmdPid>>
      BY <1>4, <2>2
    <2> QED BY <2>1, <2>2
  <1>6. SubSeq(procs, 1, 2) = <<ListPid, KillerPid>> /\ SubSeq(procs, 3, Len(procs)) = t
    BY <1>3, <1>4, <1>5, FirstTwo
  <1>7. procs' = remove_from_list(<<ListPid, KillerPid>> \o c \o t, KillerPid)
    BY <1>6 DEF ListCmd
  <1> HIDE DEF c
  <1>8. c \in Seq(Pids) /\ Len(c) \in Nat /\ c \o t \in Seq(Pids)
    <2>1. c \in Seq(Pids)
      BY <1>1, <1>2, <1>4, SeqMonotonic
    <2> QED BY <1>5, <2>1
  <1>9. <<ListPid, KillerPid>> \o c \o t = <<ListPid, KillerPid>> \o (c \o t)
    <2>1. <<ListPid, KillerPid>> \in Seq(Pids)
      BY <1>4
    <2> QED BY <1>5, <1>8, <2>1, ConcatAssociative
  <1>10. procs' = <<ListPid>> \o (c \o t)
    BY <1>7, <1>8, <1>9, RemovesKiller
  <1>11. /\ procs' \in Seq(Pids) /\ Len(procs') = 1 + Len(c) + Len(t)
         /\ procs'[1] = ListPid
         /\ \A i \in 1 .. Len(c) : procs'[i + 1] = c[i]
         /\ \A i \in 1 .. Len(t) : procs'[i + 1 + Len(c)] = t[i]
    BY <1>4, <1>5, <1>8, <1>10
  <1>12. \A i \in 1 .. Len(c) : c[i] \in KidPids /\ c[i] # KillerPid /\ c[i] # CmdPid
    <2>1. \A i \in 1 .. Len(c) : c[i] \in KidPids
      BY <1>1, <1>2
    <2> QED BY <2>1, PidsDistinct
  <1>13. ASSUME NEW i \in 1 .. Len(procs')
         PROVE  /\ procs'[i] # KillerPid
                /\ procs'[i] = CmdPid => i > Len(c) + 1
    <2>1. CASE i = 1
      BY <1>11, <2>1, PidsDistinct
    <2>2. CASE i \in 2 .. Len(c) + 1
      <3>1. i - 1 \in 1 .. Len(c) /\ procs'[i] = c[i - 1]
        BY <1>8, <1>11, <2>2
      <3> QED BY <1>12, <3>1
    <2>3. CASE i > Len(c) + 1
      <3>1. i - 1 - Len(c) \in 1 .. Len(t) /\ procs'[i] = t[i - 1 - Len(c)]
        BY <1>5, <1>8, <1>11, <2>3
      <3> QED BY <1>5, <2>3, <3>1, PidsDistinct
    <2> QED BY <1>8, <2>1, <2>2, <2>3
  <1>14. ASSUME cmd = "running", NEW i \in 1 .. Len(procs'), procs'[i] = CmdPid, NEW k \in kids
         PROVE  \E j \in 1 .. i - 1 : procs'[j] = k
    <2>1. i > Len(c) + 1
      BY <1>13, <1>14
    <2>2. PICK j \in 1 .. Len(c) : c[j] = k
      BY <1>2, <1>14
    <2>3. j + 1 \in 1 .. i - 1 /\ procs'[j + 1] = k
      BY <1>8, <1>11, <2>1, <2>2
    <2> QED BY <2>3
  <1>15. /\ UNCHANGED <<mpc, hup, cmd, kids, late, suicide, sleeping>>
         /\ kpc' = "killing"
    BY DEF ListCmd, KillerStep, mainVars, cmdVars
  <1> QED BY <1>11, <1>13, <1>14, <1>15 DEF TreeInv, Waits

\* One signal of kill.
LEMMA KillStep ==
    ASSUME TreeInv, KillOne
    PROVE  TreeInv'
  <1>1. /\ procs \in Seq(Pids) /\ procs # <<>> /\ kpc = "killing"
        /\ \A i \in 1 .. Len(procs) : procs[i] # KillerPid
    BY DEF TreeInv, KillOne
  <1>2. /\ Head(procs) = procs[1] /\ Len(procs) \in Nat \ {0}
        /\ procs' \in Seq(Pids) /\ Len(procs') = Len(procs) - 1
        /\ \A i \in 1 .. Len(procs) - 1 : procs'[i] = procs[i + 1]
    BY <1>1 DEF KillOne
  <1> DEFINE p == procs[1]
  <1>3. /\ p # KillerPid /\ kids' = kids \ {p} /\ kpc' = kpc /\ ~suicide'
        /\ cmd' = IF p = CmdPid /\ cmd = "running" THEN "killed" ELSE cmd
        /\ UNCHANGED <<mpc, hup, sleeping, late>>
    <2>1. p # KillerPid /\ p = Head(procs)
      BY <1>1, <1>2
    <2> HIDE DEF p
    <2>2. /\ kids' = kids \ {p} /\ suicide' = (p = KillerPid)
          /\ kpc' = IF p = KillerPid THEN "dead" ELSE kpc
          /\ cmd' = IF p = CmdPid /\ cmd = "running" THEN "killed" ELSE cmd
          /\ UNCHANGED <<mpc, hup, sleeping, late>>
      BY <2>1, Zenon DEF KillOne, mainVars
    <2> QED BY <2>1, <2>2
  <1> HIDE DEF p
  <1>4. \A i \in 1 .. Len(procs') : procs'[i] # KillerPid
    BY <1>1, <1>2
  <1>5. ASSUME cmd' = "running", NEW i \in 1 .. Len(procs'), procs'[i] = CmdPid,
               NEW k \in kids' \ late'
        PROVE  \E j \in 1 .. i - 1 : procs'[j] = k
    <2>1. cmd = "running" /\ k \in kids \ late /\ k # p
      BY <1>3, <1>5
    <2>2. i + 1 \in 1 .. Len(procs) /\ procs[i + 1] = CmdPid
      BY <1>2, <1>5
    <2>3. PICK j \in 1 .. i : procs[j] = k
      <3>1. (i + 1) - 1 = i
        BY <1>2
      <3>2. Waits(k, i + 1)
        BY <1>1, <2>1, <2>2 DEF TreeInv
      <3> QED BY <3>1, <3>2 DEF Waits
    <2>4. j # 1
      BY <2>1, <2>3 DEF p
    <2>5. j - 1 \in 1 .. i - 1 /\ procs'[j - 1] = k
      BY <1>2, <2>3, <2>4
    <2> QED BY <2>5
  <1>6. cmd' = "killed" => kids' \subseteq late'
    <2>1. CASE p = CmdPid /\ cmd = "running"
      <3>1. \A k \in kids \ late : Waits(k, 1)
        BY <1>1, <1>2, <2>1 DEF TreeInv, p
      <3>2. \A k : ~ Waits(k, 1)
        BY DEF Waits
      <3> QED BY <1>3, <3>1, <3>2
    <2>2. CASE ~ (p = CmdPid /\ cmd = "running")
      BY <1>3, <2>2 DEF TreeInv
    <2> QED BY <2>1, <2>2
  <1> QED BY <1>1, <1>2, <1>3, <1>4, <1>5, <1>6 DEF TreeInv, Waits

\* When the pid of the listing subshell does not contain that of the killer, a
\* killed command leaves no child that was listed, and the killer does not
\* kill itself before it has finished.  Without that condition the second
\* part is false: run timeout_pid.
THEOREM TreeKilled ==
    ASSUME KillerPid \notin SubSeqs(ListPid)
    PROVE  Spec => [](KillsTree /\ KillerFinishes)
  <1>1. Init => TreeInv
    BY DEF Init, TreeInv
  <1>2. SleepInv /\ TreeInv /\ [Next]_vars => TreeInv'
    <2> SUFFICES ASSUME SleepInv, TreeInv, [Next]_vars PROVE TreeInv'
      OBVIOUS
    <2>1. CASE ForkKiller \/ WaitCmd \/ TestKiller \/ HangUp \/ WaitKiller
      BY <2>1 DEF TreeInv, Waits, ForkKiller, WaitCmd, TestKiller, HangUp, WaitKiller,
                  killerVars, cmdVars
    <2>2. CASE ForkCmd
      <3>1. kpc # "killing" /\ UNCHANGED <<hup, sleeping, kids, late, killerVars>>
        BY <2>2 DEF SleepInv, TreeInv, ForkCmd
      <3> QED BY <2>2, <3>1 DEF TreeInv, ForkCmd, killerVars
    <2>3. CASE ForkSleep \/ SetSleepPid \/ WaitSleep \/ KillerEnds
      BY <2>3 DEF TreeInv, KillerStep, ForkSleep, SetSleepPid, WaitSleep, KillerEnds,
                  mainVars, cmdVars
    <2>4. CASE ListKiller
      <3>1. \E c \in {<<>>, <<CmdPid>>} : procs' = <<ListPid, KillerPid>> \o c
        BY <2>4 DEF ListKiller
      <3> QED BY <2>4, <3>1 DEF TreeInv, ListKiller, KillerStep, mainVars, cmdVars
    <2>5. CASE ListCmd
      BY <2>5, ListStep
    <2>6. CASE KillOne
      BY <2>6, KillStep
    <2>7. CASE HangsUp
      BY <2>7 DEF TreeInv, HangsUp, mainVars, cmdVars
    <2>8. CASE SleepEnds \/ CmdEnds
      BY <2>8 DEF TreeInv, Waits, SleepEnds, CmdEnds, mainVars, killerVars, cmdVars
    <2>9. CASE CmdForks
      BY <2>9 DEF TreeInv, Waits, CmdForks, mainVars, killerVars
    <2>10. CASE KidEnds
      BY <2>10 DEF TreeInv, Waits, KidEnds, mainVars, killerVars
    <2>11. CASE UNCHANGED vars
      BY <2>11 DEF TreeInv, Waits, vars
    <2> QED BY <2>1, <2>2, <2>3, <2>4, <2>5, <2>6, <2>7, <2>8, <2>9, <2>10, <2>11
            DEF Next, Main, Killer
  <1>3. TreeInv => KillsTree /\ KillerFinishes
    BY DEF TreeInv, KillsTree, KillerFinishes
  <1> QED BY <1>1, <1>2, <1>3, SleepKept, PTL DEF Spec
=============================================================================
