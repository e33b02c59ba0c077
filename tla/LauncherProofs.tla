--------------------------- MODULE LauncherProofs ---------------------------
(* Theorems about Launcher, for any number of shells, commands, processes   *)
(* and failures.                                                            *)
EXTENDS Launcher, FiniteSetTheorems, TLAPS

Commands == {"start", "stop", "restart", "status"}

\* Where a script has a process of its own.
HasPid == {"write", "sleep", "clear", "term", "wait", "kill", "unlink"}
Labels == HasPid \cup {"idle", "look", "remove", "pgrep", "fork", "stopped"}

\* TypeOK, and that the variables of the scripts are functions.
Shape ==
  /\ TypeOK
  /\ cmd \in [Scripts -> Commands \cup {None}]
  /\ pc \in [Scripts -> Labels]
  /\ pid \in [Scripts -> Pids \cup {None}]

\* What TypeOK says of one script.
Fits(s) ==
  /\ cmd[s] \in IF pc[s] = "idle" THEN {None} ELSE Commands
  /\ pc[s] \in HasPid => pid[s] # None /\ proc[pid[s]] # "unborn"

\* What there is to know of processes and bounds.
LEMMA ShapeParts ==
  Shape <=> /\ proc \in [Pids -> {"unborn", "forked", "init", "serving", "stopping", "gone"}]
            /\ pidFile \in Pids \cup {None}
            /\ signalled \subseteq Pids /\ order \in {"always", "again", "no"}
            /\ runs \in 0..MaxRuns /\ faults \in 0..MaxFaults
            /\ cmd \in [Scripts -> Commands \cup {None}]
            /\ pc \in [Scripts -> Labels]
            /\ pid \in [Scripts -> Pids \cup {None}]
            /\ \A s \in Scripts : Fits(s)
BY DEF Shape, TypeOK, Fits, Commands, HasPid

\* A step of a script changes its own variables only.
Others(s) ==
  \A t \in Scripts : t # s => pc'[t] = pc[t] /\ cmd'[t] = cmd[t] /\ pid'[t] = pid[t]

\* No process is forgotten.
Remembers == \A p \in Pids : proc[p] # "unborn" => proc'[p] # "unborn"

LEMMA GotIs ==
  ASSUME Shape, NEW s \in Scripts, NEW p \in Pids \cup {None}, pc[s] # "idle", Got(s, p)
  PROVE  /\ pc' \in [Scripts -> Labels] /\ cmd' \in [Scripts -> Commands \cup {None}]
         /\ pid' \in [Scripts -> Pids \cup {None}]
         /\ Others(s)
         /\ \/ /\ p # None /\ pc'[s] = "term" /\ pid'[s] = p /\ cmd' = cmd
            \/ /\ p = None /\ pc'[s] \in {"stopped", "fork"} /\ cmd' = cmd /\ pid' = pid
            \/ /\ pc'[s] = "idle" /\ cmd'[s] = None /\ pid'[s] = None
               /\ p = None => cmd[s] = "status"
<1>1. cmd[s] \in Commands
  BY ShapeParts DEF Fits
<1>2. CASE p # None /\ cmd[s] \in {"stop", "restart"}
  <2>1. Goto(s, "term") /\ pid' = [pid EXCEPT ![s] = p] /\ UNCHANGED cmd
    BY <1>2 DEF Got
  <2>2. QED
    BY <1>2, <2>1, ShapeParts DEF Goto, Others, Labels, HasPid
<1>3. CASE p = None /\ cmd[s] \in {"stop", "restart"}
  <2>1. Goto(s, "stopped") /\ UNCHANGED <<cmd, pid>>
    BY <1>3 DEF Got
  <2>2. QED
    BY <1>3, <2>1, ShapeParts DEF Goto, Others, Labels, HasPid
<1>4. CASE p = None /\ cmd[s] = "start"
  <2>1. Goto(s, "fork") /\ UNCHANGED <<cmd, pid>>
    BY <1>4 DEF Got
  <2>2. QED
    BY <1>4, <2>1, ShapeParts DEF Goto, Others, Labels, HasPid
<1>5. CASE cmd[s] = "status" \/ (p # None /\ cmd[s] = "start")
  <2>1. End(s)
    BY <1>5 DEF Got
  <2>2. QED
    BY <1>5, <2>1, ShapeParts DEF End, Goto, Others, Labels, HasPid
<1>6. QED
  BY <1>1, <1>2, <1>3, <1>4, <1>5 DEF Commands

LEMMA InitShape == Init => Shape
BY LauncherAssumption, ShapeParts DEF Init, Fits, Labels, HasPid

\* A step of a script that leaves its functions well-formed, what the other
\* scripts know alone, and itself something that fits.
LEMMA ShapeOfScript ==
  ASSUME Shape, NEW s \in Scripts, Others(s), Remembers, Fits(s)',
         pc' \in [Scripts -> Labels], cmd' \in [Scripts -> Commands \cup {None}],
         pid' \in [Scripts -> Pids \cup {None}],
         proc' \in [Pids -> {"unborn", "forked", "init", "serving", "stopping", "gone"}],
         pidFile' \in Pids \cup {None}, signalled' \subseteq Pids,
         order' \in {"always", "again", "no"}, runs' \in 0..MaxRuns, faults' \in 0..MaxFaults
  PROVE  Shape'
<1>1. ASSUME NEW t \in Scripts, t # s
      PROVE  Fits(t)'
  <2>1. Fits(t) /\ pc'[t] = pc[t] /\ cmd'[t] = cmd[t] /\ pid'[t] = pid[t]
    BY <1>1, ShapeParts DEF Others
  <2>2. pid[t] \in Pids \cup {None}
    BY ShapeParts
  <2>3. QED
    BY <2>1, <2>2 DEF Fits, Remembers
<1>2. \A t \in Scripts : Fits(t)'
  BY <1>1
<1>3. QED
  BY <1>2 DEF Shape, TypeOK, Fits, Commands, HasPid

\* A step of a process changes that process only.
LEMMA ShapeOfProcess ==
  ASSUME Shape, NEW p \in Pids, proc[p] # "unborn", NEW state, Become(p, state),
         state \in {"init", "serving", "stopping", "gone"},
         UNCHANGED <<pidFile, cmd, pc, pid, signalled, order, runs>>, faults' \in 0..MaxFaults
  PROVE  Shape'
<1>1. \A s \in Scripts : Fits(s)'
  BY ShapeParts DEF Fits, Become
<1>2. proc' \in [Pids -> {"unborn", "forked", "init", "serving", "stopping", "gone"}]
  BY ShapeParts DEF Become
<1>3. QED
  BY <1>1, <1>2, ShapeParts DEF Shape, TypeOK, Fits, Commands, HasPid

\* The bounds.
LEMMA Counting ==
  ASSUME Shape
  PROVE  /\ MaxRuns \in Nat /\ MaxFaults \in Nat /\ faults \in 0..MaxFaults /\ runs \in 0..MaxRuns
         /\ Fault => faults' \in 0..MaxFaults
         /\ runs < MaxRuns => runs + 1 \in 0..MaxRuns
BY LauncherAssumption, ShapeParts DEF Fault

LEMMA ShapeStep == Shape /\ [Next]_vars => Shape'
<1> SUFFICES ASSUME Shape, [Next]_vars PROVE Shape'
  OBVIOUS
<1> USE ShapeParts
<1>1. CASE UNCHANGED vars
  BY <1>1 DEF vars, Shape, TypeOK
<1>2. ASSUME NEW s \in Scripts, Invoke(s)
      PROVE  Shape'
  <2>1. /\ Others(s) /\ Fits(s)' /\ cmd' \in [Scripts -> Commands \cup {None}]
        /\ pc' \in [Scripts -> Labels]
    BY <1>2 DEF Invoke, Goto, Others, Fits, Labels, Commands, HasPid
  <2>2. order' \in {"always", "again", "no"}
    BY <1>2 DEF Invoke
  <2>3. Remembers /\ runs' \in 0..MaxRuns
    BY <1>2, Counting DEF Invoke, Remembers
  <2>4. QED
    BY <1>2, <2>1, <2>2, <2>3, ShapeOfScript DEF Invoke
<1>3. ASSUME NEW s \in Scripts, Look(s) \/ Pgrep(s)
      PROVE  Shape'
  <2>1. Remembers /\ UNCHANGED <<proc, pidFile, signalled, order, runs, faults>> /\ pc[s] \in {"look", "pgrep"}
    BY <1>3 DEF Look, Pgrep, Remembers
  <2>2. CASE \E p \in Execd \cup {None} : Got(s, p)
    <3>1. PICK p \in Execd \cup {None} : Got(s, p)
      BY <2>2
    <3>2. Execd \subseteq Pids /\ \A q \in Execd : proc[q] # "unborn"
      BY DEF Execd, Live
    <3>3. Others(s) /\ Fits(s)'
      BY <2>1, <3>1, <3>2, GotIs, LauncherAssumption DEF Fits, HasPid
    <3>4. QED
      BY <2>1, <3>1, <3>2, <3>3, GotIs, ShapeOfScript
  <2>3. CASE (Goto(s, "pgrep") \/ Goto(s, "remove")) /\ UNCHANGED <<cmd, pid>>
    <3>1. Others(s) /\ Fits(s)' /\ pc' \in [Scripts -> Labels]
      BY <2>1, <2>3 DEF Goto, Others, Fits, Labels, HasPid
    <3>2. QED
      BY <2>1, <2>3, <3>1, ShapeOfScript
  <2>4. QED
    BY <1>3, <2>2, <2>3 DEF Look, Pgrep
<1>4. ASSUME NEW s \in Scripts, Remove(s) \/ Unlink(s) \/ Write(s) \/ Wait(s)
      PROVE  Shape'
  <2>1. /\ Others(s) /\ Fits(s)' /\ Remembers /\ pc' \in [Scripts -> Labels]
        /\ UNCHANGED <<proc, cmd, pid, signalled, order, runs, faults>>
    BY <1>4 DEF Remove, Unlink, Write, Wait, Goto, Others, Remembers, Fits, Labels, HasPid
  <2>2. pidFile' \in Pids \cup {None}
    BY <1>4 DEF Remove, Unlink, Write, Wait
  <2>3. QED
    BY <2>1, <2>2, ShapeOfScript
<1>5. ASSUME NEW s \in Scripts, Fork(s)
      PROVE  Shape'
  <2>1. UNCHANGED <<pidFile, signalled, order, runs>> /\ pc[s] = "fork"
    BY <1>5 DEF Fork
  <2>2. CASE Fault /\ End(s) /\ UNCHANGED proc
    <3>1. /\ Others(s) /\ Fits(s)' /\ pc' \in [Scripts -> Labels] /\ Remembers
          /\ cmd' \in [Scripts -> Commands \cup {None}] /\ pid' \in [Scripts -> Pids \cup {None}]
      BY <2>1, <2>2 DEF End, Goto, Others, Remembers, Fits, Labels, HasPid
    <3>2. QED
      BY <2>1, <2>2, <3>1, Counting, ShapeOfScript
  <2>3. ASSUME NEW p \in Pids, Become(p, "forked"), pid' = [pid EXCEPT ![s] = p],
               Goto(s, "write"), UNCHANGED <<cmd, faults>>
        PROVE  Shape'
    <3>1. /\ Others(s) /\ pc' \in [Scripts -> Labels] /\ pid' \in [Scripts -> Pids \cup {None}]
          /\ proc' \in [Pids -> {"unborn", "forked", "init", "serving", "stopping", "gone"}]
      BY <2>1, <2>3 DEF Goto, Become, Others, Labels, HasPid
    <3>2. Remembers /\ proc'[p] = "forked" /\ pid'[s] = p /\ pc'[s] = "write" /\ cmd'[s] = cmd[s]
      BY <2>1, <2>3 DEF Goto, Become, Remembers
    <3>3. Fits(s)'
      BY <2>1, <3>2, LauncherAssumption DEF Fits, HasPid
    <3>4. QED
      BY <2>1, <2>3, <3>1, <3>2, <3>3, ShapeOfScript
  <2>4. QED
    BY <1>5, <2>2, <2>3 DEF Fork
<1>6. ASSUME NEW s \in Scripts, Check(s) \/ Clear(s) \/ Stopped(s) \/ Interrupt(s)
      PROVE  Shape'
  <2>1. /\ UNCHANGED <<proc, signalled, runs>> /\ pidFile' \in {pidFile, None} /\ pc[s] # "idle"
        /\ order' \in {"always", "again", "no"} /\ faults' \in 0..MaxFaults /\ Remembers
    BY <1>6, Counting DEF Check, Clear, Stopped, Interrupt, Remembers
  <2>2. CASE End(s)
    <3>1. /\ Others(s) /\ Fits(s)' /\ pc' \in [Scripts -> Labels]
          /\ cmd' \in [Scripts -> Commands \cup {None}] /\ pid' \in [Scripts -> Pids \cup {None}]
      BY <2>1, <2>2 DEF End, Goto, Others, Fits, Labels, HasPid
    <3>2. QED
      BY <2>1, <3>1, ShapeOfScript
  <2>3. CASE pc[s] = "sleep" /\ Goto(s, "clear") /\ UNCHANGED <<cmd, pid>>
    <3>1. Others(s) /\ Fits(s)' /\ pc' \in [Scripts -> Labels]
      BY <2>1, <2>3 DEF Goto, Others, Fits, Labels, HasPid
    <3>2. QED
      BY <2>1, <2>3, <3>1, ShapeOfScript
  <2>4. CASE Goto(s, "look") /\ cmd' = [cmd EXCEPT ![s] = "start"] /\ pid' = [pid EXCEPT ![s] = None]
    <3>1. /\ Others(s) /\ Fits(s)' /\ pc' \in [Scripts -> Labels]
          /\ cmd' \in [Scripts -> Commands \cup {None}] /\ pid' \in [Scripts -> Pids \cup {None}]
      BY <2>1, <2>4 DEF Goto, Others, Fits, Labels, HasPid, Commands
    <3>2. QED
      BY <2>1, <3>1, ShapeOfScript
  <2>5. QED
    BY <1>6, <2>2, <2>3, <2>4 DEF Check, Clear, Stopped, Interrupt
<1>7. ASSUME NEW s \in Scripts, Term(s) \/ Kill(s)
      PROVE  Shape'
  <2>1. /\ pid[s] \in Pids /\ proc[pid[s]] # "unborn" /\ pc[s] \in {"term", "kill"} /\ pid[s] # None
        /\ UNCHANGED <<pidFile, order, runs>>
    BY <1>7 DEF Term, Kill, Fits, HasPid
  <2>2. CASE \E state \in {"forked", "init", "serving", "stopping", "gone"} :
               /\ Become(pid[s], state) /\ (Goto(s, "wait") \/ Goto(s, "unlink"))
               /\ UNCHANGED <<cmd, pid, faults>> /\ signalled' \subseteq Pids
    <3>1. PICK state \in {"forked", "init", "serving", "stopping", "gone"} : Become(pid[s], state)
      BY <2>2
    <3>2. Remembers /\ proc' \in [Pids -> {"unborn", "forked", "init", "serving", "stopping", "gone"}]
      BY <2>1, <3>1 DEF Become, Remembers
    <3>3. /\ Others(s) /\ pc' \in [Scripts -> Labels] /\ pc'[s] # "idle" /\ cmd'[s] = cmd[s]
          /\ pid'[s] = pid[s]
      BY <2>2 DEF Goto, Others, Labels, HasPid
    <3>4. Fits(s)'
      BY <2>1, <3>2, <3>3 DEF Fits, Remembers
    <3>5. QED
      BY <2>1, <2>2, <3>2, <3>3, <3>4, ShapeOfScript
  <2>3. CASE Fault /\ End(s) /\ UNCHANGED <<proc, signalled>>
    <3>1. /\ Others(s) /\ Fits(s)' /\ pc' \in [Scripts -> Labels] /\ Remembers
          /\ cmd' \in [Scripts -> Commands \cup {None}] /\ pid' \in [Scripts -> Pids \cup {None}]
      BY <2>1, <2>3 DEF End, Goto, Others, Remembers, Fits, Labels, HasPid
    <3>2. QED
      BY <2>1, <2>3, <3>1, Counting, ShapeOfScript
  <2>4. ASSUME Term(s) PROVE Shape'
    <3>1. PICK state \in {"forked", "init", "serving", "stopping", "gone"} : Become(pid[s], state)
      BY <2>1, <2>4 DEF Term
    <3>2. QED
      BY <2>1, <2>2, <2>4, <3>1 DEF Term
  <2>5. QED
    BY <1>7, <2>1, <2>2, <2>3, <2>4 DEF Kill
<1>8. ASSUME NEW p \in Pids, Exec(p) \/ Serve(p) \/ Exit(p) \/ Die(p)
      PROVE  Shape'
  <2>1. /\ proc[p] # "unborn" /\ UNCHANGED <<pidFile, cmd, pc, pid, signalled, order, runs>>
        /\ faults' \in 0..MaxFaults
        /\ \E state \in {"init", "serving", "stopping", "gone"} : Become(p, state)
    BY <1>8, Counting DEF Exec, Serve, Exit, Die, Execd, Live
  <2>2. QED
    BY <2>1, ShapeOfProcess
<1>9. QED
  BY <1>1, <1>2, <1>3, <1>4, <1>5, <1>6, <1>7, <1>8 DEF Next, Continue

THEOREM Shaped == Spec => []Shape
BY InitShape, ShapeStep, PTL DEF Spec

\* Whatever runs beside whatever, a script past get_pid that needs a process has
\* one that was forked.
THEOREM TypeCorrect == Spec => []TypeOK
BY Shaped, PTL DEF Shape

-----------------------------------------------------------------------------
(* Scripts that do not overlap.                                             *)

\* What a script on its own knows of the processes and the pid file, by where it
\* is: "always" it has a file to go by, "again" it may have to do without.
Knows(s) ==
  /\ pc[s] \in {"fork", "clear", "unlink", "stopped"} => Live = {}
  /\ pc[s] \in {"write", "sleep", "term", "wait", "kill"} => Live \subseteq {pid[s]}
  /\ pc[s] \in {"pgrep", "fork", "write", "stopped"} => pidFile = None
  /\ pc[s] = "sleep" => pidFile = pid[s]
  /\ pc[s] \in {"term", "wait", "kill"} => pidFile \in {None, pid[s]}
  /\ order = "always" /\ pc[s] \in {"remove", "pgrep"} => Live = {}
  /\ order = "always" /\ pc[s] \in {"look", "term", "wait", "kill"} => Live \subseteq {pidFile}

\* The pid file while no script runs.
AtRest ==
  Quiet => \A p \in Live : pidFile = p \/ (pidFile = None /\ order = "again")

\* One script at most is under way, one process at most is alive, and it is on its
\* way to the binary only while the script that forked it looks on.
LaunchInv ==
  order # "no" =>
    /\ \A s, t \in Scripts : pc[s] # "idle" /\ pc[t] # "idle" => s = t
    /\ \A p, q \in Live : p = q
    /\ \A p \in Live \ Execd : \E s \in Scripts : pc[s] \in {"write", "sleep"} /\ pid[s] = p
    /\ \A s \in Scripts : Knows(s)
    /\ AtRest

LEMMA InitLaunchInv == Init => LaunchInv
BY DEF Init, LaunchInv, Knows, AtRest, Live

\* The facts of LaunchInv for a step of a script that leaves order as it is.
LEMMA Alone ==
  ASSUME Shape, LaunchInv, order # "no", NEW s \in Scripts, pc[s] # "idle"
  PROVE  /\ \A t \in Scripts : t # s => pc[t] = "idle"
         /\ \A p, q \in Live : p = q
         /\ \A p \in Live \ Execd : pc[s] \in {"write", "sleep"} /\ pid[s] = p
         /\ Knows(s)
         /\ Execd \subseteq Live /\ Live \subseteq Pids /\ None \notin Live
<1>1. /\ \A t \in Scripts : t # s => pc[t] = "idle"
      /\ \A p \in Live \ Execd : \E t \in Scripts : pc[t] \in {"write", "sleep"} /\ pid[t] = p
  BY DEF LaunchInv
<1>2. \A p \in Live \ Execd : pc[s] \in {"write", "sleep"} /\ pid[s] = p
  BY <1>1
<1>3. QED
  BY <1>1, <1>2, LauncherAssumption DEF LaunchInv, Live, Execd

\* ... and what is left to show of it after the step.
LEMMA AloneNext ==
  ASSUME NEW s \in Scripts, \A t \in Scripts : t # s => pc'[t] = "idle",
         \A p, q \in Live' : p = q,
         \A p \in Live' \ Execd' : pc'[s] \in {"write", "sleep"} /\ pid'[s] = p,
         Knows(s)',
         pc'[s] = "idle" =>
           \A p \in Live' : pidFile' = p \/ (pidFile' = None /\ order' = "again")
  PROVE  LaunchInv'
<1>1. \A t \in Scripts : Knows(t)'
  BY DEF Knows
<1>2. QED
  BY <1>1 DEF LaunchInv, AtRest, Quiet

\* A script that leaves the processes alone.
LEMMA AloneQuiet ==
  ASSUME Shape, LaunchInv, order # "no", NEW s \in Scripts, pc[s] # "idle", Others(s),
         proc' = proc, order' = order,
         (pc[s] \in {"write", "sleep"} /\ Live # Execd) =>
           pc'[s] \in {"write", "sleep"} /\ pid'[s] = pid[s],
         Knows(s)',
         pc'[s] = "idle" =>
           \A p \in Live : pidFile' = p \/ (pidFile' = None /\ order = "again")
  PROVE  LaunchInv'
<1>1. Live' = Live /\ Execd' = Execd
  BY DEF Live, Execd
<1>2. \A t \in Scripts : t # s => pc'[t] = "idle"
  BY Alone DEF Others
<1>3. \A p \in Live \ Execd : pc'[s] \in {"write", "sleep"} /\ pid'[s] = p
  BY Alone
<1>4. QED
  BY <1>1, <1>2, <1>3, Alone, AloneNext

\* get_pid.
LEMMA LookKeeps ==
  ASSUME Shape, LaunchInv, order # "no", NEW s \in Scripts, Look(s) \/ Remove(s) \/ Pgrep(s)
  PROVE  LaunchInv'
<1>1. /\ pc[s] \in {"look", "remove", "pgrep"}
      /\ UNCHANGED <<proc, signalled, order, runs, faults>>
  BY DEF Look, Remove, Pgrep
<1>2. Live = Execd /\ Live \subseteq Pids /\ None \notin Live /\ \A p, q \in Live : p = q
  BY <1>1, Alone
<1>3. Live' = Live /\ Knows(s)
  BY <1>1, Alone DEF Live
<1>4. ASSUME Goto(s, "pgrep"), UNCHANGED <<cmd, pid>>, pidFile' = None,
             order = "always" => Live = {}
      PROVE  LaunchInv'
  <2>1. Others(s) /\ pc'[s] = "pgrep"
    BY <1>4, ShapeParts DEF Goto, Others
  <2>2. Knows(s)'
    BY <1>1, <1>3, <1>4, <2>1 DEF Knows
  <2>3. QED
    BY <1>1, <2>1, <2>2, AloneQuiet
<1>5. ASSUME Goto(s, "remove"), UNCHANGED <<cmd, pid, pidFile>>,
             order = "always" => Live = {}
      PROVE  LaunchInv'
  <2>1. Others(s) /\ pc'[s] = "remove"
    BY <1>5, ShapeParts DEF Goto, Others
  <2>2. Knows(s)'
    BY <1>1, <1>3, <1>5, <2>1 DEF Knows
  <2>3. QED
    BY <1>1, <2>1, <2>2, AloneQuiet
<1>6. ASSUME NEW p \in Live, Got(s, p), UNCHANGED pidFile,
             pidFile = p \/ (pidFile = None /\ order = "again")
      PROVE  LaunchInv'
  <2>1. p \in Pids /\ p # None /\ Live = {p}
    BY <1>2
  <2>2. Others(s) /\ (pc'[s] = "idle" \/ (pc'[s] = "term" /\ pid'[s] = p))
    BY <1>1, <1>6, <2>1, GotIs
  <2>3. Knows(s)'
    BY <1>1, <1>3, <1>6, <2>1, <2>2 DEF Knows
  <2>4. QED
    BY <1>1, <1>6, <2>1, <2>2, <2>3, AloneQuiet
<1>7. ASSUME Got(s, None), UNCHANGED pidFile, Live = {}, pidFile = None
      PROVE  LaunchInv'
  <2>1. Others(s) /\ pc'[s] \in {"idle", "stopped", "fork"}
    BY <1>1, <1>7, GotIs
  <2>2. Knows(s)'
    BY <1>1, <1>3, <1>7, <2>1 DEF Knows
  <2>3. QED
    BY <1>1, <1>7, <2>1, <2>2, AloneQuiet
<1>8. CASE Look(s)
  <2>1. CASE pidFile = None /\ Goto(s, "pgrep") /\ UNCHANGED <<cmd, pid>>
    BY <1>2, <1>3, <1>4, <1>8, <2>1 DEF Look, Knows
  <2>2. CASE pidFile \in Execd /\ Got(s, pidFile)
    BY <1>2, <1>6, <1>8, <2>2 DEF Look
  <2>3. CASE pidFile \notin Execd \cup {None} /\ Goto(s, "remove") /\ UNCHANGED <<cmd, pid>>
    BY <1>2, <1>3, <1>5, <1>8, <2>3 DEF Look, Knows
  <2>4. QED
    BY <1>8, <2>1, <2>2, <2>3 DEF Look
<1>9. CASE Remove(s)
  BY <1>3, <1>4, <1>9 DEF Remove, Knows
<1>10. CASE Pgrep(s)
  <2>1. pidFile = None /\ (order = "always" => Live = {}) /\ order \in {"always", "again"}
    BY <1>3, <1>10, ShapeParts DEF Pgrep, Knows
  <2>2. CASE Execd = {} /\ Got(s, None)
    BY <1>2, <1>7, <1>10, <2>1, <2>2 DEF Pgrep
  <2>3. CASE \E p \in Execd : Got(s, p)
    BY <1>2, <1>6, <1>10, <2>1, <2>3 DEF Pgrep
  <2>4. QED
    BY <1>10, <2>2, <2>3 DEF Pgrep
<1>11. QED
  BY <1>8, <1>9, <1>10

\* cmd_start.
LEMMA StartKeeps ==
  ASSUME Shape, LaunchInv, order # "no", NEW s \in Scripts,
         Fork(s) \/ Write(s) \/ Check(s) \/ Clear(s)
  PROVE  LaunchInv'
<1> USE ShapeParts
<1>1. pc[s] \in {"fork", "write", "sleep", "clear"} /\ UNCHANGED <<order, runs, signalled>>
  BY DEF Fork, Write, Check, Clear
<1>2. Knows(s) /\ \A p \in Live \ Execd : pc[s] \in {"write", "sleep"} /\ pid[s] = p
  BY <1>1, Alone
<1>3. CASE Fork(s)
  <2>1. Live = {} /\ pidFile = None /\ pidFile' = None
    BY <1>2, <1>3 DEF Fork, Knows
  <2>2. CASE Fault /\ End(s) /\ UNCHANGED proc
    <3>1. Others(s) /\ pc'[s] = "idle"
      BY <2>2 DEF End, Goto, Others
    <3>2. Knows(s)'
      BY <3>1 DEF Knows
    <3>3. QED
      BY <1>1, <1>3, <2>1, <2>2, <3>1, <3>2, AloneQuiet DEF Fork
  <2>3. ASSUME NEW p \in Pids, Become(p, "forked"), pid' = [pid EXCEPT ![s] = p],
               Goto(s, "write"), UNCHANGED <<cmd, faults>>
        PROVE  LaunchInv'
    <3>1. \A q \in Pids : proc[q] \in {"unborn", "gone"}
      BY <2>1 DEF Live
    <3>2. Live' = {p}
      BY <2>3, <3>1 DEF Live, Become
    <3>3. pc'[s] = "write" /\ pid'[s] = p /\ \A t \in Scripts : t # s => pc'[t] = "idle"
      BY <1>1, <2>3, Alone DEF Goto
    <3>4. Knows(s)'
      BY <2>1, <3>2, <3>3 DEF Knows
    <3>5. QED
      BY <3>2, <3>3, <3>4, AloneNext
  <2>4. QED
    BY <1>3, <2>2, <2>3 DEF Fork
<1>4. CASE Write(s)
  <2>1. Others(s) /\ pc'[s] = "sleep" /\ pidFile' = pid[s] /\ UNCHANGED <<proc, pid>> /\ Live' = Live
    BY <1>4 DEF Write, Goto, Others, Live
  <2>2. Knows(s)'
    BY <1>2, <1>4, <2>1 DEF Knows, Write
  <2>3. QED
    BY <1>1, <2>1, <2>2, AloneQuiet
<1>5. CASE Check(s)
  <2>1. /\ pidFile = pid[s] /\ pidFile' = pidFile /\ Live \subseteq {pid[s]} /\ proc' = proc
        /\ proc[pid[s]] # "forked" /\ Live' = Live
    BY <1>2, <1>5 DEF Check, Knows, Live
  <2>2. Live = Execd
    BY <2>1 DEF Execd
  <2>3. CASE End(s)
    <3>1. Others(s) /\ pc'[s] = "idle"
      BY <2>3 DEF End, Goto, Others
    <3>2. Knows(s)'
      BY <3>1 DEF Knows
    <3>3. QED
      BY <1>1, <2>1, <2>2, <3>1, <3>2, AloneQuiet
  <2>4. CASE pid[s] \notin Live /\ Goto(s, "clear") /\ UNCHANGED <<cmd, pid>>
    <3>1. Others(s) /\ pc'[s] = "clear" /\ Live = {}
      BY <2>1, <2>4 DEF Goto, Others
    <3>2. Knows(s)'
      BY <2>1, <3>1 DEF Knows
    <3>3. QED
      BY <1>1, <2>1, <2>2, <3>1, <3>2, AloneQuiet
  <2>5. QED
    BY <1>5, <2>3, <2>4 DEF Check
<1>6. CASE Clear(s)
  <2>1. Others(s) /\ pc'[s] = "idle" /\ Live = {} /\ proc' = proc
    BY <1>2, <1>6 DEF Clear, End, Goto, Others, Knows
  <2>2. Knows(s)'
    BY <2>1 DEF Knows
  <2>3. QED
    BY <1>1, <2>1, <2>2, <1>6, AloneQuiet DEF Clear
<1>7. QED
  BY <1>3, <1>4, <1>5, <1>6

\* cmd_stop, and the way from there to cmd_start.
LEMMA StopKeeps ==
  ASSUME Shape, LaunchInv, order # "no", NEW s \in Scripts,
         Term(s) \/ Wait(s) \/ Kill(s) \/ Unlink(s) \/ Stopped(s)
  PROVE  LaunchInv'
<1> USE ShapeParts
<1>1. pc[s] \in {"term", "wait", "kill", "unlink", "stopped"} /\ UNCHANGED <<order, runs>>
  BY DEF Term, Wait, Kill, Unlink, Stopped
<1>2. Knows(s) /\ Live = Execd /\ \A t \in Scripts : t # s => pc[t] = "idle"
  BY <1>1, Alone
<1>3. ASSUME NEW l \in {"wait", "unlink"}, Goto(s, l), UNCHANGED <<cmd, pid, pidFile>>,
             pc[s] \in {"term", "kill"}, pid[s] \in Pids,
             NEW state \in {"init", "serving", "stopping", "gone"}, Become(pid[s], state),
             l = "unlink" => state = "gone", proc[pid[s]] = "gone" => state = "gone"
      PROVE  LaunchInv'
  <2>1. Live \subseteq {pid[s]} /\ \A q \in Pids : q # pid[s] => proc[q] \in {"unborn", "gone"}
    BY <1>2, <1>3 DEF Knows, Live
  <2>2. Live' \subseteq {pid[s]} /\ Execd' = Live' /\ (l = "unlink" => Live' = {})
    BY <1>3, <2>1 DEF Live, Execd, Become
  <2>3. pc'[s] = l /\ pid'[s] = pid[s] /\ \A t \in Scripts : t # s => pc'[t] = "idle"
    BY <1>2, <1>3 DEF Goto
  <2>4. order = "always" => Live' \subseteq {pidFile}
    <3>1. order = "always" => Live \subseteq {pidFile}
      BY <1>2, <1>3 DEF Knows
    <3>2. Live' \subseteq Live
      BY <1>2, <1>3, <2>2 DEF Live, Execd, Become, Fits, HasPid
    <3>3. QED
      BY <3>1, <3>2
  <2>5. Knows(s)'
    BY <1>1, <1>2, <1>3, <2>2, <2>3, <2>4 DEF Knows
  <2>6. QED
    BY <2>2, <2>3, <2>5, AloneNext
<1>4. CASE Term(s)
  <2>1. pid[s] \in Pids /\ proc[pid[s]] \in {"init", "serving", "stopping", "gone"}
    BY <1>2, <1>4 DEF Term, Fits, HasPid, Live, Execd
  <2>2. PICK state \in {"init", "serving", "stopping", "gone"} :
          Become(pid[s], state) /\ (proc[pid[s]] = "gone" => state = "gone")
    BY <1>4, <2>1 DEF Term
  <2>3. QED
    BY <1>3, <1>4, <2>1, <2>2 DEF Term
<1>5. CASE Kill(s)
  <2>1. CASE Fault /\ End(s) /\ UNCHANGED proc
    <3>1. Others(s) /\ pc'[s] = "idle" /\ pidFile' = pidFile
      BY <1>5, <2>1 DEF Kill, End, Goto, Others
    <3>2. Knows(s)'
      BY <3>1 DEF Knows
    <3>3. \A p \in Live : pidFile = p \/ (pidFile = None /\ order = "again")
      BY <1>2, <1>5 DEF Kill, Knows
    <3>4. QED
      BY <1>1, <2>1, <3>1, <3>2, <3>3, AloneQuiet
  <2>2. QED
    BY <1>3, <1>5, <2>1 DEF Kill, Fits, HasPid
<1>6. CASE Wait(s)
  <2>1. /\ Others(s) /\ pc'[s] \in {"kill", "unlink"} /\ UNCHANGED <<proc, pid, pidFile>>
        /\ Live' = Live /\ (pc'[s] = "unlink" => pid[s] \notin Live)
    BY <1>6 DEF Wait, Goto, Others, Live
  <2>2. Knows(s)'
    BY <1>1, <1>2, <1>6, <2>1 DEF Knows, Wait
  <2>3. QED
    BY <1>1, <2>1, <2>2, AloneQuiet
<1>7. CASE Unlink(s) \/ Stopped(s)
  <2>1. Others(s) /\ Live = {} /\ proc' = proc /\ Live' = Live
    BY <1>2, <1>7 DEF Unlink, Stopped, End, Goto, Others, Knows, Live
  <2>2. pc'[s] \in {"stopped", "idle", "look"} /\ (pc'[s] = "stopped" => pidFile' = None)
    BY <1>7 DEF Unlink, Stopped, End, Goto
  <2>3. Knows(s)'
    BY <2>1, <2>2 DEF Knows
  <2>4. QED
    BY <1>1, <2>1, <2>2, <2>3, AloneQuiet
<1>8. QED
  BY <1>4, <1>5, <1>6, <1>7

\* The test of Invoke.
LEMMA AtMostOne ==
  Shape => (Cardinality(Live) <= 1 <=> \A p, q \in Live : p = q)
<1> SUFFICES ASSUME Shape PROVE Cardinality(Live) <= 1 <=> \A p, q \in Live : p = q
  OBVIOUS
<1>1. IsFiniteSet(Live) /\ Cardinality(Live) \in Nat
  BY FS_Subset, FS_CardinalityType, LauncherAssumption DEF Live
<1>2. Cardinality(Live) = 0 <=> Live = {}
  BY <1>1, FS_EmptySet
<1>3. Cardinality(Live) = 1 <=> \E p : Live = {p}
  BY <1>1, FS_Singleton
<1>4. (\A p, q \in Live : p = q) <=> Live = {} \/ \E p : Live = {p}
  OBVIOUS
<1>5. QED
  BY <1>1, <1>2, <1>3, <1>4

\* A command is given, or a script interrupted.
LEMMA OrderKeeps ==
  ASSUME Shape, LaunchInv, NEW s \in Scripts, Invoke(s) \/ Interrupt(s), order' # "no"
  PROVE  LaunchInv'
<1> USE ShapeParts
<1>1. Invoke(s) /\ Quiet
  BY DEF Interrupt, Invoke
<1>2. /\ UNCHANGED <<proc, pidFile, pid>> /\ pc'[s] = "look"
      /\ \A t \in Scripts : t # s => pc'[t] = "idle"
      /\ order' = "always" => order = "always"
  BY <1>1 DEF Invoke, Goto, Quiet
<1>3. (\A p, q \in Live : p = q) /\ Live = Execd
  <2>1. CASE order = "no"
    <3>1. Live = Execd /\ Cardinality(Live) <= 1
      BY <1>1, <2>1 DEF Invoke
    <3>2. \A p, q \in Live : p = q
      BY <3>1, AtMostOne
    <3>3. QED
      BY <3>1, <3>2
  <2>2. CASE order # "no"
    BY <1>1, <2>2 DEF LaunchInv, Execd, Quiet
  <2>3. QED
    BY <2>1, <2>2
<1>4. Live' = Live /\ Execd' = Execd
  BY <1>2 DEF Live, Execd
<1>5. order' = "always" => Live \subseteq {pidFile}
  BY <1>1, <1>2 DEF LaunchInv, AtRest
<1>6. Knows(s)'
  BY <1>2, <1>4, <1>5 DEF Knows
<1>7. QED
  BY <1>2, <1>3, <1>4, <1>6, AloneNext

\* A process gets on, or comes to its end.
LEMMA ProcessKeeps ==
  ASSUME Shape, LaunchInv, order # "no", NEW p \in Pids, Exec(p) \/ Serve(p) \/ Exit(p) \/ Die(p)
  PROVE  LaunchInv'
<1>1. /\ UNCHANGED <<pidFile, cmd, pc, pid, order>> /\ p \in Live
      /\ \E state \in {"init", "serving", "stopping", "gone"} : Become(p, state)
  BY ShapeParts DEF Exec, Serve, Exit, Die, Execd, Live
<1>2. Live' \subseteq Live /\ Live' \ Execd' \subseteq Live \ Execd
  BY <1>1, ShapeParts DEF Live, Execd, Become
<1>3. \A s \in Scripts : Knows(s)'
  BY <1>1, <1>2 DEF Knows, LaunchInv
<1>4. AtRest'
  BY <1>1, <1>2 DEF AtRest, Quiet, LaunchInv
<1>5. QED
  BY <1>1, <1>2, <1>3, <1>4 DEF LaunchInv

LEMMA LaunchInvStep == Shape /\ LaunchInv /\ [Next]_vars => LaunchInv'
<1> SUFFICES ASSUME Shape, LaunchInv, [Next]_vars, order' # "no" PROVE LaunchInv'
  BY DEF LaunchInv
<1>1. CASE UNCHANGED vars
  BY <1>1 DEF vars, LaunchInv, Knows, AtRest, Quiet, Live, Execd
<1>2. ASSUME NEW s \in Scripts, Invoke(s) \/ Interrupt(s)
      PROVE  LaunchInv'
  BY <1>2, OrderKeeps
<1>3. ASSUME NEW s \in Scripts, Continue(s)
      PROVE  LaunchInv'
  <2>1. order # "no"
    BY <1>3 DEF Continue, Look, Remove, Pgrep, Fork, Write, Check, Clear, Term, Wait, Kill, Unlink,
       Stopped
  <2>2. QED
    BY <1>3, <2>1, LookKeeps, StartKeeps, StopKeeps DEF Continue
<1>4. ASSUME NEW p \in Pids, Exec(p) \/ Serve(p) \/ Exit(p) \/ Die(p)
      PROVE  LaunchInv'
  BY <1>4, ProcessKeeps DEF Exec, Serve, Exit, Die
<1>5. QED
  BY <1>1, <1>2, <1>3, <1>4 DEF Next

\* In any order of commands given one at a time, and again once overlapping ones
\* are over, there are never two servers.
THEOREM NeverTwo == Spec => []OneProcess
<1>1. Shape /\ LaunchInv => OneProcess
  BY AtMostOne DEF LaunchInv, OneProcess
<1>2. QED
  BY <1>1, InitLaunchInv, LaunchInvStep, Shaped, PTL DEF Spec

\* The pid file names the server, or, after overlapping scripts, is not there: it
\* never names another process.
THEOREM FileNamesServer == Spec => []PidFileTrue
<1>1. LaunchInv => PidFileTrue
  BY DEF LaunchInv, AtRest, PidFileTrue
<1>2. QED
  BY <1>1, InitLaunchInv, LaunchInvStep, Shaped, PTL DEF Spec

\* Stop, and restart half-way, leave nothing alive, whatever has become of the pid
\* file and the process in the meantime.
THEOREM NothingLeft == Spec => []StopStops
<1>1. LaunchInv => StopStops
  BY DEF LaunchInv, Knows, StopStops
<1>2. QED
  BY <1>1, InitLaunchInv, LaunchInvStep, Shaped, PTL DEF Spec

=============================================================================
