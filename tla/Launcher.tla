------------------------------ MODULE Launcher ------------------------------
(***************************************************************************)
(* The launcher (start.sh) and the life of the server process it starts    *)
(* (main.go): the pid file, the process table and the port, under scripts  *)
(* that may run at the same time.                                          *)
(*                                                                         *)
(* One action is one command of a script that reads or writes the pid file *)
(* or a process, or one step of a process: fork, exec, the end of main's   *)
(* initialisation, exit.  Pids are not used twice.  Two seconds are enough *)
(* for a forked process to execute the binary, but not for main to get     *)
(* ready: a database that does not answer takes three.                     *)
(*                                                                         *)
(* All scripts and servers belong to one account of the machine, so that   *)
(* kill reaches every server and `kill -0` fails for a dead one only: for  *)
(* a live server of another account it would fail too (EPERM).             *)
(***************************************************************************)
EXTENDS Integers, FiniteSets

CONSTANTS
  Scripts,    \* shells that may run start.sh
  Pids,       \* process ids, in the order they are given out
  None,       \* no process, no pid file
  MaxRuns,    \* bound: commands given in a behaviour
  MaxFaults   \* bound: deaths, refused starts and interrupted scripts

ASSUME LauncherAssumption ==
  /\ IsFiniteSet(Scripts) /\ IsFiniteSet(Pids) /\ None \notin Pids
  /\ Pids \subseteq Nat /\ MaxRuns \in Nat /\ MaxFaults \in Nat

VARIABLES
  proc,       \* what has become of each process
  pidFile,    \* the number in the pid file
  cmd,        \* the command each script runs
  pc,         \* where it is
  pid,        \* the process it has found or forked
  signalled,  \* processes that were sent a signal
  order,      \* "always": no two scripts ran at a time and none was interrupted so
              \* far; "again": not since one began alone with at most one server
  runs,       \* commands given so far
  faults      \* failures so far

vars == <<proc, pidFile, cmd, pc, pid, signalled, order, runs, faults>>

-----------------------------------------------------------------------------
Live    == {p \in Pids : proc[p] \notin {"unborn", "gone"}}
Execd   == {p \in Live : proc[p] # "forked"}
Serving == {p \in Pids : proc[p] = "serving"}
Holding == {p \in Pids : proc[p] \in {"serving", "stopping"}}

\* No script runs.
Quiet == \A s \in Scripts : pc[s] = "idle"

Fault == faults < MaxFaults /\ faults' = faults + 1

Goto(s, l) == pc' = [pc EXCEPT ![s] = l]
Become(p, state) == proc' = [proc EXCEPT ![p] = state]

\* The script s is over.
End(s) ==
  /\ Goto(s, "idle")
  /\ cmd' = [cmd EXCEPT ![s] = None] /\ pid' = [pid EXCEPT ![s] = None]

\* get_pid has found p (or nothing, None) for the command of s.
Got(s, p) ==
  \/ /\ p # None /\ cmd[s] \in {"stop", "restart"}
     /\ Goto(s, "term") /\ pid' = [pid EXCEPT ![s] = p] /\ UNCHANGED cmd
  \/ /\ p = None /\ cmd[s] \in {"stop", "restart"}
     /\ Goto(s, "stopped") /\ UNCHANGED <<cmd, pid>>
  \/ p = None /\ cmd[s] = "start" /\ Goto(s, "fork") /\ UNCHANGED <<cmd, pid>>
  \/ (cmd[s] = "status" \/ (p # None /\ cmd[s] = "start")) /\ End(s)

Init ==
  /\ proc = [p \in Pids |-> "unborn"] /\ pidFile = None
  /\ cmd = [s \in Scripts |-> None] /\ pc = [s \in Scripts |-> "idle"]
  /\ pid = [s \in Scripts |-> None]
  /\ signalled = {} /\ order = "always" /\ runs = 0 /\ faults = 0

-----------------------------------------------------------------------------
(* The scripts.                                                             *)

Invoke(s) ==
  /\ pc[s] = "idle" /\ runs < MaxRuns /\ runs' = runs + 1
  /\ \E c \in {"start", "stop", "restart", "status"} : cmd' = [cmd EXCEPT ![s] = c]
  /\ Goto(s, "look")
  /\ order' = IF Quiet /\ order = "always" THEN "always"
              ELSE IF Quiet /\ Live = Execd /\ Cardinality(Live) <= 1 THEN "again" ELSE "no"
  /\ UNCHANGED <<proc, pidFile, pid, signalled, faults>>

\* get_pid: the process in the pid file is alive and is the program.
Look(s) ==
  /\ pc[s] = "look"
  /\ \/ pidFile = None /\ Goto(s, "pgrep") /\ UNCHANGED <<cmd, pid>>
     \/ pidFile \in Execd /\ Got(s, pidFile)
     \/ pidFile \notin Execd \cup {None} /\ Goto(s, "remove") /\ UNCHANGED <<cmd, pid>>
  /\ UNCHANGED <<proc, pidFile, signalled, order, runs, faults>>

\* get_pid: it is not, and the file is removed.
Remove(s) ==
  /\ pc[s] = "remove"
  /\ pidFile' = None /\ Goto(s, "pgrep")
  /\ UNCHANGED <<proc, cmd, pid, signalled, order, runs, faults>>

\* Mistake: stop does not look whether there is a pid.
PgrepUntested(s) ==
  /\ pc[s] = "pgrep"
  /\ IF Execd = {} /\ cmd[s] = "stop" THEN Goto(s, "term") /\ UNCHANGED <<cmd, pid>>
     ELSE IF Execd = {} THEN Got(s, None) ELSE \E p \in Execd : Got(s, p)
  /\ UNCHANGED <<proc, pidFile, signalled, order, runs, faults>>

\* Mistake: a start without a pid file takes it that nothing runs.
PgrepToStop(s) ==
  /\ pc[s] = "pgrep"
  /\ IF Execd = {} \/ cmd[s] = "start" THEN Got(s, None) ELSE \E p \in Execd : Got(s, p)
  /\ UNCHANGED <<proc, pidFile, signalled, order, runs, faults>>

\* get_pid: any process that runs the binary.
Pgrep(s) ==
  /\ pc[s] = "pgrep"
  /\ (Execd = {} /\ Got(s, None)) \/ \E p \in Execd : Got(s, p)
  /\ UNCHANGED <<proc, pidFile, signalled, order, runs, faults>>

\* cmd_start: the process goes to the background, unless there is no binary or the
\* environment cannot be loaded.
Fork(s) ==
  /\ pc[s] = "fork"
  /\ \/ \E p \in Pids :
          /\ proc[p] = "unborn" /\ \A q \in Pids : q < p => proc[q] # "unborn"
          /\ Become(p, "forked") /\ pid' = [pid EXCEPT ![s] = p]
          /\ Goto(s, "write") /\ UNCHANGED <<cmd, faults>>
     \/ Fault /\ End(s) /\ UNCHANGED proc
  /\ UNCHANGED <<pidFile, signalled, order, runs>>

Write(s) ==
  /\ pc[s] = "write"
  /\ pidFile' = pid[s] /\ Goto(s, "sleep")
  /\ UNCHANGED <<proc, cmd, pid, signalled, order, runs, faults>>

\* Mistake: the process is looked for by its name, and at once.
CheckAtOnce(s) ==
  /\ pc[s] = "sleep"
  /\ IF pid[s] \in Execd THEN End(s) ELSE Goto(s, "clear") /\ UNCHANGED <<cmd, pid>>
  /\ UNCHANGED <<proc, pidFile, signalled, order, runs, faults>>

\* After two seconds: the process is still there, or the start has failed.
Check(s) ==
  /\ pc[s] = "sleep" /\ proc[pid[s]] # "forked"
  /\ IF pid[s] \in Live THEN End(s) ELSE Goto(s, "clear") /\ UNCHANGED <<cmd, pid>>
  /\ UNCHANGED <<proc, pidFile, signalled, order, runs, faults>>

Clear(s) ==
  /\ pc[s] = "clear"
  /\ pidFile' = None /\ End(s)
  /\ UNCHANGED <<proc, signalled, order, runs, faults>>

\* cmd_stop: SIGTERM kills a process that is not serving yet, and makes one that is
\* finish its requests.
Term(s) ==
  /\ pc[s] = "term"
  /\ Become(pid[s], CASE proc[pid[s]] = "init"    -> "gone"
                      [] proc[pid[s]] = "serving" -> "stopping"
                      [] OTHER                    -> proc[pid[s]])
  /\ signalled' = signalled \cup {pid[s]}
  /\ Goto(s, "wait")
  /\ UNCHANGED <<pidFile, cmd, pid, order, runs, faults>>

\* Mistake: the loop has no end.
WaitForever(s) ==
  /\ pc[s] = "wait"
  /\ pid[s] \notin Live /\ Goto(s, "unlink")
  /\ UNCHANGED <<proc, pidFile, cmd, pid, signalled, order, runs, faults>>

\* Mistake: after ten seconds stop gives up, and says stopped.
WaitAndGiveUp(s) ==
  /\ pc[s] = "wait"
  /\ Goto(s, "unlink")
  /\ UNCHANGED <<proc, pidFile, cmd, pid, signalled, order, runs, faults>>

\* Until `kill -0` fails, which is that it is gone, or for ten seconds.
Wait(s) ==
  /\ pc[s] = "wait"
  /\ Goto(s, IF pid[s] \in Live THEN "kill" ELSE "unlink")
  /\ UNCHANGED <<proc, pidFile, cmd, pid, signalled, order, runs, faults>>

\* SIGKILL; a process that cannot be killed ends the script.
Kill(s) ==
  /\ pc[s] = "kill"
  /\ \/ Become(pid[s], "gone") /\ Goto(s, "unlink") /\ UNCHANGED <<cmd, pid, faults>>
     \/ Fault /\ End(s) /\ UNCHANGED proc
  /\ UNCHANGED <<pidFile, signalled, order, runs>>

Unlink(s) ==
  /\ pc[s] = "unlink"
  /\ pidFile' = None /\ Goto(s, "stopped")
  /\ UNCHANGED <<proc, cmd, pid, signalled, order, runs, faults>>

\* cmd_stop is over: stop ends, restart goes on to cmd_start.
Stopped(s) ==
  /\ pc[s] = "stopped"
  /\ IF cmd[s] = "stop" THEN End(s)
     ELSE /\ Goto(s, "look")
          /\ cmd' = [cmd EXCEPT ![s] = "start"] /\ pid' = [pid EXCEPT ![s] = None]
  /\ UNCHANGED <<proc, pidFile, signalled, order, runs, faults>>

\* Ctrl-C, or the end of the session: the script ends where it is.
Interrupt(s) ==
  /\ pc[s] # "idle" /\ Fault
  /\ End(s) /\ order' = "no"
  /\ UNCHANGED <<proc, pidFile, signalled, runs>>

-----------------------------------------------------------------------------
(* The processes.                                                           *)

Exec(p) ==
  /\ proc[p] = "forked" /\ Become(p, "init")
  /\ UNCHANGED <<pidFile, cmd, pc, pid, signalled, order, runs, faults>>

\* Mistake: main gives up without a database.
ServeWithDatabase(p) ==
  /\ proc[p] = "init"
  /\ \E up \in BOOLEAN : Become(p, IF up /\ Holding = {} THEN "serving" ELSE "gone")
  /\ UNCHANGED <<pidFile, cmd, pc, pid, signalled, order, runs, faults>>

\* The end of main's initialisation: it serves, with or without a database.  On a
\* port that another process has, it ends or (SO_REUSEPORT) serves beside it.
Serve(p) ==
  /\ proc[p] = "init"
  /\ Become(p, "serving") \/ (Holding # {} /\ Become(p, "gone"))
  /\ UNCHANGED <<pidFile, cmd, pc, pid, signalled, order, runs, faults>>

\* A process that was told to stop has finished its requests.
Exit(p) ==
  /\ proc[p] = "stopping" /\ Become(p, "gone")
  /\ UNCHANGED <<pidFile, cmd, pc, pid, signalled, order, runs, faults>>

\* Fatalf in main (a back end without its keys), a plugin that cannot be set up, or
\* a death while serving.
Die(p) ==
  /\ p \in Execd /\ Fault /\ Become(p, "gone")
  /\ UNCHANGED <<pidFile, cmd, pc, pid, signalled, order, runs>>

-----------------------------------------------------------------------------
Continue(s) ==
  \/ Look(s) \/ Remove(s) \/ Pgrep(s)
  \/ Fork(s) \/ Write(s) \/ Check(s) \/ Clear(s)
  \/ Term(s) \/ Wait(s) \/ Kill(s) \/ Unlink(s) \/ Stopped(s)

Next ==
  \/ \E s \in Scripts : Invoke(s) \/ Continue(s) \/ Interrupt(s)
  \/ \E p \in Pids : Exec(p) \/ Serve(p) \/ Exit(p) \/ Die(p)

Spec == Init /\ [][Next]_vars

\* Scripts run on and processes get ready; a process that was told to stop may
\* take as long as its requests do.
FairSpec ==
  /\ Spec
  /\ \A s \in Scripts : WF_vars(Continue(s))
  /\ \A p \in Pids : WF_vars(Exec(p) \/ Serve(p))

-----------------------------------------------------------------------------
(* Properties.                                                              *)

\* Scripts have a command, and past get_pid those that need a process have one.
TypeOK ==
  /\ proc \in [Pids -> {"unborn", "forked", "init", "serving", "stopping", "gone"}]
  /\ pidFile \in Pids \cup {None}
  /\ signalled \subseteq Pids /\ order \in {"always", "again", "no"}
  /\ runs \in 0..MaxRuns /\ faults \in 0..MaxFaults
  /\ \A s \in Scripts :
       /\ cmd[s] \in IF pc[s] = "idle" THEN {None} ELSE {"start", "stop", "restart", "status"}
       /\ pid[s] \in Pids \cup {None}
       /\ pc[s] \in {"write", "sleep", "clear", "term", "wait", "kill", "unlink"} =>
            pid[s] # None /\ proc[pid[s]] # "unborn"

\* Scripts that do not overlap never have two servers alive at once, whatever dies
\* and however long a server takes to start or to stop; and whatever overlapping
\* or interrupted scripts have done to the pid file, once there is one server
\* left, that is so again.
OneProcess == order # "no" => Cardinality(Live) <= 1

\* Between such scripts the pid file names the server that runs; a file that was
\* lost stays lost until the next start, and never names another process.
PidFileTrue ==
  (order # "no" /\ Quiet) =>
    \A p \in Live : pidFile = p \/ (pidFile = None /\ order = "again")

\* When stop (or restart, half-way) has said that the server is stopped or was not
\* running, that is so, be the pid file right, stale or lost.
StopStops == order # "no" => \A s \in Scripts : pc[s] = "stopped" => Live = {}

\* Every script comes to its end, though the server may not stop by itself.
ScriptsEnd == \A s \in Scripts : (pc[s] # "idle") ~> (pc[s] = "idle")

\* A process that was forked serves, or another one does in its place: unless
\* something failed or a stop has sent it a signal.  Two starts at a time, of which
\* the second takes over the pid file and may remove it, do not leave the service
\* down; a start and a stop at a time can, for a server that is stopping still has
\* the port.
ForkedServes ==
  \A p \in Pids : (proc[p] = "forked") ~>
    (Serving # {} \/ p \in signalled \/ (order # "always" /\ signalled # {}) \/ faults > 0)

=============================================================================
