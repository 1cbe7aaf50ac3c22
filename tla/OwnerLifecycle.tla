--------------------------- MODULE OwnerLifecycle ---------------------------
(***************************************************************************)
(* Who owns the control socket: anqad processes that start, serve, stop    *)
(* and crash (ControlServer.start and close in anqa/control/server.py,     *)
(* serve_control_forever and run_control_daemon in anqa/control/daemon.py) *)
(* and the commands that start and stop them: anqad -d, anqad stop, anqad  *)
(* restart, the plain anqad that runs an owner in the foreground, and what *)
(* the TUI and the HUD run when they start (start_control_daemon_detached, *)
(* stop_control_daemon, _run_restart, ensure_control_daemon).              *)
(*                                                                         *)
(* They share four things on disk: the socket path, the flock on the lock  *)
(* file, the pid written into the lock file, and the pid file.  Only the   *)
(* flock is atomic.  One action is what a process does between two points  *)
(* where another may act on these.                                         *)
(***************************************************************************)
EXTENDS Integers, FiniteSets

CONSTANTS
    Owners,      \* anqad processes
    Legacy,      \* one of them, from a build that takes no lock and writes no pid
    Outdated,    \* one from a build that does, but speaks another protocol major
    Commands,    \* invocations of start, stop, restart, ensure, or plain anqad
    None,        \* no process
    MaxCrashes   \* bound: how many processes crash

ASSUME OwnersAssumption ==
    {Legacy, Outdated} \subseteq Owners /\ Legacy # Outdated /\ None \notin Owners
ASSUME MaxCrashesAssumption == MaxCrashes \in Nat

VARIABLES
    proc,      \* proc[p]: where process p is
    term,      \* processes with a SIGTERM to handle
    sock,      \* the process whose socket is bound at the path, if any
    lock,      \* the process that holds the flock
    lockPid,   \* the pid in the lock file
    pidFile,   \* the pid in the pid file
    cmd,       \* cmd[c]: where command c is, and its locals
    crashes    \* processes that crashed

files == <<sock, lock, lockPid, pidFile>>
vars == <<proc, term, files, cmd, crashes>>

Kinds == {"start", "stop", "restart", "ensure", "serve"}
Old == {Legacy, Outdated}
Alive(p) == p # None /\ proc[p] \notin {"none", "dead"}
Listening(p) == proc[p] \in {"bound", "serving"}

\* control_socket_accepts.
Accepts == sock # None /\ Listening(sock)

\* lock_holder_pids: the pid in the lock file if that process lives, else what
\* lsof says of the file.
LockHolders == {p \in {IF Alive(lockPid) THEN lockPid ELSE lock} : p # None}

\* An old owner serves, or it crashed and left what it had on disk, or none ran.
Init ==
    \E q \in Old, x \in {"serving", "dead", "none"} :
        /\ proc = [p \in Owners |-> IF p = q THEN x ELSE "none"]
        /\ term = {}
        /\ sock = IF x = "none" THEN None ELSE q
        /\ lock = IF q = Outdated /\ x = "serving" THEN q ELSE None
        /\ lockPid = IF q = Outdated /\ x # "none" THEN q ELSE None
        /\ pidFile = lockPid
        /\ cmd \in [Commands -> {[kind |-> k, pc |-> "begin", next |-> "done",
                                  pid |-> None, targets |-> {}] : k \in Kinds}]
        /\ crashes = 0

-----------------------------------------------------------------------------
(***************************************************************************)
(* An owner process.                                                       *)
(***************************************************************************)
Enter(p, x) == proc' = [proc EXCEPT ![p] = x]

\* _acquire_lock, or "already in use".
Lock_Shared(p) ==
    /\ proc[p] = "new"
    /\ Enter(p, "locked") /\ lock' = p /\ lockPid' = p
    /\ UNCHANGED <<term, sock, pidFile, cmd, crashes>>
Lock(p) ==
    /\ proc[p] = "new"
    /\ IF lock = None THEN Enter(p, "locked") /\ lock' = p /\ lockPid' = p
                      ELSE Enter(p, "dead") /\ UNCHANGED <<lock, lockPid>>
    /\ UNCHANGED <<term, sock, pidFile, cmd, crashes>>

Unlock(p) ==
    /\ lock' = IF lock = p THEN None ELSE lock
    /\ lockPid' = IF lock = p THEN None ELSE lockPid

\* _takeover_or_fail: refuse if a live owner answers, else remove the path.
Takeover(p) ==
    /\ proc[p] = "locked"
    /\ IF Accepts THEN Enter(p, "dead") /\ Unlock(p) /\ sock' = sock
                  ELSE Enter(p, "clear") /\ sock' = None /\ UNCHANGED <<lock, lockPid>>
    /\ UNCHANGED <<term, pidFile, cmd, crashes>>

\* start_unix_server, which replaces a socket it finds at the path.
Bind(p) ==
    /\ proc[p] = "clear"
    /\ Enter(p, "bound")
    /\ sock' = p
    /\ UNCHANGED <<term, lock, lockPid, pidFile, cmd, crashes>>

WritePid(p) ==
    /\ proc[p] = "bound"
    /\ Enter(p, "serving")
    /\ pidFile' = p
    /\ UNCHANGED <<term, sock, lock, lockPid, cmd, crashes>>

\* SIGTERM while serving: close stops listening, which unlinks the socket if it
\* is still the one at the path.
CloseListener(p) ==
    /\ p \in term /\ proc[p] = "serving"
    /\ Enter(p, "closing")
    /\ sock' = IF sock = p THEN None ELSE sock
    /\ UNCHANGED <<term, lock, lockPid, pidFile, cmd, crashes>>

\* The end of close: unlink the path while the lock is held, then release it.  A
\* start in progress is cancelled where it awaits, and comes straight here.
Release(p) ==
    /\ \/ proc[p] = "closing" /\ Enter(p, "released")
       \/ p \in term /\ proc[p] \in {"locked", "bound"} /\ Enter(p, "exiting")
    /\ sock' = IF lock = p THEN None ELSE sock
    /\ Unlock(p)
    /\ UNCHANGED <<term, pidFile, cmd, crashes>>

\* remove_control_pid, once in run_control_daemon and, if it served, once more in
\* the finally clause of serve_control_forever.
RemovePid(p) ==
    /\ \/ proc[p] = "released" /\ Enter(p, "exiting")
       \/ proc[p] = "exiting" /\ Enter(p, "dead")
    /\ pidFile' = None
    /\ UNCHANGED <<term, sock, lock, lockPid, cmd, crashes>>

\* The process dies; the kernel drops its flock and nothing else.
Die(p) == Enter(p, "dead") /\ lock' = IF lock = p THEN None ELSE lock
Crash(p) ==
    /\ Alive(p) /\ crashes < MaxCrashes
    /\ crashes' = crashes + 1
    /\ Die(p)
    /\ UNCHANGED <<term, sock, lockPid, pidFile, cmd>>

-----------------------------------------------------------------------------
(***************************************************************************)
(* stop_control_daemon, as a command of its own or inside another, which   *)
(* goes on at "next" when it is done.                                      *)
(***************************************************************************)
Goto(c, x) == cmd' = [cmd EXCEPT ![c].pc = x]
Stop(c, next) == cmd' = [cmd EXCEPT ![c].pc = "stop", ![c].next = next]

StopRead(c) ==
    /\ cmd[c].pc = "stop" \/ (cmd[c].kind = "stop" /\ cmd[c].pc = "begin")
    /\ cmd' = [cmd EXCEPT ![c].pc = "probe", ![c].pid = pidFile]
    /\ UNCHANGED <<proc, term, files, crashes>>

\* Something serves that is not the process of the pid file: leave it.
StopRefuse(c) ==
    /\ cmd[c].pc = "probe" /\ Accepts /\ ~ Alive(cmd[c].pid)
    /\ Goto(c, cmd[c].next)
    /\ pidFile' = IF cmd[c].pid = None THEN pidFile ELSE None
    /\ UNCHANGED <<proc, term, sock, lock, lockPid, crashes>>

\* Signal the process of the pid file, else the holders of the lock.
StopSignal(c) ==
    LET targets == IF Alive(cmd[c].pid) THEN {cmd[c].pid} ELSE LockHolders
    IN  /\ cmd[c].pc = "probe" /\ (Accepts => Alive(cmd[c].pid))
        /\ cmd' = [cmd EXCEPT ![c].targets = targets,
                              ![c].pc = IF targets = {} THEN "clean" ELSE "wait"]
        /\ term' = term \union targets
        /\ UNCHANGED <<proc, files, crashes>>

StopWait(c) ==
    /\ cmd[c].pc = "wait" /\ \A p \in cmd[c].targets : ~ Alive(p)
    /\ Goto(c, "check")
    /\ UNCHANGED <<proc, term, files, crashes>>

\* It did not exit in time: SIGKILL.
StopKill(c) ==
    /\ cmd[c].pc = "wait"
    /\ \E p \in cmd[c].targets : Alive(p) /\ Die(p)
    /\ UNCHANGED <<term, sock, lockPid, pidFile, cmd, crashes>>

\* Another owner serves by now: the files are its own.
StopCheck(c) ==
    /\ cmd[c].pc = "check"
    /\ Goto(c, IF Accepts THEN cmd[c].next ELSE "clean")
    /\ UNCHANGED <<proc, term, files, crashes>>

\* The probe before the path is unlinked: a socket that answers is left alone.
StopCleanProbe(c) ==
    /\ cmd[c].pc = "clean"
    /\ Goto(c, IF Accepts \/ sock = None THEN "pid" ELSE "unlink")
    /\ UNCHANGED <<proc, term, files, crashes>>

StopUnlink(c) ==
    /\ cmd[c].pc = "unlink"
    /\ sock' = None
    /\ Goto(c, "pid")
    /\ UNCHANGED <<proc, term, lock, lockPid, pidFile, crashes>>

StopRemovePid(c) ==
    /\ cmd[c].pc = "pid"
    /\ pidFile' = None
    /\ Goto(c, cmd[c].next)
    /\ UNCHANGED <<proc, term, sock, lock, lockPid, crashes>>

-----------------------------------------------------------------------------
(***************************************************************************)
(* ensure_control_daemon, _run_restart, start_control_daemon_detached.     *)
(***************************************************************************)
\* Ensure leaves an owner that accepts, unless it answers with another protocol
\* major (a probe that fails says nothing).
EnsureProbe(c) ==
    /\ cmd[c].kind = "ensure" /\ cmd[c].pc = "begin"
    /\ \/ Accepts /\ Goto(c, "ok")
       \/ Accepts /\ sock \in Old /\ Stop(c, "replaced")
       \/ ~ Accepts /\ Goto(c, "start")
    /\ UNCHANGED <<proc, term, files, crashes>>

\* "stale control owner could not be replaced", or start a current one.
EnsureReplaced(c) ==
    /\ cmd[c].pc = "replaced"
    /\ Goto(c, IF Accepts THEN "failed" ELSE "start")
    /\ UNCHANGED <<proc, term, files, crashes>>

\* Restart stops first if there is any sign of an owner, whatever comes of it.
Restart(c) ==
    /\ cmd[c].kind = "restart" /\ cmd[c].pc = "begin"
    /\ IF Accepts \/ pidFile # None \/ lockPid # None \/ LockHolders # {}
       THEN Stop(c, "start") ELSE Goto(c, "start")
    /\ UNCHANGED <<proc, term, files, crashes>>

\* Start attaches if the socket accepts, stops a lock holder that does not, and
\* else spawns; ...
StartProbe(c) ==
    /\ cmd[c].pc = "start" \/ (cmd[c].kind = "start" /\ cmd[c].pc = "begin")
    /\ IF ~ Accepts /\ LockHolders # {} THEN Stop(c, "retry")
       ELSE Goto(c, IF Accepts THEN "ok" ELSE "spawn")
    /\ UNCHANGED <<proc, term, files, crashes>>

\* ... after the stop it probes once more.
StartRetry(c) ==
    /\ cmd[c].pc = "retry"
    /\ Goto(c, IF Accepts THEN "ok" ELSE "spawn")
    /\ UNCHANGED <<proc, term, files, crashes>>

\* The child of a start, or the process of a foreground command itself.
Spawn(c) ==
    /\ cmd[c].pc = "spawn" \/ (cmd[c].kind = "serve" /\ cmd[c].pc = "begin")
    /\ \E p \in Owners \ Old :
          /\ proc[p] = "none" /\ Enter(p, "new")
          /\ cmd' = [cmd EXCEPT ![c].pc = IF @ = "spawn" THEN "await" ELSE "done", ![c].pid = p]
    /\ UNCHANGED <<term, files, crashes>>

\* Any owner that accepts will do, not just the child.
Await(c) ==
    /\ cmd[c].pc = "await" /\ Accepts
    /\ Goto(c, "ok")
    /\ UNCHANGED <<proc, term, files, crashes>>

\* The timeouts pass, which no owner that starts or stops in time outlasts: give
\* up and terminate the child.
GiveUp_ChildExit(c) ==
    /\ cmd[c].pc = "await" /\ ~ Accepts /\ ~ Alive(cmd[c].pid)
    /\ Goto(c, "failed") /\ term' = term
    /\ UNCHANGED <<proc, files, crashes>>
GiveUp(c) ==
    /\ cmd[c].pc = "await" /\ ~ Accepts
    /\ \A p \in Owners : Alive(p) => proc[p] \in {"bound", "serving"} /\ p \notin term
    /\ \A d \in Commands \ {c} : cmd[d].pc \in {"done", "ok", "failed", "await", "begin"}
    /\ Goto(c, "failed")
    /\ term' = IF Alive(cmd[c].pid) THEN term \union {cmd[c].pid} ELSE term
    /\ UNCHANGED <<proc, files, crashes>>

-----------------------------------------------------------------------------
OwnerStep(p) ==
    \/ Lock(p) \/ Takeover(p) \/ Bind(p) \/ WritePid(p)
    \/ CloseListener(p) \/ Release(p) \/ RemovePid(p)
CommandStep(c) ==
    \/ StopRead(c) \/ StopRefuse(c) \/ StopSignal(c) \/ StopWait(c)
    \/ StopCheck(c) \/ StopCleanProbe(c) \/ StopUnlink(c) \/ StopRemovePid(c)
    \/ EnsureProbe(c) \/ EnsureReplaced(c) \/ Restart(c)
    \/ StartProbe(c) \/ StartRetry(c) \/ Spawn(c) \/ Await(c) \/ GiveUp(c)
Next ==
    \/ \E p \in Owners : OwnerStep(p) \/ Crash(p)
    \/ \E c \in Commands : CommandStep(c) \/ StopKill(c)

\* Processes and commands that can go on do.  Nothing has to crash.
Fairness ==
    /\ \A p \in Owners : WF_vars(OwnerStep(p))
    /\ \A c \in Commands : WF_vars(CommandStep(c))
Spec == Init /\ [][Next]_vars
FairSpec == Spec /\ Fairness

-----------------------------------------------------------------------------
Process == Owners \union {None}
Places == {"none", "new", "locked", "clear", "bound", "serving", "closing", "released",
           "exiting", "dead"}
Pcs == {"begin", "stop", "probe", "wait", "check", "clean", "unlink", "pid", "replaced",
        "start", "retry", "spawn", "await", "ok", "failed", "done"}
Command == [kind: Kinds, pc: Pcs, next: {"done", "replaced", "start", "retry"},
            pid: Process, targets: SUBSET Owners]

\* The types of the state; a command signals and waits for real processes only.
TypeOK ==
    /\ proc \in [Owners -> Places]
    /\ term \subseteq Owners /\ crashes \in 0 .. MaxCrashes
    /\ sock \in Process /\ lock \in Process /\ lockPid \in Process /\ pidFile \in Process
    /\ cmd \in [Commands -> Command]

\* Two owners never accept clients at once, whichever of them starts, dies or is
\* replaced, and although the legacy owner takes no lock.
OneOwner == \A p, q \in Owners : Listening(p) /\ Listening(q) => p = q

\* Two of anqad -d, anqad, the TUI and the HUD that start at once end with an
\* owner that accepts and stays, and a start says so: neither gives up early, and
\* neither kills for good what the other has started.  (An ensure may say that an
\* owner could not be replaced.)  Crashes and a stop excuse them.
StartsEndWell ==
    \A c \in Commands :
        /\ cmd[c].kind \in {"start", "ensure"}
        /\ \A d \in Commands : cmd[d].kind \in {"start", "ensure", "serve"}
        => <>[](crashes = 0 => Accepts /\ (cmd[c].kind = "start" => cmd[c].pc = "ok"))
=============================================================================
