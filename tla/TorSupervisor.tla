---------------------------- MODULE TorSupervisor ----------------------------
(***************************************************************************)
(* The Tor process supervisor of packages/backend/src/torManager/          *)
(* torManager.ts: Tor.init with its retry loop tryToSpawnTor, the          *)
(* bootstrap wait of spawnTor and its timeout, the asynchronous stale-pid  *)
(* check clearOldTorProcess, clearHangingTorProcess and kill.  The         *)
(* environment is the OS process table (which pid runs a process named     *)
(* "tor" on our data directory), the pid file torPid.json, and the tor     *)
(* daemons, which write their pid file, bootstrap, and exit when they      *)
(* please.                                                                 *)
(*                                                                         *)
(* The backend is one Node.js event loop.  Each action is one macrotask    *)
(* (a call into the supervisor, a timer, a child-process callback, an      *)
(* event) together with the promise continuations and process.nextTick    *)
(* callbacks it schedules, which run before any other macrotask.           *)
(***************************************************************************)
EXTENDS Naturals, FiniteSets

CONSTANTS
    Pids,    \* OS process ids
    NoPid,   \* no pid: torPid.json is absent, oldTorPid is null
    Repeat   \* the `repeat` option of init: retries after the first attempt

ASSUME NoPidAssumption == NoPid \notin Pids
ASSUME RepeatAssumption == Repeat \in Nat

VARIABLES
    kind,         \* kind[p]: what pid p runs: "free", "other", or "tor" on our data directory
    signalled,    \* tor pids that have been sent SIGTERM and are shutting down
    pidFile,      \* the pid in torPid.json, or NoPid when the file is absent
    status,       \* the promise returned by init: "idle", "spawning", "resolved", "rejected"
    counter,      \* the retry counter of init
    oldTorPid,    \* the pid read from torPid.json when init ran
    spawned,      \* number of daemons spawned; this.process is child `spawned` (null when 0)
    childPid,     \* childPid[i]: the pid of the daemon spawned by attempt i
    exited,       \* attempts whose child process has emitted 'close'
    wrote,        \* attempts whose daemon has written its pid to torPid.json
    execPending,  \* clearOldTorProcess `ps` lookups whose callback has not run yet
    killWait,     \* attempts whose child has 'close' listeners of a pending kill()
    killDone,     \* some kill() call has resolved
    crashed       \* an uncaught exception has terminated the backend

vars == <<kind, signalled, pidFile, status, counter, oldTorPid, spawned,
          childPid, exited, wrote, execPending, killWait, killDone, crashed>>

Attempts == 1..(Repeat + 1)
Kinds == {"free", "other", "tor"}
PidOrNone == Pids \cup {NoPid}

\* The tor processes running on our data directory.
TorPids == {p \in Pids : kind[p] = "tor"}

\* Attempts whose child process is still running.
LiveChildren == {i \in 1..spawned : i \notin exited}

-----------------------------------------------------------------------------
(***************************************************************************)
(* Helpers, each the state change of one call of the supervisor.           *)
(***************************************************************************)

\* this.process.kill() on child i: SIGTERM, unless the child has exited, in
\* which case Node sends nothing.
KillChild(i) ==
    IF i \in exited THEN signalled ELSE signalled \cup {childPid[i]}

\* Mutant of ClearHangingTorProcess: the pid pgrep prints is never killed.
ClearHangingTorProcessSkipped(sig) == sig

\* clearHangingTorProcess: `pgrep -af <data dir>` lists every tor on our
\* data directory, one pid per line; the trimmed output goes through
\* Number(), so one pid is sent SIGTERM, while two or more give NaN, and
\* process.kill(NaN) throws an error that is caught and logged.
ClearHangingTorProcess(sig) ==
    IF \E p \in Pids : TorPids = {p} THEN sig \cup TorPids ELSE sig

\* clearOldTorProcess(old): with an old pid, start `ps` on it
\* asynchronously; its callback is ClearOldTorProcessCallback.
ClearOldTorProcess(old) ==
    execPending' = IF old /= NoPid THEN execPending + 1 ELSE execPending

\* spawnTor: spawn a daemon, which gets a free pid, becomes this.process,
\* and has its bootstrap timeout armed.
SpawnTor ==
    /\ \E p \in Pids :
         /\ kind[p] = "free"
         /\ kind' = [kind EXCEPT ![p] = "tor"]
         /\ childPid' = [childPid EXCEPT ![spawned + 1] = p]
    /\ spawned' = spawned + 1
    /\ status' = "spawning"

\* Mutant of TryToSpawnTor: the bound tested as counter > repeat + 1.
TryToSpawnTorPastBound(c, old, sig) ==
    \/ /\ c > Repeat + 1
       /\ status' = "rejected"
       /\ signalled' = sig
       /\ UNCHANGED <<kind, spawned, childPid, execPending>>
    \/ /\ c <= Repeat + 1
       /\ ClearOldTorProcess(old)
       /\ signalled' = ClearHangingTorProcess(sig)
       /\ SpawnTor

\* Mutant of TryToSpawnTor: the bound tested as counter >= repeat.
TryToSpawnTorEarly(c, old, sig) ==
    \/ /\ c >= Repeat
       /\ status' = "rejected"
       /\ signalled' = sig
       /\ UNCHANGED <<kind, spawned, childPid, execPending>>
    \/ /\ c < Repeat
       /\ ClearOldTorProcess(old)
       /\ signalled' = ClearHangingTorProcess(sig)
       /\ SpawnTor

\* tryToSpawnTor with counter c, old pid old, and sig the signalled set left
\* by what ran before it.  Past the retry bound, init is rejected.  Else
\* clearOldTorProcess starts its lookup, clearHangingTorProcess runs
\* synchronously (inside a try that only logs), and spawnTor spawns.
TryToSpawnTor(c, old, sig) ==
    \/ /\ c > Repeat
       /\ status' = "rejected"
       /\ signalled' = sig
       /\ UNCHANGED <<kind, spawned, childPid, execPending>>
    \/ /\ c <= Repeat
       /\ ClearOldTorProcess(old)
       /\ signalled' = ClearHangingTorProcess(sig)
       /\ SpawnTor

-----------------------------------------------------------------------------
(***************************************************************************)
(* The supervisor's handlers.                                              *)
(***************************************************************************)

\* Mutant of InitTor: the `if (this.process)` check is missing.
InitTorUnguarded ==
    /\ ~crashed
    /\ \/ /\ status' = "rejected"
          /\ UNCHANGED <<kind, signalled, pidFile, counter, oldTorPid, spawned,
                         childPid, exited, wrote, execPending, killWait,
                         killDone, crashed>>
       \/ /\ oldTorPid' = pidFile
          /\ counter' = 0
          /\ TryToSpawnTor(0, pidFile, signalled)
          /\ UNCHANGED <<pidFile, exited, wrote, killWait, killDone, crashed>>

\* Tor.init on a supervisor with no process.  generateHashedPassword runs
\* the tor binary synchronously and may throw, rejecting init; otherwise
\* init reads the old pid from torPid.json and calls tryToSpawnTor.  (init
\* on a supervisor that has a process is rejected at once and changes
\* nothing.)
InitTor ==
    /\ ~crashed
    /\ spawned = 0
    /\ \/ /\ status' = "rejected"
          /\ UNCHANGED <<kind, signalled, pidFile, counter, oldTorPid, spawned,
                         childPid, exited, wrote, execPending, killWait,
                         killDone, crashed>>
       \/ /\ oldTorPid' = pidFile
          /\ counter' = 0
          /\ TryToSpawnTor(0, pidFile, signalled)
          /\ UNCHANGED <<pidFile, exited, wrote, killWait, killDone, crashed>>

\* Mutant of SpawnTimeout: the catch retries without this.process.kill().
SpawnTimeoutNoKill ==
    /\ ~crashed
    /\ status = "spawning"
    /\ counter' = counter + 1
    /\ TryToSpawnTor(counter + 1, oldTorPid, signalled)
    /\ UNCHANGED <<pidFile, oldTorPid, exited, wrote, killWait, killDone,
                   crashed>>

\* The bootstrap timeout of the current attempt fires: spawnTor rejects, the
\* catch of tryToSpawnTor kills this.process, removes the data directory,
\* increments counter and, on the next tick, calls tryToSpawnTor again.
SpawnTimeout ==
    /\ ~crashed
    /\ status = "spawning"
    /\ counter' = counter + 1
    /\ TryToSpawnTor(counter + 1, oldTorPid, KillChild(spawned))
    /\ UNCHANGED <<pidFile, oldTorPid, exited, wrote, killWait, killDone,
                   crashed>>

\* The current daemon prints "Bootstrapped 100%": the stdout handler clears
\* the timeout and spawnTor, then init, resolve.  A daemon bootstraps only
\* while it is the one tor on the data directory (tor locks it) and has not
\* been sent SIGTERM.  The same line from an earlier attempt's daemon
\* settles a promise that is already rejected and changes nothing.
Bootstrapped ==
    /\ ~crashed
    /\ status = "spawning"
    /\ spawned \notin exited
    /\ childPid[spawned] \notin signalled
    /\ TorPids = {childPid[spawned]}
    /\ status' = "resolved"
    /\ UNCHANGED <<kind, signalled, pidFile, counter, oldTorPid, spawned,
                   childPid, exited, wrote, execPending, killWait, killDone,
                   crashed>>

\* The callback of the `ps` started by clearOldTorProcess.  If the old pid
\* now runs a process named tor it is sent SIGTERM; otherwise torPid.json is
\* unlinked with unlinkSync, which throws ENOENT when the file is absent,
\* and nothing in the callback catches it.
ClearOldTorProcessCallback ==
    /\ ~crashed
    /\ execPending > 0
    /\ execPending' = execPending - 1
    /\ \/ /\ kind[oldTorPid] = "tor"
          /\ signalled' = signalled \cup {oldTorPid}
          /\ UNCHANGED <<pidFile, crashed>>
       \/ /\ kind[oldTorPid] /= "tor"
          /\ pidFile' = NoPid
          /\ crashed' = (pidFile = NoPid)
          /\ UNCHANGED signalled
    /\ UNCHANGED <<kind, status, counter, oldTorPid, spawned, childPid, exited,
                   wrote, killWait, killDone>>

\* Tor.kill on a supervisor with a process: listen for 'close' on
\* this.process and kill it.  (kill with no process rejects and changes
\* nothing.)  A child that has already closed never closes again, so that
\* kill() never settles.
Kill ==
    /\ ~crashed
    /\ spawned > 0
    /\ killWait' = killWait \cup {spawned}
    /\ signalled' = KillChild(spawned)
    /\ UNCHANGED <<kind, pidFile, status, counter, oldTorPid, spawned,
                   childPid, exited, wrote, execPending, killDone, crashed>>

-----------------------------------------------------------------------------
(***************************************************************************)
(* The environment: the tor daemons.                                       *)
(***************************************************************************)

\* Daemon p exits, after SIGTERM or on its own (a crash, or the data
\* directory locked by another tor).  A child of ours closes, resolving the
\* kill() calls waiting on it.  A daemon shutting down on SIGTERM may remove
\* torPid.json.
TorExits(p) ==
    LET closing == {i \in LiveChildren : childPid[i] = p}
    IN  /\ kind[p] = "tor"
        /\ kind' = [kind EXCEPT ![p] = "free"]
        /\ signalled' = signalled \ {p}
        /\ exited' = exited \cup closing
        /\ killWait' = killWait \ closing
        /\ killDone' = (killDone \/ (~crashed /\ closing \cap killWait /= {}))
        /\ pidFile' \in IF p \in signalled THEN {pidFile, NoPid} ELSE {pidFile}
        /\ UNCHANGED <<status, counter, oldTorPid, spawned, childPid, wrote,
                       execPending, crashed>>

\* The daemon of attempt i writes its pid to torPid.json (--PidFile).
TorWritesPidFile(i) ==
    /\ i \in LiveChildren \ wrote
    /\ pidFile' = childPid[i]
    /\ wrote' = wrote \cup {i}
    /\ UNCHANGED <<kind, signalled, status, counter, oldTorPid, spawned,
                   childPid, exited, execPending, killWait, killDone, crashed>>

-----------------------------------------------------------------------------

\* A previous run may have left a tor on our data directory (at most one:
\* tor locks it) and a pid file naming any pid.  Enough pids are free for
\* every attempt to get one.
Init ==
    /\ kind \in [Pids -> Kinds]
    /\ Cardinality(TorPids) <= 1
    /\ Cardinality({p \in Pids : kind[p] = "free"}) >= Repeat + 1
    /\ signalled = {}
    /\ pidFile \in PidOrNone
    /\ status = "idle"
    /\ counter = 0
    /\ oldTorPid = NoPid
    /\ spawned = 0
    /\ childPid = [i \in Attempts |-> NoPid]
    /\ exited = {}
    /\ wrote = {}
    /\ execPending = 0
    /\ killWait = {}
    /\ killDone = FALSE
    /\ crashed = FALSE

Next ==
    \/ InitTor
    \/ SpawnTimeout
    \/ Bootstrapped
    \/ ClearOldTorProcessCallback
    \/ Kill
    \/ \E p \in Pids : TorExits(p)
    \/ \E i \in Attempts : TorWritesPidFile(i)

Spec == Init /\ [][Next]_vars

\* The fairness the code and its environment give: a bootstrap timeout that
\* is armed fires (setTimeout, cleared only by the bootstrap line), the
\* callback of an exec'd `ps` runs once ps exits, and a tor sent SIGTERM
\* shuts down.  Nothing forces a caller to call init or kill, nor a daemon
\* to bootstrap or to exit on its own.
Fairness ==
    /\ WF_vars(SpawnTimeout)
    /\ WF_vars(ClearOldTorProcessCallback)
    /\ \A p \in Pids : WF_vars(p \in signalled /\ TorExits(p))

LiveSpec == Spec /\ Fairness

\* What Tor.init promises its caller, stated by SupervisorAbstract, with
\* the number of daemons spawned as the number of attempts.
Abs == INSTANCE SupervisorAbstract WITH attempts <- spawned

AbsSpec == Abs!Spec

-----------------------------------------------------------------------------
(***************************************************************************)
(* Properties.                                                             *)
(***************************************************************************)

\* Type invariant.
TypeOK ==
    /\ kind \in [Pids -> Kinds]
    /\ signalled \subseteq Pids
    /\ pidFile \in PidOrNone
    /\ status \in {"idle", "spawning", "resolved", "rejected"}
    /\ counter \in 0..(Repeat + 1)
    /\ oldTorPid \in PidOrNone
    /\ spawned \in 0..(Repeat + 1)
    /\ childPid \in [Attempts -> PidOrNone]
    /\ exited \subseteq Attempts
    /\ wrote \subseteq Attempts
    /\ execPending \in Nat
    /\ killWait \subseteq Attempts
    /\ killDone \in BOOLEAN
    /\ crashed \in BOOLEAN

\* The retry loop of init makes exactly Repeat + 1 attempts before it gives
\* up (spec section 8), and counter counts the failed ones: while init is
\* pending or resolved, counter is the number of attempts before the
\* current one.
AttemptBound ==
    /\ spawned <= Repeat + 1
    /\ status \in {"spawning", "resolved"} => spawned >= 1 /\ counter = spawned - 1
    /\ status = "rejected" /\ spawned > 0 => spawned = Repeat + 1 /\ counter = spawned

\* A failed attempt never leaves its daemon running: every daemon whose
\* attempt is over (a later attempt was spawned, or init gave up) and that
\* is still running has been sent SIGTERM by the catch of tryToSpawnTor.
AbandonedChildrenSignalled ==
    \A i \in LiveChildren :
        (i < spawned \/ status = "rejected") => childPid[i] \in signalled

\* The stale-pid cleanup of clearOldTorProcess acts only on what a previous
\* run left behind (spec 4.2: it runs before the fresh daemon is launched):
\* its callback never sends SIGTERM to a running daemon this supervisor
\* spawned, and never unlinks a torPid.json that names one.
StaleCleanupSparesChildren ==
    [][ClearOldTorProcessCallback =>
         \A i \in LiveChildren :
            /\ childPid[i] \notin signalled => childPid[i] \notin signalled'
            /\ pidFile = childPid[i] => pidFile' = pidFile]_vars

\* Failures of the best-effort stale-process cleanup are logged and
\* swallowed and never abort supervision (spec 4.2, 7): no uncaught
\* exception ends the backend.
NoUncaughtException == ~crashed

\* Terminated is final (spec 3, 4.2): once a kill() has resolved, every
\* daemon this supervisor spawned has exited or is shutting down.
KilledStaysDown ==
    killDone => \A i \in LiveChildren : childPid[i] \in signalled

\* A tor left on our data directory by a previous run is terminated once
\* init has made its first attempt: clearHangingTorProcess finds it with
\* pgrep and sends SIGTERM, whether or not torPid.json names it, and the
\* daemon then exits.
LeftoverTorsReaped ==
    \A p \in Pids :
        (spawned > 0 /\ p \in TorPids /\ \A i \in 1..spawned : childPid[i] /= p)
            ~> p \notin TorPids

\* Every kill() settles (spec 4.2: it resolves once the process reports
\* closure, or fails): a call waiting on a child's 'close' event is
\* eventually released, unless the backend itself has died.
KillSettles ==
    \A i \in Attempts : i \in killWait ~> (i \notin killWait \/ crashed)

=============================================================================
