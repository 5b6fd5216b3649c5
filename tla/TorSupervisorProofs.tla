------------------------- MODULE TorSupervisorProofs -------------------------
(***************************************************************************)
(* Proofs about TorSupervisor for every set of pids and every value of     *)
(* Repeat: the type invariant, the attempt bound of the retry loop of      *)
(* Tor.init, and that a failed attempt never leaves its daemon running     *)
(* without SIGTERM.                                                        *)
(***************************************************************************)
EXTENDS TorSupervisor, TLAPS

(***************************************************************************)
(* TypeOK and AttemptBound are not inductive on their own.  The retry      *)
(* loop uses oldTorPid as a pid in the callback of the `ps` that           *)
(* clearOldTorProcess starts, so a pending callback needs a real old pid;  *)
(* and a fresh init (spawned = 0) must not find callbacks of an earlier    *)
(* run still pending, which follows from there being at most one per      *)
(* spawned attempt.                                                        *)
(***************************************************************************)
CallbackInv ==
    /\ execPending <= spawned
    /\ execPending > 0 => oldTorPid \in Pids

\* Every attempt that was started has a real pid: kill() and the catch of
\* tryToSpawnTor signal childPid[spawned].
ChildInv == \A i \in 1..spawned : childPid[i] \in Pids

IInv == TypeOK /\ AttemptBound /\ CallbackInv /\ ChildInv

\* The successor state of tryToSpawnTor has the types and the attempt
\* bound, whenever it is entered with a counter c that has not passed the
\* bound by more than one and spawned = c attempts behind it.
LEMMA TryToSpawnTorTyped ==
    ASSUME IInv,
           NEW c \in 0..(Repeat + 1), spawned = c,
           NEW old \in PidOrNone, old /= NoPid => old \in Pids,
           NEW sig, sig \subseteq Pids,
           TryToSpawnTor(c, old, sig)
    PROVE  /\ kind' \in [Pids -> Kinds]
           /\ signalled' \subseteq Pids
           /\ spawned' \in 0..(Repeat + 1)
           /\ childPid' \in [Attempts -> PidOrNone]
           /\ execPending' \in Nat
           /\ execPending' <= spawned'
           /\ status' \in {"spawning", "rejected"}
           /\ status' = "spawning" => spawned' = c + 1 /\ c <= Repeat
           /\ status' = "rejected" => spawned' = c /\ c = Repeat + 1
           /\ execPending' > execPending => old \in Pids
           /\ \A i \in 1..spawned' : childPid'[i] \in Pids
<1> USE RepeatAssumption DEF IInv, TypeOK, CallbackInv, ChildInv
<1>1. CASE c > Repeat
  BY <1>1 DEF TryToSpawnTor, ClearOldTorProcess, SpawnTor
<1>2. CASE c <= Repeat
  <2>1. ClearHangingTorProcess(sig) \subseteq Pids
    BY DEF ClearHangingTorProcess, TorPids
  <2>2. spawned + 1 \in Attempts
    BY <1>2 DEF Attempts
  <2>3. /\ execPending' = IF old /= NoPid THEN execPending + 1 ELSE execPending
        /\ signalled' = ClearHangingTorProcess(sig)
        /\ spawned' = spawned + 1
        /\ status' = "spawning"
        /\ \E p \in Pids :
              /\ kind[p] = "free"
              /\ kind' = [kind EXCEPT ![p] = "tor"]
              /\ childPid' = [childPid EXCEPT ![spawned + 1] = p]
    BY <1>2 DEF TryToSpawnTor, ClearOldTorProcess, SpawnTor
  <2>4. PICK p \in Pids : /\ kind' = [kind EXCEPT ![p] = "tor"]
                          /\ childPid' = [childPid EXCEPT ![spawned + 1] = p]
    BY <2>3
  <2>5. kind' \in [Pids -> Kinds]
    BY <2>4 DEF Kinds
  <2>6. childPid' \in [Attempts -> PidOrNone] /\ \A i \in 1..spawned' : childPid'[i] \in Pids
    BY <2>2, <2>3, <2>4 DEF Attempts, PidOrNone
  <2>7. /\ execPending' \in Nat
        /\ execPending' <= spawned'
        /\ execPending' > execPending => old \in Pids
    BY <2>3
  <2>8. QED
    BY <2>1, <2>2, <2>3, <2>5, <2>6, <2>7 DEF Attempts
<1>3. QED
  BY <1>1, <1>2

\* IInv holds initially.
LEMMA InitIInv == Init => IInv
<1> SUFFICES ASSUME Init PROVE IInv
  OBVIOUS
<1>1. /\ kind \in [Pids -> Kinds]
      /\ signalled \subseteq Pids
      /\ pidFile \in PidOrNone
      /\ status \in {"idle", "spawning", "resolved", "rejected"}
  BY DEF Init
<1>2. /\ counter \in 0..(Repeat + 1)
      /\ oldTorPid \in PidOrNone
      /\ spawned \in 0..(Repeat + 1)
      /\ childPid \in [Attempts -> PidOrNone]
  BY RepeatAssumption DEF Init, PidOrNone
<1>3. /\ exited \subseteq Attempts
      /\ wrote \subseteq Attempts
      /\ execPending \in Nat
      /\ killWait \subseteq Attempts
      /\ killDone \in BOOLEAN
      /\ crashed \in BOOLEAN
  BY DEF Init
<1>4. AttemptBound /\ CallbackInv /\ ChildInv
  BY RepeatAssumption DEF Init, AttemptBound, CallbackInv, ChildInv
<1>5. QED
  BY <1>1, <1>2, <1>3, <1>4 DEF IInv, TypeOK

\* The variables that only the environment's steps and kill() change keep
\* their types when an action leaves them alone.
LEMMA UnchangedTyped ==
    ASSUME TypeOK,
           UNCHANGED <<pidFile, oldTorPid, exited, wrote, killWait, killDone,
                       crashed>>
    PROVE  /\ pidFile' \in PidOrNone
           /\ oldTorPid' \in PidOrNone
           /\ exited' \subseteq Attempts
           /\ wrote' \subseteq Attempts
           /\ killWait' \subseteq Attempts
           /\ killDone' \in BOOLEAN
           /\ crashed' \in BOOLEAN
BY DEF TypeOK

\* Every step preserves IInv.
LEMMA NextIInv == IInv /\ [Next]_vars => IInv'
<1> SUFFICES ASSUME IInv, [Next]_vars PROVE IInv'
  OBVIOUS
<1> USE RepeatAssumption, NoPidAssumption
<1>1. CASE InitTor
  <2>1. CASE /\ status' = "rejected"
             /\ UNCHANGED <<kind, signalled, pidFile, counter, oldTorPid, spawned,
                            childPid, exited, wrote, execPending, killWait,
                            killDone, crashed>>
    <3>1. TypeOK'
      BY <2>1 DEF IInv, TypeOK
    <3>2. spawned = 0
      BY <1>1 DEF InitTor
    <3>3. AttemptBound' /\ CallbackInv' /\ ChildInv'
      BY <2>1, <3>2 DEF IInv, TypeOK, AttemptBound, CallbackInv, ChildInv
    <3>4. QED
      BY <3>1, <3>3 DEF IInv
  <2>2. CASE /\ oldTorPid' = pidFile
             /\ counter' = 0
             /\ TryToSpawnTor(0, pidFile, signalled)
             /\ UNCHANGED <<pidFile, exited, wrote, killWait, killDone, crashed>>
    <3>1. spawned = 0 /\ execPending = 0
      BY <1>1 DEF InitTor, IInv, TypeOK, CallbackInv
    <3>2. /\ kind' \in [Pids -> Kinds]
          /\ signalled' \subseteq Pids
          /\ spawned' \in 0..(Repeat + 1)
          /\ childPid' \in [Attempts -> PidOrNone]
          /\ execPending' \in Nat
          /\ execPending' <= spawned'
          /\ status' \in {"spawning", "rejected"}
          /\ status' = "spawning" => spawned' = 0 + 1
          /\ status' = "rejected" => spawned' = 0 /\ 0 = Repeat + 1
          /\ execPending' > execPending => pidFile \in Pids
          /\ \A i \in 1..spawned' : childPid'[i] \in Pids
      BY <2>2, <3>1, TryToSpawnTorTyped DEF IInv, TypeOK, PidOrNone
    <3>3. pidFile' \in PidOrNone /\ exited' \subseteq Attempts
          /\ wrote' \subseteq Attempts /\ killWait' \subseteq Attempts
          /\ killDone' \in BOOLEAN /\ crashed' \in BOOLEAN
      BY <2>2 DEF IInv, TypeOK
    <3>4. TypeOK'
      BY <2>2, <3>2, <3>3 DEF IInv, TypeOK
    <3>5. AttemptBound'
      BY <2>2, <3>2 DEF AttemptBound
    <3>6. CallbackInv'
      BY <2>2, <3>1, <3>2 DEF CallbackInv
    <3>7. QED
      BY <3>2, <3>4, <3>5, <3>6 DEF IInv, ChildInv
  <2>3. QED
    BY <1>1, <2>1, <2>2 DEF InitTor
<1>2. CASE SpawnTimeout
  <2>1. spawned >= 1 /\ counter = spawned - 1 /\ spawned \in Attempts
    BY <1>2 DEF SpawnTimeout, IInv, TypeOK, AttemptBound, Attempts
  <2>2. KillChild(spawned) \subseteq Pids
    <3>1. childPid[spawned] \in PidOrNone
      BY <2>1 DEF IInv, TypeOK
    <3>2. spawned \notin exited => childPid[spawned] \in Pids
      BY <2>1, <3>1 DEF IInv, ChildInv, Attempts
    <3>3. QED
      BY <3>1, <3>2 DEF KillChild, IInv, TypeOK, PidOrNone
  <2>3. /\ kind' \in [Pids -> Kinds]
        /\ signalled' \subseteq Pids
        /\ spawned' \in 0..(Repeat + 1)
        /\ childPid' \in [Attempts -> PidOrNone]
        /\ execPending' \in Nat
        /\ execPending' <= spawned'
        /\ status' \in {"spawning", "rejected"}
        /\ status' = "spawning" => spawned' = (counter + 1) + 1
        /\ status' = "rejected" => spawned' = counter + 1 /\ counter + 1 = Repeat + 1
        /\ execPending' > execPending => oldTorPid \in Pids
        /\ \A i \in 1..spawned' : childPid'[i] \in Pids
    BY <1>2, <2>1, <2>2, TryToSpawnTorTyped
       DEF SpawnTimeout, IInv, TypeOK, CallbackInv, PidOrNone
  <2>4. TypeOK'
    <3>1. counter' \in 0..(Repeat + 1)
      BY <1>2, <2>1 DEF SpawnTimeout, IInv, TypeOK, Attempts
    <3>2. QED
      BY <1>2, <2>3, <3>1, UnchangedTyped DEF SpawnTimeout, IInv, TypeOK
  <2>5. AttemptBound'
    <3>1. counter' = spawned /\ spawned \in Nat
      BY <1>2, <2>1 DEF SpawnTimeout, IInv, TypeOK, Attempts
    <3>2. CASE status' = "spawning"
      BY <2>1, <2>3, <3>1, <3>2 DEF AttemptBound
    <3>3. CASE status' = "rejected"
      BY <2>1, <2>3, <3>1, <3>3 DEF AttemptBound
    <3>4. QED
      BY <2>3, <3>2, <3>3
  <2>6. CallbackInv'
    BY <1>2, <2>1, <2>3 DEF SpawnTimeout, IInv, TypeOK, CallbackInv, Attempts
  <2>7. QED
    BY <2>3, <2>4, <2>5, <2>6 DEF IInv, ChildInv
<1>3. CASE Bootstrapped
  <2>1. TypeOK'
    BY <1>3 DEF Bootstrapped, IInv, TypeOK
  <2>2. AttemptBound' /\ CallbackInv' /\ ChildInv'
    BY <1>3 DEF Bootstrapped, IInv, AttemptBound, CallbackInv, ChildInv
  <2>3. QED
    BY <2>1, <2>2 DEF IInv
<1>4. CASE ClearOldTorProcessCallback
  <2>1. oldTorPid \in Pids
    BY <1>4 DEF ClearOldTorProcessCallback, IInv, CallbackInv
  <2>2. signalled' \subseteq Pids /\ pidFile' \in PidOrNone /\ crashed' \in BOOLEAN
    BY <1>4, <2>1 DEF ClearOldTorProcessCallback, IInv, TypeOK, PidOrNone
  <2>3. execPending' \in Nat /\ execPending' <= spawned'
    BY <1>4 DEF ClearOldTorProcessCallback, IInv, TypeOK, CallbackInv
  <2>4. TypeOK'
    BY <1>4, <2>2, <2>3 DEF ClearOldTorProcessCallback, IInv, TypeOK
  <2>5. AttemptBound' /\ CallbackInv' /\ ChildInv'
    BY <1>4, <2>3 DEF ClearOldTorProcessCallback, IInv, AttemptBound, CallbackInv,
                      ChildInv
  <2>6. QED
    BY <2>4, <2>5 DEF IInv
<1>5. CASE Kill
  <2>1. spawned \in Attempts
    BY <1>5 DEF Kill, IInv, TypeOK, Attempts
  <2>2. signalled' \subseteq Pids
    BY <1>5, <2>1 DEF Kill, KillChild, IInv, TypeOK, ChildInv, Attempts
  <2>3. TypeOK'
    BY <1>5, <2>1, <2>2 DEF Kill, IInv, TypeOK
  <2>4. AttemptBound' /\ CallbackInv' /\ ChildInv'
    BY <1>5 DEF Kill, IInv, AttemptBound, CallbackInv, ChildInv
  <2>5. QED
    BY <2>3, <2>4 DEF IInv
<1>6. ASSUME NEW p \in Pids, TorExits(p)
      PROVE  IInv'
  <2>1. TypeOK'
    <3>1. exited' \subseteq Attempts
      <4>1. LiveChildren \subseteq Attempts
        BY DEF LiveChildren, IInv, TypeOK, Attempts
      <4>2. exited' \subseteq exited \cup LiveChildren
        BY <1>6 DEF TorExits
      <4>3. QED
        BY <4>1, <4>2 DEF IInv, TypeOK
    <3>2. kind' \in [Pids -> Kinds] /\ signalled' \subseteq Pids
      BY <1>6 DEF TorExits, IInv, TypeOK, Kinds
    <3>3. pidFile' \in PidOrNone
      BY <1>6 DEF TorExits, IInv, TypeOK, PidOrNone
    <3>4. killWait' \subseteq Attempts /\ killDone' \in BOOLEAN
      BY <1>6 DEF TorExits, IInv, TypeOK
    <3>5. QED
      BY <1>6, <3>1, <3>2, <3>3, <3>4 DEF TorExits, IInv, TypeOK
  <2>2. AttemptBound' /\ CallbackInv' /\ ChildInv'
    BY <1>6 DEF TorExits, IInv, AttemptBound, CallbackInv, ChildInv
  <2>3. QED
    BY <2>1, <2>2 DEF IInv
<1>7. ASSUME NEW i \in Attempts, TorWritesPidFile(i)
      PROVE  IInv'
  <2>1. i \in 1..spawned
    BY <1>7 DEF TorWritesPidFile, LiveChildren
  <2>2. TypeOK'
    BY <1>7, <2>1 DEF TorWritesPidFile, IInv, TypeOK, Attempts
  <2>3. AttemptBound' /\ CallbackInv' /\ ChildInv'
    BY <1>7 DEF TorWritesPidFile, IInv, AttemptBound, CallbackInv, ChildInv
  <2>4. QED
    BY <2>2, <2>3 DEF IInv
<1>8. CASE UNCHANGED vars
  BY <1>8 DEF vars, IInv, TypeOK, AttemptBound, CallbackInv, ChildInv
<1>9. QED
  BY <1>1, <1>2, <1>3, <1>4, <1>5, <1>6, <1>7, <1>8 DEF Next

\* The type invariant holds in every reachable state.
THEOREM TypeCorrect == Spec => []TypeOK
<1>1. IInv => TypeOK
  BY DEF IInv
<1>2. QED
  BY InitIInv, NextIInv, <1>1, PTL DEF Spec

\* Tor.init makes exactly Repeat + 1 attempts before it rejects, and its
\* counter counts the failed attempts, for every value of Repeat.
THEOREM AttemptsBounded == Spec => []AttemptBound
<1>1. IInv => AttemptBound
  BY DEF IInv
<1>2. QED
  BY InitIInv, NextIInv, <1>1, PTL DEF Spec

(***************************************************************************)
(* AbandonedChildrenSignalled is inductive relative to IInv.  The catch of *)
(* tryToSpawnTor signals the current child before the next attempt makes   *)
(* it an earlier one, or before init rejects; the other steps only add to  *)
(* signalled, and a daemon leaves signalled only when it exits, which      *)
(* closes every child that had its pid.                                    *)
(***************************************************************************)
LEMMA NextAbandoned ==
    IInv /\ AbandonedChildrenSignalled /\ [Next]_vars => AbandonedChildrenSignalled'
<1> SUFFICES ASSUME IInv, AbandonedChildrenSignalled, [Next]_vars
             PROVE  AbandonedChildrenSignalled'
  OBVIOUS
<1> USE RepeatAssumption
<1>1. CASE InitTor
  <2>1. spawned = 0
    BY <1>1 DEF InitTor
  <2>2. status' = "spawning" => spawned' = 1
    BY <1>1, <2>1 DEF InitTor, TryToSpawnTor, ClearOldTorProcess, SpawnTor
  <2>3. status' = "rejected" => spawned' = 0
    BY <1>1, <2>1 DEF InitTor, TryToSpawnTor, ClearOldTorProcess, SpawnTor
  <2>4. status' \in {"spawning", "rejected"}
    BY <1>1 DEF InitTor, TryToSpawnTor, ClearOldTorProcess, SpawnTor
  <2>5. QED
    BY <2>2, <2>3, <2>4 DEF AbandonedChildrenSignalled, LiveChildren
<1>2. CASE SpawnTimeout
  <2>1. spawned \in Attempts /\ childPid[spawned] \in Pids
    BY <1>2 DEF SpawnTimeout, IInv, TypeOK, AttemptBound, ChildInv, Attempts
  <2>2. \A i \in LiveChildren : childPid[i] \in KillChild(spawned)
    BY <2>1 DEF AbandonedChildrenSignalled, KillChild, LiveChildren, IInv, TypeOK,
                Attempts
  <2>3. KillChild(spawned) \subseteq signalled'
    BY <1>2 DEF SpawnTimeout, TryToSpawnTor, ClearOldTorProcess, SpawnTor, ClearHangingTorProcess
  <2>4. UNCHANGED exited
    BY <1>2 DEF SpawnTimeout
  <2>5. CASE counter + 1 > Repeat
    <3>1. UNCHANGED <<spawned, childPid>>
      BY <1>2, <2>5 DEF SpawnTimeout, TryToSpawnTor, ClearOldTorProcess, SpawnTor
    <3>2. QED
      BY <2>2, <2>3, <2>4, <3>1 DEF AbandonedChildrenSignalled, LiveChildren
  <2>6. CASE counter + 1 <= Repeat
    <3>1. /\ spawned' = spawned + 1
          /\ status' = "spawning"
          /\ \A i \in 1..spawned : childPid'[i] = childPid[i]
      <4>1. counter \in Nat
        BY DEF IInv, TypeOK
      <4>2. /\ spawned' = spawned + 1
            /\ status' = "spawning"
            /\ \E p \in Pids : childPid' = [childPid EXCEPT ![spawned + 1] = p]
        BY <1>2, <2>6, <4>1 DEF SpawnTimeout, TryToSpawnTor, ClearOldTorProcess, SpawnTor
      <4>3. PICK p \in Pids : childPid' = [childPid EXCEPT ![spawned + 1] = p]
        BY <4>2
      <4>4. QED
        BY <2>1, <4>2, <4>3 DEF IInv, TypeOK, Attempts
    <3>2. QED
      BY <2>1, <2>2, <2>3, <2>4, <3>1
         DEF AbandonedChildrenSignalled, LiveChildren, Attempts
  <2>7. QED
    BY <2>1, <2>5, <2>6 DEF IInv, TypeOK, AttemptBound, Attempts
<1>3. CASE Bootstrapped
  BY <1>3 DEF Bootstrapped, AbandonedChildrenSignalled, LiveChildren
<1>4. CASE ClearOldTorProcessCallback
  BY <1>4 DEF ClearOldTorProcessCallback, AbandonedChildrenSignalled, LiveChildren
<1>5. CASE Kill
  BY <1>5 DEF Kill, KillChild, AbandonedChildrenSignalled, LiveChildren
<1>6. ASSUME NEW p \in Pids, TorExits(p)
      PROVE  AbandonedChildrenSignalled'
  <2>1. LiveChildren' = {i \in LiveChildren : childPid[i] /= p}
    BY <1>6 DEF TorExits, LiveChildren
  <2>2. signalled' = signalled \ {p} /\ UNCHANGED <<status, spawned, childPid>>
    BY <1>6 DEF TorExits
  <2>3. QED
    BY <2>1, <2>2 DEF AbandonedChildrenSignalled
<1>7. ASSUME NEW i \in Attempts, TorWritesPidFile(i)
      PROVE  AbandonedChildrenSignalled'
  BY <1>7 DEF TorWritesPidFile, AbandonedChildrenSignalled, LiveChildren
<1>8. CASE UNCHANGED vars
  BY <1>8 DEF vars, AbandonedChildrenSignalled, LiveChildren
<1>9. QED
  BY <1>1, <1>2, <1>3, <1>4, <1>5, <1>6, <1>7, <1>8 DEF Next

\* A failed attempt of Tor.init never leaves its daemon running without
\* SIGTERM, for every set of pids and every value of Repeat.
THEOREM AbandonedChildrenAreSignalled == Spec => []AbandonedChildrenSignalled
<1>1. Init => AbandonedChildrenSignalled
  BY DEF Init, AbandonedChildrenSignalled, LiveChildren
<1>2. QED
  BY InitIInv, NextIInv, <1>1, NextAbandoned, PTL DEF Spec

(***************************************************************************)
(* Refinement: TorSupervisor implements SupervisorAbstract, the promise    *)
(* of Tor.init, under the mapping attempts <- spawned.  Every step of the  *)
(* supervisor is a step of the abstract specification or leaves status     *)
(* and spawned alone.  The retry step needs AttemptBound: the catch calls  *)
(* tryToSpawnTor with counter + 1 = spawned, so it rejects exactly when    *)
(* Repeat + 1 daemons were spawned.                                        *)
(***************************************************************************)
LEMMA NextRefines == IInv /\ [Next]_vars => [Abs!Next]_<<status, spawned>>
<1> SUFFICES ASSUME IInv, [Next]_vars
             PROVE  [Abs!Next]_<<status, spawned>>
  OBVIOUS
<1> USE RepeatAssumption, NoPidAssumption
<1>1. CASE InitTor
  <2>1. spawned = 0 /\ status \in {"idle", "rejected"}
    BY <1>1 DEF InitTor, IInv, TypeOK, AttemptBound
  <2>2. CASE status' = "rejected" /\ UNCHANGED spawned
    BY <2>1, <2>2 DEF Abs!Next, Abs!Start
  <2>3. CASE /\ oldTorPid' = pidFile
             /\ TryToSpawnTor(0, pidFile, signalled)
    <3>1. status' = "spawning" /\ spawned' = 1
      BY <2>1, <2>3 DEF TryToSpawnTor, ClearOldTorProcess, SpawnTor
    <3>2. QED
      BY <2>1, <3>1 DEF Abs!Next, Abs!Start
  <2>4. QED
    BY <1>1, <2>2, <2>3 DEF InitTor
<1>2. CASE SpawnTimeout
  <2>1. spawned \in Attempts /\ counter = spawned - 1 /\ status = "spawning"
    BY <1>2 DEF SpawnTimeout, IInv, TypeOK, AttemptBound, Attempts
  <2>2. /\ status' \in {"spawning", "rejected"}
        /\ status' = "spawning" => spawned' = (counter + 1) + 1 /\ counter + 1 <= Repeat
        /\ status' = "rejected" => spawned' = counter + 1 /\ counter + 1 = Repeat + 1
    <3>1. KillChild(spawned) \subseteq Pids
      BY <2>1 DEF KillChild, IInv, TypeOK, ChildInv, Attempts
    <3>2. QED
      BY <1>2, <2>1, <3>1, TryToSpawnTorTyped
         DEF SpawnTimeout, IInv, TypeOK, CallbackInv, PidOrNone, Attempts
  <2>3. CASE status' = "spawning"
    <3>1. spawned <= Repeat /\ spawned' = spawned + 1
      BY <2>1, <2>2, <2>3 DEF Attempts
    <3>2. Abs!Retry
      BY <2>1, <2>3, <3>1 DEF Abs!Retry
    <3>3. QED
      BY <3>2 DEF Abs!Next
  <2>4. CASE status' = "rejected"
    <3>1. spawned = Repeat + 1 /\ spawned' = spawned
      BY <2>1, <2>2, <2>4 DEF Attempts
    <3>2. Abs!GiveUp
      BY <2>1, <2>4, <3>1 DEF Abs!GiveUp
    <3>3. QED
      BY <3>2 DEF Abs!Next
  <2>5. QED
    BY <2>2, <2>3, <2>4
<1>3. CASE Bootstrapped
  BY <1>3 DEF Bootstrapped, Abs!Next, Abs!Resolve
<1>4. CASE ClearOldTorProcessCallback
  BY <1>4 DEF ClearOldTorProcessCallback
<1>5. CASE Kill
  BY <1>5 DEF Kill
<1>6. ASSUME NEW p \in Pids, TorExits(p)
      PROVE  [Abs!Next]_<<status, spawned>>
  BY <1>6 DEF TorExits
<1>7. ASSUME NEW i \in Attempts, TorWritesPidFile(i)
      PROVE  [Abs!Next]_<<status, spawned>>
  BY <1>7 DEF TorWritesPidFile
<1>8. CASE UNCHANGED vars
  BY <1>8 DEF vars
<1>9. QED
  BY <1>1, <1>2, <1>3, <1>4, <1>5, <1>6, <1>7, <1>8 DEF Next

\* Tor.init keeps the promise of SupervisorAbstract for every set of pids
\* and every value of Repeat: it resolves only while spawning, rejects
\* only before its first attempt or after Repeat + 1 of them, and each
\* retry is one more attempt.
THEOREM ImplementsAbstract == Spec => AbsSpec
<1>1. Init => Abs!Init
  BY DEF Init, Abs!Init
<1>2. QED
  BY <1>1, InitIInv, NextIInv, NextRefines, PTL DEF Spec, AbsSpec, Abs!Spec

=============================================================================
