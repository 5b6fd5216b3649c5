# Formal models of quiet: Tor supervision, hidden services, the messages store and desktop shutdown

This directory holds TLA+ models of four parts of quiet, with TLC
configurations that check them on small instances and TLAPS proofs that
hold for every instance:

- the Tor process supervisor and the hidden-service manager of the backend,
  `src/packages/backend/src/torManager/torManager.ts` (class `Tor`), with
  `removeFilesFromDir` from `src/packages/backend/src/common/utils.ts`;
- the messages slice of the Redux store,
  `src/packages/state-manager/src/sagas/messages/messages.slice.ts`;
- the Electron main process of the desktop app,
  `src/packages/desktop/src/main/main.ts`: windows, the forked backend, and
  the shutdown handshakes.

`PROJECT.json` lists every component, run, mutant, finding and hazard, and
maps every definition to the source lines it models.

## 1. The system

### Components

| Component | Source | Module | Status |
|---|---|---|---|
| Process Supervisor | `torManager.ts` 61-219, 288-301; `utils.ts` 26-31 | `TorSupervisor`, `SupervisorAbstract`, `TorSupervisorProofs` | modelled |
| Hidden-Service Manager | `torManager.ts` 221-286 | `HiddenServices`, `HiddenServiceCalls`, `HiddenServicesProofs` | modelled |
| Control-Channel Client | `./TorControl` (not among the sources) | `HiddenServices`, from spec 4.1 and 5 | partly |
| Credential Setup | `torManager.ts` 271-279 | `TorSupervisor` (`InitTor` may fail) | partly |
| Messages slice | `messages.slice.ts`, `publicChannels.types.ts` | `MessagesSlice`, `MessagesSliceProofs` | partly |
| Desktop main process | `desktop/src/main/main.ts` | `DesktopMain`, `ShutdownAbstract`, `DesktopMainProofs` | partly |
| Renderer and the rest of the store, integration tests, mobile, formatting helpers | see `PROJECT.json` | - | not modelled (section 6) |

### How they interact

**Supervisor.** The backend is one Node.js event loop, and `init` runs
synchronously up to the spawn of the first daemon. Each attempt of
`tryToSpawnTor` does three things:
- it starts an asynchronous `ps` on the old pid (`clearOldTorProcess`);
- it runs a synchronous `pgrep` on the data directory and SIGTERMs the pid it finds (`clearHangingTorProcess`);
- it spawns the daemon.

The daemon either prints `Bootstrapped 100%`, and `init` resolves, or the
bootstrap timeout fires. Then the `catch` kills the daemon, deletes the data
directory, increments `counter` and schedules the next attempt with
`process.nextTick`. The `ps` callback runs whenever `ps` finishes, usually
after the new daemon is up. `kill` attaches `close` and `error` listeners
to the current child and signals it.

**Hidden services.** Each of `spawnHiddenService`,
`createNewHiddenService` and `destroyHiddenService` writes one command on
the control connection (`ADD_ONION <key>`, `ADD_ONION NEW:BEST`,
`DEL_ONION`). It awaits the reply, then parses its lines and updates the
`services` map.

**Messages.** The messages slice is a set of reducers run by Redux inside
an immer producer. A reducer that throws leaves the store as it was.

**Desktop.** Closing is a handshake between three processes:
- The main window's first `close` is prevented and sends
  `force-save-state` to the renderer.
- The renderer answers `state-saved`, and main closes the window again.
- With no window left, `closeBackendProcess` sends `close` to the forked
  backend, arms a 2 s force-kill timer, and quits when the backend answers
  `closed-services` or when the timer fires.

## 2. Modules, state and actions

Each action is one macrotask of the event loop it runs on. It includes the
promise continuations and `nextTick` callbacks it schedules, which run
before any other macrotask. It also includes every call the handler makes
that changes state.

### `TorSupervisor` (and `MC_TorSupervisor`)

| Variable | Code |
|---|---|
| `status` | the promise returned by `init` |
| `counter`, `oldTorPid` | the locals of `init` |
| `spawned`, `childPid`, `exited` | the child handles; `this.process` is child `spawned` |
| `pidFile` | `torPid.json` |
| `execPending` | outstanding `ps` callbacks |
| `killWait`, `killDone` | pending and resolved `kill()` calls |
| `crashed` | an uncaught exception ended the backend |
| `kind`, `signalled`, `wrote` | environment: the OS process table, SIGTERMs in flight, daemons that have written their pid |

| Action | Code |
|---|---|
| `InitTor` | `init` (61-84, 115), including a failing `generateHashedPassword` |
| `TryToSpawnTor`, `ClearOldTorProcess`, `ClearHangingTorProcess`, `SpawnTor` | 86-102, 161-164, 150-159, 185-208 |
| `SpawnTimeout` | the timer of `spawnTor` and the `catch` (104-112) |
| `Bootstrapped` | the stdout handler (210-217) |
| `ClearOldTorProcessCallback` | the exec callback (165-182) |
| `Kill` | `kill` (288-301) |
| `TorExits`, `TorWritesPidFile` | the daemons (environment) |

The environment is deliberately loose:
- A daemon may exit at any time (a crash, or losing the data-directory
  lock). On a clean SIGTERM exit it may or may not remove `torPid.json`.
- A daemon bootstraps only while it is the one tor on the data directory
  and has not been signalled. Tor's lock on the data directory justifies
  this.
- The initial state is anything a previous run can leave: at most one tor
  on the data directory, and a pid file naming any pid.

`init` on a supervisor that already has a process, and `kill` without one,
only reject. They are stuttering steps.

### `SupervisorAbstract`

This module states what `init` promises its caller, with no pids or
timers. Its variables are `status` and `attempts`, and its actions are
`Start`, `Retry`, `GiveUp` and `Resolve`:
- a call either fails at once (credential setup) or starts attempt 1;
- a failed attempt starts the next one, up to `Repeat + 1` attempts;
- then `init` is rejected; resolved is final.

`TorSupervisor` implements it under the refinement mapping
`attempts <- spawned` (`Abs == INSTANCE SupervisorAbstract WITH ...`, with
`AbsSpec == Abs!Spec`). TLC checks this as a property, and TLAPS proves it.

### `HiddenServices` (and `MC_HiddenServices`)

| Variable | Code |
|---|---|
| `cache` | `this.services` (virtual port to address) |
| `op`, `pc` | each call of the manager: its command, and idle / waiting / done |
| `wire`, `replies` | the control connection: commands not yet executed, replies not yet read |
| `onions`, `created` | the daemon's live onion services, and every (service id, port) it has created |

| Action | Code |
|---|---|
| `Call(c, o)` | the `sendCommand` of the three methods (230-232, 241-242, 256-258) |
| `Deliver(c)`: `SpawnHiddenServiceReturns`, `CreateNewHiddenServiceReturns` | the code after the `await` (233-238, 259-268), including the reading of `messages[0]` and `messages[1]` |
| `DaemonExecutes`: `AddOnionKey`, `AddOnionNew`, `DelOnion` | tor's `ADD_ONION` and `DEL_ONION` (environment, spec-modelled) |

`TorControl` is not among the sources. It is modelled from spec 4.1 and 5:
- one connection, with replies in the order of the commands;
- no timeout;
- callers serialize their calls, as spec 5 requires, because the client
  has no queue of pending callers.

A reply is a status and a sequence of lines (`ServiceID`, `PrivateKey`,
`OK`). `Strip` is `line.replace('250-ServiceID=', '')`: it yields the id of
a `ServiceID` line and leaves any other line as it is, so a wrong line
index shows up as a non-id in the cache.

### `HiddenServiceCalls`

This module states what a caller of the manager is promised, without the
control connection. A call goes `idle`, `waiting`, `answered`, `done`:
- `Request(c, o)` makes a call when none is in progress;
- `Execute(c)` is the daemon running the command. A spawn of a key not
  yet live, and every create, start a service (`Start`) and answer with
  it. A spawn of a live key, and a destroy, answer without one
  (`NoService`).
- `Return(c)` caches the answered service for the call's port. An answer
  without a service leaves the cache as it is.

`HiddenServices` implements it as `CallsSpec == CallerView!Spec`. The
mapping (`CallPc`, `CallAnswer`) counts a waiting call as `answered` once
its command has left the wire. Its answer is `ServiceOf` the reply
pending on the connection: the id on the reply's `ServiceID` line.

### `MessagesSlice` (and `MC_MessagesSlice`)

A message is abstracted to its channel, its id and its media: no media
field, media without a path, or a downloaded path.

| Variable | Code |
|---|---|
| `base` | `publicChannelsMessagesBase`: per channel, `None` or an entity with `display` and a message store |
| `sending` | `messageSendingStatus` |
| `received` | history: messages handed to `incomingMessages` while their channel had a base |

| Action | Code |
|---|---|
| `IncomingMessages(batch)` | the `incomingMessages` reducer. It is a `FoldLeft` of `IncomingMessage` over the batch, and it models: the `return` on a non-message; the draft read with `?.`; the throw of `draft?.media.path` on a draft without media; the path merge; `upsertOne` on a missing base. A throw discards the whole batch, as immer does. |
| `AddPublicChannelsMessagesBase(ch)` | `addOne` (ignores an existing entity) |
| `SetDisplayedMessagesNumber(ch, d)` | `updateOne` (no-op on a missing entity) |
| `AddMessagesSendingStatus`, `RemovePendingMessageStatus` | `upsertOne` and `removeOne` |

### `DesktopMain` (and `MC_DesktopMain`)

The variables:
- `app`, `quitting`;
- `mainWindow` (`undefined` / `null` / open) and `main` (shown, loaded,
  its once-`close` guard, and whether the `ready` handler's listeners are
  on it);
- `splash` and `splashGuard`;
- the messages in flight: `saves`, `savedMsgs`, `inbox` and `acks`;
- `timers` (armed forceClose timers) and `backend`;
- `errors` (an exception escaped a handler) and `history`.

| Action | Code |
|---|---|
| `AppReady` | the `ready` handler with `createWindow` and the fork of the backend (163-221, 325-467) |
| `Activate` | `activate` (485-492): a new window without the first window's listeners |
| `MainDidFinishLoad` | `did-finish-load` (338-356): reads the splash size (throws when it is destroyed), destroys it, shows main |
| `UserClosesMain`, `StateSaved` (both through `CloseMain`) | `mainWindow.once('close')` and `state-saved` (389-393, 402-405) |
| `UserClosesSplash` | `splash.once('close')` (395-400) |
| `RendererSaves` | the renderer (environment) |
| `ClosedServices`, `ForceClose` | the `message` listener and the timer of `closeBackendProcess` (296-323) |
| `QuitProceeds` | `app.quit()` closing every window; a prevented `close` cancels the quit (Electron semantics) |
| `RestartApp`, `ProceedUpdate` | `restartApp` and `proceed-update` (407-410, 464-466) |
| `BackendClosesServices`, `BackendExits` | the backend (environment), with the `exit` listener (375-379) |

`closeBackendProcess` is not an action of its own. It is the helper
`CloseBackendProcess(call)`, together with `CloseBackendThrows` and
`CloseBackendQuits`, and it is part of each handler that calls it.

### `ShutdownAbstract`

This module states the lifecycle the main process promises, with no
windows, messages or timers. Its variables are `app`, `backend`, `asked`
and `installing`:
- `Ready` starts the app and forks the one backend;
- `Ask` is a call of `closeBackendProcess`;
- `CloseServices` can happen only after `Ask`;
- `Kill` stops a running or closed backend;
- `Install` is `quitAndInstall`, possible only when an update is offered;
- `Exit` happens only once `closeBackendProcess` was called and the
  backend has stopped, or once `quitAndInstall` ran.

`DesktopMain` implements it as `ShutdownSpec == Shutdown!Spec`, with
`asked <- closes > 0` and `installing <- "installing" \in history`.
`app` and `backend` map to themselves.

## 3. Runs

There are 12 runs in all: 5 that must pass and 7 that must find a
violation.

| Run | cfg | Expect | What it shows |
|---|---|---|---|
| `supervisor_safety` | `MC_TorSupervisor.cfg` | pass (173,900 states) | These hold under `LiveSpec`: `TypeOK`; `AttemptBound` (exactly `repeat + 1` attempts, with `counter` counting the failures); `AbandonedChildrenSignalled` (every timed-out daemon gets SIGTERM, even when `pgrep` sees two daemons and kills none); `AbsSpec` (the refinement); `LeftoverTorsReaped` (a previous run's tor is terminated after the first attempt). |
| `stale_pid_cleanup` | `_stale.cfg` | violation of `StaleCleanupSparesChildren` | The `ps` callback SIGTERMs our own new daemon when it reused the old pid, or unlinks the pid file the new daemon wrote. |
| `stale_pid_enoent` | `_enoent.cfg` | violation of `NoUncaughtException` | The pid file is already gone, so the callback's `unlinkSync` throws ENOENT, and nothing catches it. |
| `respawn_after_kill` | `_respawn.cfg` | violation of `KilledStaysDown` | `kill()` during bootstrap resolves, and then the timeout spawns a fresh daemon. |
| `kill_settles` | `_kill.cfg` | violation of `KillSettles` | `kill()` on a child that has already closed waits forever. |
| `hidden_services_safety` | `MC_HiddenServices.cfg` | pass (360 states) | `TypeOK`, and `CachedAddressesAreServices`: a cached address is a service the daemon created for that port. This holds after destroy and key reuse. `CallsSpec`: the manager implements `HiddenServiceCalls`, so each spawn or create caches the service created in answer to that very call. |
| `messages_store` | `MC_MessagesSlice.cfg` | pass (2,738 states) | `TypeOK`, and `StoredMessagesKept` (an action property): a stored message stays stored, and a downloaded path is never lost by a redelivery without one. |
| `incoming_batch_lost` | `_lost.cfg` | violation of `IncomingMessagesStored` | A message of a batch whose channel has a base is not stored. |
| `desktop_shutdown` | `MC_DesktopMain.cfg` | pass (4,305 states) | `TypeOK`, and `BackendStoppedOnQuit`: the app exits only once the backend has closed its services or been killed. `ShutdownSpec`: the main process implements `ShutdownAbstract`. |
| `desktop_quit_liveness` | `_live.cfg` | pass (1,868 states) | `CloseLeadsToQuit`: once the user closes the main window, the app eventually exits. |
| `unsaved_state_on_quit` | `_unsaved.cfg` | violation of `StateSavedOnQuit` | A double click on close exits without the renderer's save. |
| `splash_close_hang` | `_splash.cfg` | violation of `CloseLeadsToQuit` | Closing the splash before the page loads leaves a hidden window and an app that never quits. |

Every property of a passing run has a mutant that TLC catches under the
run's own cfg. For example:
- reading the address from `messages[1]` breaks `CachedAddressesAreServices`;
- `setOne` instead of `addOne` breaks `StoredMessagesKept`;
- an inverted `backendProcess` null check breaks `BackendStoppedOnQuit`;
- a `closeBackendProcess` without the force-kill timer breaks `CloseLeadsToQuit`;
- a `createNewHiddenService` that keeps a port's old address breaks
  `CallsSpec`;
- a `forceClose` timer that quits without `backendProcess.kill()` breaks
  `ShutdownSpec`.

### Bounds

- **Supervisor.** Three pids and `Repeat = 1`. That is enough for a
  leftover daemon, a stale pid that the new child reuses, and two
  attempts. An ad hoc check with `Repeat = 2` (1.3M states) found nothing
  new.
- **Hidden services.** Three calls, two ports, one key and two generated
  ids. That is enough for a create, an overwrite of the same port, a
  destroy, and reuse of a key after destroy.
- **Messages.** Two channels, two ids, one path, and batches of up to two
  entries. That is enough for a message received twice in one batch, and
  for a non-message that ends the loop before a message.
- **Desktop.** Up to two main windows. The message counters are bounded
  by 4 (`CounterBound`), which the handshakes themselves never exceed.

Symmetry is used only where no liveness is checked.

### Deadlock

Deadlock checking is off where the system really stops:
- the supervisor, after an uncaught exception, once every daemon has exited;
- the hidden-service calls, once every call is done;
- the desktop app, once it has exited.

### Fairness

- **Supervisor** (`LiveSpec`). Weak fairness of `SpawnTimeout` (a Node
  timer), of `ClearOldTorProcessCallback` (`ps` terminates), and of a
  signalled daemon's exit (tor exits on SIGTERM). Nothing else is assumed:
  an unsignalled daemon may run forever, and a daemon need not bootstrap.
- **Desktop** (`LiveSpec`). Weak fairness of the main process's own
  handlers, namely `MainDidFinishLoad`, `StateSaved`, `ClosedServices`,
  `ForceClose` (a 2 s timer) and `QuitProceeds`. Also weak fairness of the
  renderer answering `force-save-state` and of the backend answering
  `close`. The user, the backend's exits and the updater are not forced.

## 4. Findings

The violation runs show these:

1. **Stale-pid cleanup races the new daemon** (`torManager.ts:163`). The
   spec orders "terminate the old pid, then launch". The code starts `ps`
   and spawns at once.
2. **Uncaught ENOENT** (`torManager.ts:178`). `unlinkSync` inside the exec
   callback has no `try`.
3. **Respawn after `kill()`** (`torManager.ts:111`). `kill()` does not stop
   the retry loop.
4. **`kill()` never settles on a closed child** (`torManager.ts:294`).
5. **A batch is lost** (`messages.slice.ts:67`). `return` is used where
   `continue` is meant, and one throwing message discards the whole batch.
6. **Unsaved state on quit** (`main.ts:389`). `once('close')` guards only
   the first click.
7. **Hang after closing the splash early** (`main.ts:339`). The app keeps
   running with a hidden window and a closed backend.

Found while modelling, but kept out of the runs:
- `quitAndInstall` after a close click lets the backend outlive the app
  (`main.ts:465`). With `UpdateOffered = TRUE`, `BackendStoppedOnQuit` is
  violated.
- After `kill()`, `init` is refused for the life of the object, because
  `this.process` is never reset (`torManager.ts:64`).
- `destroyHiddenService` never prunes the cache (`torManager.ts:243`).
  Spec 9 leaves pruning open.
- `TorControl` has no queue of pending callers. Two concurrent calls could
  each cache the other's `ServiceID`, so the model assumes callers
  serialize, as spec 5 requires.

## 5. Proofs

Four modules hold proofs: `TorSupervisorProofs`, `HiddenServicesProofs`,
`DesktopMainProofs` and `MessagesSliceProofs`.

### `TorSupervisorProofs`

These hold for every set of pids and every `Repeat \in Nat` (the
assumptions `NoPidAssumption` and `RepeatAssumption`):
- `TypeCorrect`: `Spec => []TypeOK`;
- `AttemptsBounded`: `Spec => []AttemptBound`;
- `AbandonedChildrenAreSignalled`: `Spec => []AbandonedChildrenSignalled`;
- `ImplementsAbstract`: `Spec => AbsSpec`. Every initial state maps to
  `Abs!Init`, and every step maps to an abstract step or a stutter of
  `<<status, spawned>>`.

The inductive invariant is
`IInv == TypeOK /\ AttemptBound /\ CallbackInv /\ ChildInv`:
- `AttemptBound` keeps `counter` and `spawned` in range.
- `CallbackInv` says there is at most one pending `ps` callback per
  attempt, and a pending callback has a real old pid. The callback indexes
  the process table with it.
- `ChildInv` says every started attempt has a real pid. `kill` and the
  `catch` signal it.

`AbandonedChildrenSignalled` is inductive relative to `IInv`. The `catch`
signals the current child before the next attempt turns it into an earlier
one. A pid leaves `signalled` only when its daemon exits, and that exit
closes every child that had the pid.

The lemma `TryToSpawnTorTyped` states once what `tryToSpawnTor` yields. The
proofs of `InitTor` and `SpawnTimeout` both cite it.

### `HiddenServicesProofs`

These hold for every set of calls, ports, keys and generated ids (the
assumption `HiddenServicesAssumption`: keys and generated ids are
disjoint, and neither is `None`):
- `TypeCorrect`: `Spec => []TypeOK`;
- `CachedAddressesCorrect`: `Spec => []CachedAddressesAreServices`.

The property is not inductive on its own, because a continuation caches
the first line of whatever reply it is handed. The inductive invariant
`IInv` adds what the connection can hold:
- at most one call waits (`OneWaiting`);
- a call that has been made has a command (`CallOps`);
- with none waiting, `wire` and `replies` are empty, and with call `c`
  waiting, either its command alone is on the wire, or exactly one reply is
  pending (`Channel`);
- an ok reply to `ADD_ONION` starts with the `ServiceID` line of a service
  created for `c`'s port (`ReplyFits`).

There is one lemma per action (`CallPreserves`, `DaemonPreserves`,
`DeliverPreserves`), with one step per branch of the daemon and of the
continuation. The lemma `CacheFromReply` states once what caching from a
fitting reply preserves.

- `ImplementsCalls`: `Spec => CallsSpec`. `Init` maps to
  `CallerView!Init`, and every step maps to an abstract step
  (`CallRefines`, `DaemonRefines`, `DeliverRefines`) or a stutter
  (`NextRefinesCalls`).

The refinement needs more than `IInv`: `CreateReplyFull`. It says that an
ok reply pending for a create has at least two lines. Without it, an ok
answer could leave the cache alone, because `messages[1].replace` throws
before `services.set`, while the abstract `Return` caches it.
`CreateReplyFull` is proved inductive relative to `IInv`
(`InitReplyFull`, `NextReplyFull`). `DeliverFacts` states once what a
delivery finds on the connection. `DeliverPreserves` and `DeliverRefines`
both cite it.

### `DesktopMainProofs`

These hold for every value of `SplashClosable`, `UpdateOffered`,
`Restartable` and `MaxWindows` (the assumption `DesktopMainAssumption`):
- `TypeCorrect`: `Spec => []TypeOK`;
- `QuitStopsBackendUnlessInstalling`: in every reachable state, if the app
  has exited and `proceed-update` never ran, the backend is `closed` or
  `exited`;
- `BackendStoppedWithoutUpdate`: under the hypothesis
  `UpdateOffered = FALSE`, `Spec => []BackendStoppedOnQuit`. The hypothesis
  is needed: with an update offered, TLC finds a violation (section 4).

`BackendStoppedOnQuit` is not inductive, because `app.quit()` runs
(`QuitProceeds`) some time after the handler that asked for it. The
inductive invariant is `IInv == TypeOK /\ BackendForked /\ QuitInv /\
InstallInv`:
- `BackendForked`: nothing happens before `ready`, and afterwards the
  backend exists. `closeBackendProcess` calls `app.quit()` directly only
  without a backend, so once `ready` has run it never does.
- `QuitInv`: unless `proceed-update` ran, a pending quit, a pending
  `closed-services` and an exited app all find the backend stopped. Every
  handler that requests a quit has stopped the backend first: the
  `message` listener after `closed-services`, and `forceClose` after
  `kill()`.
- `InstallInv`: `proceed-update` runs only when an update is offered.

`NextIInv` has one step per action. Under each step there is one leaf for
the window record (lemma `MainStatesClosed`), one for the counters, one for
the types, and one for the conjuncts about quitting.

- `ImplementsShutdown`: `Spec => ShutdownSpec`, for every value of the
  constants. Every step of `DesktopMain` maps to a `ShutdownAbstract` step
  or a stutter (`NextRefinesShutdown`, one case per action).

The mapping needs the invariant `AskedInv`, proved inductive relative to
`IInv` (`InitAskedInv`, `NextAskedInv`). It says that everything that
stops the backend or quits the app comes from a call of
`closeBackendProcess`:
- every `close` in flight, `closed-services` answer and armed timer;
- every pending quit or exit, except `quitAndInstall`'s.

Without it, `CloseServices` or `Exit` could map to a step whose abstract
guard `asked` is false. The lemma `AskOrStutter` states once that a step
that leaves `app` and `backend` alone and adds at most one call is `Ask`
or a stutter.

### `MessagesSliceProofs`

`incomingMessages` is a fold (`FoldLeft`) of the loop body
`IncomingMessage` over the batch. What the fold computes for a whole batch
needs induction over the batch. That is out of the provers' reach here.
The equation that unfolds `FoldLeft` (over `MapThenFoldSet`) comes from
the library's recursion theorems, and `NatInduction` also takes an
operator parameter. The installed provers cannot instantiate either. So
`TypeOK` and `StoredMessagesKept` of this module stay with TLC, and the
proofs cover every other piece of the step. They hold for every set of
channels, ids and paths (assumptions `MessagesSliceAssumption`: the media
sentinels are distinct and not paths; `NoneAssumption`: `None` is not an
entity):
- `IncomingMessageTyped` (lemma): one iteration keeps the accumulator
  typed. The merged media is never `Absent`.
- `IncomingMessageKeepsStored`: one iteration never drops a stored message
  and never loses a downloaded path. A message received again without
  media keeps the stored media (the shallow merge of `upsertOne`). One
  received with media but no path keeps the draft's path.
- `OtherReducersKeepStored`: `addOne` of a base, `updateOne` of the
  display count, and the sending statuses leave every stored message as it
  is.

With the fold and the throw that discards a batch, these give
`StoredMessagesKept`: a throw keeps `base`, and the fold applies only
iterations that keep it. That last combination is the induction left to
TLC.

Each inductive invariant was checked with TLC, as an invariant, before it
was proved. This includes `AskedInv` and `CreateReplyFull`. The `DesktopMain` one was checked under all four values of
`SplashClosable` and `UpdateOffered`, with `Restartable` true.

### Checked only by TLC

- Every liveness property (`LeftoverTorsReaped`, `CloseLeadsToQuit`, and
  the violated `KillSettles`). TLAPS does not handle liveness or ENABLED
  here.
- `MessagesSlice`'s `TypeOK` and `StoredMessagesKept` for a whole batch
  (induction over the fold, see above).
- All the violations.

## 6. Not modelled

- **Supervisor and hidden services, not composed.** No property relates
  the services cache to a live daemon. A daemon crash after bootstrap
  (`torManager.ts:210`) leaves the cache naming dead services, and that is
  only argued, not checked.
- **Supervisor failures outside the protocol.** Two failures are not
  modelled:
  - `removeFilesFromDir` throwing in the `catch` of `tryToSpawnTor`
    (`torManager.ts:107`). It has no `try`, so the retry would stop and
    `init` would never settle. The data directory's contents are not
    state in the model.
  - `spawn` failing on a missing tor binary (`torManager.ts:187`). The
    child has no `'error'` listener, so the exception would be uncaught.
  Both are listed as hazards in `PROJECT.json`.
- **Messages store.** Only the reducers above are modelled. Selectors,
  sagas, message verification and `publicKeyMapping` are not, and neither
  are the other slices and the renderer components.
- **Desktop main.** Zoom shortcuts, `open-url`, `writeTempFile`, the menu,
  dev tools and the updater's download events are pure I/O or layout. They
  change no state that the shutdown protocol reads.
- **Other parts.** These are not modelled:
  - the integration-test harness (test code);
  - `mobile/startTor.saga.ts` (a native bridge);
  - the formatting helpers in `utils.ts` and `waggle/libp2p/utils.ts`;
  - `generateHashedPassword` beyond its failure, because it runs the tor
    binary synchronously.
