----------------------------- MODULE DesktopMain -----------------------------
(***************************************************************************)
(* The Electron main process of the desktop app (packages/desktop/src/    *)
(* main/main.ts): the main window and the splash window, the forked        *)
(* backend process, and the shutdown protocol between them.                *)
(*                                                                         *)
(* Closing works by handshakes.  The first 'close' of the main window is   *)
(* prevented and asks the renderer to save its state ('force-save-state'); *)
(* the renderer answers 'state-saved', and main closes the window again.   *)
(* When no window is left, closeBackendProcess asks the backend to close   *)
(* its services, arms a 2 s force-kill timer, and quits the app when the   *)
(* backend answers 'closed-services' or when the timer fires.  app.quit()  *)
(* closes every window; a window whose 'close' is prevented cancels the    *)
(* quit (Electron's app.quit semantics).                                   *)
(*                                                                         *)
(* Each action is one macrotask of the main process's event loop.  The     *)
(* renderer, the backend (backendManager.js, not among the sources) and   *)
(* the user are the environment: the renderer answers each                 *)
(* 'force-save-state' it receives after its page has loaded, the backend   *)
(* answers each 'close' and may exit or crash, the user may close a        *)
(* visible window.                                                         *)
(***************************************************************************)
EXTENDS Naturals

CONSTANTS
    SplashClosable,  \* the user may close the splash window
    UpdateOffered,   \* the renderer may send 'proceed-update'
    Restartable,     \* the renderer may send 'restartApp'
    MaxWindows       \* bound on the windows 'activate' re-creates

ASSUME DesktopMainAssumption ==
    /\ SplashClosable \in BOOLEAN /\ UpdateOffered \in BOOLEAN
    /\ Restartable \in BOOLEAN /\ MaxWindows \in Nat

VARIABLES
    app,          \* "starting" before 'ready', "running", "quit" once the app has exited
    quitting,     \* an app.quit() (or quitAndInstall) is pending
    mainWindow,   \* the variable mainWindow: "undefined", "null" or "open"
    main,         \* the open main window: shown, loaded, its once-'close' guard,
                  \* and whether the 'ready' handler's listeners are attached to it
    splash,       \* "none", "open" or "destroyed"
    splashGuard,  \* the splash window's once-'close' listener is attached
    saves,        \* 'force-save-state' messages the renderer has yet to handle
    savedMsgs,    \* 'state-saved' messages on their way to main
    backend,      \* backendProcess: "none", "running", "closed" (services closed), "exited"
    inbox,        \* 'close' messages on their way to the backend
    acks,         \* 'closed-services' messages on their way to main
    timers,       \* armed forceClose timers
    closes,       \* calls of closeBackendProcess so far
    windows,      \* main windows created so far
    errors,       \* an exception has escaped a handler of the main process
    history       \* what has happened: "saved", "closeClicked", "installing"

vars == <<app, quitting, mainWindow, main, splash, splashGuard, saves, savedMsgs,
          backend, inbox, acks, timers, closes, windows, errors, history>>

backendVars == <<backend, acks>>

MainStates == [shown : BOOLEAN, loaded : BOOLEAN, guard : BOOLEAN, listeners : BOOLEAN]

MainOpen == mainWindow = "open"

\* mainWindow.webContents.send: throws when mainWindow is null; a message
\* sent before the page has loaded reaches no listener.
Delivered == MainOpen /\ main.loaded

-----------------------------------------------------------------------------
(***************************************************************************)
(* closeBackendProcess, as part of the handler that calls it (call = TRUE).*)
(* With a backend: arm forceClose, send 'close' (which emits 'error', and  *)
(* the 'error' listener throws, when the backend has exited), register a   *)
(* 'message' listener.  Without one: app.quit().                           *)
(***************************************************************************)
\* Mutant of CloseBackendProcess: no forceClose timer.
CloseBackendProcessNoForce(call) ==
    /\ timers' = timers
    /\ closes' = IF call THEN closes + 1 ELSE closes
    /\ inbox' = IF call /\ backend \in {"running", "closed"} THEN inbox + 1 ELSE inbox

CloseBackendProcess(call) ==
    /\ timers' = IF call /\ backend /= "none" THEN timers + 1 ELSE timers
    /\ closes' = IF call THEN closes + 1 ELSE closes
    /\ inbox' = IF call /\ backend \in {"running", "closed"} THEN inbox + 1 ELSE inbox

CloseBackendThrows(call) == call /\ backend = "exited"

\* Mutant of CloseBackendQuits: the null check inverted.
CloseBackendQuitsInverted(call) == call /\ backend /= "none"

CloseBackendQuits(call) == call /\ backend = "none"

\* A window closes and leaves none open: 'window-all-closed' calls
\* closeBackendProcess.
AllClosed(mainAfter, splashAfter) == mainAfter /= "open" /\ splashAfter /= "open"

-----------------------------------------------------------------------------
(***************************************************************************)
(* The 'ready' handler and createWindow.                                   *)
(***************************************************************************)

\* createWindow: a hidden main window with no listeners but 'closed'
\* (which sets mainWindow to null), and a shown splash window.
NewWindow == [shown |-> FALSE, loaded |-> FALSE, guard |-> FALSE, listeners |-> FALSE]

\* app.on('ready'): createWindow (hidden main window, splash shown), the
\* window and ipc listeners, and fork of the backend.  getPorts and
\* applyDevTools are awaited before any window exists, so no other handler
\* of this model can run in between.
AppReady ==
    /\ app = "starting"
    /\ app' = "running"
    /\ mainWindow' = "open"
    /\ main' = [NewWindow EXCEPT !.guard = TRUE, !.listeners = TRUE]
    /\ splash' = "open"
    /\ splashGuard' = TRUE
    /\ backend' = "running"
    /\ windows' = 1
    /\ UNCHANGED <<quitting, saves, savedMsgs, inbox, acks, timers, closes, errors, history>>

\* app.on('activate') with mainWindow === null: createWindow again.  The
\* listeners of the 'ready' handler stay on the first window.
Activate ==
    /\ app = "running"
    /\ mainWindow = "null"
    /\ windows < MaxWindows
    /\ mainWindow' = "open"
    /\ main' = NewWindow
    /\ splash' = "open"
    /\ splashGuard' = FALSE
    /\ windows' = windows + 1
    /\ UNCHANGED <<app, quitting, saves, savedMsgs, backendVars, inbox, timers, closes,
                   errors, history>>

\* The main window's page has loaded.  Its 'did-finish-load' listener
\* reads the splash window's size and position (throwing when the splash
\* is destroyed), destroys the splash and shows the main window.
MainDidFinishLoad ==
    /\ app = "running"
    /\ MainOpen /\ ~main.loaded
    /\ IF main.listeners /\ splash = "open"
       THEN /\ main' = [main EXCEPT !.loaded = TRUE, !.shown = TRUE]
            /\ splash' = "destroyed"
            /\ UNCHANGED errors
       ELSE /\ main' = [main EXCEPT !.loaded = TRUE]
            /\ errors' = (errors \/ main.listeners)
            /\ UNCHANGED splash
    /\ history' = IF main.listeners THEN history \cup {"loaded"} ELSE history
    /\ UNCHANGED <<app, quitting, mainWindow, splashGuard, saves, savedMsgs, backendVars,
                   inbox, timers, closes, windows>>

-----------------------------------------------------------------------------
(***************************************************************************)
(* Closing windows.                                                        *)
(***************************************************************************)

\* mainWindow's 'close' (a click on the visible window, or
\* mainWindow.close() on 'state-saved'): the once-listener prevents the
\* first close and sends 'force-save-state'; a later close closes the
\* window, 'closed' sets mainWindow to null, and with no window left
\* 'window-all-closed' calls closeBackendProcess.
CloseMain ==
    IF main.guard
    THEN /\ main' = [main EXCEPT !.guard = FALSE]
         /\ saves' = IF main.loaded THEN saves + 1 ELSE saves
         /\ CloseBackendProcess(FALSE)
         /\ UNCHANGED <<mainWindow, errors, quitting>>
    ELSE /\ mainWindow' = "null"
         /\ saves' = 0
         /\ CloseBackendProcess(AllClosed("null", splash))
         /\ errors' = (errors \/ CloseBackendThrows(AllClosed("null", splash)))
         /\ quitting' = (quitting \/ CloseBackendQuits(AllClosed("null", splash)))
         /\ UNCHANGED main

UserClosesMain ==
    /\ app = "running"
    /\ MainOpen /\ main.shown
    /\ CloseMain
    /\ history' = history \cup {"closeClicked"}
    /\ UNCHANGED <<app, splash, splashGuard, savedMsgs, backendVars, windows>>

\* The splash window's 'close': the once-listener prevents it, sends
\* 'force-save-state' to the main window and calls closeBackendProcess.
UserClosesSplash ==
    /\ SplashClosable
    /\ app = "running"
    /\ splash = "open"
    /\ IF splashGuard
       THEN /\ splashGuard' = FALSE
            /\ saves' = IF Delivered THEN saves + 1 ELSE saves
            /\ CloseBackendProcess(MainOpen)
            /\ errors' = (errors \/ ~MainOpen \/ CloseBackendThrows(MainOpen))
            /\ quitting' = (quitting \/ CloseBackendQuits(MainOpen))
            /\ UNCHANGED splash
       ELSE /\ splash' = "destroyed"
            /\ CloseBackendProcess(AllClosed(mainWindow, "destroyed"))
            /\ errors' = (errors \/ CloseBackendThrows(AllClosed(mainWindow, "destroyed")))
            /\ quitting' = (quitting \/ CloseBackendQuits(AllClosed(mainWindow, "destroyed")))
            /\ UNCHANGED <<splashGuard, saves>>
    /\ history' = history \cup {"closeClicked"}
    /\ UNCHANGED <<app, mainWindow, main, savedMsgs, backendVars, windows>>

\* ipcMain 'state-saved': mainWindow.close(), which throws when mainWindow
\* is null.
StateSaved ==
    /\ app = "running"
    /\ savedMsgs > 0
    /\ savedMsgs' = savedMsgs - 1
    /\ IF MainOpen
       THEN CloseMain
       ELSE /\ errors' = TRUE
            /\ CloseBackendProcess(FALSE)
            /\ UNCHANGED <<mainWindow, main, saves, quitting>>
    /\ UNCHANGED <<app, splash, splashGuard, backendVars, windows, history>>

\* The renderer handles a 'force-save-state': it saves the state and sends
\* 'state-saved'.
RendererSaves ==
    /\ app = "running"
    /\ MainOpen /\ saves > 0
    /\ saves' = saves - 1
    /\ savedMsgs' = savedMsgs + 1
    /\ history' = history \cup {"saved"}
    /\ UNCHANGED <<app, quitting, mainWindow, main, splash, splashGuard, backendVars,
                   inbox, timers, closes, windows, errors>>

-----------------------------------------------------------------------------
(***************************************************************************)
(* Quitting.                                                               *)
(***************************************************************************)

\* The 'message' listeners of closeBackendProcess receive
\* 'closed-services': each clears its forceClose timer and calls
\* app.quit().
ClosedServices ==
    /\ app = "running"
    /\ acks > 0
    /\ acks' = acks - 1
    /\ timers' = 0
    /\ quitting' = TRUE
    /\ UNCHANGED <<app, mainWindow, main, splash, splashGuard, saves, savedMsgs, backend,
                   inbox, closes, windows, errors, history>>

\* Mutant of ForceClose: a timer that clearTimeout did not cancel.
ForceCloseUncleared ==
    /\ app = "running"
    /\ timers' = timers - 1
    /\ backend' = IF backend = "none" THEN "none" ELSE "exited"
    /\ inbox' = 0
    /\ quitting' = TRUE
    /\ UNCHANGED <<app, mainWindow, main, splash, splashGuard, saves, savedMsgs, acks,
                   closes, windows, errors, history>>

\* Mutant of ForceClose: app.quit() without backendProcess.kill().
ForceCloseNoKill ==
    /\ app = "running"
    /\ timers > 0
    /\ timers' = timers - 1
    /\ quitting' = TRUE
    /\ UNCHANGED <<app, mainWindow, main, splash, splashGuard, saves, savedMsgs, backend,
                   inbox, acks, closes, windows, errors, history>>

\* forceClose fires after 2 s: backendProcess.kill() (SIGTERM; the exit
\* code is null, so the 'exit' listener does not throw) and app.quit().
ForceClose ==
    /\ app = "running"
    /\ timers > 0
    /\ timers' = timers - 1
    /\ backend' = IF backend = "none" THEN "none" ELSE "exited"
    /\ inbox' = 0
    /\ quitting' = TRUE
    /\ UNCHANGED <<app, mainWindow, main, splash, splashGuard, saves, savedMsgs, acks,
                   closes, windows, errors, history>>

\* app.quit() runs: every open window gets 'close'.  A guarded window runs
\* its once-listener (the splash's calls closeBackendProcess) and stays
\* open, which cancels the quit; the other windows close.  With no window
\* left open the app exits, without 'window-all-closed'.
QuitProceeds ==
    /\ app = "running"
    /\ quitting
    /\ quitting' = FALSE
    /\ LET mg == MainOpen /\ main.guard
           sg == splash = "open" /\ splashGuard
           splashCalls == sg /\ MainOpen
       IN /\ app' = IF mg \/ sg THEN "running" ELSE "quit"
          /\ mainWindow' = IF MainOpen /\ ~mg THEN "null" ELSE mainWindow
          /\ main' = IF mg THEN [main EXCEPT !.guard = FALSE] ELSE main
          /\ splash' = IF splash = "open" /\ ~sg THEN "destroyed" ELSE splash
          /\ splashGuard' = (splashGuard /\ ~sg)
          /\ saves' = IF MainOpen /\ ~mg THEN 0
                      ELSE saves + (IF mg /\ Delivered THEN 1 ELSE 0)
                                 + (IF splashCalls /\ Delivered THEN 1 ELSE 0)
          /\ CloseBackendProcess(splashCalls)
          /\ errors' = (errors \/ (sg /\ ~MainOpen) \/ CloseBackendThrows(splashCalls))
    /\ UNCHANGED <<savedMsgs, backendVars, windows, history>>

\* ipcMain 'restartApp', sent once by the renderer: app.relaunch() and
\* closeBackendProcess.
RestartApp ==
    /\ Restartable
    /\ app = "running"
    /\ Delivered /\ "relaunch" \notin history
    /\ history' = history \cup {"relaunch"}
    /\ CloseBackendProcess(TRUE)
    /\ errors' = (errors \/ CloseBackendThrows(TRUE))
    /\ quitting' = (quitting \/ CloseBackendQuits(TRUE))
    /\ UNCHANGED <<app, mainWindow, main, splash, splashGuard, saves, savedMsgs,
                   backendVars, windows>>

\* ipcMain 'proceed-update', sent when the user accepts a downloaded update:
\* autoUpdater.quitAndInstall() quits the app to run the installer.
ProceedUpdate ==
    /\ UpdateOffered
    /\ app = "running"
    /\ MainOpen /\ main.shown /\ "installing" \notin history
    /\ quitting' = TRUE
    /\ history' = history \cup {"installing"}
    /\ UNCHANGED <<app, mainWindow, main, splash, splashGuard, saves, savedMsgs,
                   backendVars, inbox, timers, closes, windows, errors>>

-----------------------------------------------------------------------------
(***************************************************************************)
(* The backend process (environment).                                      *)
(***************************************************************************)

\* The backend handles 'close': it closes its services and answers
\* 'closed-services'.
BackendClosesServices ==
    /\ inbox > 0
    /\ backend \in {"running", "closed"}
    /\ inbox' = inbox - 1
    /\ backend' = "closed"
    /\ acks' = acks + 1
    /\ UNCHANGED <<app, quitting, mainWindow, main, splash, splashGuard, saves, savedMsgs,
                   timers, closes, windows, errors, history>>

\* The backend exits: cleanly after closing its services, or with code 1
\* while running, which the 'exit' listener turns into a throw.
BackendExits ==
    /\ app = "running"
    /\ backend \in {"running", "closed"}
    /\ backend' = "exited"
    /\ inbox' = 0
    /\ errors' = (errors \/ backend = "running")
    /\ UNCHANGED <<app, quitting, mainWindow, main, splash, splashGuard, saves, savedMsgs,
                   acks, timers, closes, windows, history>>

-----------------------------------------------------------------------------

Init ==
    /\ app = "starting"
    /\ quitting = FALSE
    /\ mainWindow = "undefined"
    /\ main = [shown |-> FALSE, loaded |-> FALSE, guard |-> FALSE, listeners |-> FALSE]
    /\ splash = "none"
    /\ splashGuard = FALSE
    /\ saves = 0
    /\ savedMsgs = 0
    /\ backend = "none"
    /\ inbox = 0
    /\ acks = 0
    /\ timers = 0
    /\ closes = 0
    /\ windows = 0
    /\ errors = FALSE
    /\ history = {}

Next ==
    \/ AppReady \/ Activate \/ MainDidFinishLoad
    \/ UserClosesMain \/ UserClosesSplash \/ StateSaved \/ RendererSaves
    \/ ClosedServices \/ ForceClose \/ QuitProceeds
    \/ RestartApp \/ ProceedUpdate
    \/ BackendClosesServices \/ BackendExits

Spec == Init /\ [][Next]_vars

\* The main process's own steps are taken when enabled (its event loop
\* runs them, forceClose is a timer), the page finishes loading, the
\* renderer answers 'force-save-state' and the backend answers 'close'.
\* The user, the backend's exits and the updater are not forced.
Fairness ==
    /\ WF_vars(MainDidFinishLoad) /\ WF_vars(StateSaved) /\ WF_vars(RendererSaves)
    /\ WF_vars(ClosedServices) /\ WF_vars(ForceClose) /\ WF_vars(QuitProceeds)
    /\ WF_vars(BackendClosesServices)

LiveSpec == Spec /\ Fairness

-----------------------------------------------------------------------------
(***************************************************************************)
(* Properties.                                                             *)
(***************************************************************************)

\* Type invariant.
TypeOK ==
    /\ app \in {"starting", "running", "quit"}
    /\ quitting \in BOOLEAN
    /\ mainWindow \in {"undefined", "null", "open"}
    /\ main \in MainStates
    /\ splash \in {"none", "open", "destroyed"} /\ splashGuard \in BOOLEAN
    /\ {saves, savedMsgs, inbox, acks, timers, closes, windows} \subseteq Nat
    /\ backend \in {"none", "running", "closed", "exited"}
    /\ errors \in BOOLEAN
    /\ history \subseteq {"saved", "closeClicked", "installing", "loaded", "relaunch"}

\* The app exits only once the backend has closed its services or has been
\* killed: closeBackendProcess exists so that no backend outlives the app.
BackendStoppedOnQuit == app = "quit" => backend \in {"closed", "exited"}

\* The app exits only after the renderer has saved its state, when the
\* renderer has loaded at all: the once-'close' listener of the main
\* window asks for the save before the window may close.
StateSavedOnQuit == app = "quit" /\ "loaded" \in history => "saved" \in history

\* What the main process promises about its lifecycle, stated by
\* ShutdownAbstract: one backend, forked on 'ready'; its services closed
\* only after closeBackendProcess asked; never running again once stopped;
\* and the app exits only after closeBackendProcess was called and the
\* backend stopped, unless quitAndInstall quit it.
Shutdown == INSTANCE ShutdownAbstract
                WITH asked <- closes > 0, installing <- "installing" \in history

ShutdownSpec == Shutdown!Spec

\* Once the user has closed a window, the app eventually exits.
CloseLeadsToQuit == "closeClicked" \in history ~> app = "quit"

=============================================================================
