-------------------------- MODULE DesktopMainProofs --------------------------
(***************************************************************************)
(* Proofs about DesktopMain for every value of its constants: the type     *)
(* invariant, and that the app exits only once the backend has closed its *)
(* services or been killed, unless it quit to install an update.           *)
(***************************************************************************)
EXTENDS DesktopMain, TLAPS

(***************************************************************************)
(* BackendStoppedOnQuit is not inductive: app.quit() runs QuitProceeds     *)
(* some time after the handler that asked for it, so the invariant must   *)
(* say what holds while a quit is pending.  Every handler that asks for a *)
(* quit has stopped the backend first: the 'message' listener after       *)
(* 'closed-services', forceClose after kill(); closeBackendProcess calls  *)
(* app.quit() directly only without a backend, which never happens once   *)
(* 'ready' has forked it.  Only quitAndInstall quits with the backend     *)
(* running.                                                                *)
(***************************************************************************)

\* Nothing happens before 'ready'; the 'ready' handler forks the backend,
\* and backendProcess is never reset.
BackendForked ==
    /\ app = "starting" => history = {} /\ backend = "none"
    /\ app /= "starting" => backend /= "none"

\* A pending quit, an answer 'closed-services' and the exit of the app
\* all find the backend stopped, unless quitAndInstall ran.
QuitInv ==
    "installing" \notin history =>
        (quitting \/ acks > 0 \/ app = "quit" => backend \in {"closed", "exited"})

\* 'proceed-update' is sent only when an update is offered.
InstallInv == "installing" \in history => UpdateOffered = TRUE

IInv == TypeOK /\ BackendForked /\ QuitInv /\ InstallInv

(***************************************************************************)
(* The refinement of ShutdownAbstract also needs to know that the backend *)
(* is asked to close, and the app asked to quit, only through             *)
(* closeBackendProcess: every 'close' in flight, 'closed-services' answer *)
(* and armed forceClose timer comes from a call of it, and so does every  *)
(* pending quit but quitAndInstall's.                                      *)
(***************************************************************************)
AskedInv ==
    /\ inbox > 0 \/ acks > 0 \/ timers > 0 => closes > 0
    /\ "installing" \notin history /\ (quitting \/ app = "quit") => closes > 0

USE DesktopMainAssumption

\* The window records createWindow builds and the listeners update.
LEMMA MainStatesClosed ==
    ASSUME NEW m \in MainStates, NEW b \in BOOLEAN
    PROVE  /\ NewWindow \in MainStates
           /\ [NewWindow EXCEPT !.guard = TRUE, !.listeners = TRUE] \in MainStates
           /\ [m EXCEPT !.guard = b] \in MainStates
           /\ [m EXCEPT !.loaded = TRUE] \in MainStates
           /\ [m EXCEPT !.loaded = TRUE, !.shown = TRUE] \in MainStates
BY DEF MainStates, NewWindow

\* The initial state: nothing forked, no quit pending.
LEMMA InitIInv == Init => IInv
<1> SUFFICES ASSUME Init PROVE IInv
  OBVIOUS
<1>1. TypeOK
  <2>1. main \in MainStates
    BY DEF Init, MainStates
  <2>2. {saves, savedMsgs, inbox, acks, timers, closes, windows} \subseteq Nat
    BY DEF Init
  <2>3. history \subseteq {"saved", "closeClicked", "installing", "loaded", "relaunch"}
    BY DEF Init
  <2>4. QED
    <3>1. app \in {"starting", "running", "quit"} /\ quitting \in BOOLEAN
      BY DEF Init
    <3>2. mainWindow \in {"undefined", "null", "open"} /\ splash \in {"none", "open", "destroyed"}
      BY DEF Init
    <3>3. splashGuard \in BOOLEAN /\ errors \in BOOLEAN /\ backend \in {"none", "running", "closed", "exited"}
      BY DEF Init
    <3>4. QED
      BY <2>1, <2>2, <2>3, <3>1, <3>2, <3>3 DEF TypeOK
<1>2. BackendForked /\ QuitInv /\ InstallInv
  BY DEF Init, BackendForked, QuitInv, InstallInv
<1>3. QED
  BY <1>1, <1>2 DEF IInv

\* Every action keeps the invariant: one step per action, and under it
\* the window record, the counters, the types, and the conjuncts about
\* quitting.
LEMMA NextIInv == IInv /\ [Next]_vars => IInv'
<1> SUFFICES ASSUME IInv, [Next]_vars PROVE IInv'
  OBVIOUS
<1>0. TypeOK /\ BackendForked /\ QuitInv /\ InstallInv
  BY DEF IInv
<1>00. /\ saves \in Nat /\ savedMsgs \in Nat /\ inbox \in Nat /\ acks \in Nat
       /\ timers \in Nat /\ closes \in Nat /\ windows \in Nat
  BY <1>0 DEF TypeOK
<1>1. CASE AppReady
  <2>1. main' \in MainStates
    BY <1>0, <1>1, MainStatesClosed DEF AppReady, TypeOK
  <2>2. /\ {inbox', timers', closes'} \subseteq Nat
        /\ saves' \in Nat /\ savedMsgs' \in Nat /\ acks' \in Nat /\ windows' \in Nat
    BY <1>00, <1>1 DEF AppReady, TypeOK, CloseBackendProcess
  <2>3. TypeOK'
    BY <1>0, <1>1, <2>1, <2>2 DEF AppReady, TypeOK
  <2>4. BackendForked' /\ QuitInv' /\ InstallInv'
    BY <1>0, <1>1 DEF AppReady, BackendForked, QuitInv, InstallInv
  <2>5. QED
    BY <2>3, <2>4 DEF IInv
<1>2. CASE Activate
  <2>1. main' \in MainStates
    BY <1>0, <1>2, MainStatesClosed DEF Activate, TypeOK, backendVars
  <2>2. /\ {inbox', timers', closes'} \subseteq Nat
        /\ saves' \in Nat /\ savedMsgs' \in Nat /\ acks' \in Nat /\ windows' \in Nat
    BY <1>00, <1>2 DEF Activate, TypeOK, CloseBackendProcess, backendVars
  <2>3. TypeOK'
    BY <1>0, <1>2, <2>1, <2>2 DEF Activate, TypeOK, backendVars
  <2>4. BackendForked' /\ QuitInv' /\ InstallInv'
    BY <1>0, <1>2 DEF Activate, BackendForked, QuitInv, InstallInv, backendVars
  <2>5. QED
    BY <2>3, <2>4 DEF IInv
<1>3. CASE MainDidFinishLoad
  <2>1. main' \in MainStates
    BY <1>0, <1>3, MainStatesClosed DEF MainDidFinishLoad, TypeOK, backendVars
  <2>2. /\ {inbox', timers', closes'} \subseteq Nat
        /\ saves' \in Nat /\ savedMsgs' \in Nat /\ acks' \in Nat /\ windows' \in Nat
    BY <1>00, <1>3 DEF MainDidFinishLoad, TypeOK, CloseBackendProcess, backendVars
  <2>3. TypeOK'
    BY <1>0, <1>3, <2>1, <2>2 DEF MainDidFinishLoad, TypeOK, backendVars
  <2>4. BackendForked' /\ QuitInv' /\ InstallInv'
    BY <1>0, <1>3 DEF MainDidFinishLoad, BackendForked, QuitInv, InstallInv, backendVars
  <2>5. QED
    BY <2>3, <2>4 DEF IInv
<1>4. CASE UserClosesMain
  <2>1. main' \in MainStates
    BY <1>0, <1>4, MainStatesClosed DEF UserClosesMain, TypeOK, CloseMain, AllClosed, CloseBackendThrows, CloseBackendQuits, MainOpen, backendVars
  <2>2. /\ {inbox', timers', closes'} \subseteq Nat
        /\ saves' \in Nat /\ savedMsgs' \in Nat /\ acks' \in Nat /\ windows' \in Nat
    BY <1>00, <1>4 DEF UserClosesMain, TypeOK, CloseBackendProcess, CloseMain, AllClosed, CloseBackendThrows, CloseBackendQuits, MainOpen, backendVars
  <2>3. TypeOK'
    BY <1>0, <1>4, <2>1, <2>2 DEF UserClosesMain, TypeOK, CloseMain, AllClosed, CloseBackendThrows, CloseBackendQuits, MainOpen, backendVars
  <2>4. BackendForked' /\ QuitInv' /\ InstallInv'
    BY <1>0, <1>4 DEF UserClosesMain, BackendForked, QuitInv, InstallInv, CloseMain, AllClosed, CloseBackendThrows, CloseBackendQuits, MainOpen, backendVars
  <2>5. QED
    BY <2>3, <2>4 DEF IInv
<1>5. CASE UserClosesSplash
  <2>1. main' \in MainStates
    BY <1>0, <1>5, MainStatesClosed DEF UserClosesSplash, TypeOK, AllClosed, CloseBackendThrows, CloseBackendQuits, MainOpen, Delivered, backendVars
  <2>2. /\ {inbox', timers', closes'} \subseteq Nat
        /\ saves' \in Nat /\ savedMsgs' \in Nat /\ acks' \in Nat /\ windows' \in Nat
    BY <1>00, <1>5 DEF UserClosesSplash, TypeOK, CloseBackendProcess, AllClosed, CloseBackendThrows, CloseBackendQuits, MainOpen, Delivered, backendVars
  <2>3. TypeOK'
    BY <1>0, <1>5, <2>1, <2>2 DEF UserClosesSplash, TypeOK, AllClosed, CloseBackendThrows, CloseBackendQuits, MainOpen, Delivered, backendVars
  <2>4. BackendForked' /\ QuitInv' /\ InstallInv'
    BY <1>0, <1>5 DEF UserClosesSplash, BackendForked, QuitInv, InstallInv, AllClosed, CloseBackendThrows, CloseBackendQuits, MainOpen, Delivered, backendVars
  <2>5. QED
    BY <2>3, <2>4 DEF IInv
<1>6. CASE StateSaved
  <2>1. main' \in MainStates
    BY <1>0, <1>6, MainStatesClosed DEF StateSaved, TypeOK, CloseMain, AllClosed, CloseBackendThrows, CloseBackendQuits, MainOpen, backendVars
  <2>2. /\ {inbox', timers', closes'} \subseteq Nat
        /\ saves' \in Nat /\ savedMsgs' \in Nat /\ acks' \in Nat /\ windows' \in Nat
    BY <1>00, <1>6 DEF StateSaved, TypeOK, CloseBackendProcess, CloseMain, AllClosed, CloseBackendThrows, CloseBackendQuits, MainOpen, backendVars
  <2>3. TypeOK'
    BY <1>0, <1>6, <2>1, <2>2 DEF StateSaved, TypeOK, CloseMain, AllClosed, CloseBackendThrows, CloseBackendQuits, MainOpen, backendVars
  <2>4. BackendForked' /\ QuitInv' /\ InstallInv'
    BY <1>0, <1>6 DEF StateSaved, BackendForked, QuitInv, InstallInv, CloseMain, AllClosed, CloseBackendThrows, CloseBackendQuits, MainOpen, backendVars
  <2>5. QED
    BY <2>3, <2>4 DEF IInv
<1>7. CASE RendererSaves
  <2>1. main' \in MainStates
    BY <1>0, <1>7, MainStatesClosed DEF RendererSaves, TypeOK, MainOpen, backendVars
  <2>2. /\ {inbox', timers', closes'} \subseteq Nat
        /\ saves' \in Nat /\ savedMsgs' \in Nat /\ acks' \in Nat /\ windows' \in Nat
    BY <1>00, <1>7 DEF RendererSaves, TypeOK, CloseBackendProcess, MainOpen, backendVars
  <2>3. TypeOK'
    BY <1>0, <1>7, <2>1, <2>2 DEF RendererSaves, TypeOK, MainOpen, backendVars
  <2>4. BackendForked' /\ QuitInv' /\ InstallInv'
    BY <1>0, <1>7 DEF RendererSaves, BackendForked, QuitInv, InstallInv, MainOpen, backendVars
  <2>5. QED
    BY <2>3, <2>4 DEF IInv
<1>8. CASE ClosedServices
  <2>1. main' \in MainStates
    BY <1>0, <1>8, MainStatesClosed DEF ClosedServices, TypeOK
  <2>2. /\ {inbox', timers', closes'} \subseteq Nat
        /\ saves' \in Nat /\ savedMsgs' \in Nat /\ acks' \in Nat /\ windows' \in Nat
    BY <1>00, <1>8 DEF ClosedServices, TypeOK, CloseBackendProcess
  <2>3. TypeOK'
    BY <1>0, <1>8, <2>1, <2>2 DEF ClosedServices, TypeOK
  <2>4. BackendForked' /\ QuitInv' /\ InstallInv'
    BY <1>0, <1>8 DEF ClosedServices, BackendForked, QuitInv, InstallInv
  <2>5. QED
    BY <2>3, <2>4 DEF IInv
<1>9. CASE ForceClose
  <2>1. main' \in MainStates
    BY <1>0, <1>9, MainStatesClosed DEF ForceClose, TypeOK
  <2>2. /\ {inbox', timers', closes'} \subseteq Nat
        /\ saves' \in Nat /\ savedMsgs' \in Nat /\ acks' \in Nat /\ windows' \in Nat
    BY <1>00, <1>9 DEF ForceClose, TypeOK, CloseBackendProcess
  <2>3. TypeOK'
    BY <1>0, <1>9, <2>1, <2>2 DEF ForceClose, TypeOK
  <2>4. BackendForked' /\ QuitInv' /\ InstallInv'
    BY <1>0, <1>9 DEF ForceClose, BackendForked, QuitInv, InstallInv
  <2>5. QED
    BY <2>3, <2>4 DEF IInv
<1>10. CASE QuitProceeds
  <2>1. main' \in MainStates
    BY <1>0, <1>10, MainStatesClosed DEF QuitProceeds, TypeOK, CloseBackendThrows, MainOpen, Delivered, backendVars
  <2>2. /\ {inbox', timers', closes'} \subseteq Nat
        /\ saves' \in Nat /\ savedMsgs' \in Nat /\ acks' \in Nat /\ windows' \in Nat
    BY <1>00, <1>10 DEF QuitProceeds, TypeOK, CloseBackendProcess, CloseBackendThrows, MainOpen, Delivered, backendVars
  <2>3. TypeOK'
    BY <1>0, <1>10, <2>1, <2>2 DEF QuitProceeds, TypeOK, CloseBackendThrows, MainOpen, Delivered, backendVars
  <2>4. BackendForked' /\ QuitInv' /\ InstallInv'
    BY <1>0, <1>10 DEF QuitProceeds, BackendForked, QuitInv, InstallInv, CloseBackendThrows, MainOpen, Delivered, backendVars
  <2>5. QED
    BY <2>3, <2>4 DEF IInv
<1>11. CASE RestartApp
  <2>1. main' \in MainStates
    BY <1>0, <1>11, MainStatesClosed DEF RestartApp, TypeOK, CloseBackendThrows, CloseBackendQuits, Delivered, MainOpen, backendVars
  <2>2. /\ {inbox', timers', closes'} \subseteq Nat
        /\ saves' \in Nat /\ savedMsgs' \in Nat /\ acks' \in Nat /\ windows' \in Nat
    BY <1>00, <1>11 DEF RestartApp, TypeOK, CloseBackendProcess, CloseBackendThrows, CloseBackendQuits, Delivered, MainOpen, backendVars
  <2>3. TypeOK'
    BY <1>0, <1>11, <2>1, <2>2 DEF RestartApp, TypeOK, CloseBackendThrows, CloseBackendQuits, Delivered, MainOpen, backendVars
  <2>4. BackendForked' /\ QuitInv' /\ InstallInv'
    BY <1>0, <1>11 DEF RestartApp, BackendForked, QuitInv, InstallInv, CloseBackendThrows, CloseBackendQuits, Delivered, MainOpen, backendVars
  <2>5. QED
    BY <2>3, <2>4 DEF IInv
<1>12. CASE ProceedUpdate
  <2>1. main' \in MainStates
    BY <1>0, <1>12, MainStatesClosed DEF ProceedUpdate, TypeOK, MainOpen, backendVars
  <2>2. /\ {inbox', timers', closes'} \subseteq Nat
        /\ saves' \in Nat /\ savedMsgs' \in Nat /\ acks' \in Nat /\ windows' \in Nat
    BY <1>00, <1>12 DEF ProceedUpdate, TypeOK, CloseBackendProcess, MainOpen, backendVars
  <2>3. TypeOK'
    BY <1>0, <1>12, <2>1, <2>2 DEF ProceedUpdate, TypeOK, MainOpen, backendVars
  <2>4. BackendForked' /\ QuitInv' /\ InstallInv'
    BY <1>0, <1>12 DEF ProceedUpdate, BackendForked, QuitInv, InstallInv, MainOpen, backendVars
  <2>5. QED
    BY <2>3, <2>4 DEF IInv
<1>13. CASE BackendClosesServices
  <2>1. main' \in MainStates
    BY <1>0, <1>13, MainStatesClosed DEF BackendClosesServices, TypeOK
  <2>2. /\ {inbox', timers', closes'} \subseteq Nat
        /\ saves' \in Nat /\ savedMsgs' \in Nat /\ acks' \in Nat /\ windows' \in Nat
    BY <1>00, <1>13 DEF BackendClosesServices, TypeOK, CloseBackendProcess
  <2>3. TypeOK'
    BY <1>0, <1>13, <2>1, <2>2 DEF BackendClosesServices, TypeOK
  <2>4. BackendForked' /\ QuitInv' /\ InstallInv'
    BY <1>0, <1>13 DEF BackendClosesServices, BackendForked, QuitInv, InstallInv
  <2>5. QED
    BY <2>3, <2>4 DEF IInv
<1>14. CASE BackendExits
  <2>1. main' \in MainStates
    BY <1>0, <1>14, MainStatesClosed DEF BackendExits, TypeOK
  <2>2. /\ {inbox', timers', closes'} \subseteq Nat
        /\ saves' \in Nat /\ savedMsgs' \in Nat /\ acks' \in Nat /\ windows' \in Nat
    BY <1>00, <1>14 DEF BackendExits, TypeOK, CloseBackendProcess
  <2>3. TypeOK'
    BY <1>0, <1>14, <2>1, <2>2 DEF BackendExits, TypeOK
  <2>4. BackendForked' /\ QuitInv' /\ InstallInv'
    BY <1>0, <1>14 DEF BackendExits, BackendForked, QuitInv, InstallInv
  <2>5. QED
    BY <2>3, <2>4 DEF IInv
<1>15. CASE UNCHANGED vars
  BY <1>0, <1>15 DEF vars, IInv, TypeOK, BackendForked, QuitInv, InstallInv
<1>16. QED
  BY <1>1, <1>2, <1>3, <1>4, <1>5, <1>6, <1>7, <1>8, <1>9, <1>10, <1>11, <1>12, <1>13, <1>14, <1>15 DEF Next

\* The invariant holds in every reachable state.
LEMMA AlwaysIInv == Spec => []IInv
BY InitIInv, NextIInv, PTL DEF Spec

\* Every reachable state of the main process is well typed, for every
\* value of the constants.
THEOREM TypeCorrect == Spec => []TypeOK
BY AlwaysIInv, PTL DEF IInv

\* For every value of the constants: the app exits only once the backend
\* has closed its services or been killed by forceClose, unless the
\* renderer's 'proceed-update' made quitAndInstall quit it.
THEOREM QuitStopsBackendUnlessInstalling ==
    Spec => [](app = "quit" /\ "installing" \notin history => backend \in {"closed", "exited"})
<1>1. IInv => (app = "quit" /\ "installing" \notin history => backend \in {"closed", "exited"})
  BY DEF IInv, QuitInv
<1>2. QED
  BY <1>1, AlwaysIInv, PTL

\* When no update is offered, closeBackendProcess has stopped the backend
\* whenever the app exits (BackendStoppedOnQuit), whether the user closes
\* the windows, the renderer restarts the app, or the backend dies.
THEOREM BackendStoppedWithoutUpdate ==
    ASSUME UpdateOffered = FALSE
    PROVE  Spec => []BackendStoppedOnQuit
<1>1. IInv => BackendStoppedOnQuit
  BY DEF IInv, QuitInv, InstallInv, BackendStoppedOnQuit
<1>2. QED
  BY <1>1, AlwaysIInv, PTL

-----------------------------------------------------------------------------
(***************************************************************************)
(* Refinement: DesktopMain implements ShutdownAbstract under the mapping   *)
(* asked <- closes > 0, installing <- "installing" \in history.            *)
(***************************************************************************)

\* No call of closeBackendProcess before 'ready': nothing is in flight.
LEMMA InitAskedInv == Init => AskedInv
BY DEF Init, AskedInv

\* Each handler keeps AskedInv: the counters of closeBackendProcess grow
\* together with closes, and closes never decreases.
LEMMA NextAskedInv == IInv /\ AskedInv /\ [Next]_vars => AskedInv'
<1> SUFFICES ASSUME IInv, AskedInv, [Next]_vars PROVE AskedInv'
  OBVIOUS
<1>0. /\ saves \in Nat /\ savedMsgs \in Nat /\ inbox \in Nat /\ acks \in Nat
      /\ timers \in Nat /\ closes \in Nat /\ windows \in Nat
  BY DEF IInv, TypeOK
<1>1. CASE AppReady
  BY <1>0, <1>1 DEF AppReady, AskedInv, IInv, BackendForked
<1>2. CASE Activate
  BY <1>0, <1>2 DEF Activate, AskedInv, backendVars
<1>3. CASE MainDidFinishLoad
  BY <1>0, <1>3 DEF MainDidFinishLoad, AskedInv, backendVars
<1>q. quitting \in BOOLEAN
  BY DEF IInv, TypeOK
<1>4. CASE UserClosesMain
  <2>1. CASE main.guard
    BY <1>0, <1>4, <2>1 DEF UserClosesMain, AskedInv, CloseMain, CloseBackendProcess,
                            backendVars
  <2>2. CASE ~main.guard
    BY <1>0, <1>q, <1>4, <2>2 DEF UserClosesMain, AskedInv, CloseMain,
                                  CloseBackendProcess, CloseBackendQuits, backendVars
  <2>3. QED
    BY <2>1, <2>2
<1>5. CASE UserClosesSplash
  <2>1. CASE splashGuard
    BY <1>0, <1>q, <1>5, <2>1 DEF UserClosesSplash, AskedInv, CloseBackendProcess,
                                  CloseBackendQuits, backendVars
  <2>2. CASE ~splashGuard
    BY <1>0, <1>q, <1>5, <2>2 DEF UserClosesSplash, AskedInv, CloseBackendProcess,
                                  CloseBackendQuits, backendVars
  <2>3. QED
    BY <2>1, <2>2
<1>6. CASE StateSaved
  <2>1. CASE MainOpen /\ main.guard
    BY <1>0, <1>6, <2>1 DEF StateSaved, AskedInv, CloseMain, CloseBackendProcess,
                            backendVars
  <2>2. CASE MainOpen /\ ~main.guard
    BY <1>0, <1>q, <1>6, <2>2 DEF StateSaved, AskedInv, CloseMain,
                                  CloseBackendProcess, CloseBackendQuits, backendVars
  <2>3. CASE ~MainOpen
    BY <1>0, <1>6, <2>3 DEF StateSaved, AskedInv, CloseBackendProcess, backendVars
  <2>4. QED
    BY <2>1, <2>2, <2>3
<1>7. CASE RendererSaves
  BY <1>0, <1>7 DEF RendererSaves, AskedInv, backendVars
<1>8. CASE ClosedServices
  BY <1>0, <1>8 DEF ClosedServices, AskedInv
<1>9. CASE ForceClose
  BY <1>0, <1>9 DEF ForceClose, AskedInv
<1>10. CASE QuitProceeds
  BY <1>0, <1>10 DEF QuitProceeds, AskedInv, CloseBackendProcess, backendVars
<1>11. CASE RestartApp
  BY <1>0, <1>11 DEF RestartApp, AskedInv, CloseBackendProcess, CloseBackendQuits,
                     backendVars
<1>12. CASE ProceedUpdate
  BY <1>0, <1>12 DEF ProceedUpdate, AskedInv, backendVars
<1>13. CASE BackendClosesServices
  BY <1>0, <1>13 DEF BackendClosesServices, AskedInv
<1>14. CASE BackendExits
  BY <1>0, <1>14 DEF BackendExits, AskedInv
<1>15. CASE UNCHANGED vars
  BY <1>15 DEF vars, AskedInv
<1>16. QED
  BY <1>1, <1>2, <1>3, <1>4, <1>5, <1>6, <1>7, <1>8, <1>9, <1>10, <1>11, <1>12,
     <1>13, <1>14, <1>15 DEF Next

\* A handler of the running app that leaves the app and the backend alone
\* and calls closeBackendProcess at most once is the abstract Ask, the
\* first time, or a stutter.
LEMMA AskOrStutter ==
    ASSUME app = "running", app' = app, backend' = backend,
           closes \in Nat, closes' \in {closes, closes + 1},
           ("installing" \in history') = ("installing" \in history)
    PROVE  [Shutdown!Next]_Shutdown!svars
<1>1. CASE closes' = closes
  BY <1>1 DEF Shutdown!svars
<1>2. CASE closes' = closes + 1 /\ closes > 0
  BY <1>2 DEF Shutdown!svars
<1>3. CASE closes' = closes + 1 /\ closes = 0
  <2>1. Shutdown!Ask
    BY <1>3 DEF Shutdown!Ask
  <2>2. QED
    BY <2>1 DEF Shutdown!Next
<1>4. QED
  BY <1>1, <1>2, <1>3

\* Every step of the main process, the renderer or the backend is a step
\* of ShutdownAbstract or leaves the app, the backend, whether
\* closeBackendProcess was called and whether quitAndInstall ran alone.
LEMMA NextRefinesShutdown ==
    IInv /\ AskedInv /\ [Next]_vars => [Shutdown!Next]_Shutdown!svars
<1> SUFFICES ASSUME IInv, AskedInv, [Next]_vars
             PROVE  [Shutdown!Next]_Shutdown!svars
  OBVIOUS
<1>0. /\ TypeOK /\ BackendForked /\ QuitInv /\ InstallInv
      /\ closes \in Nat /\ inbox \in Nat /\ acks \in Nat /\ timers \in Nat
  BY DEF IInv, TypeOK
<1>1. CASE AppReady
  <2>1. Shutdown!Ready
    BY <1>0, <1>1 DEF AppReady, BackendForked, Shutdown!Ready
  <2>2. QED
    BY <2>1 DEF Shutdown!Next
<1>2. CASE Activate
  BY <1>0, <1>2, AskOrStutter DEF Activate, backendVars
<1>3. CASE MainDidFinishLoad
  BY <1>0, <1>3, AskOrStutter DEF MainDidFinishLoad, backendVars
<1>4. CASE UserClosesMain
  <2>1. closes' \in {closes, closes + 1}
    BY <1>0, <1>4 DEF UserClosesMain, CloseMain, CloseBackendProcess
  <2>2. QED
    BY <1>0, <1>4, <2>1, AskOrStutter DEF UserClosesMain, backendVars
<1>5. CASE UserClosesSplash
  <2>1. closes' \in {closes, closes + 1}
    BY <1>0, <1>5 DEF UserClosesSplash, CloseBackendProcess
  <2>2. QED
    BY <1>0, <1>5, <2>1, AskOrStutter DEF UserClosesSplash, backendVars
<1>6. CASE StateSaved
  <2>1. closes' \in {closes, closes + 1}
    BY <1>0, <1>6 DEF StateSaved, CloseMain, CloseBackendProcess
  <2>2. QED
    BY <1>0, <1>6, <2>1, AskOrStutter DEF StateSaved, backendVars
<1>7. CASE RendererSaves
  BY <1>0, <1>7, AskOrStutter DEF RendererSaves, backendVars
<1>8. CASE ClosedServices
  BY <1>8 DEF ClosedServices, Shutdown!svars
<1>9. CASE ForceClose
  <2>1. CASE backend \in {"running", "closed"}
    <3>1. Shutdown!Kill
      BY <1>9, <2>1 DEF ForceClose, Shutdown!Kill
    <3>2. QED
      BY <3>1 DEF Shutdown!Next
  <2>2. CASE backend \in {"none", "exited"}
    BY <1>9, <2>2 DEF ForceClose, Shutdown!svars
  <2>3. QED
    BY <1>0, <2>1, <2>2 DEF TypeOK
<1>10. CASE QuitProceeds
  <2>1. CASE app' = "quit"
    <3>1. quitting /\ app = "running"
      BY <1>10 DEF QuitProceeds
    <3>2. closes' = closes /\ UNCHANGED <<backend, history>>
      <4>1. ~(splash = "open" /\ splashGuard)
        BY <1>10, <2>1 DEF QuitProceeds
      <4>2. QED
        BY <1>10, <4>1 DEF QuitProceeds, CloseBackendProcess, backendVars
    <3>3. (closes > 0 /\ backend \in {"closed", "exited"}) \/ "installing" \in history
      BY <1>0, <3>1 DEF QuitInv, AskedInv
    <3>4. Shutdown!Exit
      BY <2>1, <3>1, <3>2, <3>3 DEF Shutdown!Exit, Shutdown!Stopped
    <3>5. QED
      BY <3>4 DEF Shutdown!Next
  <2>2. CASE app' = app
    <3>1. closes' \in {closes, closes + 1}
      BY <1>0, <1>10 DEF QuitProceeds, CloseBackendProcess
    <3>2. QED
      BY <1>0, <1>10, <2>2, <3>1, AskOrStutter DEF QuitProceeds, backendVars
  <2>3. QED
    BY <1>10, <2>1, <2>2 DEF QuitProceeds
<1>11. CASE RestartApp
  BY <1>0, <1>11, AskOrStutter DEF RestartApp, CloseBackendProcess, backendVars
<1>12. CASE ProceedUpdate
  <2>1. UpdateOffered = TRUE
    BY <1>12, DesktopMainAssumption, Zenon DEF ProceedUpdate
  <2>2. Shutdown!Install
    BY <1>12, <2>1 DEF ProceedUpdate, Shutdown!Install, backendVars
  <2>3. QED
    BY <2>2 DEF Shutdown!Next
<1>13. CASE BackendClosesServices
  <2>1. CASE backend = "running"
    <3>1. Shutdown!CloseServices
      BY <1>0, <1>13, <2>1 DEF BackendClosesServices, AskedInv, Shutdown!CloseServices
    <3>2. QED
      BY <3>1 DEF Shutdown!Next
  <2>2. CASE backend = "closed"
    BY <1>13, <2>2 DEF BackendClosesServices, Shutdown!svars
  <2>3. QED
    BY <1>13, <2>1, <2>2 DEF BackendClosesServices
<1>14. CASE BackendExits
  <2>1. Shutdown!Kill
    BY <1>14 DEF BackendExits, Shutdown!Kill
  <2>2. QED
    BY <2>1 DEF Shutdown!Next
<1>15. CASE UNCHANGED vars
  BY <1>15 DEF vars, Shutdown!svars
<1>16. QED
  BY <1>1, <1>2, <1>3, <1>4, <1>5, <1>6, <1>7, <1>8, <1>9, <1>10, <1>11, <1>12,
     <1>13, <1>14, <1>15 DEF Next

\* For every value of the constants, the main process implements
\* ShutdownAbstract: it forks one backend on 'ready', the backend closes
\* its services only after closeBackendProcess asked, a stopped backend
\* never runs again, and the app exits only after closeBackendProcess was
\* called and the backend stopped, or through quitAndInstall.
THEOREM ImplementsShutdown == Spec => ShutdownSpec
<1>1. Init => Shutdown!Init
  BY DEF Init, Shutdown!Init
<1>2. Init => IInv /\ AskedInv
  BY InitIInv, InitAskedInv
<1>3. IInv /\ AskedInv /\ [Next]_vars => (IInv /\ AskedInv)'
  BY NextIInv, NextAskedInv
<1>4. QED
  BY <1>1, <1>2, <1>3, NextRefinesShutdown, PTL DEF Spec, ShutdownSpec, Shutdown!Spec

=============================================================================
