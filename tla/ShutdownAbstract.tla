--------------------------- MODULE ShutdownAbstract ---------------------------
(***************************************************************************)
(* What the desktop main process promises about its own lifecycle and the *)
(* backend's, without windows, messages or timers.  The app starts, forks  *)
(* one backend and runs; the backend closes its services only once         *)
(* closeBackendProcess has asked it to, may be killed or crash at any      *)
(* time, and never runs again once stopped; the app exits only after it    *)
(* asked the backend to close and the backend has stopped, unless the      *)
(* updater quit it to install an update.  An exited app stays exited.      *)
(***************************************************************************)

CONSTANT UpdateOffered

VARIABLES
    app,         \* "starting", "running" or "quit"
    backend,     \* "none", "running", "closed" (services closed) or "exited"
    asked,       \* closeBackendProcess has been called
    installing   \* quitAndInstall has been called

svars == <<app, backend, asked, installing>>

Stopped == backend \in {"closed", "exited"}

Ready ==
    /\ app = "starting" /\ backend = "none"
    /\ app' = "running" /\ backend' = "running"
    /\ UNCHANGED <<asked, installing>>

Ask ==
    /\ app = "running" /\ ~asked
    /\ asked' = TRUE
    /\ UNCHANGED <<app, backend, installing>>

CloseServices ==
    /\ asked /\ backend = "running"
    /\ backend' = "closed"
    /\ UNCHANGED <<app, asked, installing>>

Kill ==
    /\ backend \in {"running", "closed"}
    /\ backend' = "exited"
    /\ UNCHANGED <<app, asked, installing>>

Install ==
    /\ UpdateOffered = TRUE
    /\ app = "running" /\ ~installing
    /\ installing' = TRUE
    /\ UNCHANGED <<app, backend, asked>>

Exit ==
    /\ app = "running"
    /\ (asked /\ Stopped) \/ installing
    /\ app' = "quit"
    /\ UNCHANGED <<backend, asked, installing>>

Init ==
    /\ app = "starting" /\ backend = "none"
    /\ asked = FALSE /\ installing = FALSE

Next == Ready \/ Ask \/ CloseServices \/ Kill \/ Install \/ Exit

Spec == Init /\ [][Next]_svars

=============================================================================
