------------------------- MODULE SupervisorAbstract -------------------------
(***************************************************************************)
(* What Tor.init promises its caller (spec 4.2, 8), without processes,     *)
(* pids or timers: a call on an instance with no attempt behind it either  *)
(* fails at once (credential setup) or starts the first spawn attempt;     *)
(* while spawning, an attempt either bootstraps and init resolves, or      *)
(* fails and the next attempt starts, up to Repeat + 1 attempts, after     *)
(* which init is rejected.  Resolved is final, and so is rejected once an  *)
(* attempt was made.                                                       *)
(***************************************************************************)
EXTENDS Naturals

CONSTANT Repeat

VARIABLES status, attempts

Start ==
    /\ attempts = 0
    /\ status \in {"idle", "rejected"}
    /\ \/ status' = "rejected" /\ UNCHANGED attempts
       \/ status' = "spawning" /\ attempts' = 1

Retry ==
    /\ status = "spawning"
    /\ attempts <= Repeat
    /\ attempts' = attempts + 1
    /\ UNCHANGED status

GiveUp ==
    /\ status = "spawning"
    /\ attempts = Repeat + 1
    /\ status' = "rejected"
    /\ UNCHANGED attempts

Resolve ==
    /\ status = "spawning"
    /\ status' = "resolved"
    /\ UNCHANGED attempts

Init == status = "idle" /\ attempts = 0

Next == Start \/ Retry \/ GiveUp \/ Resolve

Spec == Init /\ [][Next]_<<status, attempts>>

=============================================================================
