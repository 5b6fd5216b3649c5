--------------------------- MODULE MC_DesktopMain ---------------------------
(* DesktopMain for TLC: the counters are bounded by the handshakes         *)
(* themselves; this constraint only guards against a model error.          *)
EXTENDS DesktopMain

\* Bound on the message and timer counters.
MCBound == 4

CounterBound == \A n \in {saves, savedMsgs, inbox, acks, timers, closes} : n <= MCBound

=============================================================================
