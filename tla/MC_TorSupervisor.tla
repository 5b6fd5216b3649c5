-------------------------- MODULE MC_TorSupervisor --------------------------
(* TorSupervisor on three pids, as model values.  The pids are             *)
(* interchangeable in every action and in Init, so symmetry is sound.      *)
EXTENDS TorSupervisor, TLC

CONSTANTS p1, p2, p3

MCPids == {p1, p2, p3}

MCSymmetry == Permutations(MCPids)

=============================================================================
