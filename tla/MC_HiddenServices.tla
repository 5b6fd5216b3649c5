------------------------- MODULE MC_HiddenServices -------------------------
(* HiddenServices with three calls, two virtual ports, one private key     *)
(* and two generated service ids, all model values.                        *)
EXTENDS HiddenServices, TLC

CONSTANTS c1, c2, c3, v1, v2, k1, n1, n2

MCCalls == {c1, c2, c3}
MCPorts == {v1, v2}
MCKeys == {k1}
MCFreshSids == {n1, n2}

\* Calls, ports and generated ids are interchangeable.
MCSymmetry == Permutations(MCCalls) \cup Permutations(MCPorts)
                \cup Permutations(MCFreshSids)

=============================================================================
