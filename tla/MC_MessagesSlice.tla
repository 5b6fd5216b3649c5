-------------------------- MODULE MC_MessagesSlice --------------------------
(* MessagesSlice with two channels, two message ids and one media path,    *)
(* all model values, and batches of up to two entries.                     *)
EXTENDS MessagesSlice, TLC

CONSTANTS ch1, ch2, m1, m2, path1

MCChannels == {ch1, ch2}
MCIds == {m1, m2}
MCPaths == {path1}

\* Channels and message ids are interchangeable.
MCSymmetry == Permutations(MCChannels) \cup Permutations(MCIds)

=============================================================================
