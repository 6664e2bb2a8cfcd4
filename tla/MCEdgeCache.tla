---------------------------- MODULE MCEdgeCache ----------------------------
(* Model values and symmetry for the runs of EdgeCache.                     *)
EXTENDS EdgeCache, TLC

CONSTANTS s1, s2

MCServers == {s1, s2}
Symmetry == Permutations(MCServers)

=============================================================================
