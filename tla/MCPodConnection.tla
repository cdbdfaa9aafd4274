--------------------------- MODULE MCPodConnection ---------------------------
(* PodConnection with the symmetry of its event-loop threads, for TLC.       *)
EXTENDS PodConnection, TLC

LoopSymmetry == Permutations(Loops)
=============================================================================
