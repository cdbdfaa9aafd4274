--------------------------- MODULE MCPodLifecycle ---------------------------
(***************************************************************************)
(* PodLifecycle for TLC.                                                   *)
(***************************************************************************)
EXTENDS PodLifecycle, TLC

\* Tokens are random and only compared with each other.
TokenSymmetry == Permutations(Tokens)
=============================================================================
