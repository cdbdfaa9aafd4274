----------------------------- MODULE MCLfsRelay -----------------------------
(* An instance of LfsRelay: the tunnel is down while a pod commits to a      *)
(* branch the host has and makes another one.                                *)
EXTENDS LfsRelay

LfsBounds == {[commits |-> 2, fetches |-> 0, losses |-> 2, cuts |-> 0]}
=============================================================================
