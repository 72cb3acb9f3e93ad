------------------------- MODULE MCClusterConnection -------------------------
(* Two contexts, two concurrent frontend calls, two generations of client   *)
(* objects per context: one in the manager and one in the heartbeat's hand. *)
EXTENDS ClusterConnection, TLC

CallerSymmetry == Permutations(Callers)
=============================================================================
