---------------------------- MODULE ActiveCluster ----------------------------
(***************************************************************************)
(* What the connection layer promises every feature that asks it for "the  *)
(* active cluster": a set of connected clusters, of which at most one is   *)
(* selected, and always a connected one.  ClusterConnection implements it. *)
(***************************************************************************)
CONSTANTS Contexts, NoContext

VARIABLES connected, selected

clusterVars == <<connected, selected>>

Init == connected = {} /\ selected = NoContext

(* Opening a cluster may select it, but only when none was selected. *)
Open(x) ==
  /\ x \notin connected
  /\ connected' = connected \cup {x}
  /\ \/ selected' = selected
     \/ selected = NoContext /\ selected' = x

Select(x) ==
  /\ x \in connected
  /\ selected' = x
  /\ UNCHANGED connected

Drop(x) ==
  /\ x \in connected
  /\ connected' = connected \ {x}
  /\ selected' = IF selected = x THEN NoContext ELSE selected

DropAll == selected' = NoContext /\ connected' = {}

Next == DropAll \/ \E x \in Contexts : Open(x) \/ Select(x) \/ Drop(x)

Spec == Init /\ [][Next]_clusterVars
=============================================================================
