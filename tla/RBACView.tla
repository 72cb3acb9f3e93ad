------------------------------ MODULE RBACView -------------------------------
(***************************************************************************)
(* Who may do what in a namespace (RBACView.tsx).  The matrix is loaded    *)
(* when the namespace or the cluster changes and stays until another one   *)
(* arrives, after a disconnect and through errors too; rows are expanded   *)
(* by their place, whoever is in it.                                       *)
(***************************************************************************)
EXTENDS ListView

VARIABLE expanded
rbacVars == <<listVars, expanded>>

RBACShown == activeView = "rbac"

(* The rows of a matrix that appears are closed, those that stay keep      *)
(* their state.                                                            *)
KeepRows(n) == expanded' = {i \in expanded : i < n}

load == Begin({"rbac"}) /\ isLoading' = TRUE /\ failed' = FALSE

RBACInit == expanded = {}

OpenRBAC ==
  /\ ~RBACShown /\ Navigate("rbac")
  /\ IF isConnected THEN Begin({"rbac"}) ELSE calls' = EmptyBag
  /\ isLoading' = isConnected /\ expanded' = {}
  /\ Fresh("matrix", {"matrix"}, Ascending("name"))

(* A step of the frame: the effect depends on the active cluster as well. *)
RBACConnection ==
  /\ RBACShown
  /\ IF <<isConnected, activeContext>>' # <<isConnected, activeContext>> /\ isConnected'
     THEN load /\ UNCHANGED <<chosenVars, held, index, opened>>
     ELSE UNCHANGED listVars
  /\ UNCHANGED expanded

(* The button is disabled while loading, but not without a cluster. *)
LoadRBAC ==
  /\ RBACShown /\ ~isLoading /\ isConnected
  /\ load
  /\ UNCHANGED <<shellVars, chosenVars, held, index, opened, expanded>>

ChooseRBACNamespace(ns) ==
  /\ RBACShown /\ namespaces # NoContext /\ ns # filter
  /\ filter' = ns
  /\ IF isConnected THEN load ELSE UNCHANGED <<calls, isLoading, failed>>
  /\ UNCHANGED <<shellVars, tab, search, sort, held, index, opened, expanded>>

RBACReturns ==
  /\ RBACShown /\ End("rbac") /\ isLoading' = FALSE
  /\ \/ /\ \E n \in Sizes : held' = [matrix |-> n] /\ KeepRows(n)
        /\ failed' = failed
     \/ failed' = TRUE /\ UNCHANGED <<held, expanded>>
  /\ UNCHANGED <<shellVars, chosenVars, index, opened>>

SubjectRow(i) ==
  /\ RBACShown /\ i \in 0..(held["matrix"] - 1)
  /\ expanded' = IF i \in expanded THEN expanded \ {i} ELSE expanded \cup {i}
  /\ UNCHANGED <<shellVars, listVars>>

RBACNext ==
  \/ OpenRBAC \/ LoadRBAC \/ RBACReturns
  \/ \E ns \in Filters : ChooseRBACNamespace(ns)
  \/ \E i \in 0..(MaxItems - 1) : SubjectRow(i)
  \/ \E v \in Views : Unmount("rbac", v) /\ expanded' = {}

(* Only rows that are there are expanded, whatever matrix replaces another. *)
RBACTypeOK ==
  IF RBACShown THEN expanded \subseteq 0..(held["matrix"] - 1) ELSE expanded = {}
=============================================================================
