--------------------------- MODULE ClusterManager ---------------------------
(***************************************************************************)
(* The pool of cluster clients: internal/client/manager.go and the closed  *)
(* flag of internal/client/cluster.go.  Every operation of the manager     *)
(* holds its mutex from entry to return, network calls included.  Add is   *)
(* split where it waits for the API server; who holds the mutex meanwhile, *)
(* and the callers that chain several operations, are in ClusterConnection.*)
(*                                                                         *)
(* A client is a context with a generation: reconnecting a context makes a *)
(* new client object while an old one may still be held by a goroutine.    *)
(***************************************************************************)
CONSTANTS
  Contexts,        \* kubeconfig context names
  NoContext,       \* the empty string
  CurrentContext,  \* the context loader.CurrentContext() returns at start
  Gens,            \* generations of client objects of one context
  NoGen            \* the map has no client for the context

ASSUME ClusterManagerAssumption ==
  /\ NoContext \notin Contexts
  /\ CurrentContext \in Contexts \cup {NoContext}
  /\ NoGen \notin Gens

VARIABLES
  conn,    \* manager.clients: the generation stored for each context
  infos,   \* manager.infos: the contexts with a cached ClusterInfo
  active,  \* manager.active
  open     \* the generations of each context whose client is not closed

managerVars == <<conn, infos, active, open>>

ManagerTypeOK ==
  /\ conn \in [Contexts -> Gens \cup {NoGen}]
  /\ infos \in SUBSET Contexts
  /\ active \in Contexts \cup {NoContext}
  /\ open \in [Contexts -> SUBSET Gens]

(***************************************************************************)
(* The manager starts with no client, and with the kubeconfig's current    *)
(* context already active: active then names a context with no client.     *)
(***************************************************************************)
ManagerInit ==
  /\ conn = [x \in Contexts |-> NoGen]
  /\ infos = {}
  /\ active = CurrentContext
  /\ open = [x \in Contexts |-> {}]

HasClient(x) == conn[x] # NoGen

(* manager.Active() returns a client: otherwise ErrNoActiveCluster. *)
ActiveExists == active \in Contexts /\ conn[active] # NoGen

-----------------------------------------------------------------------------
(* Add stores a new client for x, of a generation no goroutine holds, and   *)
(* then asks it for its Info to see that the connection works.              *)
AddClient(x, g) ==
  /\ ~HasClient(x)
  /\ conn' = [conn EXCEPT ![x] = g]
  /\ open' = [open EXCEPT ![x] = @ \cup {g}]
  /\ UNCHANGED <<infos, active>>

AddAnswered(x) ==
  /\ infos' = infos \cup {x}
  /\ UNCHANGED <<conn, active, open>>

(* Mutants: a client that does not answer is taken out but not closed, or   *)
(* closed but not taken out.                                                *)
AddFailedLeavesOpen(x) ==
  /\ conn' = [conn EXCEPT ![x] = NoGen]
  /\ UNCHANGED <<infos, active, open>>

AddFailedKeepsClient(x) ==
  /\ open' = [open EXCEPT ![x] = @ \ {conn[x]}]
  /\ UNCHANGED <<conn, infos, active>>

AddFailed(x) ==
  /\ conn' = [conn EXCEPT ![x] = NoGen]
  /\ open' = [open EXCEPT ![x] = @ \ {conn[x]}]
  /\ UNCHANGED <<infos, active>>

(* Mutant: the active context is not cleared. *)
RemoveKeepsActive(x) ==
  /\ HasClient(x)
  /\ open' = [open EXCEPT ![x] = @ \ {conn[x]}]
  /\ conn' = [conn EXCEPT ![x] = NoGen]
  /\ infos' = infos \ {x}
  /\ UNCHANGED active

Remove(x) ==
  /\ HasClient(x)
  /\ open' = [open EXCEPT ![x] = @ \ {conn[x]}]
  /\ conn' = [conn EXCEPT ![x] = NoGen]
  /\ infos' = infos \ {x}
  /\ active' = IF active = x THEN NoContext ELSE active

(* Mutant: no check that the manager has a client for the context. *)
SetActiveUnchecked(x) ==
  /\ active' = x
  /\ UNCHANGED <<conn, infos, open>>

SetActive(x) ==
  /\ HasClient(x)
  /\ active' = x
  /\ UNCHANGED <<conn, infos, open>>

CloseAll ==
  /\ open' = [x \in Contexts |-> open[x] \ {conn[x]}]
  /\ conn' = [x \in Contexts |-> NoGen]
  /\ infos' = {}
  /\ active' = NoContext
=============================================================================
