-------------------------- MODULE PortForwardsView ---------------------------
(***************************************************************************)
(* The port forwards and the form that makes one (PortForwardsView.tsx).   *)
(* The list is polled every two seconds, whatever is still under way; the  *)
(* forwards themselves are the backend's (PortForward).                    *)
(***************************************************************************)
EXTENDS ListView

(* "filled": a pod and both ports are chosen in the form. *)
ForwardParts == {"forwards", "pods"}
ForwardFields == {"pod", "local", "remote", "status"}
ForwardsShown == activeView = "portforwards"
ForwardsListed == isConnected /\ held["forwards"] > 0
creating == BagIn("create", calls) \/ BagIn("created", calls)

OpenForwards ==
  /\ ~ForwardsShown /\ Navigate("portforwards")
  /\ IF isConnected THEN Begin({"forwards", "pods"}) ELSE calls' = EmptyBag
  /\ isLoading' = FALSE
  /\ Fresh("forwards", ForwardParts, Ascending("pod"))

(* The effect of a change of connection or of the pods' filter. *)
Reload(connection) ==
  IF connection
  THEN Begin({"forwards", "pods"}) /\ UNCHANGED <<held, index>>
  ELSE /\ held' = [p \in ForwardParts |-> 0] /\ ResetIf(held["forwards"] # 0)
       /\ UNCHANGED calls

ForwardsConnection ==
  /\ ForwardsShown
  /\ IF isConnected' = isConnected THEN UNCHANGED listVars
     ELSE Reload(isConnected') /\ UNCHANGED <<chosenVars, isLoading, failed, opened>>

FilterPods(ns) ==
  /\ ForwardsShown /\ ns # filter
  /\ filter' = ns /\ Reload(isConnected)
  /\ UNCHANGED <<shellVars, tab, search, sort, isLoading, failed, opened>>

Poll ==
  /\ ForwardsShown /\ isConnected
  /\ Begin({"forwards"})
  /\ UNCHANGED <<shellVars, chosenVars, held, isLoading, failed, index, opened>>

(* What is listed, also by the calls that follow a create or a stop; a call *)
(* that fails leaves what there was.                                        *)
ForwardsReturn ==
  /\ ForwardsShown
  /\ \/ /\ End("forwards") \/ End("stopped") \/ End("created")
        /\ \E n \in Sizes : held' = [held EXCEPT !["forwards"] = n]
     \/ /\ End("pods")
        /\ \E n \in Sizes : held' = [held EXCEPT !["pods"] = n]
  /\ ResetIf(held'["forwards"] # held["forwards"])
  /\ UNCHANGED <<shellVars, chosenVars, isLoading, failed, opened>>

(* The button, disabled without a cluster, and the key n, which is not. *)
ToggleForm == ForwardsShown /\ Toggle("form")
FillForm ==
  /\ ForwardsShown /\ "form" \in opened
  /\ "filled" \in opened \/ held["pods"] > 0
  /\ Toggle("filled")

handleCreate ==
  /\ ForwardsShown /\ opened = {"form", "filled"} /\ ~creating
  /\ Begin({"create"}) /\ failed' = FALSE
  /\ UNCHANGED <<shellVars, chosenVars, held, isLoading, index, opened>>

(* The form closes when the forward is there, and then the list is fetched. *)
(* Closing the form keeps what is filled in, and a create under way.        *)
CreateReturns ==
  /\ ForwardsShown /\ BagIn("create", calls)
  /\ \/ /\ calls' = (calls (-) SetToBag({"create"})) (+) SetToBag({"created"})
        /\ opened' = {} /\ failed' = failed
     \/ End("create") /\ failed' = TRUE /\ opened' = opened
  /\ UNCHANGED <<shellVars, chosenVars, held, isLoading, index>>

handleStop ==
  /\ ForwardsShown /\ ForwardsListed
  /\ Begin({"stop"})
  /\ UNCHANGED <<shellVars, chosenVars, held, isLoading, failed, index, opened>>
StopReturned ==
  /\ ForwardsShown /\ BagIn("stop", calls)
  /\ \/ calls' = (calls (-) SetToBag({"stop"})) (+) SetToBag({"stopped"})
     \/ End("stop")
  /\ UNCHANGED <<shellVars, chosenVars, held, isLoading, failed, index, opened>>

(* The keys do nothing while the form is open; the headers still do. *)
MoveInForwards ==
  /\ ForwardsShown /\ "form" \notin opened
  /\ MoveIndex(held["forwards"])
  /\ UNCHANGED <<shellVars, chosenVars, held, calls, isLoading, failed, opened>>
SortForwards(field) ==
  /\ ForwardsShown
  /\ "form" \notin opened \/ ForwardsListed
  /\ SortBy(field)

ForwardsNext ==
  \/ OpenForwards \/ Poll \/ ForwardsReturn \/ ToggleForm \/ FillForm
  \/ handleCreate \/ CreateReturns \/ handleStop \/ StopReturned \/ MoveInForwards
  \/ \E ns \in Filters \cup {NoFilter} : FilterPods(ns)
  \/ \E f \in ForwardFields : SortForwards(f)
  \/ \E v \in Views : Unmount("portforwards", v)

(* The highlight is on a forward, though the list is polled and forwards   *)
(* come and go.                                                            *)
ForwardsTypeOK ==
  ForwardsShown => /\ held \in [ForwardParts -> Sizes] /\ opened \subseteq {"form", "filled"}
                   /\ IndexWithin(held["forwards"])
=============================================================================
