----------------------------- MODULE GitOpsView ------------------------------
(***************************************************************************)
(* Argo CD applications, Helm releases and Kustomizations, one tab each    *)
(* (GitOpsView.tsx).  One refresh lists all three and the namespaces; the  *)
(* lists that fail keep what they had, and so does the filter.             *)
(***************************************************************************)
EXTENDS ListView

GitOpsTabs == {"argo", "flux-helm", "flux-kustomize"}
GitOpsParts == GitOpsTabs \cup {"namespaces"}
GitOpsFields == {"name", "namespace", "status", "age"}
GitOpsShown == activeView = "gitops"

fetchGitOpsResources == Begin({"gitops"}) /\ isLoading' = TRUE /\ failed' = FALSE

OpenGitOps ==
  /\ ~GitOpsShown /\ Navigate("gitops")
  /\ IF isConnected THEN Begin({"gitops"}) ELSE calls' = EmptyBag
  /\ isLoading' = isConnected
  /\ Fresh("flux-helm", GitOpsParts, Ascending("name"))

(* A disconnect empties the lists; a filter chosen stays. *)
GitOpsConnection ==
  /\ GitOpsShown
  /\ IF isConnected' = isConnected THEN UNCHANGED listVars
     ELSE /\ IF isConnected'
             THEN fetchGitOpsResources /\ UNCHANGED <<held, index>>
             ELSE /\ held' = [p \in GitOpsParts |-> 0]
                  /\ ResetIf(held[tab] # 0)
                  /\ UNCHANGED <<calls, isLoading, failed>>
          /\ UNCHANGED <<chosenVars, opened>>

(* The button and the key r wait for the refresh under way, the filter does not. *)
RefreshGitOps ==
  /\ GitOpsShown /\ ~isLoading /\ isConnected
  /\ fetchGitOpsResources
  /\ UNCHANGED <<shellVars, chosenVars, held, index, opened>>

(* Answers of any filter are taken, also after the cluster has gone. *)
GitOpsReturns ==
  /\ GitOpsShown /\ End("gitops")
  /\ isLoading' = FALSE
  /\ \E answered \in SUBSET GitOpsParts : \E n \in [answered -> Sizes] :
       held' = Replaced(held, n)
  /\ ResetIf(held'[tab] # held[tab])
  /\ UNCHANGED <<shellVars, chosenVars, failed, opened>>

ChooseGitOpsNamespace(ns) ==
  /\ GitOpsShown /\ "namespace" \in opened
  /\ ns = NoFilter \/ held["namespaces"] > 0
  /\ filter' = ns /\ opened' = opened \ {"namespace"}
  /\ IF ns # filter /\ isConnected THEN fetchGitOpsResources /\ UNCHANGED <<held, index>>
     ELSE IF ns = filter THEN UNCHANGED <<held, calls, isLoading, failed, index>>
     ELSE /\ held' = [p \in GitOpsParts |-> 0]
          /\ ResetIf(held[tab] # 0)
          /\ UNCHANGED <<calls, isLoading, failed>>
  /\ UNCHANGED <<shellVars, tab, search, sort>>

ChooseGitOpsTab(t) ==
  /\ GitOpsShown
  /\ tab' = t /\ ResetIf(t # tab)
  /\ UNCHANGED <<shellVars, filter, search, sort, held, calls, isLoading, failed, opened>>

MoveInGitOps ==
  /\ GitOpsShown
  /\ MoveIndex(held[tab])
  /\ UNCHANGED <<shellVars, chosenVars, held, calls, isLoading, failed, opened>>

(* The headers are there with the rows, their shifted keys always. *)
SortGitOps(field) == GitOpsShown /\ SortBy(field)

GitOpsNext ==
  \/ OpenGitOps \/ RefreshGitOps \/ GitOpsReturns \/ MoveInGitOps
  \/ GitOpsShown /\ Toggle("namespace")
  \/ \E ns \in Filters \cup {NoFilter} : ChooseGitOpsNamespace(ns)
  \/ \E t \in GitOpsTabs : ChooseGitOpsTab(t)
  \/ \E f \in GitOpsFields : SortGitOps(f)
  \/ \E v \in Views : Unmount("gitops", v)

(* The highlight is on a row of the tab's list, through every refresh,     *)
(* filter, disconnect and change of tab.                                   *)
GitOpsTypeOK ==
  GitOpsShown => /\ tab \in GitOpsTabs /\ held \in [GitOpsParts -> Sizes]
                 /\ sort \in [field : GitOpsFields, direction : {"asc", "desc"}]
                 /\ IndexWithin(held[tab])
=============================================================================
