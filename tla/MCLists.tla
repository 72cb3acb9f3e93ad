------------------------------- MODULE MCLists -------------------------------
(***************************************************************************)
(* The list views for TLC.  One view is mounted at a time, so a behaviour  *)
(* looks at one of them, its focus, together with the frame's connects and *)
(* disconnects of one cluster.  The bounds keep what the user has changed  *)
(* to one thing at a time, so that every answer still meets every filter,  *)
(* tab, sort order and panel.                                              *)
(***************************************************************************)
EXTENDS GitOpsView, TimelineView, AnalyzerView, PortForwardsView, RBACView, SecurityView

CONSTANT k1  \* the cluster that is connected to
VARIABLE focus

ListFocuses == {"gitops", "timeline", "analyzer", "portforwards", "rbac", "security"}
listsVars == <<timelineVars, expanded, securityOwn>>

ListsInit == ListInit /\ TimelineInit /\ RBACInit /\ SecurityInit

OneCluster == \A c \in connects : c.context = k1
Connecting ==
  \/ \E x \in Contexts : handleConnect(x) \/ ConnectReturns(x) \/ NamespacesListed(x)
  \/ OpenDialog("menu")
Disconnecting ==
  handleDisconnect \/ \E x \in Contexts : DisconnectReturns(x)

(* Bounds: how many of these things are so, and how many calls there are;  *)
(* one call, and nothing changed, while the frame connects.                *)
AtMost(n, things) == Cardinality({i \in DOMAIN things : things[i]}) <= n
Changed(order) == <<sort # order, opened # {}, filter # NoFilter, search>>
ListBound(view, order, n) ==
  /\ OneCluster /\ activeView \in {"dashboard", view}
  /\ BagCardinality(calls) <= n
  /\ sort.field \in {"name", "severity", "time", "pod"}
  /\ activeView = view => AtMost(1, Changed(order))
  /\ activeView = view /\ (connects # {} \/ dialogs # {}) =>
       AtMost(0, Changed(order)) /\ BagCardinality(calls) < 2

GitOpsBound ==
  /\ ListBound("gitops", Ascending("name"), 2)
  /\ GitOpsShown => held["argo"] < 2 /\ held["flux-kustomize"] = 0 /\ held["namespaces"] < 2
GitOpsFocus ==
  /\ focus = "gitops" /\ UNCHANGED <<ownVars, expanded, securityOwn>>
  /\ \/ (Connecting \/ Disconnecting)
        /\ (IF GitOpsShown THEN GitOpsConnection ELSE UNCHANGED listVars)
     \/ GitOpsNext
  /\ GitOpsBound'

AnalyzerBound ==
  /\ ListBound("analyzer", Severest, 2)
  /\ AnalyzerShown => held["Stuck"] < 2
AnalyzerFocus ==
  /\ focus = "analyzer" /\ UNCHANGED <<ownVars, expanded, securityOwn>>
  /\ \/ (Connecting \/ Disconnecting)
        /\ (IF AnalyzerShown THEN AnalyzerConnection ELSE UNCHANGED listVars)
     \/ AnalyzerNext
  /\ AnalyzerBound'

ForwardsFocus ==
  /\ focus = "portforwards" /\ UNCHANGED <<ownVars, expanded, securityOwn>>
  /\ \/ (Connecting \/ Disconnecting)
        /\ (IF ForwardsShown THEN ForwardsConnection ELSE UNCHANGED listVars)
     \/ ForwardsNext
  /\ ListBound("portforwards", Ascending("pod"), 3)'

RBACFocus ==
  /\ focus = "rbac" /\ UNCHANGED <<ownVars, securityOwn>>
  /\ \/ (Connecting \/ Disconnecting)
        /\ (IF RBACShown THEN RBACConnection ELSE UNCHANGED rbacVars)
     \/ RBACNext
  /\ ListBound("rbac", Ascending("name"), 2)'

(* Snapshots are looked at without events, filters and connects.  *)
TimelineBound ==
  /\ ListBound("timeline", Newest, 3)
  /\ TimelineShown =>
       /\ AtMost(1, Changed(Newest) \o <<typeFilter # "all", failed>>) /\ Cardinality(opened) < 2
       /\ BagIn("available", calls) \/ BagCardinality(calls) < 3
       /\ held["snapshots"] > 0 \/ picks # <<>> =>
            /\ held["events"] = 0 /\ opened \subseteq {"diff"} /\ connects = {}
            /\ typeFilter = "all" /\ filter = NoFilter /\ ~search /\ sort = Newest
       /\ dialogs # {} \/ connects # {} =>
            typeFilter = "all" /\ tab = "events"
TimelineFocus ==
  /\ focus = "timeline" /\ UNCHANGED <<expanded, securityOwn>>
  /\ \/ (Connecting \/ Disconnecting)
        /\ (IF TimelineShown THEN TimelineConnection ELSE UNCHANGED timelineVars)
     \/ TimelineNext
  /\ TimelineBound'

(* One of the modes' own things at a time. *)
SecurityBound ==
  /\ OneCluster /\ activeView \in {"dashboard", "security"}
  /\ BagCardinality(calls) <= 2
  /\ SecurityShown =>
       /\ held["clusterroles"] < 2 /\ systemRows["clusterroles"] = 0 /\ rbac.bindings < 2
       /\ rbac.bindings = 1 => held["clusterroles"] = 0 /\ held["roles"] < 2
       /\ systemRows["roles"] > 0 =>
            /\ rbac.bindings < 1 /\ analysis = "closed" /\ yaml.of = 0 /\ ~ai.loading
            /\ tab = "resources"
       /\ connects # {} => BagCardinality(calls) < 2
       /\ AtMost(1, <<filter # NoFilter, search, ai.loading \/ ai.answer \/ ai.error,
                      yaml # [of |-> 0, content |-> 0, loading |-> FALSE],
                      analysis # "closed", rbac.selected # 0 \/ rbac.view # "subjects",
                      index # -1, resourceTab # FirstTab, rbac.failed, showSystem,
                      menuAt # -1 /\ yaml.of = 0, dialogs # {} \/ connects # {}>>)
SecurityFocus ==
  /\ focus = "security" /\ UNCHANGED <<ownVars, expanded>>
  /\ \/ (Connecting \/ Disconnecting)
        /\ (IF SecurityShown THEN SecurityConnection ELSE UNCHANGED securityVars)
     \/ SecurityNext
  /\ SecurityBound'

ListsNext ==
  GitOpsFocus \/ AnalyzerFocus \/ ForwardsFocus \/ RBACFocus \/ TimelineFocus \/ SecurityFocus

(* Each list view keeps what its rows, highlight and panels need. *)
ListsTypeOK ==
  /\ GitOpsTypeOK /\ TimelineTypeOK /\ AnalyzerTypeOK
  /\ ForwardsTypeOK /\ RBACTypeOK /\ SecurityTypeOK
=============================================================================
