---------------------------- MODULE SecurityView -----------------------------
(***************************************************************************)
(* Roles, bindings and policies (SecurityView.tsx, AnalysisModal.tsx): the *)
(* RBAC analysis, the resources of each kind, and questions to the AI, one *)
(* mode each.  Every change of mode asks the cluster again, whatever is    *)
(* still under way, and a text can be asked for while another one is.      *)
(***************************************************************************)
EXTENDS ListView, Sequences

CONSTANTS SecurityTabs, ClusterScoped,  \* the kinds, and those without a namespace
          FirstTab

ASSUME SecurityAssumption == FirstTab \in SecurityTabs

VARIABLES
  resourceTab, systemRows,  \* the kind shown; how many rows of each are the system's
  showSystem,
  rbac,                     \* [loading, failed, bindings, view, selected]; -1: no summary
  ai,                       \* [loading, answer, error]
  yaml,                     \* [of, content, loading]: rows, 0 for none
  menuAt, analysis          \* the row menu's row, and the AI audit of a row

securityOwn == <<resourceTab, systemRows, showSystem, rbac, ai, yaml, menuAt, analysis>>
securityVars == <<listVars, securityOwn>>

Modes == {"rbac", "resources", "ai"}
RbacViews == {"subjects", "bindings", "dangerous"}
SecurityShown == activeView = "security"
YamlOf(r) == "yaml " \o ToString(r)

SecurityInit ==
  /\ resourceTab = FirstTab /\ systemRows = [t \in SecurityTabs |-> 0] /\ showSystem = FALSE
  /\ rbac = [loading |-> FALSE, failed |-> FALSE, bindings |-> -1,
             view |-> "subjects", selected |-> 0]
  /\ ai = [loading |-> FALSE, answer |-> FALSE, error |-> FALSE]
  /\ yaml = [of |-> 0, content |-> 0, loading |-> FALSE]
  /\ menuAt = -1 /\ analysis = "closed"
SecurityForgotten ==
  /\ resourceTab' = FirstTab /\ systemRows' = [t \in SecurityTabs |-> 0] /\ showSystem' = FALSE
  /\ rbac' = [loading |-> FALSE, failed |-> FALSE, bindings |-> -1,
              view |-> "subjects", selected |-> 0]
  /\ ai' = [loading |-> FALSE, answer |-> FALSE, error |-> FALSE]
  /\ yaml' = [of |-> 0, content |-> 0, loading |-> FALSE]
  /\ menuAt' = -1 /\ analysis' = "closed"

currentList == IF tab = "rbac" THEN 0 ELSE held[resourceTab]
(* The rows the table shows: the highlight and its keys count the others too. *)
currentResources ==
  held[resourceTab] - (IF showSystem THEN 0 ELSE systemRows[resourceTab])

fetchSecurityResources ==
  Begin({"resources"}) /\ isLoading' = TRUE /\ failed' = FALSE /\ UNCHANGED rbac
fetchRBACAnalysis ==
  Begin({"rbac"}) /\ rbac' = [rbac EXCEPT !.loading = TRUE, !.failed = FALSE]
  /\ UNCHANGED <<isLoading, failed>>

(* The effect on the connection, the namespace and the mode. *)
Reask(connection, mode) ==
  \/ /\ connection /\ UNCHANGED <<held, systemRows>>
     /\ IF mode = "resources" THEN fetchSecurityResources ELSE fetchRBACAnalysis
  \/ /\ ~connection
     /\ held' = [t \in SecurityTabs |-> 0] /\ systemRows' = held'
     /\ rbac' = [rbac EXCEPT !.bindings = -1]
     /\ UNCHANGED <<calls, isLoading, failed>>

OpenSecurity ==
  /\ ~SecurityShown /\ Navigate("security")
  /\ IF isConnected THEN Begin({"rbac"}) ELSE calls' = EmptyBag
  /\ rbac' = [rbac EXCEPT !.loading = isConnected]
  /\ isLoading' = FALSE /\ Fresh("rbac", SecurityTabs, Ascending("name"))
  /\ UNCHANGED <<resourceTab, systemRows, showSystem, ai, yaml, menuAt, analysis>>
CloseSecurity(to) == Unmount("security", to) /\ SecurityForgotten

SecurityConnection ==
  /\ SecurityShown
  /\ UNCHANGED <<chosenVars, opened, resourceTab, showSystem, ai, yaml, menuAt, analysis>>
  /\ IF isConnected' = isConnected
     THEN UNCHANGED <<held, calls, isLoading, failed, index, systemRows, rbac>>
     ELSE Reask(isConnected', tab) /\ ResetIf(currentList' # currentList)

(* Another mode; the audit of a row, hidden by it, starts over on return. *)
ChooseMode(m) ==
  /\ SecurityShown /\ m # tab
  /\ tab' = m /\ index' = -1
  /\ Reask(isConnected, m)
  /\ analysis' = IF m = "resources" /\ analysis # "closed" THEN "loading" ELSE analysis
  /\ UNCHANGED <<shellVars, filter, search, sort, opened, resourceTab, showSystem, ai, yaml, menuAt>>

FilterSecurity(ns) ==
  /\ SecurityShown /\ tab = "resources" /\ resourceTab \notin ClusterScoped /\ ns # filter
  /\ filter' = ns
  /\ UNCHANGED <<shellVars, tab, search, sort, opened, resourceTab, showSystem, ai, yaml,
                 menuAt, analysis>>
  /\ Reask(isConnected, tab) /\ ResetIf(currentList' # currentList)

(* Each mode's button waits for its own call, the key r for both. *)
RefreshSecurity ==
  /\ SecurityShown /\ isConnected
  /\ \/ tab = "resources" /\ ~isLoading /\ fetchSecurityResources
     \/ tab # "resources" /\ ~rbac.loading /\ (tab = "ai" => ~isLoading) /\ fetchRBACAnalysis
  /\ UNCHANGED <<shellVars, chosenVars, held, index, opened, resourceTab, systemRows,
                 showSystem, ai, yaml, menuAt, analysis>>

(* The lists that fail keep what they had. *)
ResourcesReturn ==
  /\ SecurityShown /\ End("resources") /\ isLoading' = FALSE
  /\ \E answered \in SUBSET SecurityTabs : \E n, s \in [answered -> Sizes] :
       /\ \A t \in answered : s[t] <= n[t]
       /\ held' = Replaced(held, n) /\ systemRows' = Replaced(systemRows, s)
  /\ UNCHANGED <<shellVars, chosenVars, failed, opened, resourceTab, showSystem, rbac, ai,
                 yaml, menuAt, analysis>>
  /\ ResetIf(currentList' # currentList)

RBACAnalysed ==
  /\ SecurityShown /\ End("rbac")
  /\ rbac' \in {[rbac EXCEPT !.loading = FALSE, !.bindings = n] : n \in Sizes}
                 \cup {[rbac EXCEPT !.loading = FALSE, !.failed = TRUE]}
  /\ UNCHANGED <<shellVars, chosenVars, held, isLoading, failed, index, opened, resourceTab,
                 systemRows, showSystem, ai, yaml, menuAt, analysis>>

-----------------------------------------------------------------------------
ChooseSecurityTab(t) ==
  /\ SecurityShown /\ tab = "resources"
  /\ resourceTab' = t /\ ResetIf(t # resourceTab)
  /\ UNCHANGED <<shellVars, chosenVars, held, calls, isLoading, failed, opened, systemRows,
                 showSystem, rbac, ai, yaml, menuAt, analysis>>
ShowSystem ==
  /\ SecurityShown /\ tab = "resources" /\ isConnected /\ ~isLoading
  /\ ~showSystem /\ currentResources = 0
  /\ showSystem' = TRUE
  /\ UNCHANGED <<shellVars, listVars, resourceTab, systemRows, rbac, ai, yaml, menuAt, analysis>>
MoveInSecurity ==
  /\ SecurityShown /\ tab = "resources"
  /\ MoveIndex(currentList)
  /\ UNCHANGED <<shellVars, chosenVars, held, calls, isLoading, failed, opened, securityOwn>>

(* The analysis' own tabs, its search, and the binding whose permissions    *)
(* are shown, which a new analysis keeps by its name.                       *)
RBACPage ==
  CASE ~isConnected -> "connect" [] isConnected /\ rbac.loading /\ rbac.bindings = -1 -> "spinner"
    [] OTHER -> IF rbac.failed THEN "error" ELSE rbac.view
RestOfRBAC == <<shellVars, index, tab, filter, sort, held, calls, isLoading, failed, opened,
                resourceTab, systemRows, showSystem, ai, yaml, menuAt, analysis>>
ChooseRBACView(v) ==
  /\ SecurityShown /\ tab = "rbac" /\ UNCHANGED <<RestOfRBAC, search>>
  /\ rbac' = [rbac EXCEPT !.view = v]
SearchRBAC ==
  /\ SecurityShown /\ tab = "rbac" /\ UNCHANGED <<RestOfRBAC, rbac>>
  /\ search' = ~search
SelectBinding(b) ==
  /\ SecurityShown /\ tab = "rbac" /\ RBACPage = "bindings" /\ b \in 1..rbac.bindings
  /\ rbac' = [rbac EXCEPT !.selected = IF @ = b THEN 0 ELSE b]
  /\ UNCHANGED <<RestOfRBAC, search>>

(* Enter asks again while an answer is awaited; both are then taken, also  *)
(* an answer beside the error of the other.                                *)
handleAiQuery ==
  /\ SecurityShown /\ tab = "ai" /\ isConnected
  /\ Begin({"ai"})
  /\ ai' = [loading |-> TRUE, answer |-> FALSE, error |-> FALSE]
  /\ UNCHANGED <<shellVars, chosenVars, held, isLoading, failed, index, opened, resourceTab,
                 systemRows, showSystem, rbac, yaml, menuAt, analysis>>
AiReturns ==
  /\ SecurityShown /\ End("ai")
  /\ ai' \in {[ai EXCEPT !.loading = FALSE, !.answer = TRUE],
              [ai EXCEPT !.loading = FALSE, !.error = TRUE]}
  /\ UNCHANGED <<shellVars, chosenVars, held, isLoading, failed, index, opened, resourceTab,
                 systemRows, showSystem, rbac, yaml, menuAt, analysis>>

-----------------------------------------------------------------------------
RowsClickable == SecurityShown /\ tab = "resources" /\ isConnected /\ ~isLoading /\ ~failed
RowMenu(i) ==
  /\ RowsClickable /\ i \in -1..(currentResources - 1)
  /\ menuAt' = IF i = menuAt THEN -1 ELSE i
  /\ UNCHANGED <<shellVars, listVars, resourceTab, systemRows, showSystem, rbac, ai, yaml, analysis>>

(* The text stays until another arrives: under the next row's name, if that *)
(* one fails, or the answer of a closed viewer comes late.                   *)
ViewYAML ==
  /\ RowsClickable /\ menuAt \in 0..(currentResources - 1)
  /\ Begin({YamlOf(menuAt + 1)})
  /\ yaml' = [yaml EXCEPT !.of = menuAt + 1, !.loading = TRUE] /\ menuAt' = -1
  /\ UNCHANGED <<shellVars, chosenVars, held, isLoading, failed, index, opened, resourceTab,
                 systemRows, showSystem, rbac, ai, analysis>>
YAMLReturns(r) ==
  /\ SecurityShown /\ End(YamlOf(r))
  /\ yaml' \in {[yaml EXCEPT !.loading = FALSE, !.content = r], [yaml EXCEPT !.loading = FALSE]}
  /\ UNCHANGED <<shellVars, chosenVars, held, isLoading, failed, index, opened, resourceTab,
                 systemRows, showSystem, rbac, ai, menuAt, analysis>>
CloseYAML ==
  /\ SecurityShown /\ tab = "resources" /\ yaml.of # 0
  /\ yaml' = [yaml EXCEPT !.of = 0]
  /\ UNCHANGED <<shellVars, listVars, resourceTab, systemRows, showSystem, rbac, ai, menuAt, analysis>>

(* The audit begins with the dialog and can be repeated once it has ended; *)
(* one that is closed is answered to nobody.                               *)
Audit ==
  /\ RowsClickable /\ menuAt \in 0..(currentResources - 1)
  /\ analysis' = "loading" /\ menuAt' = -1
  /\ UNCHANGED <<shellVars, listVars, resourceTab, systemRows, showSystem, rbac, ai, yaml>>
AnalysisModal ==
  /\ SecurityShown /\ tab = "resources" /\ analysis # "closed"
  /\ \/ analysis = "loading" /\ analysis' \in {"answer", "error"}
     \/ analysis # "loading" /\ analysis' = "loading"
     \/ analysis' = "closed"
  /\ UNCHANGED <<shellVars, listVars, resourceTab, systemRows, showSystem, rbac, ai, yaml, menuAt>>

SecurityNext ==
  \/ OpenSecurity \/ RefreshSecurity \/ ResourcesReturn \/ RBACAnalysed \/ ShowSystem
  \/ MoveInSecurity \/ SearchRBAC \/ handleAiQuery \/ AiReturns \/ ViewYAML \/ CloseYAML
  \/ Audit \/ AnalysisModal
  \/ \E v \in Views : CloseSecurity(v)
  \/ \E m \in Modes : ChooseMode(m)
  \/ \E t \in SecurityTabs : ChooseSecurityTab(t)
  \/ \E ns \in Filters \cup {NoFilter} : FilterSecurity(ns)
  \/ \E i \in -1..(MaxItems - 1) : RowMenu(i)
  \/ \E v \in RbacViews : ChooseRBACView(v)
  \/ \E b \in 1..MaxItems : SelectBinding(b)
  \/ \E r \in 1..MaxItems : YAMLReturns(r)

(* The highlight is on a row of the kind shown, if not always on a visible *)
(* one, through every mode and answer; what is the system's is counted.    *)
SecurityTypeOK ==
  SecurityShown => /\ tab \in Modes /\ held \in [SecurityTabs -> Sizes]
                   /\ \A t \in SecurityTabs : systemRows[t] <= held[t]
                   /\ rbac.view \in RbacViews /\ IndexWithin(currentList)
=============================================================================
