----------------------------- MODULE Dashboard -------------------------------
(***************************************************************************)
(* The dashboard (Dashboard.tsx) with its getting-started card             *)
(* (GettingStartedCard.tsx) and the first uses that are remembered between *)
(* launches (onboardingStore.ts).  Its panels are fetched side by side,    *)
(* and a scan, asked for by three buttons, replaces one of them.           *)
(***************************************************************************)
EXTENDS AppShell

CONSTANTS DashboardPanels, SecurityPanel,
          MaxPanelCalls  \* bound: calls of a panel under way

ASSUME DashboardAssumption == SecurityPanel \in DashboardPanels

VARIABLES
  panels,                  \* of each panel: [loading, filled]
  panelCalls,              \* the calls of this page under way, of each panel
  scanning, snapshotLoading,
  actions,                 \* scans and snapshots under way, of pages gone too
  toasts,
  firstUse, dismissed,     \* remembered
  queried, selectedModel   \* a question in some conversation, a model chosen

panelVars == <<panels, panelCalls>>
cardVars == <<firstUse, dismissed>>
actionVars == <<scanning, snapshotLoading, actions, toasts>>
dashboardVars == <<panelVars, actionVars, cardVars, queried, selectedModel>>

FirstUses == {"connected", "aiQuerySent", "snapshotTaken", "securityScanRun"}
CardSteps == FirstUses \cup {"aiConfigured"}
Actions == {"scan", "snapshot"}
Empty == [p \in DashboardPanels |-> [loading |-> FALSE, filled |-> FALSE]]
NoCalls == [p \in DashboardPanels |-> 0]

DashboardShown == activeView = "dashboard"

DashboardInit ==
  /\ panels = Empty /\ panelCalls = NoCalls
  /\ scanning = FALSE /\ snapshotLoading = FALSE /\ actions = {} /\ toasts = 0
  /\ firstUse = {} /\ dismissed = FALSE /\ queried = FALSE /\ selectedModel = FALSE

(* The steps of the card that are done, and whether it is still shown.     *)
flags == firstUse \cup (IF isConnected THEN {"connected"} ELSE {})
           \cup (IF queried THEN {"aiQuerySent"} ELSE {})
           \cup (IF selectedModel THEN {"aiConfigured"} ELSE {})
CardShown == DashboardShown /\ isConnected /\ ~dismissed /\ flags # CardSteps

(* The card's effects latch what it sees, shown or hidden, but it is only  *)
(* there while a cluster is connected.                                     *)
Latch(there) ==
  firstUse' = firstUse \cup (IF there THEN {"connected"} ELSE {})
                \cup (IF there /\ queried THEN {"aiQuerySent"} ELSE {})

fetchAll ==
  /\ \A p \in DashboardPanels : panelCalls[p] < MaxPanelCalls
  /\ panelCalls' = [p \in DashboardPanels |-> panelCalls[p] + 1]
  /\ panels' = [p \in DashboardPanels |-> [panels[p] EXCEPT !.loading = TRUE]]

OpenDashboard ==
  /\ ~DashboardShown /\ Navigate("dashboard")
  /\ panels' = [p \in DashboardPanels |-> [loading |-> isConnected, filled |-> FALSE]]
  /\ panelCalls' = [p \in DashboardPanels |-> IF isConnected THEN 1 ELSE 0]
  /\ Latch(isConnected)
  /\ UNCHANGED <<actionVars, dismissed, queried, selectedModel>>

(* The sidebar, a step of the card and the quick action for questions lead *)
(* elsewhere.  A scan or snapshot of a page that is gone still counts as a *)
(* first use.                                                              *)
LeaveDashboard(view) ==
  /\ DashboardShown /\ view # "dashboard" /\ Navigate(view)
  /\ panels' = Empty /\ panelCalls' = NoCalls
  /\ scanning' = FALSE /\ snapshotLoading' = FALSE /\ toasts' = 0
  /\ actions' = {[a EXCEPT !.mine = FALSE] : a \in actions}
  /\ UNCHANGED <<cardVars, queried, selectedModel>>

(* The effect on the connection: fetch all, or forget all.  What is under  *)
(* way is taken when it comes.                                             *)
DashboardConnection ==
  /\ UNCHANGED <<actionVars, dismissed, queried, selectedModel>>
  /\ Latch(DashboardShown /\ isConnected')
  /\ IF ~DashboardShown \/ isConnected' = isConnected THEN UNCHANGED panelVars
     ELSE IF isConnected' THEN fetchAll
     ELSE /\ panels' = [p \in DashboardPanels |-> [panels[p] EXCEPT !.filled = FALSE]]
          /\ UNCHANGED panelCalls

RefreshDashboard ==
  /\ DashboardShown /\ isConnected
  /\ fetchAll
  /\ UNCHANGED <<shellVars, actionVars, cardVars, queried, selectedModel>>

(* An answer, also an older one, fills the panel or, an error, empties it,  *)
(* and ends its spinner.                                                    *)
PanelReturns(p) ==
  /\ panelCalls[p] > 0
  /\ panelCalls' = [panelCalls EXCEPT ![p] = @ - 1]
  /\ \E filled \in BOOLEAN :
       panels' = [panels EXCEPT ![p] = [loading |-> FALSE, filled |-> filled]]
  /\ UNCHANGED <<shellVars, actionVars, cardVars, queried, selectedModel>>

-----------------------------------------------------------------------------
(* The panel's button waits for the panel, the one in an empty panel and   *)
(* the quick action for the scan alone.                                    *)
SecurityScorePanel ==
  IF panels[SecurityPanel].loading \/ scanning THEN {} ELSE {"scan"}
QuickActions ==
  (IF scanning THEN {} ELSE {"scan"}) \cup (IF snapshotLoading THEN {} ELSE {"snapshot"})

handleAction(a) ==
  /\ DashboardShown /\ isConnected
  /\ a \in SecurityScorePanel \cup QuickActions
  /\ scanning' = (scanning \/ a = "scan")
  /\ snapshotLoading' = (snapshotLoading \/ a = "snapshot")
  /\ actions' = actions \cup {[kind |-> a, mine |-> TRUE]}
  /\ UNCHANGED <<shellVars, panelVars, toasts, cardVars, queried, selectedModel>>

(* A scan's summary is taken beside the panel's own calls; the failure of  *)
(* one keeps the summary there was.                                        *)
ActionReturns(a) ==
  /\ a \in actions /\ actions' = actions \ {a}
  /\ scanning' = (scanning /\ ~(a.mine /\ a.kind = "scan"))
  /\ snapshotLoading' = (snapshotLoading /\ ~(a.mine /\ a.kind = "snapshot"))
  /\ toasts' = IF a.mine THEN toasts + 1 ELSE toasts
  /\ \E ok \in BOOLEAN :
       /\ firstUse' = firstUse \cup
            (IF ~ok THEN {} ELSE {IF a.kind = "scan" THEN "securityScanRun" ELSE "snapshotTaken"})
       /\ panels' = IF ok /\ a.mine /\ a.kind = "scan"
                    THEN [panels EXCEPT ![SecurityPanel].filled = TRUE] ELSE panels
  /\ UNCHANGED <<shellVars, panelCalls, dismissed, queried, selectedModel>>

ToastExpires ==
  /\ toasts > 0 /\ toasts' = toasts - 1
  /\ UNCHANGED <<shellVars, panelVars, scanning, snapshotLoading, actions, cardVars, queried,
                 selectedModel>>

-----------------------------------------------------------------------------
DismissCard ==
  /\ CardShown /\ dismissed' = TRUE
  /\ UNCHANGED <<shellVars, panelVars, actionVars, firstUse, queried, selectedModel>>

(* In their own views: questions are asked and conversations deleted, a    *)
(* model is chosen.                                                        *)
Elsewhere ==
  /\ ~DashboardShown
  /\ queried' \in BOOLEAN /\ selectedModel' \in {selectedModel, TRUE}
  /\ UNCHANGED <<shellVars, panelVars, actionVars, cardVars>>

DashboardNext ==
  \/ OpenDashboard \/ RefreshDashboard \/ ToastExpires \/ DismissCard \/ Elsewhere
  \/ \E v \in Views : LeaveDashboard(v)
  \/ \E p \in DashboardPanels : PanelReturns(p)
  \/ \E a \in Actions : handleAction(a)
  \/ \E a \in actions : ActionReturns(a)

-----------------------------------------------------------------------------
(* A spinner turns only while its call is under way, so does an action's,  *)
(* and what the card shows as done on a connected dashboard is remembered, *)
(* but for the model.                                                      *)
DashboardTypeOK ==
  /\ \A p \in DashboardPanels : panels[p].loading => panelCalls[p] > 0
  /\ scanning <=> [kind |-> "scan", mine |-> TRUE] \in actions
  /\ snapshotLoading <=> [kind |-> "snapshot", mine |-> TRUE] \in actions
  /\ firstUse \subseteq FirstUses
  /\ DashboardShown /\ isConnected => flags \ {"aiConfigured"} = firstUse
  /\ ~DashboardShown => panels = Empty /\ toasts = 0
=============================================================================
