------------------------------- MODULE MCPages -------------------------------
(***************************************************************************)
(* The dashboard, the page of logs and the first launch for TLC, in the    *)
(* way of MCLists: a behaviour looks at one of them.                       *)
(***************************************************************************)
EXTENDS MCLists, LogsView, Dashboard, Onboarding

PageFocuses == {"logs", "dashboard", "onboarding"}
pagesVars == <<logsVars, dashboardVars, onboardingVars>>
PagesInit == LogsInit /\ DashboardInit /\ OnboardingInit

deployment == "deployment"
workloadTarget(t) == t = deployment

(* The user scrolls when nothing is under way, and disconnects while no    *)
(* answer is on its way back.                                              *)
LogsBound ==
  /\ OneCluster /\ activeView \in {"dashboard", "explorer", "logs"} /\ stops < 3
  /\ activeView = "dashboard" => selectedPod = NoTarget /\ connects = {} /\ ~isConnected
  /\ Cardinality(starts) + Cardinality(answers) + stops < 4
  /\ ~autoScroll => starts = {} /\ answers = {} /\ stops = 0
LogsFocus ==
  /\ focus = "logs" /\ UNCHANGED <<dashboardVars, onboardingVars>>
  /\ \/ (Connecting \/ Disconnecting) /\ LogsConnection
     \/ LogsNext
  /\ LogsBound'

(* One toast, and one thing that overlaps itself or another: the panels'   *)
(* calls, an action, or the frame's.                                       *)
DashboardBound ==
  /\ OneCluster /\ activeView \in {"dashboard", "query"} /\ toasts < 2
  /\ AtMost(1, <<actions # {}, connects # {} \/ dialogs # {},
                 \E p \in DashboardPanels : panelCalls[p] > 1>>)
  /\ Cardinality(actions) < 3
DashboardFocus ==
  /\ focus = "dashboard" /\ UNCHANGED <<logsVars, onboardingVars>>
  /\ \/ (Connecting \/ Disconnecting) /\ DashboardConnection
     \/ DashboardNext
  /\ DashboardBound'

OnboardingBound ==
  OneCluster /\ activeView \in {"dashboard", "query"} /\ Cardinality(dialogs) < 2
OnboardingFocus ==
  /\ focus = "onboarding" /\ UNCHANGED <<logsVars, dashboardVars>>
  /\ OnboardingNext /\ OnboardingBound'

PagesNext == LogsFocus \/ DashboardFocus \/ OnboardingFocus

(* Each page keeps what its streams, spinners and consents need. *)
PagesTypeOK ==
  /\ focus = "logs" => LogsTypeOK
  /\ focus = "dashboard" => DashboardTypeOK
  /\ focus = "onboarding" => OnboardingTypeOK
=============================================================================
