----------------------------- MODULE Onboarding ------------------------------
(***************************************************************************)
(* The wizard of the first launch (OnboardingWizard.tsx) and the consent   *)
(* to telemetry that it ends with (useTelemetry.ts,                        *)
(* TelemetryConsentDialog.tsx, TelemetrySettings.tsx).  Every place that   *)
(* uses the telemetry hook reads the consent stored when it is mounted and *)
(* is not told of the choices made in another: the window, which stays     *)
(* mounted until it is launched again, the page of questions and the       *)
(* settings.                                                               *)
(***************************************************************************)
EXTENDS AppShell

STEP_LABELS == 1..4   \* "Welcome", "Cluster", "AI Setup", "Tour"
TOUR_STEPS == 1..4

VARIABLES
  wizard, tour,            \* 0, or the step shown; the tour's card
  completed,               \* remembered: the wizard is not opened by itself
  stored,                  \* the consent remembered
  consents,                \* and what each mounted hook takes for it
  showTelemetryConsent,
  tracked,                 \* connects whose success will be sent
  sent                     \* the stored consents under which an event was sent

onboardingVars == <<wizard, tour, completed, stored, consents, showTelemetryConsent,
                    tracked, sent>>
wizardVars == <<wizard, tour, completed>>
consentVars == <<stored, consents, showTelemetryConsent, tracked, sent>>

Consent == {"granted", "denied", "pending"}
Hooks == {"app", "settings", "query"}

(* The hook of a place that is mounted or goes away. *)
readConsent == stored
useTelemetry(hook, there) ==
  consents' = [consents EXCEPT ![hook] = IF there THEN readConsent ELSE "unmounted"]
OnlyApp == [app |-> readConsent, settings |-> "unmounted", query |-> "unmounted"]

OnboardingInit ==
  /\ stored = "pending" /\ completed = FALSE /\ wizard = 1 /\ tour = 1
  /\ consents = OnlyApp
  /\ showTelemetryConsent = FALSE /\ tracked = {} /\ sent = {}

(* An event is sent if the hook that sends it takes the consent for given. *)
track(hook) == sent' = sent \cup (IF consents[hook] = "granted" THEN {stored} ELSE {})

-----------------------------------------------------------------------------
(* The wizard is opened again from the getting-started card.  It covers    *)
(* the window, whose keys still work.                                      *)
OpenOnboarding ==
  /\ wizard = 0 /\ activeView = "dashboard" /\ isConnected
  /\ wizard' = 1 /\ tour' = 1
  /\ UNCHANGED <<shellVars, completed, consentVars>>

(* Continue: the cluster's step waits for a connection. *)
NextStep ==
  /\ wizard \in 1..3 /\ (wizard = 2 => isConnected)
  /\ wizard' = wizard + 1 /\ tour' = 1
  /\ UNCHANGED <<shellVars, completed, consentVars>>

(* The cards of the contexts, disabled while the window connects. *)
WizardConnect(x) ==
  /\ wizard = 2 /\ ~connecting /\ ~(isConnected /\ activeContext = x)
  /\ Connect(x)
  /\ tracked' = IF consents["app"] = "granted" THEN tracked \cup {x} ELSE tracked \ {x}
  /\ UNCHANGED <<wizardVars, stored, consents, showTelemetryConsent, sent>>

(* Back, next and the dots. *)
ShowTourStep(i) ==
  /\ wizard = 4 /\ i # tour /\ tour' = i
  /\ UNCHANGED <<shellVars, wizard, completed, consentVars>>

(* The end of the tour, and Skip from the second step on, which does the   *)
(* same: the consent is asked for if the window has seen none.             *)
onFinish ==
  /\ wizard > 1
  /\ wizard' = 0 /\ completed' = TRUE
  /\ showTelemetryConsent' = (showTelemetryConsent \/ consents["app"] = "pending")
  /\ UNCHANGED <<shellVars, tour, stored, consents, tracked, sent>>

-----------------------------------------------------------------------------
Record(hook, answer) ==
  /\ stored' = answer /\ consents' = [consents EXCEPT ![hook] = answer]
  /\ UNCHANGED <<wizardVars, tracked, sent>>

(* Escape, the cross and a click beside the dialog decline, too. *)
AnswerConsent(answer) ==
  /\ showTelemetryConsent /\ answer \in {"granted", "denied"}
  /\ showTelemetryConsent' = FALSE
  /\ Record("app", answer) /\ UNCHANGED shellVars

(* The settings' page is mounted with its tab and gone with it. *)
ShowTelemetrySettings ==
  /\ "settings" \in dialogs /\ consents["settings"] = "unmounted"
  /\ useTelemetry("settings", TRUE)
  /\ UNCHANGED <<shellVars, wizardVars, stored, showTelemetryConsent, tracked, sent>>
LeaveTelemetrySettings ==
  /\ "settings" \in dialogs /\ consents["settings"] # "unmounted"
  /\ useTelemetry("settings", FALSE)
  /\ UNCHANGED <<shellVars, wizardVars, stored, showTelemetryConsent, tracked, sent>>
ToggleTelemetry ==
  /\ "settings" \in dialogs /\ consents["settings"] # "unmounted"
  /\ Record("settings", IF consents["settings"] = "granted" THEN "denied" ELSE "granted")
  /\ UNCHANGED <<shellVars, showTelemetryConsent>>

(* A question is asked (AIQueryView). *)
AskQuestion ==
  /\ activeView = "query" /\ track("query")
  /\ UNCHANGED <<shellVars, wizardVars, stored, consents, showTelemetryConsent, tracked>>

OpenQuery ==
  /\ activeView # "query" /\ Navigate("query") /\ useTelemetry("query", TRUE)
  /\ UNCHANGED <<wizardVars, stored, showTelemetryConsent, tracked, sent>>
LeaveQuery(v) ==
  /\ activeView = "query" /\ v # "query" /\ Navigate(v) /\ useTelemetry("query", FALSE)
  /\ UNCHANGED <<wizardVars, stored, showTelemetryConsent, tracked, sent>>

-----------------------------------------------------------------------------
(* The frame's steps.  A connect sends its success with the consent the    *)
(* window had when it was asked for; closing the settings unmounts them.   *)
TrackedConnect(x) ==
  /\ handleConnect(x)
  /\ tracked' = IF consents["app"] = "granted" THEN tracked \cup {x} ELSE tracked \ {x}
  /\ UNCHANGED <<wizardVars, stored, consents, showTelemetryConsent, sent>>
TrackedSuccess(x) ==
  /\ NamespacesListed(x)
  /\ tracked' = tracked \ {x}
  /\ sent' = IF x \in tracked THEN sent \cup {stored} ELSE sent
  /\ UNCHANGED <<wizardVars, stored, consents, showTelemetryConsent>>
DialogsChange ==
  /\ (\E d \in {"menu", "settings"} : OpenDialog(d)) \/ Escape \/ DismissError
  /\ consents' = IF "settings" \in dialogs' THEN consents
                 ELSE [consents EXCEPT !["settings"] = "unmounted"]
  /\ UNCHANGED <<wizardVars, stored, showTelemetryConsent, tracked, sent>>

(* The program is closed and launched again: what is remembered is read.   *)
Relaunch ==
  /\ connected' = {} /\ selected' = NoContext
  /\ activeContext' = NoContext /\ isConnected' = FALSE /\ namespaces' = NoContext
  /\ connecting' = FALSE /\ connects' = {}
  /\ activeView' = "dashboard" /\ dialogs' = {}
  /\ wizard' = (IF completed THEN 0 ELSE 1) /\ tour' = 1
  /\ consents' = OnlyApp
  /\ showTelemetryConsent' = FALSE /\ tracked' = {} /\ sent' = {}
  /\ UNCHANGED <<stored, completed>>

OnboardingNext ==
  \/ OpenOnboarding \/ NextStep \/ onFinish \/ ShowTelemetrySettings \/ LeaveTelemetrySettings
  \/ ToggleTelemetry \/ AskQuestion \/ OpenQuery \/ DialogsChange \/ Relaunch
  \/ \E x \in Contexts : WizardConnect(x) \/ TrackedConnect(x) \/ TrackedSuccess(x)
  \/ \E x \in Contexts :
       /\ ConnectReturns(x) \/ ConnectFails(x)
       /\ UNCHANGED onboardingVars
  \/ \E i \in TOUR_STEPS : ShowTourStep(i)
  \/ \E answer \in Consent : AnswerConsent(answer)
  \/ \E v \in Views : LeaveQuery(v)

-----------------------------------------------------------------------------
(* The consent is asked for once the wizard is done, a hook is mounted with *)
(* its page, and no event is sent before a choice has been made.            *)
OnboardingTypeOK ==
  /\ wizard \in {0} \cup STEP_LABELS /\ tour \in TOUR_STEPS /\ stored \in Consent
  /\ consents["app"] \in Consent
  /\ consents["query"] # "unmounted" <=> activeView = "query"
  /\ consents["settings"] # "unmounted" => "settings" \in dialogs
  /\ showTelemetryConsent \/ wizard = 0 => completed
  /\ "pending" \notin sent
=============================================================================
