--------------------------- MODULE ProviderSettings ---------------------------
(***************************************************************************)
(* Which AI provider is used: the settings form (AIProviderSettings.tsx),  *)
(* the model chip and the consent dialog of the copilot (AIQueryView.tsx)  *)
(* and the file both write through SaveAISettings (app_settings.go).       *)
(* A model is named by the provider that offers it, no model by            *)
(* NoProvider; a provider may offer none.  Calls to the backend run beside *)
(* one another, and a save writes the settings its caller held, whatever   *)
(* was written since.                                                      *)
(***************************************************************************)
EXTENDS Naturals, FiniteSets

CONSTANTS
  Providers,
  Ollama,          \* asks for no consent, and is enabled and selected by default
  BuiltIn,         \* the providers the form knows models of (not LiteLLM)
  NoProvider,
  NoForm,
  MaxCalls,        \* bound: calls in flight
  MaxEdits         \* bound: steps of the user in the form and the copilot

ASSUME ProviderSettingsAssumption ==
  /\ Ollama \in Providers /\ BuiltIn \subseteq Providers
  /\ NoProvider \notin Providers
  /\ MaxCalls \in Nat \ {0} /\ MaxEdits \in Nat

VARIABLES
  disk,             \* the AI settings in the configuration file
  form,             \* the settings the open form holds
  refreshing,       \* fetches of models: for which provider, what the form held then,
                    \* and whether that form is still open
  saves,            \* SaveAISettings calls in flight
  availableModels,  \* the providers whose models the copilot listed when it was mounted
  selectedModel,    \* what it shows and sends
  consentDialog,    \* the provider it asks about
  edits

providerVars == <<disk, form, refreshing, saves, availableModels, selectedModel,
                  consentDialog, edits>>

(* The master switch, the providers that have an entry, those of them that  *)
(* are enabled, offer models and have a key, and what is selected.  Which   *)
(* models and which texts they are is not told apart.                       *)
Settings ==
  [on : BOOLEAN, listed : SUBSET Providers, enabled : SUBSET Providers,
   models : SUBSET Providers, keyed : SUBSET Providers,
   selectedProvider : Providers \cup {NoProvider}, selectedModel : Providers \cup {NoProvider}]

ProviderTypeOK ==
  /\ disk \in Settings
  /\ form \in Settings \cup {NoForm}
  /\ refreshing \subseteq [provider : Providers, settings : Settings, live : BOOLEAN]
  /\ saves \subseteq [settings : Settings, show : Providers \cup {NoProvider}]
  /\ availableModels \subseteq Providers
  /\ selectedModel \in Providers \cup {NoProvider}
  /\ consentDialog \in Providers \cup {NoProvider}
  /\ edits \in 0..MaxEdits

(* The default configuration: switched off, with Ollama enabled. *)
DefaultAI ==
  [on |-> FALSE, listed |-> {Ollama}, enabled |-> {Ollama}, models |-> {Ollama},
   keyed |-> {}, selectedProvider |-> Ollama, selectedModel |-> Ollama]

ProviderInit ==
  /\ disk = DefaultAI
  /\ form = NoForm
  /\ refreshing = {} /\ saves = {}
  /\ availableModels = {} /\ selectedModel = NoProvider
  /\ consentDialog = NoProvider
  /\ edits = 0

-----------------------------------------------------------------------------
(* A call of SaveAISettings; if it succeeds the copilot may have to show a  *)
(* model it waited to show.                                                 *)
Call(settings, show) ==
  /\ Cardinality(saves) < MaxCalls
  /\ saves' = saves \cup {[settings |-> settings, show |-> show]}

(* The entries that are sent replace those of the file, which keeps the     *)
(* others; the switch and the selection are the ones sent.                  *)
Overlaid(file, sent) ==
  LET Over(old, new) == new \cup (old \ sent.listed) IN
  [on |-> sent.on,
   listed |-> file.listed \cup sent.listed,
   enabled |-> Over(file.enabled, sent.enabled),
   models |-> Over(file.models, sent.models),
   keyed |-> Over(file.keyed, sent.keyed),
   selectedProvider |-> sent.selectedProvider,
   selectedModel |-> sent.selectedModel]

SaveAISettings(s) ==
  /\ saves' = saves \ {s}
  /\ \/ /\ disk' = Overlaid(disk, s.settings)
        /\ selectedModel' = IF s.show = NoProvider THEN selectedModel ELSE s.show
     \/ UNCHANGED <<disk, selectedModel>>  \* an endpoint is refused, or it is not written
  /\ \/ s.show # NoProvider /\ consentDialog' = NoProvider
     \/ UNCHANGED consentDialog           \* of a view that is gone
  /\ UNCHANGED <<form, refreshing, availableModels, edits>>

-----------------------------------------------------------------------------
Edit ==
  /\ edits < MaxEdits
  /\ edits' = edits + 1

(* The form has an entry for every provider, with its built-in models where *)
(* the file has none.                                                       *)
OpenForm ==
  /\ form = NoForm
  /\ form' = [disk EXCEPT !.listed = Providers, !.models = @ \cup BuiltIn]
  /\ UNCHANGED <<disk, refreshing, saves, availableModels, selectedModel, consentDialog, edits>>

CloseForm ==
  /\ form # NoForm
  /\ form' = NoForm
  /\ refreshing' = {[r EXCEPT !.live = FALSE] : r \in refreshing}
  /\ UNCHANGED <<disk, saves, availableModels, selectedModel, consentDialog, edits>>

(* The first model of a provider, if it offers any. *)
FirstModel(f, p) == IF p \in f.models THEN p ELSE NoProvider

Selecting(f, p) == [f EXCEPT !.selectedProvider = p, !.selectedModel = FirstModel(f, p)]

(* Mutant: switching the selected provider off selects no other. *)
ReselectedNone(f, p, enabled) ==
  IF p \in enabled
  THEN {IF f.selectedProvider = NoProvider THEN Selecting(f, p) ELSE f}
  ELSE {IF f.selectedProvider = p THEN Selecting(f, NoProvider) ELSE f}

(* What may be selected once p is switched on or off: the first provider    *)
(* that is enabled is selected, and another one when the selected goes.     *)
Reselected(f, p, enabled) ==
  IF p \in enabled
  THEN {IF f.selectedProvider = NoProvider THEN Selecting(f, p) ELSE f}
  ELSE IF f.selectedProvider # p THEN {f}
  ELSE {Selecting(f, q) : q \in IF enabled = {} THEN {NoProvider} ELSE enabled}

toggleEnabled(p) ==
  /\ form # NoForm
  /\ LET enabled == IF p \in form.enabled THEN form.enabled \ {p} ELSE form.enabled \cup {p} IN
     \E f \in Reselected(form, p, enabled) :
       form' = [f EXCEPT !.enabled = enabled, !.on = enabled # {}]
  /\ Call(form', NoProvider)
  /\ Edit
  /\ UNCHANGED <<disk, refreshing, availableModels, selectedModel, consentDialog>>

(* A card's fields and buttons work once its provider is enabled. *)
CanEdit(p) == form # NoForm /\ p \in form.enabled

setDefaultModel(p) ==
  /\ CanEdit(p) /\ p \in form.models
  /\ form' = [Selecting(form, p) EXCEPT !.on = TRUE]
  /\ Call(form', NoProvider)
  /\ Edit
  /\ UNCHANGED <<disk, refreshing, availableModels, selectedModel, consentDialog>>

(* The key and the endpoint are held in the form while they are typed and   *)
(* saved when the field is left; a form closed by a key press loses them.   *)
updateProviderConfigLocal(p) ==
  /\ CanEdit(p)
  /\ form' = [form EXCEPT !.keyed = @ \cup {p}]
  /\ Edit
  /\ UNCHANGED <<disk, refreshing, saves, availableModels, selectedModel, consentDialog>>

persistCurrent ==
  /\ form # NoForm
  /\ Call(form, NoProvider)
  /\ Edit
  /\ UNCHANGED <<disk, form, refreshing, availableModels, selectedModel, consentDialog>>

(* A fetch of a provider's models keeps the settings of the render it was   *)
(* asked from; the answer is put into those, shown if that form is still    *)
(* open, and saved in any case.                                             *)
handleRefreshModels(p) ==
  /\ CanEdit(p)
  /\ \A r \in refreshing : ~(r.provider = p /\ r.live)
  /\ Cardinality(refreshing) < MaxCalls
  /\ refreshing' = refreshing \cup {[provider |-> p, settings |-> form, live |-> TRUE]}
  /\ Edit
  /\ UNCHANGED <<disk, form, saves, availableModels, selectedModel, consentDialog>>

WithModels(f, p) == [f EXCEPT !.models = @ \cup {p}]

ModelsFetched(r) ==
  /\ refreshing' = refreshing \ {r}
  /\ \/ /\ form' = IF r.live THEN WithModels(r.settings, r.provider) ELSE form
        /\ Call(WithModels(r.settings, r.provider), NoProvider)
     \/ UNCHANGED <<form, saves>>  \* none, or an error
  /\ UNCHANGED <<disk, availableModels, selectedModel, consentDialog, edits>>

-----------------------------------------------------------------------------
(* The settings are read, changed and sent back. *)
persistSelection(p, show) ==
  Call([disk EXCEPT !.selectedProvider = p, !.selectedModel = p], show)

(* A model of p is taken.  The consent in the settings is looked up, but    *)
(* the backend neither stores nor returns one: a cloud provider always asks.*)
handleModelChange(p) ==
  IF p = Ollama
  THEN selectedModel' = p /\ persistSelection(p, NoProvider) /\ UNCHANGED consentDialog
  ELSE consentDialog' = p /\ UNCHANGED <<selectedModel, saves>>

(* The copilot is mounted, without a dialog: it lists the providers that    *)
(* are enabled and offer models and takes over the selected model, which    *)
(* nothing asks consent for.  With none selected it changes to the first.   *)
Listed(file) == file.enabled \cap file.models

loadAIConfig ==
  /\ form = NoForm /\ consentDialog = NoProvider
  /\ availableModels' = Listed(disk)
  /\ \/ /\ disk.selectedModel # NoProvider
        /\ selectedModel' = disk.selectedModel
        /\ UNCHANGED <<saves, consentDialog>>
     \/ /\ disk.selectedModel = NoProvider /\ Listed(disk) = {}
        /\ UNCHANGED <<selectedModel, saves, consentDialog>>
     \/ /\ disk.selectedModel = NoProvider
        /\ \E p \in Listed(disk) : handleModelChange(p)
  /\ UNCHANGED <<disk, form, refreshing, edits>>

(* The chip lists the models the copilot knows; the dialog and the settings *)
(* cover it.                                                                *)
ModelChip(p) ==
  /\ p \in availableModels /\ consentDialog = NoProvider /\ form = NoForm
  /\ handleModelChange(p)
  /\ Edit
  /\ UNCHANGED <<disk, form, refreshing, availableModels>>

(* The dialog stays until the selection is saved. *)
handleConsentAccept ==
  /\ consentDialog # NoProvider
  /\ persistSelection(consentDialog, consentDialog)
  /\ UNCHANGED <<disk, form, refreshing, availableModels, selectedModel, consentDialog, edits>>

handleConsentDecline ==
  /\ consentDialog # NoProvider
  /\ consentDialog' = NoProvider
  /\ UNCHANGED <<disk, form, refreshing, saves, availableModels, selectedModel, edits>>

handleConsentUseLocal ==
  /\ consentDialog # NoProvider
  /\ consentDialog' = NoProvider
  /\ \/ /\ Ollama \in availableModels
        /\ selectedModel' = Ollama /\ persistSelection(Ollama, NoProvider)
     \/ Ollama \notin availableModels /\ UNCHANGED <<selectedModel, saves>>
  /\ UNCHANGED <<disk, form, refreshing, availableModels, edits>>

-----------------------------------------------------------------------------
ProviderNext ==
  \/ OpenForm \/ CloseForm \/ loadAIConfig
  \/ \E p \in Providers :
       \/ toggleEnabled(p) \/ setDefaultModel(p) \/ updateProviderConfigLocal(p)
       \/ handleRefreshModels(p) \/ ModelChip(p)
  \/ persistCurrent
  \/ handleConsentAccept \/ handleConsentDecline \/ handleConsentUseLocal
  \/ \E s \in saves : SaveAISettings(s)
  \/ \E r \in refreshing : ModelsFetched(r)

ProviderSpec == ProviderInit /\ [][ProviderNext]_providerVars

-----------------------------------------------------------------------------
(* The settings in the form and in the file fit together, whatever was      *)
(* switched, fetched and saved in whatever order and with whatever copies:  *)
(* while a provider is enabled, one is selected; the master switch is on    *)
(* only with a provider enabled; and a selected model is one of the         *)
(* selected provider's.  There may be no model: a provider without models   *)
(* can be enabled, and selected.  (That the selected provider is enabled    *)
(* does not hold: the copilot's list may be older than the form's changes.) *)
DefaultIsKept ==
  \A s \in {form, disk} \ {NoForm} :
    /\ s.enabled # {} => s.selectedProvider # NoProvider
    /\ s.on => s.enabled # {}
    /\ s.selectedModel \in {s.selectedProvider, NoProvider}
=============================================================================
