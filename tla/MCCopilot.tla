------------------------------ MODULE MCCopilot ------------------------------
(***************************************************************************)
(* The copilot: its conversations, the choice of its provider, and the     *)
(* file and the keychain that hold its keys, which are looked at one at a  *)
(* time.                                                                   *)
(***************************************************************************)
EXTENDS AIQueryView, ProviderSettings, ConfigFile

VARIABLE focus

vars == <<aiVars, providerVars, configVars, focus>>

Init ==
  /\ focus \in {"conversations", "providers", "configuration"}
  /\ ViewInit /\ ProviderInit /\ ConfigInit
  /\ focus = "configuration" \/ ~readOnlySet

(* Bound: there are items in the context only until a command is run. *)
ContextBound ==
  contextQueue # {} =>
    \A q \in Queries : \A i \in DOMAIN reply[q].commands : reply[q].commands[i] = "pending"

Next ==
  /\ UNCHANGED focus
  /\ \/ focus = "conversations" /\ AINext /\ ContextBound' /\ UNCHANGED <<providerVars, configVars>>
     \/ focus = "providers" /\ ProviderNext /\ UNCHANGED <<aiVars, configVars>>
     \/ focus = "configuration" /\ ConfigNext /\ UNCHANGED <<aiVars, providerVars>>

Spec == Init /\ [][Next]_vars /\ AIFairness

-----------------------------------------------------------------------------
(* The copilot's state has its type: the active conversation exists, and    *)
(* what a reply shows was sent.                                             *)
TypeOK ==
  /\ focus = "conversations" => ViewTypeOK
  /\ focus = "providers" => ProviderTypeOK
  /\ focus = "configuration" => ConfigTypeOK
=============================================================================
