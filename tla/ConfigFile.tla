------------------------------ MODULE ConfigFile ------------------------------
(***************************************************************************)
(* The configuration file and the keychain over the launches of the app:   *)
(* config.go, internal/keychain, the migration at startup and the settings *)
(* handlers, which load the whole file, change their part and write it     *)
(* whole (app_settings.go, app_alerts.go, app_cost.go), with no lock.  A   *)
(* write empties the file before it fills it, and an empty file is loaded  *)
(* as the defaults.  Of the settings the API keys are kept, and readOnly,  *)
(* which no handler changes; the other sections go along with it.          *)
(***************************************************************************)
EXTENDS Naturals

CONSTANTS
  KeyedProviders,  \* providers that take an API key
  Keys,
  NoKey,           \* a provider's entry without a key
  NoEntry,         \* no entry for a provider
  Unreadable,      \* a file that does not parse
  NoSettings,      \* the window has not read the settings
  MaxHandlers,     \* bound: settings handlers in flight
  MaxSaves,        \* bound: settings handlers called
  MaxLaunches      \* bound: launches

ASSUME ConfigFileAssumption ==
  /\ NoKey \notin Keys /\ NoEntry \notin Keys \cup {NoKey}
  /\ MaxHandlers \in Nat /\ MaxSaves \in Nat /\ MaxLaunches \in Nat

VARIABLES
  file,         \* the settings it holds, or Unreadable
  keychain,     \* the key held for each provider
  available,    \* whether this launch can use the keychain: probed once
  launches, running,
  settings,     \* the keys in the window's copy of the settings
  writers,      \* the migration and the handlers in flight
  saved,        \* how many handlers were called
  asked,        \* the last query: the key it took, and the key held then
  entered,      \* auxiliary: the key the user has saved last for each provider and not
                \* deleted since, unless the keychain held another one by then
  readOnlySet,  \* auxiliary: what the user has put in the file
  disturbed     \* auxiliary: two have used the file at once, or a write was cut short

configVars == <<file, keychain, available, launches, running, settings, writers, saved,
                asked, entered, readOnlySet, disturbed>>

KeyMap == [KeyedProviders -> Keys \cup {NoKey}]
Entries == [KeyedProviders -> Keys \cup {NoKey, NoEntry}]
Config == [keys : Entries, readOnly : BOOLEAN]
NoKeys == [p \in KeyedProviders |-> NoKey]
(* What a file that is missing or empty is loaded as. *)
Default == [keys |-> [p \in KeyedProviders |-> NoEntry], readOnly |-> FALSE]

(* The migration writes as a handler does, after its own work. *)
Migration == 0
Writers == 0..MaxHandlers
Stages == {"idle", "moving", "loaded", "emptied", "overtaken"}
Idle == [stage |-> "idle", config |-> Default, left |-> {}, changed |-> FALSE, enters |-> NoKeys]
Busy == {w \in Writers : writers[w].stage # "idle"}
Writing == {w \in Writers : writers[w].stage \in {"emptied", "overtaken"}}
Becomes(w, writer) == writers' = [writers EXCEPT ![w] = writer]

NothingAsked == [key |-> NoKey, held |-> NoKey]

ConfigInit ==
  /\ readOnlySet \in BOOLEAN
  /\ file = [Default EXCEPT !.readOnly = readOnlySet]
  /\ keychain = NoKeys /\ available = FALSE
  /\ launches = 0 /\ running = FALSE /\ saved = 0
  /\ settings = NoSettings
  /\ writers = [w \in Writers |-> Idle]
  /\ asked = NothingAsked
  /\ entered = NoKeys /\ disturbed = FALSE

-----------------------------------------------------------------------------
(* A launch migrates the keys if the keychain can be used and the file read. *)
startup ==
  /\ ~running /\ launches < MaxLaunches
  /\ launches' = launches + 1 /\ running' = TRUE
  /\ available' \in BOOLEAN
  /\ IF available' /\ file # Unreadable
     THEN LET keyed == {p \in KeyedProviders : file.keys[p] \in Keys} IN
          IF keyed = {} THEN UNCHANGED writers
          ELSE Becomes(Migration, [Idle EXCEPT !.stage = "moving", !.config = file, !.left = keyed])
     ELSE UNCHANGED writers
  /\ UNCHANGED <<file, keychain, settings, saved, asked, entered, readOnlySet, disturbed>>

(* Mutant: the copy is blanked although the keychain has refused the key. *)
BlankedAnyway(held, key) ==
  {[held |-> key, copy |-> NoKey], [held |-> held, copy |-> NoKey]}

(* The keychain takes the key, in place of one it holds but could not be    *)
(* read, or refuses it; and where it is seen to hold one, that one stays    *)
(* and the newer copy is blanked all the same.                              *)
Migrated(held, key) ==
  {[held |-> key, copy |-> NoKey], [held |-> held, copy |-> key]}
    \cup (IF held = NoKey THEN {} ELSE {[held |-> held, copy |-> NoKey]})

(* Once every provider was looked at, the file is written if any key has gone. *)
MigrateAPIKeys(p) ==
  LET m == writers[Migration] IN
  /\ m.stage = "moving" /\ p \in m.left
  /\ \E outcome \in Migrated(keychain[p], m.config.keys[p]) :
       LET n == [m EXCEPT !.config.keys[p] = outcome.copy, !.left = @ \ {p},
                          !.changed = @ \/ outcome.copy = NoKey]
       IN /\ keychain' = [keychain EXCEPT ![p] = outcome.held]
          /\ Becomes(Migration, IF n.left # {} THEN n
                                ELSE IF n.changed THEN [n EXCEPT !.stage = "loaded"] ELSE Idle)
  /\ UNCHANGED <<file, available, launches, running, settings, saved, asked, entered,
                 readOnlySet, disturbed>>

(* Quitting, or a crash, drops what is under way. *)
Quit ==
  /\ running /\ running' = FALSE
  /\ settings' = NoSettings /\ asked' = NothingAsked
  /\ writers' = [w \in Writers |-> Idle]
  /\ disturbed' = (disturbed \/ Writing # {})
  /\ UNCHANGED <<file, keychain, available, launches, saved, entered, readOnlySet>>

(* The user edits the file by hand while the app is not running. *)
EditReadOnly ==
  /\ ~running /\ file # Unreadable
  /\ readOnlySet' = ~readOnlySet /\ file' = [file EXCEPT !.readOnly = readOnlySet']
  /\ UNCHANGED <<keychain, available, launches, running, settings, writers, saved, asked,
                 entered, disturbed>>

-----------------------------------------------------------------------------
(* The file is loaded while someone is between loading and writing it. *)
LoadDisturbs == disturbed' = (disturbed \/ Busy # {})

GetAISettings ==
  /\ running /\ file # Unreadable
  /\ settings' = file.keys
  /\ LoadDisturbs
  /\ UNCHANGED <<file, keychain, available, launches, running, writers, saved, asked,
                 entered, readOnlySet>>

(* A handler has loaded the file and changed its part. *)
Loads(w, config, enters) ==
  /\ running /\ file # Unreadable
  /\ w \in Writers \ {Migration} /\ writers[w] = Idle
  /\ saved < MaxSaves /\ saved' = saved + 1
  /\ Becomes(w, [Idle EXCEPT !.stage = "loaded", !.config = config, !.enters = enters])
  /\ LoadDisturbs
  /\ UNCHANGED <<file, keychain, available, launches, running, asked, readOnlySet>>

(* SaveAISettings puts the entries it is sent in the place of those there   *)
(* are, and leaves the others.                                              *)
Merged(stored, sent) ==
  [p \in KeyedProviders |-> IF sent[p] = NoEntry THEN stored[p] ELSE sent[p]]

(* What the user may count on once the entries are saved: a key that is     *)
(* entered although the keychain holds another one is given up by the next  *)
(* migration, so nothing is said of it.                                     *)
Promised(sent, before) ==
  [p \in KeyedProviders |->
    IF sent[p] \notin Keys THEN before[p]
    ELSE IF keychain[p] \in {NoKey, sent[p]} THEN sent[p] ELSE NoKey]

(* A provider's key is entered, deleted, or sent as it was with a change of *)
(* another field, with the window's whole copy, which keeps the change also *)
(* when it could not be saved.                                              *)
EnterKey(w, p, key) ==
  /\ settings # NoSettings
  /\ settings' = [settings EXCEPT ![p] = key]
  /\ entered' = IF key = NoKey /\ settings[p] \in Keys THEN [entered EXCEPT ![p] = NoKey] ELSE entered
  /\ Loads(w, [file EXCEPT !.keys = Merged(file.keys, settings')], Promised(settings', entered'))
SaveOtherSettings(w) ==
  Loads(w, file, entered) /\ UNCHANGED <<settings, entered>>

(* os.WriteFile: the file is opened and emptied, unless that fails ... *)
SaveTo(w) ==
  /\ writers[w].stage = "loaded"
  /\ \/ /\ file' = Default
        /\ entered' = IF w = Migration THEN entered ELSE writers[w].enters
        /\ writers' = [v \in Writers |->
             IF v = w \/ v \in Writing THEN [writers[v] EXCEPT !.stage = "emptied"]
             ELSE writers[v]]
     \/ Becomes(w, Idle) /\ UNCHANGED <<file, entered>>
  /\ UNCHANGED <<keychain, available, launches, running, settings, saved, asked, readOnlySet,
                 disturbed>>

(* ... and then written from its start, over what another has written       *)
(* meanwhile: what is longer there remains behind it.                       *)
Write(w) ==
  /\ w \in Writing
  /\ \/ /\ file' \in {writers[w].config}
                       \cup (IF writers[w].stage = "overtaken" THEN {Unreadable} ELSE {})
        /\ writers' = [v \in Writers |->
             IF v = w THEN Idle
             ELSE IF v \in Writing THEN [writers[v] EXCEPT !.stage = "overtaken"]
             ELSE writers[v]]
        /\ UNCHANGED disturbed
     \/ Becomes(w, Idle) /\ disturbed' = TRUE /\ UNCHANGED file
  /\ UNCHANGED <<keychain, available, launches, running, settings, saved, asked, entered,
                 readOnlySet>>

-----------------------------------------------------------------------------
(* The keychain first and the config second; nothing calls it. *)
GetProviderAPIKey(p, fallback) ==
  IF available /\ keychain[p] # NoKey THEN keychain[p] ELSE fallback

(* A query, streamed or not, of the agent or of a diagnosis: the key is the *)
(* one in the file; without one the query is refused.                       *)
AIQuery(p) ==
  /\ running /\ file # Unreadable
  /\ LET key == IF file.keys[p] = NoEntry THEN NoKey ELSE file.keys[p]
     IN asked' = [key |-> key, held |-> GetProviderAPIKey(p, key)]
  /\ UNCHANGED <<file, keychain, available, launches, running, settings, writers, saved,
                 entered, readOnlySet, disturbed>>

ConfigNext ==
  \/ startup \/ Quit \/ EditReadOnly \/ GetAISettings
  \/ \E p \in KeyedProviders : MigrateAPIKeys(p) \/ AIQuery(p)
  \/ \E w \in Writers :
       \/ SaveTo(w) \/ Write(w) \/ SaveOtherSettings(w)
       \/ \E p \in KeyedProviders, key \in Keys \cup {NoKey} : EnterKey(w, p, key)

ConfigSpec == ConfigInit /\ [][ConfigNext]_configVars

-----------------------------------------------------------------------------
ConfigTypeOK ==
  /\ file \in Config \cup {Unreadable} /\ keychain \in KeyMap
  /\ available \in BOOLEAN /\ running \in BOOLEAN
  /\ launches \in 0..MaxLaunches /\ saved \in 0..MaxSaves
  /\ settings \in Entries \cup {NoSettings}
  /\ writers \in [Writers -> [stage : Stages, config : Config, left : SUBSET KeyedProviders,
                              changed : BOOLEAN, enters : KeyMap]]
  /\ asked \in [key : Keys \cup {NoKey}, held : Keys \cup {NoKey}]
  /\ entered \in KeyMap /\ readOnlySet \in BOOLEAN /\ disturbed \in BOOLEAN

(* The very key that was saved last and not deleted since is in the         *)
(* keychain, in the file or about to be written, and the user's readOnly is *)
(* in the file, through launches with and without the keychain, keys it     *)
(* refuses or cannot find, and quits between a key's move and the save of   *)
(* the file: as long as no two have used the file at once and no write was  *)
(* cut short, and but for a key entered when the keychain held another.     *)
KeysHeld ==
  ~disturbed =>
    /\ \A p \in KeyedProviders : entered[p] # NoKey =>
         \/ keychain[p] = entered[p]
         \/ Writing = {} /\ file.keys[p] = entered[p]
         \/ \E w \in Writing : writers[w].config.keys[p] = entered[p]
    /\ Writing = {} => file.readOnly = readOnlySet

(* migrate.go:76 says of GetProviderAPIKey that it returns the key of a    *)
(* provider, checking the keychain first and the config second: a query    *)
(* takes that key.                                                         *)
HeldKeyIsAsked == asked.key = asked.held
=============================================================================
