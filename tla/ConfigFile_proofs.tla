-------------------------- MODULE ConfigFile_proofs --------------------------
(***************************************************************************)
(* Proof that no key is lost while nobody disturbs another, for any        *)
(* providers, keys, handlers and launches.  Undisturbed, one writer at a   *)
(* time is between its load and its write; the invariant says what that    *)
(* writer carries, since for a while the file holds nothing.               *)
(***************************************************************************)
EXTENDS ConfigFile, TLAPS

Writer == [stage : Stages, config : Config, left : SUBSET KeyedProviders, changed : BOOLEAN,
           enters : KeyMap]

ConfigTyped ==
  /\ file \in Config \cup {Unreadable} /\ keychain \in KeyMap
  /\ settings \in Entries \cup {NoSettings}
  /\ writers \in [Writers -> Writer]
  /\ entered \in KeyMap /\ readOnlySet \in BOOLEAN

(* The keychain has what is wanted, or has nothing and the entry has it;    *)
(* and no entry has another key, which would take its place.                *)
Backed(wanted, keys) ==
  \A p \in KeyedProviders : wanted[p] # NoKey =>
    /\ \/ keychain[p] = wanted[p]
       \/ keychain[p] = NoKey /\ keys[p] = wanted[p]
    /\ keys[p] \in Keys => keys[p] = wanted[p]

(* Of the window's copy it matters where it has no key: sent, it would leave *)
(* the keychain alone to have it.                                           *)
Elsewhere(wanted, sent) ==
  sent # NoSettings =>
    \A p \in KeyedProviders : wanted[p] # NoKey /\ sent[p] \notin Keys => keychain[p] = wanted[p]

Alone == \A v, w \in Writers : writers[v].stage # "idle" /\ writers[w].stage # "idle" => v = w
CopyFits == Elsewhere(entered, settings)
FileFits ==
  (\A w \in Writers : writers[w].stage \notin {"emptied", "overtaken"}) =>
    file \in Config /\ file.readOnly = readOnlySet /\ Backed(entered, file.keys)

(* What a writer carries, and for whom once it writes. *)
Carries(writer, wanted) ==
  /\ writer.config.readOnly = readOnlySet
  /\ Backed(wanted, writer.config.keys)
  /\ Elsewhere(wanted, settings)
WriterFits(w) ==
  /\ writers[w].stage # "overtaken"
  /\ writers[w].stage = "loaded" /\ w # Migration => Carries(writers[w], writers[w].enters)
  /\ writers[w].stage # "loaded" \/ w = Migration => Carries(writers[w], entered)
WritersFit == \A w \in Writers : writers[w].stage # "idle" => WriterFits(w)

(* What is left to move is a key. *)
KeysMove ==
  \A w \in Writers : \A p \in writers[w].left :
    writers[w].stage = "moving" => writers[w].config.keys[p] \in Keys

QuitIdles == ~running => \A w \in Writers : writers[w].stage = "idle"

ConfigInv ==
  /\ ConfigTyped /\ QuitIdles /\ KeysMove
  /\ ~disturbed => Alone /\ CopyFits /\ FileFits /\ WritersFit

-----------------------------------------------------------------------------
LEMMA Defaults == Default \in Config /\ Idle \in Writer /\ Idle.stage = "idle"
BY DEF Default, Config, Idle, Writer, Stages, NoKeys, KeyMap, Entries

LEMMA ConfigStarts == ConfigInit => ConfigInv
<1> SUFFICES ASSUME ConfigInit PROVE ConfigInv
  OBVIOUS
<1>1. /\ file \in Config /\ file.readOnly = readOnlySet
      /\ keychain \in KeyMap /\ entered \in KeyMap /\ readOnlySet \in BOOLEAN
      /\ settings = NoSettings
      /\ \A p \in KeyedProviders : entered[p] = NoKey
  BY DEF ConfigInit, Default, Config, NoKeys, KeyMap, Entries
<1>2. writers \in [Writers -> Writer] /\ \A w \in Writers : writers[w].stage = "idle"
  BY Defaults DEF ConfigInit
<1> QED BY <1>1, <1>2
        DEF ConfigInv, ConfigTyped, QuitIdles, KeysMove, Alone, CopyFits, FileFits, WritersFit,
            Backed, Elsewhere

(* A writer goes on with new contents. *)
LEMMA Becoming ==
  ASSUME ConfigTyped, NEW w \in Writers, NEW r \in Writer, Becomes(w, r)
  PROVE /\ writers' \in [Writers -> Writer] /\ writers'[w] = r
        /\ \A v \in Writers \ {w} : writers'[v] = writers[v]
BY DEF Becomes, ConfigTyped

(* Where no writer is busy, the file has what was entered. *)
LEMMA UnusedFileFits ==
  ASSUME ConfigInv, ~disturbed, \A w \in Writers : writers[w].stage = "idle"
  PROVE file \in Config /\ file.readOnly = readOnlySet /\ Backed(entered, file.keys)
BY DEF ConfigInv, FileFits

-----------------------------------------------------------------------------
(* The writers the actions make. *)
LEMMA Staged ==
  ASSUME NEW r \in Writer, NEW s \in Stages
  PROVE  LET n == [r EXCEPT !.stage = s] IN
         /\ n \in Writer /\ n.stage = s /\ n.config = r.config /\ n.enters = r.enters
         /\ n.left = r.left
BY DEF Writer

LEMMA Loaded ==
  ASSUME NEW config \in Config, NEW enters \in KeyMap
  PROVE  LET n == [Idle EXCEPT !.stage = "loaded", !.config = config, !.enters = enters] IN
         n \in Writer /\ n.stage = "loaded" /\ n.config = config /\ n.enters = enters
BY Defaults DEF Writer, Stages, Idle

LEMMA Started ==
  ASSUME NEW config \in Config, NEW left \in SUBSET KeyedProviders
  PROVE  LET n == [Idle EXCEPT !.stage = "moving", !.config = config, !.left = left] IN
         n \in Writer /\ n.stage = "moving" /\ n.config = config /\ n.left = left
BY Defaults DEF Writer, Stages, Idle

-----------------------------------------------------------------------------
LEMMA LaunchFits ==
  ASSUME ConfigInv, startup
  PROVE  ConfigInv'
<1> USE DEF startup
<1> DEFINE keyed == {p \in KeyedProviders : file.keys[p] \in Keys}
           m == [Idle EXCEPT !.stage = "moving", !.config = file, !.left = keyed]
<1>1. ConfigTyped /\ \A w \in Writers : writers[w].stage = "idle"
  BY DEF ConfigInv, QuitIdles
<1>2. Migration \in Writers
  BY ConfigFileAssumption DEF Migration, Writers
<1>3. CASE UNCHANGED writers
  <2>1. ConfigTyped' /\ QuitIdles' /\ KeysMove'
    BY <1>1, <1>3 DEF ConfigTyped, QuitIdles, KeysMove
  <2>2. ASSUME ~disturbed' PROVE (Alone /\ CopyFits /\ FileFits /\ WritersFit)'
    BY <1>1, <1>3, <2>2
       DEF ConfigInv, Alone, CopyFits, FileFits, WritersFit, Backed, Elsewhere
  <2> QED BY <2>1, <2>2 DEF ConfigInv
<1>4. CASE file # Unreadable /\ Becomes(Migration, m)
  <2>1. file \in Config
    BY <1>1, <1>4 DEF ConfigTyped
  <2>2. /\ m \in Writer /\ m.stage = "moving" /\ m.config = file
        /\ \A p \in m.left : m.config.keys[p] \in Keys
    <3>1. keyed \in SUBSET KeyedProviders /\ \A p \in keyed : file.keys[p] \in Keys
      OBVIOUS
    <3> HIDE DEF startup, keyed
    <3>2. m \in Writer /\ m.stage = "moving" /\ m.config = file /\ m.left = keyed
      BY <2>1, <3>1, Started
    <3> QED BY <3>1, <3>2
  <2> HIDE DEF m
  <2>3. /\ writers' \in [Writers -> Writer] /\ writers'[Migration] = m
        /\ \A v \in Writers \ {Migration} : writers'[v] = writers[v]
    BY <1>1, <1>2, <1>4, <2>2, Becoming
  <2>4. ConfigTyped' /\ QuitIdles' /\ KeysMove'
    BY <1>1, <2>2, <2>3 DEF ConfigTyped, QuitIdles, KeysMove
  <2>5. ASSUME ~disturbed' PROVE (Alone /\ CopyFits /\ FileFits /\ WritersFit)'
    <3>1. CopyFits /\ file.readOnly = readOnlySet /\ Backed(entered, file.keys)
      BY <1>1, <2>5, UnusedFileFits DEF ConfigInv
    <3>2. Alone' /\ CopyFits'
      BY <1>1, <2>3, <3>1 DEF Alone, CopyFits, Elsewhere
    <3>3. FileFits'
      BY <2>1, <3>1 DEF FileFits, Backed
    <3>4. WritersFit'
      BY <1>1, <2>2, <2>3, <3>1 DEF WritersFit, WriterFits, Carries, CopyFits, Backed, Elsewhere
    <3> QED BY <3>2, <3>3, <3>4
  <2> QED BY <2>4, <2>5 DEF ConfigInv
<1> QED BY <1>3, <1>4

LEMMA QuitFits ==
  ASSUME ConfigInv, Quit
  PROVE  ConfigInv'
<1> USE DEF Quit
<1>1. writers' \in [Writers -> Writer] /\ \A w \in Writers : writers'[w].stage = "idle"
  BY Defaults
<1>2. ConfigTyped' /\ QuitIdles' /\ KeysMove'
  BY <1>1 DEF ConfigInv, ConfigTyped, QuitIdles, KeysMove
<1>3. ASSUME ~disturbed' PROVE (Alone /\ CopyFits /\ FileFits /\ WritersFit)'
  <2>1. FileFits /\ Writing = {} /\ ~disturbed
    BY <1>3 DEF ConfigInv
  <2>2. file \in Config /\ file.readOnly = readOnlySet /\ Backed(entered, file.keys)
    BY <2>1 DEF FileFits, Writing
  <2> QED BY <1>1, <2>2 DEF Alone, CopyFits, FileFits, WritersFit, Backed, Elsewhere
<1> QED BY <1>2, <1>3 DEF ConfigInv

LEMMA EditFits ==
  ASSUME ConfigInv, EditReadOnly
  PROVE  ConfigInv'
<1> USE DEF EditReadOnly
<1>1. ConfigTyped /\ \A w \in Writers : writers[w].stage = "idle"
  BY DEF ConfigInv, QuitIdles
<1>2. file \in Config
  BY <1>1 DEF ConfigTyped
<1>3. file' \in Config /\ file'.readOnly = readOnlySet' /\ file'.keys = file.keys
  BY <1>1, <1>2 DEF Config, ConfigTyped
<1>4. ConfigTyped' /\ QuitIdles' /\ KeysMove'
  BY <1>1, <1>3 DEF ConfigTyped, QuitIdles, KeysMove
<1>5. ASSUME ~disturbed' PROVE (Alone /\ CopyFits /\ FileFits /\ WritersFit)'
  BY <1>1, <1>3, <1>5, UnusedFileFits
     DEF ConfigInv, Alone, CopyFits, FileFits, WritersFit, Backed, Elsewhere
<1> QED BY <1>4, <1>5 DEF ConfigInv

LEMMA ReadFits ==
  ASSUME ConfigInv, GetAISettings
  PROVE  ConfigInv'
<1> USE DEF GetAISettings
<1>1. ConfigTyped' /\ QuitIdles' /\ KeysMove'
  BY DEF ConfigInv, ConfigTyped, QuitIdles, KeysMove, Config
<1>2. ASSUME ~disturbed' PROVE (Alone /\ CopyFits /\ FileFits /\ WritersFit)'
  <2>1. ~disturbed /\ \A w \in Writers : writers[w].stage = "idle"
    BY <1>2 DEF LoadDisturbs, Busy
  <2>2. file \in Config /\ file.readOnly = readOnlySet /\ Backed(entered, file.keys)
    BY <2>1, UnusedFileFits
  <2>3. \A p \in KeyedProviders : entered[p] # NoKey => entered[p] \in Keys
    BY DEF ConfigInv, ConfigTyped, KeyMap
  <2>4. Elsewhere(entered, file.keys)
    BY <2>2, <2>3 DEF Backed, Elsewhere
  <2>5. CopyFits'
    BY <2>4 DEF CopyFits, Elsewhere
  <2> QED BY <2>1, <2>2, <2>5 DEF ConfigInv, Alone, FileFits, WritersFit, Backed
<1> QED BY <1>1, <1>2 DEF ConfigInv

-----------------------------------------------------------------------------
(* A handler that loads the file among idle writers and carries what fits. *)
LEMMA LoadFits ==
  ASSUME ConfigInv, NEW w \in Writers, NEW config \in Config, NEW enters \in KeyMap,
         Loads(w, config, enters),
         settings' \in Entries \cup {NoSettings}, entered' \in KeyMap,
         ~disturbed' =>
           /\ config.readOnly = readOnlySet
           /\ \A p \in KeyedProviders : entered'[p] \in {NoKey, entered[p]}
           /\ Backed(enters, config.keys)
           /\ Elsewhere(enters, settings') /\ Elsewhere(entered', settings')
  PROVE  ConfigInv'
<1> DEFINE r == [Idle EXCEPT !.stage = "loaded", !.config = config, !.enters = enters]
<1>1. r \in Writer /\ r.stage = "loaded" /\ r.config = config /\ r.enters = enters
  BY Loaded
<1>2. Becomes(w, r) /\ running' /\ w # Migration /\ LoadDisturbs
      /\ UNCHANGED <<file, keychain, readOnlySet>>
  BY DEF Loads, ConfigInv, QuitIdles
<1> HIDE DEF r
<1>3. /\ writers' \in [Writers -> Writer] /\ writers'[w] = r
      /\ \A v \in Writers \ {w} : writers'[v] = writers[v]
  BY <1>1, <1>2, Becoming DEF ConfigInv
<1>4. ConfigTyped' /\ QuitIdles' /\ KeysMove'
  BY <1>1, <1>2, <1>3 DEF ConfigInv, ConfigTyped, QuitIdles, KeysMove
<1>5. ASSUME ~disturbed' PROVE (Alone /\ CopyFits /\ FileFits /\ WritersFit)'
  <2>1. ~disturbed /\ \A v \in Writers : writers[v].stage = "idle"
    BY <1>2, <1>5 DEF LoadDisturbs, Busy
  <2>2. file \in Config /\ file.readOnly = readOnlySet /\ Backed(entered, file.keys)
    BY <2>1, UnusedFileFits
  <2>3. Alone' /\ CopyFits' /\ FileFits'
    BY <1>2, <1>3, <1>5, <2>1, <2>2 DEF Alone, CopyFits, FileFits, Backed, Elsewhere
  <2>4. WritersFit'
    BY <1>1, <1>2, <1>3, <1>5, <2>1 DEF WritersFit, WriterFits, Carries, Backed, Elsewhere
  <2> QED BY <2>3, <2>4
<1> QED BY <1>4, <1>5 DEF ConfigInv

LEMMA OtherSettingsFit ==
  ASSUME ConfigInv, NEW w \in Writers, SaveOtherSettings(w)
  PROVE  ConfigInv'
<1>1. Loads(w, file, entered) /\ UNCHANGED <<settings, entered>> /\ ConfigTyped
  BY DEF SaveOtherSettings, ConfigInv
<1>2. file \in Config /\ UNCHANGED <<keychain, readOnlySet>>
  BY <1>1 DEF Loads, ConfigTyped
<1>3. ASSUME ~disturbed'
      PROVE  file.readOnly = readOnlySet /\ Backed(entered, file.keys) /\ CopyFits
  <2>1. ~disturbed /\ \A v \in Writers : writers[v].stage = "idle"
    BY <1>1, <1>3 DEF Loads, LoadDisturbs, Busy
  <2> QED BY <2>1, UnusedFileFits DEF ConfigInv
<1>4. settings' \in Entries \cup {NoSettings} /\ entered' \in KeyMap /\ entered \in KeyMap
  BY <1>1 DEF ConfigTyped
<1> QED BY <1>1, <1>2, <1>3, <1>4, LoadFits DEF Backed, CopyFits

LEMMA EnterFits ==
  ASSUME ConfigInv, NEW w \in Writers, NEW p \in KeyedProviders,
         NEW key \in Keys \cup {NoKey}, EnterKey(w, p, key)
  PROVE  ConfigInv'
<1> USE ConfigFileAssumption
<1> DEFINE keys == Merged(file.keys, settings')
           config == [file EXCEPT !.keys = keys]
           enters == Promised(settings', entered')
<1>1. /\ Loads(w, config, enters) /\ ConfigTyped /\ settings # NoSettings
      /\ settings' = [settings EXCEPT ![p] = key]
      /\ entered' = IF key = NoKey /\ settings[p] \in Keys
                     THEN [entered EXCEPT ![p] = NoKey] ELSE entered
  BY DEF EnterKey, ConfigInv
<1>2. /\ settings \in Entries /\ settings' \in Entries
      /\ entered \in KeyMap /\ entered' \in KeyMap /\ keychain \in KeyMap
  BY <1>1 DEF ConfigTyped, KeyMap, Entries
<1>3. file \in Config /\ file.keys \in Entries
  BY <1>1 DEF Loads, ConfigTyped, Config
<1>4. keys \in Entries /\ enters \in KeyMap
  BY <1>2, <1>3 DEF Merged, Promised, Entries, KeyMap
<1>5. config \in Config /\ config.keys = keys /\ config.readOnly = file.readOnly
  <2> HIDE DEF keys
  <2> QED BY <1>3, <1>4 DEF Config
<1>6. /\ \A q \in KeyedProviders :
           /\ keys[q] = IF settings'[q] = NoEntry THEN file.keys[q] ELSE settings'[q]
           /\ enters[q] = IF settings'[q] \notin Keys THEN entered'[q]
                          ELSE IF keychain[q] \in {NoKey, settings'[q]} THEN settings'[q] ELSE NoKey
           /\ entered'[q] \in {NoKey, entered[q]}
           /\ entered'[q] # NoKey /\ settings'[q] \notin Keys => settings[q] \notin Keys
  BY <1>1, <1>2 DEF Merged, Promised, Entries, KeyMap
<1> HIDE DEF config, enters, keys
<1>7. ASSUME ~disturbed'
      PROVE  file.readOnly = readOnlySet /\ Backed(entered, file.keys) /\ Elsewhere(entered, settings)
  <2>1. ~disturbed /\ \A v \in Writers : writers[v].stage = "idle"
    BY <1>1, <1>7 DEF Loads, LoadDisturbs, Busy
  <2> QED BY <2>1, UnusedFileFits DEF ConfigInv, CopyFits
<1>8. ASSUME ~disturbed'
      PROVE  /\ Backed(enters, keys)
             /\ Elsewhere(enters, settings') /\ Elsewhere(entered', settings')
  <2>1. ASSUME NEW q \in KeyedProviders, entered'[q] # NoKey, settings'[q] \notin Keys
        PROVE  keychain[q] = entered'[q]
    BY <1>1, <1>6, <1>7, <1>8, <2>1 DEF Elsewhere
  <2>2. ASSUME NEW q \in KeyedProviders, enters[q] # NoKey
        PROVE  /\ \/ keychain[q] = enters[q]
                  \/ keychain[q] = NoKey /\ keys[q] = enters[q]
               /\ keys[q] \in Keys => keys[q] = enters[q]
               /\ settings'[q] \notin Keys => keychain[q] = enters[q]
    <3>1. CASE settings'[q] \in Keys
      BY <1>2, <1>6, <2>2, <3>1
    <3>2. CASE settings'[q] \notin Keys
      <4>1. enters[q] = entered'[q] /\ entered[q] = entered'[q] /\ keychain[q] = entered'[q]
        BY <1>6, <2>1, <2>2, <3>2
      <4>2. file.keys[q] \in Keys => file.keys[q] = entered[q]
        BY <1>7, <1>8, <2>2, <4>1 DEF Backed
      <4> QED BY <1>6, <3>2, <4>1, <4>2
    <3> QED BY <3>1, <3>2
  <2> QED BY <2>1, <2>2 DEF Backed, Elsewhere
<1> QED BY <1>1, <1>2, <1>4, <1>5, <1>6, <1>7, <1>8, LoadFits

-----------------------------------------------------------------------------
LEMMA KeyMoveFits ==
  ASSUME ConfigInv, NEW p \in KeyedProviders, MigrateAPIKeys(p)
  PROVE  ConfigInv'
<1> DEFINE m == writers[Migration]
<1>1. /\ ConfigTyped /\ Migration \in Writers /\ m \in Writer /\ m.stage = "moving"
      /\ keychain \in KeyMap /\ m.config.keys \in Entries
  BY ConfigFileAssumption
     DEF ConfigInv, ConfigTyped, Migration, Writers, MigrateAPIKeys, Writer, Config
<1>0. p \in m.left /\ m.config.keys[p] \in Keys
  BY <1>1 DEF ConfigInv, KeysMove, MigrateAPIKeys
<1>2. PICK outcome \in Migrated(keychain[p], m.config.keys[p]) :
        LET n == [m EXCEPT !.config.keys[p] = outcome.copy, !.left = @ \ {p},
                           !.changed = @ \/ outcome.copy = NoKey]
        IN /\ keychain' = [keychain EXCEPT ![p] = outcome.held]
           /\ Becomes(Migration, IF n.left # {} THEN n
                                 ELSE IF n.changed THEN [n EXCEPT !.stage = "loaded"] ELSE Idle)
  BY DEF MigrateAPIKeys
<1> DEFINE changed == m.changed \/ outcome.copy = NoKey
           n == [m EXCEPT !.config.keys[p] = outcome.copy, !.left = @ \ {p}, !.changed = changed]
           r == IF n.left # {} THEN n
                ELSE IF n.changed THEN [n EXCEPT !.stage = "loaded"] ELSE Idle
<1>3. /\ outcome.held \in Keys \cup {NoKey} /\ outcome.copy \in {m.config.keys[p], NoKey}
      /\ outcome.held \in {keychain[p], m.config.keys[p]}
      /\ outcome.copy = NoKey => outcome.held # NoKey
  BY <1>0, <1>1, <1>2, ConfigFileAssumption DEF Migrated, KeyMap
<1>4. /\ keychain' \in KeyMap /\ keychain'[p] = outcome.held
      /\ \A q \in KeyedProviders \ {p} : keychain'[q] = keychain[q]
  BY <1>1, <1>2, <1>3 DEF KeyMap
<1>5. /\ n \in Writer /\ n.stage = "moving" /\ n.config.readOnly = m.config.readOnly
      /\ n.config.keys = [m.config.keys EXCEPT ![p] = outcome.copy]
      /\ n.left = m.left \ {p}
  <2>1. changed \in BOOLEAN
    BY <1>1 DEF Writer
  <2>2. outcome.copy \in Keys \cup {NoKey} /\ m.config \in Config
    BY <1>0, <1>1, <1>3 DEF Writer
  <2> HIDE DEF changed, m
  <2>3. [m.config.keys EXCEPT ![p] = outcome.copy] \in Entries
    BY <1>1, <2>2 DEF Entries
  <2>4. [m.config EXCEPT !.keys[p] = outcome.copy] \in Config
    BY <2>2, <2>3 DEF Config
  <2> QED BY <1>1, <2>1, <2>2, <2>3, <2>4 DEF Writer, Config
<1>6. Becomes(Migration, r)
  BY <1>2
<1> HIDE DEF n
<1>7. /\ r \in Writer
      /\ r.stage # "idle" =>
           r.config = n.config /\ r.stage \in {"moving", "loaded"} /\ r.left = n.left
  BY <1>5, Staged, Defaults DEF Stages
<1> HIDE DEF r
<1>8. /\ writers' \in [Writers -> Writer] /\ writers'[Migration] = r
      /\ \A v \in Writers \ {Migration} : writers'[v] = writers[v]
  BY <1>1, <1>6, <1>7, Becoming
<1>9. UNCHANGED <<file, running, settings, entered, readOnlySet, disturbed>>
  BY DEF MigrateAPIKeys
<1>10. ConfigTyped' /\ QuitIdles'
  BY <1>1, <1>4, <1>8, <1>9 DEF ConfigInv, ConfigTyped, QuitIdles
<1>11. KeysMove'
  <2>1. \A q \in n.left : n.config.keys[q] \in Keys
    BY <1>1, <1>5 DEF ConfigInv, KeysMove, Entries, Writer
  <2> QED BY <1>7, <1>8, <2>1 DEF ConfigInv, KeysMove
<1>12. ASSUME ~disturbed' PROVE (Alone /\ CopyFits /\ FileFits /\ WritersFit)'
  <2>1. Alone /\ CopyFits /\ FileFits /\ Carries(m, entered)
    BY <1>1, <1>9, <1>12 DEF ConfigInv, WritersFit, WriterFits
  <2>2. \A v \in Writers \ {Migration} : writers[v].stage = "idle"
    BY <1>1, <2>1 DEF Alone
  <2>3. \A q \in KeyedProviders : entered[q] # NoKey /\ keychain[q] = entered[q] =>
          keychain'[q] = entered[q]
    <3>1. m.config.keys[p] = entered[p] \/ entered[p] = NoKey
      BY <1>0, <2>1 DEF Carries, Backed
    <3> QED BY <1>3, <1>4, <3>1
  <2>4. file \in Config /\ file.readOnly = readOnlySet /\ Backed(entered, file.keys)
    BY <1>1, <2>1, <2>2 DEF FileFits
  <2>5. \A q \in KeyedProviders : entered[q] # NoKey =>
          keychain'[q] = entered[q] \/ (keychain'[q] = NoKey /\ keychain[q] = NoKey)
    <3>1. m.config.keys[p] = entered[p] \/ entered[p] = NoKey
      BY <1>0, <2>1 DEF Carries, Backed
    <3>2. \A q \in KeyedProviders : entered[q] # NoKey => keychain[q] \in {NoKey, entered[q]}
      BY <2>4 DEF Backed
    <3>3. ASSUME entered[p] # NoKey
          PROVE  keychain'[p] = entered[p] \/ (keychain'[p] = NoKey /\ keychain[p] = NoKey)
      BY <1>3, <1>4, <3>1, <3>2, <3>3
    <3>4. ASSUME NEW q \in KeyedProviders \ {p}, entered[q] # NoKey
          PROVE  keychain'[q] = entered[q] \/ (keychain'[q] = NoKey /\ keychain[q] = NoKey)
      BY <1>4, <3>2, <3>4
    <3> QED BY <3>3, <3>4
  <2>6. Backed(entered, file.keys)'
    BY <1>9, <2>4, <2>5 DEF Backed
  <2>7. Elsewhere(entered, settings)'
    BY <1>9, <2>1, <2>3 DEF CopyFits, Elsewhere
  <2>8. Alone' /\ CopyFits' /\ FileFits'
    BY <1>1, <1>8, <1>9, <2>1, <2>2, <2>4, <2>6, <2>7 DEF Alone, CopyFits, FileFits
  <2>9. \A q \in KeyedProviders : entered[q] # NoKey =>
          /\ \/ keychain'[q] = entered[q]
             \/ keychain'[q] = NoKey /\ n.config.keys[q] = entered[q]
          /\ n.config.keys[q] \in Keys => n.config.keys[q] = entered[q]
    <3> SUFFICES ASSUME NEW q \in KeyedProviders, entered[q] # NoKey
                 PROVE  /\ \/ keychain'[q] = entered[q]
                           \/ keychain'[q] = NoKey /\ n.config.keys[q] = entered[q]
                        /\ n.config.keys[q] \in Keys => n.config.keys[q] = entered[q]
      OBVIOUS
    <3>1. /\ \/ keychain[q] = entered[q]
             \/ keychain[q] = NoKey /\ m.config.keys[q] = entered[q]
          /\ m.config.keys[q] \in Keys => m.config.keys[q] = entered[q]
      BY <2>1 DEF Carries, Backed
    <3>2. CASE q # p
      <4>1. n.config.keys[q] = m.config.keys[q] /\ keychain'[q] = keychain[q]
        BY <1>1, <1>4, <1>5, <3>2 DEF Entries
      <4> QED BY <3>1, <4>1
    <3>3. CASE q = p
      <4>1. n.config.keys[p] = outcome.copy /\ keychain'[p] = outcome.held
        BY <1>1, <1>4, <1>5 DEF Entries
      <4>2. m.config.keys[p] = entered[p]
        BY <1>0, <3>1, <3>3
      <4> QED BY <1>0, <1>3, <2>5, <3>3, <4>1, <4>2, ConfigFileAssumption
    <3> QED BY <3>2, <3>3
  <2>10. WritersFit'
    <3>1. r.stage # "idle" => WriterFits(Migration)'
      <4> SUFFICES ASSUME r.stage # "idle" PROVE WriterFits(Migration)'
        OBVIOUS
      <4>1. r.config = n.config /\ r.stage \in {"moving", "loaded"}
        BY <1>7
      <4> QED BY <1>5, <1>8, <1>9, <2>1, <2>7, <2>9, <4>1 DEF WriterFits, Carries, Backed
    <3> QED BY <1>8, <2>2, <3>1 DEF WritersFit
  <2> QED BY <2>8, <2>10
<1> QED BY <1>10, <1>11, <1>12 DEF ConfigInv

LEMMA SaveFits ==
  ASSUME ConfigInv, NEW w \in Writers, SaveTo(w)
  PROVE  ConfigInv'
<1>1. /\ ConfigTyped /\ writers[w] \in Writer /\ writers[w].stage = "loaded"
      /\ UNCHANGED <<keychain, running, settings, readOnlySet, disturbed>>
  BY DEF ConfigInv, ConfigTyped, SaveTo
<1>2. CASE /\ file' = Default
           /\ entered' = IF w = Migration THEN entered ELSE writers[w].enters
           /\ writers' = [v \in Writers |->
                IF v = w \/ v \in Writing THEN [writers[v] EXCEPT !.stage = "emptied"]
                ELSE writers[v]]
  <2>1. entered' \in KeyMap /\ file' \in Config
    BY <1>1, <1>2, Defaults DEF ConfigTyped, Writer
  <2>2. \A v \in Writers : [writers[v] EXCEPT !.stage = "emptied"] \in Writer
    BY <1>1, Staged DEF ConfigTyped, Stages
  <2>3. writers' \in [Writers -> Writer] /\ \A v \in Writers : writers'[v] \in Writer
    BY <1>1, <1>2, <2>2 DEF ConfigTyped
  <2>4. \A v \in Writers : writers[v].stage = "idle" => writers'[v].stage = "idle"
    BY <1>1, <1>2 DEF Writing
  <2>5. \A v \in Writers : writers'[v] = writers[v] \/ writers'[v].stage = "emptied"
    BY <1>1, <1>2 DEF ConfigTyped, Writer
  <2>6. ConfigTyped' /\ QuitIdles' /\ KeysMove'
    BY <1>1, <2>1, <2>3, <2>4, <2>5 DEF ConfigInv, ConfigTyped, QuitIdles, KeysMove
  <2>7. ASSUME ~disturbed' PROVE (Alone /\ CopyFits /\ FileFits /\ WritersFit)'
    <3>1. Alone /\ WriterFits(w)
      BY <1>1, <2>7 DEF ConfigInv, WritersFit
    <3>2. \A v \in Writers \ {w} : writers'[v].stage = "idle"
      BY <1>1, <2>4, <3>1 DEF Alone
    <3>3. writers'[w].stage = "emptied" /\ writers'[w].config = writers[w].config
      BY <1>1, <1>2 DEF Writer
    <3>4. Carries(writers[w], entered')
      BY <1>1, <1>2, <3>1 DEF WriterFits
    <3>5. Alone' /\ CopyFits' /\ FileFits'
      BY <1>1, <3>2, <3>3, <3>4 DEF Alone, CopyFits, FileFits, Carries, Backed, Elsewhere
    <3>6. WritersFit'
      BY <1>1, <3>2, <3>3, <3>4 DEF WritersFit, WriterFits, Carries, Backed, Elsewhere
    <3> QED BY <3>5, <3>6
  <2> QED BY <2>6, <2>7 DEF ConfigInv
<1>3. CASE Becomes(w, Idle) /\ UNCHANGED <<file, entered>>
  <2>1. /\ writers' \in [Writers -> Writer] /\ writers'[w].stage = "idle"
        /\ \A v \in Writers \ {w} : writers'[v] = writers[v]
    BY <1>1, <1>3, Defaults, Becoming
  <2>2. ConfigTyped' /\ QuitIdles' /\ KeysMove'
    BY <1>1, <1>3, <2>1 DEF ConfigInv, ConfigTyped, QuitIdles, KeysMove
  <2>3. ASSUME ~disturbed' PROVE (Alone /\ CopyFits /\ FileFits /\ WritersFit)'
    <3>1. Alone /\ CopyFits /\ FileFits
      BY <1>1, <2>3 DEF ConfigInv
    <3>2. \A v \in Writers \ {w} : writers[v].stage = "idle"
      BY <1>1, <3>1 DEF Alone
    <3>3. file \in Config /\ file.readOnly = readOnlySet /\ Backed(entered, file.keys)
      BY <1>1, <3>1, <3>2 DEF FileFits
    <3> QED BY <1>1, <1>3, <2>1, <3>1, <3>2, <3>3
          DEF Alone, CopyFits, FileFits, WritersFit, Backed, Elsewhere
  <2> QED BY <2>2, <2>3 DEF ConfigInv
<1> QED BY <1>2, <1>3 DEF SaveTo

LEMMA WriteFits ==
  ASSUME ConfigInv, NEW w \in Writers, Write(w)
  PROVE  ConfigInv'
<1>1. /\ ConfigTyped /\ writers[w] \in Writer /\ writers[w].stage \in {"emptied", "overtaken"}
      /\ UNCHANGED <<keychain, running, settings, entered, readOnlySet>>
  BY DEF ConfigInv, ConfigTyped, Write, Writing
<1>2. CASE /\ file' \in {writers[w].config}
                       \cup (IF writers[w].stage = "overtaken" THEN {Unreadable} ELSE {})
           /\ writers' = [v \in Writers |->
                IF v = w THEN Idle
                ELSE IF v \in Writing THEN [writers[v] EXCEPT !.stage = "overtaken"]
                ELSE writers[v]]
           /\ UNCHANGED disturbed
  <2>1. file' \in Config \cup {Unreadable}
    BY <1>1, <1>2 DEF Writer
  <2>2. \A v \in Writers : [writers[v] EXCEPT !.stage = "overtaken"] \in Writer
    BY <1>1, Staged DEF ConfigTyped, Stages
  <2>3. writers' \in [Writers -> Writer]
    BY <1>1, <1>2, <2>2, Defaults DEF ConfigTyped
  <2>4. \A v \in Writers : writers[v].stage = "idle" \/ v = w => writers'[v].stage = "idle"
    BY <1>1, <1>2, Defaults DEF Writing
  <2>5. \A v \in Writers :
          writers'[v] = writers[v] \/ writers'[v].stage \in {"idle", "overtaken"}
    BY <1>1, <1>2, Defaults DEF ConfigTyped, Writer
  <2>6. ConfigTyped' /\ QuitIdles' /\ KeysMove'
    BY <1>1, <2>1, <2>3, <2>4, <2>5 DEF ConfigInv, ConfigTyped, QuitIdles, KeysMove
  <2>7. ASSUME ~disturbed' PROVE (Alone /\ CopyFits /\ FileFits /\ WritersFit)'
    <3>1. Alone /\ CopyFits /\ WriterFits(w)
      BY <1>1, <1>2, <2>7 DEF ConfigInv, WritersFit
    <3>2. \A v \in Writers : writers'[v].stage = "idle"
      BY <1>1, <2>4, <3>1 DEF Alone
    <3>3. file' = writers[w].config /\ file' \in Config /\ Carries(writers[w], entered)
      BY <1>1, <1>2, <3>1 DEF WriterFits, Writer
    <3> QED BY <1>1, <3>1, <3>2, <3>3
          DEF Alone, CopyFits, FileFits, WritersFit, Carries, Backed, Elsewhere
  <2> QED BY <2>6, <2>7 DEF ConfigInv
<1>3. CASE Becomes(w, Idle) /\ disturbed' = TRUE /\ UNCHANGED file
  <2>1. /\ writers' \in [Writers -> Writer] /\ writers'[w].stage = "idle"
        /\ \A v \in Writers \ {w} : writers'[v] = writers[v]
    BY <1>1, <1>3, Defaults, Becoming
  <2> QED BY <1>1, <1>3, <2>1 DEF ConfigInv, ConfigTyped, QuitIdles, KeysMove
<1> QED BY <1>2, <1>3 DEF Write

(* Nothing of what the invariant is about changes. *)
LEMMA KeptFits ==
  ASSUME ConfigInv,
         UNCHANGED <<file, keychain, running, settings, writers, entered, readOnlySet, disturbed>>
  PROVE  ConfigInv'
BY DEF ConfigInv, ConfigTyped, QuitIdles, Alone, CopyFits, FileFits, WritersFit, WriterFits,
       Carries, Backed, Elsewhere, KeysMove

LEMMA ConfigStep == ConfigInv /\ [ConfigNext]_configVars => ConfigInv'
<1> SUFFICES ASSUME ConfigInv, [ConfigNext]_configVars PROVE ConfigInv'
  OBVIOUS
<1>1. CASE startup
  BY <1>1, LaunchFits
<1>2. CASE Quit
  BY <1>2, QuitFits
<1>3. CASE EditReadOnly
  BY <1>3, EditFits
<1>4. CASE GetAISettings
  BY <1>4, ReadFits
<1>5. CASE \E p \in KeyedProviders : MigrateAPIKeys(p) \/ AIQuery(p)
  BY <1>5, KeyMoveFits, KeptFits DEF AIQuery
<1>6. CASE \E w \in Writers :
             \/ SaveTo(w) \/ Write(w) \/ SaveOtherSettings(w)
             \/ \E p \in KeyedProviders, key \in Keys \cup {NoKey} : EnterKey(w, p, key)
  BY <1>6, SaveFits, WriteFits, OtherSettingsFit, EnterFits
<1>7. CASE UNCHANGED configVars
  BY <1>7, KeptFits DEF configVars
<1> QED BY <1>1, <1>2, <1>3, <1>4, <1>5, <1>6, <1>7 DEF ConfigNext

(* A key that is wanted is in the file, in the keychain or in the hands of *)
(* the one who writes.                                                     *)
LEMMA ConfigHolds == ConfigInv => KeysHeld
<1> SUFFICES ASSUME ConfigInv, ~disturbed
             PROVE  /\ \A p \in KeyedProviders : entered[p] # NoKey =>
                         \/ keychain[p] = entered[p]
                         \/ Writing = {} /\ file.keys[p] = entered[p]
                         \/ \E w \in Writing : writers[w].config.keys[p] = entered[p]
                    /\ Writing = {} => file.readOnly = readOnlySet
  BY DEF KeysHeld
<1>1. CASE Writing = {}
  BY <1>1 DEF ConfigInv, FileFits, Writing, Backed
<1>2. CASE Writing # {}
  <2>1. PICK w \in Writing : TRUE
    BY <1>2
  <2>2. Carries(writers[w], entered)
    BY <2>1 DEF ConfigInv, WritersFit, WriterFits, Writing
  <2> QED BY <1>2, <2>1, <2>2 DEF Carries, Backed, Elsewhere
<1> QED BY <1>1, <1>2

(* A key the user saved and has not deleted is never lost, through key     *)
(* moves, launches, refusals of the keychain and failed saves, while no    *)
(* two use the file at once and no write is cut short (config.go,          *)
(* migrate.go, app_settings.go).                                           *)
THEOREM SavedKeysStay == ConfigSpec => []KeysHeld
<1>1. ConfigInit => ConfigInv
  BY ConfigStarts
<1>2. ConfigInv /\ [ConfigNext]_configVars => ConfigInv'
  BY ConfigStep
<1>3. ConfigInv => KeysHeld
  BY ConfigHolds
<1> QED BY <1>1, <1>2, <1>3, PTL DEF ConfigSpec

-----------------------------------------------------------------------------
(* The rest of the types. *)
Counted ==
  /\ available \in BOOLEAN /\ running \in BOOLEAN /\ disturbed \in BOOLEAN
  /\ launches \in 0..MaxLaunches /\ saved \in 0..MaxSaves
  /\ asked \in [key : Keys \cup {NoKey}, held : Keys \cup {NoKey}]

LEMMA CountsStart == ConfigInit => Counted
<1> SUFFICES ASSUME ConfigInit PROVE Counted
  OBVIOUS
<1>1. 0 \in 0..MaxLaunches /\ 0 \in 0..MaxSaves
  BY ConfigFileAssumption
<1>2. NothingAsked \in [key : Keys \cup {NoKey}, held : Keys \cup {NoKey}]
  BY DEF NothingAsked
<1> QED BY <1>1, <1>2 DEF ConfigInit, Counted

LEMMA CountsStay ==
  ASSUME Counted, ConfigInv, [ConfigNext]_configVars
  PROVE Counted'
<1> USE ConfigFileAssumption DEF Counted
<1>1. CASE startup
  BY <1>1 DEF startup
<1>2. CASE Quit
  BY <1>2 DEF Quit, NothingAsked
<1>3. CASE EditReadOnly \/ UNCHANGED configVars
  BY <1>3 DEF EditReadOnly, configVars
<1>4. CASE GetAISettings
  BY <1>4 DEF GetAISettings, LoadDisturbs
<1>5. ASSUME NEW p \in KeyedProviders, MigrateAPIKeys(p) PROVE Counted'
  BY <1>5 DEF MigrateAPIKeys
<1>6. ASSUME NEW p \in KeyedProviders, AIQuery(p) PROVE Counted'
  <2> DEFINE key == IF file.keys[p] = NoEntry THEN NoKey ELSE file.keys[p]
  <2>1. file.keys \in Entries /\ keychain \in KeyMap
    BY <1>6 DEF AIQuery, ConfigInv, ConfigTyped, Config
  <2>2. key \in Keys \cup {NoKey} /\ GetProviderAPIKey(p, key) \in Keys \cup {NoKey}
    BY <2>1 DEF KeyMap, Entries, GetProviderAPIKey
  <2>3. asked' \in [key : Keys \cup {NoKey}, held : Keys \cup {NoKey}]
    BY <1>6, <2>2 DEF AIQuery
  <2>4. UNCHANGED <<available, launches, running, saved, disturbed>>
    BY <1>6 DEF AIQuery
  <2> QED BY <2>3, <2>4
<1>7. ASSUME NEW w \in Writers, SaveTo(w) \/ Write(w) PROVE Counted'
  BY <1>7 DEF SaveTo, Write
<1>8. ASSUME NEW w \in Writers, NEW config, NEW enters, Loads(w, config, enters) PROVE Counted'
  BY <1>8 DEF Loads, LoadDisturbs
<1>9. ASSUME NEW w \in Writers, SaveOtherSettings(w) PROVE Counted'
  BY <1>8, <1>9 DEF SaveOtherSettings
<1>10. ASSUME NEW w \in Writers, NEW p \in KeyedProviders, NEW key \in Keys \cup {NoKey},
              EnterKey(w, p, key)
       PROVE Counted'
  <2>1. Loads(w, [file EXCEPT !.keys = Merged(file.keys, settings')],
              Promised(settings', entered'))
    BY <1>10 DEF EnterKey
  <2>2. UNCHANGED <<available, launches, running, asked>>
        /\ saved < MaxSaves /\ saved' = saved + 1 /\ LoadDisturbs
    BY <2>1 DEF Loads
  <2> QED BY <2>2 DEF LoadDisturbs
<1> QED
  BY <1>1, <1>2, <1>3, <1>4, <1>5, <1>6, <1>7, <1>9, <1>10 DEF ConfigNext

LEMMA ConfigIsTyped == ConfigInv /\ Counted => ConfigTypeOK
BY DEF ConfigInv, ConfigTyped, Counted, ConfigTypeOK, Writer
=============================================================================
