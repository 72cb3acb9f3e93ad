------------------------ MODULE StreamServices_proofs ------------------------
(***************************************************************************)
(* Proofs about the services that run goroutines per request and about the *)
(* collector of events, for any number of calls, kinds, pods, shells and   *)
(* clusters and any capacities.  Each service has a section: its inductive *)
(* invariant, that the initial states satisfy it, that every step          *)
(* preserves it, and what follows for the behaviours.  The last section    *)
(* puts them together.                                                     *)
(***************************************************************************)
EXTENDS MCStreams, SequenceTheorems, TLAPS

-----------------------------------------------------------------------------
(* Terminal.  A session is for its own id and holds a shell not yet reaped. *)
SessionsFit ==
  \A i \in SessionIds : sessions[i] # NoShell =>
    shellId[sessions[i]] = i /\ shell[sessions[i]] \in {"alive", "exited"}

TerminalInv == TerminalTypeOK /\ SessionsFit /\ NoOrphanShell

LEMMA TerminalStarts == TerminalInit => TerminalInv
BY TerminalAssumption DEF TerminalInit, TerminalInv, TerminalTypeOK, SessionsFit, NoOrphanShell

LEMMA TerminalSteps == TerminalInv /\ [TerminalNext]_termVars => TerminalInv'
<1> SUFFICES ASSUME TerminalInv, [TerminalNext]_termVars PROVE TerminalInv'
  OBVIOUS
<1> USE TerminalAssumption DEF TerminalInv, TerminalTypeOK, SessionsFit, NoOrphanShell
<1>1. ASSUME NEW p \in Shells, StartTerminal(p) PROVE TerminalInv'
  BY <1>1 DEF StartTerminal
<1>2. ASSUME NEW p \in Shells, ShellExits(p) PROVE TerminalInv'
  BY <1>2 DEF ShellExits
<1>3. ASSUME NEW p \in Shells, ReadFails(p) PROVE TerminalInv'
  BY <1>3 DEF ReadFails
<1>4. ASSUME NEW p \in Shells, ReaderCloses(p) PROVE TerminalInv'
  BY <1>4 DEF ReaderCloses, Reap
<1>5. ASSUME NEW i \in SessionIds, CloseTerminal(i) PROVE TerminalInv'
  BY <1>5 DEF CloseTerminal, Reap
<1>6. CASE UNCHANGED termVars
  BY <1>6 DEF termVars
<1> QED BY <1>1, <1>2, <1>3, <1>4, <1>5, <1>6 DEF TerminalNext

(* No shell is orphaned: one that was started and not reaped has its        *)
(* session, although readers close whatever session has their id.           *)
THEOREM ShellsHaveSessions == TerminalSpec => []NoOrphanShell
<1>1. TerminalInv => NoOrphanShell
  BY DEF TerminalInv
<1> QED BY <1>1, TerminalStarts, TerminalSteps, PTL DEF TerminalSpec

-----------------------------------------------------------------------------
(* Event collector.  A goroutine that may save has nothing older than what  *)
(* was saved last; that it is the only one is what CollectedOnce says.      *)
Saver(c, g) == ~collector[c][g].canceled /\ collector[c][g].at \in {"listed", "watching"}
SavedFits ==
  \A c \in Clusters :
    /\ saved[c] <= latest[c]
    /\ \A g \in Goroutines : Saver(c, g) =>
         /\ saved[c] <= collector[c][g].next
         /\ collector[c][g].at = "listed" => collector[c][g].next <= latest[c]

CollectorInv == EventTypeOK /\ CollectedOnce /\ SavedFits

LEMMA CollectorStarts == EventInit => CollectorInv
BY EventCollectorAssumption
DEF EventInit, CollectorInv, EventTypeOK, CollectedOnce, SavedFits, Saver, Live, Goroutines,
    Places, NoCollector

Versions == 0..(MaxVersions + 1)
Collectors == [at : Places, client : 0..MaxClients, canceled : BOOLEAN, next : Versions]

LEMMA CollectorTyped ==
  ASSUME EventTypeOK
  PROVE /\ collector \in [Clusters -> [Goroutines -> Collectors]]
        /\ \A c \in Clusters : collector[c] \in [Goroutines -> Collectors]
BY DEF EventTypeOK, Collectors, Versions

(* The four ways in which a goroutine's record changes. *)
LEMMA StartedRecord ==
  ASSUME NEW r \in Collectors
  PROVE /\ [r EXCEPT !.at = "starting"] \in Collectors
        /\ [r EXCEPT !.at = "starting"].at = "starting"
        /\ [r EXCEPT !.at = "starting"].canceled = r.canceled
<1>1. "starting" \in Places
  BY DEF Places
<1> QED BY <1>1 DEF Collectors

LEMMA CanceledRecord ==
  ASSUME NEW r \in Collectors
  PROVE /\ [r EXCEPT !.canceled = TRUE] \in Collectors
        /\ [r EXCEPT !.canceled = TRUE].canceled = TRUE
BY DEF Collectors

LEMMA ClientRecord ==
  ASSUME NEW r \in Collectors, NEW cl \in 0..MaxClients, NEW to \in Places
  PROVE /\ [r EXCEPT !.client = cl, !.at = to] \in Collectors
        /\ [r EXCEPT !.client = cl, !.at = to].canceled = r.canceled
BY DEF Collectors

LEMMA GoneRecord ==
  ASSUME NEW r \in Collectors, NEW to \in Places, NEW v \in Versions
  PROVE /\ [r EXCEPT !.at = to, !.next = v] \in Collectors
        /\ [r EXCEPT !.at = to, !.next = v].canceled = r.canceled
BY DEF Collectors

LEMMA CanceledCollector ==
  ASSUME NEW c \in Clusters, watches[c] \in Goroutines,
         collector[c] \in [Goroutines -> Collectors]
  PROVE /\ Without(c) \in [Goroutines -> Collectors]
        /\ Without(c)[watches[c]].canceled
        /\ \A h \in Goroutines \ {watches[c]} : Without(c)[h] = collector[c][h]
<1> DEFINE R == [collector[c][watches[c]] EXCEPT !.canceled = TRUE]
<1>1. R \in Collectors /\ R.canceled = TRUE
  BY CanceledRecord
<1>2. Without(c) = [collector[c] EXCEPT ![watches[c]] = R]
  BY DEF Without
<1> HIDE DEF R
<1> QED BY <1>1, <1>2

(* What starts and cancels goroutines leaves those that may save as they are. *)
KeepsSavers ==
  \A c \in Clusters : \A g \in Goroutines :
    Saver(c, g)' => Saver(c, g) /\ collector'[c][g] = collector[c][g]

LEMMA SavedFitsStays ==
  ASSUME SavedFits, KeepsSavers, UNCHANGED rowVars
  PROVE SavedFits'
BY DEF SavedFits, KeepsSavers, rowVars

(* The calls of refreshWatches, of which there are two. *)
LEMMA RefreshKeeps ==
  ASSUME EventTypeOK, CollectedOnce, refreshWatches
  PROVE /\ watches' \in [Clusters -> 0..MaxCollectors]
        /\ collector' \in [Clusters -> [Goroutines -> Collectors]]
        /\ CollectedOnce' /\ KeepsSavers
<1>1. ASSUME NEW c \in Missing
      PROVE c \in Clusters /\ Another(c) \in Goroutines /\ c \notin Gone
  BY <1>1 DEF Another, Unused, Missing, Gone, refreshWatches
<1>2. ASSUME NEW c \in Gone
      PROVE c \in Clusters /\ watches[c] \in Goroutines /\ c \notin Missing
  BY <1>2, EventCollectorAssumption DEF Gone, Missing, EventTypeOK, Goroutines, NoCollector
<1>3. watches' \in [Clusters -> 0..MaxCollectors]
  BY <1>1, EventCollectorAssumption DEF refreshWatches, EventTypeOK, Goroutines, NoCollector
<1>4. \A c \in Clusters : collector[c] \in [Goroutines -> Collectors]
  BY CollectorTyped
<1>5. ASSUME NEW c \in Missing
      PROVE /\ collector'[c] \in [Goroutines -> Collectors] /\ watches'[c] = Another(c)
            /\ collector'[c][Another(c)].at = "starting"
            /\ \A g \in Goroutines \ {Another(c)} : collector'[c][g] = collector[c][g]
  <2> DEFINE R == [collector[c][Another(c)] EXCEPT !.at = "starting"]
  <2>1. /\ collector'[c] = [collector[c] EXCEPT ![Another(c)] = R]
        /\ watches'[c] = Another(c)
    BY <1>1 DEF refreshWatches
  <2>2. R \in Collectors /\ R.at = "starting"
    BY <1>1, <1>4, StartedRecord
  <2> HIDE DEF R
  <2> QED BY <1>1, <1>4, <2>1, <2>2
<1>6. ASSUME NEW c \in Gone
      PROVE /\ collector'[c] \in [Goroutines -> Collectors]
            /\ collector'[c][watches[c]].canceled
            /\ \A g \in Goroutines \ {watches[c]} : collector'[c][g] = collector[c][g]
  <2>1. collector'[c] = Without(c)
    BY <1>2 DEF refreshWatches
  <2> QED BY <1>2, <1>4, <2>1, CanceledCollector
<1>7. ASSUME NEW c \in Clusters \ (Missing \cup Gone)
      PROVE collector'[c] = collector[c] /\ watches'[c] = watches[c]
  BY DEF refreshWatches
<1>8. collector' \in [Clusters -> [Goroutines -> Collectors]]
  <2>1. \A c \in Clusters : collector'[c] \in [Goroutines -> Collectors]
    BY <1>4, <1>5, <1>6, <1>7
  <2> QED BY <2>1 DEF refreshWatches
<1>9. CollectedOnce'
  <2> SUFFICES ASSUME NEW c \in Clusters, NEW g \in Goroutines, Live(c, g)'
               PROVE watches'[c] = g
    BY DEF CollectedOnce
  <2>1. CASE c \in Missing
    <3>1. ~Live(c, g)
      BY <2>1, EventCollectorAssumption DEF CollectedOnce, Missing, NoCollector, Goroutines
    <3> QED BY <2>1, <1>5, <3>1 DEF Live
  <2>2. CASE c \in Gone
    BY <2>2, <1>6 DEF Live, CollectedOnce
  <2>3. CASE c \notin Missing \cup Gone
    BY <2>3, <1>7 DEF CollectedOnce, Live
  <2> QED BY <2>1, <2>2, <2>3
<1>10. KeepsSavers
  <2> SUFFICES ASSUME NEW c \in Clusters, NEW g \in Goroutines, Saver(c, g)'
               PROVE Saver(c, g) /\ collector'[c][g] = collector[c][g]
    BY DEF KeepsSavers
  <2>1. CASE c \in Missing
    BY <2>1, <1>5 DEF Saver
  <2>2. CASE c \in Gone
    BY <2>2, <1>6 DEF Saver
  <2>3. CASE c \notin Missing \cup Gone
    BY <2>3, <1>7 DEF Saver
  <2> QED BY <2>1, <2>2, <2>3
<1> QED BY <1>3, <1>8, <1>9, <1>10

LEMMA StopKeeps ==
  ASSUME CollectorInv, Stop
  PROVE CollectorInv'
<1>1. \A c \in Clusters : collector[c] \in [Goroutines -> Collectors]
  BY CollectorTyped DEF CollectorInv
<1>2. ASSUME NEW c \in Clusters, watches[c] # NoCollector
      PROVE /\ watches[c] \in Goroutines /\ Without(c) \in [Goroutines -> Collectors]
            /\ Without(c)[watches[c]].canceled
            /\ \A g \in Goroutines \ {watches[c]} : Without(c)[g] = collector[c][g]
  <2>1. watches[c] \in Goroutines
    BY <1>2, EventCollectorAssumption DEF CollectorInv, EventTypeOK, Goroutines, NoCollector
  <2> QED BY <1>1, <2>1, CanceledCollector
<1>3. \A c \in Clusters :
        collector'[c] = IF watches[c] = NoCollector THEN collector[c] ELSE Without(c)
  BY DEF Stop
<1>4. collector' \in [Clusters -> [Goroutines -> Collectors]]
  BY <1>1, <1>2 DEF Stop
<1>5. ASSUME NEW c \in Clusters, NEW g \in Goroutines PROVE ~Live(c, g)'
  BY <1>2, <1>3, EventCollectorAssumption
  DEF CollectorInv, CollectedOnce, Live, NoCollector, Goroutines
<1>6. watches' \in [Clusters -> 0..MaxCollectors] /\ CollectedOnce'
  BY <1>5, EventCollectorAssumption DEF Stop, CollectedOnce, NoCollector
<1>7. KeepsSavers
  BY <1>5 DEF KeepsSavers, Saver, Live
<1>8. SavedFits'
  BY <1>7, SavedFitsStays DEF Stop, CollectorInv
<1> QED BY <1>4, <1>6, <1>8 DEF Stop, CollectorInv, EventTypeOK, Collectors, Versions, rowVars

(* A goroutine's own step starts no other and is registered by none. *)
LEMMA CollectorGoes ==
  ASSUME CollectorInv, NEW c \in Clusters, NEW g \in Goroutines,
         NEW from \in Places \ {"unused", "ended"}, NEW to \in Places, NEW v \in Versions,
         Goes(c, g, from, to, v)
  PROVE /\ collector' \in [Clusters -> [Goroutines -> Collectors]]
        /\ CollectedOnce'
        /\ collector'[c][g].at = to /\ collector'[c][g].next = v
        /\ collector'[c][g].canceled = collector[c][g].canceled
        /\ \A d \in Clusters, h \in Goroutines :
             d # c \/ h # g => collector'[d][h] = collector[d][h]
<1> DEFINE R == [collector[c][g] EXCEPT !.at = to, !.next = v]
<1>1. collector \in [Clusters -> [Goroutines -> Collectors]]
  BY CollectorTyped DEF CollectorInv
<1>2. collector' = [collector EXCEPT ![c] = [collector[c] EXCEPT ![g] = R]]
  BY <1>1 DEF Goes
<1>3. /\ R \in Collectors /\ R.canceled = collector[c][g].canceled
      /\ R.at = to /\ R.next = v
  <2>1. collector[c][g] \in Collectors
    BY <1>1
  <2>2. R \in Collectors /\ R.canceled = collector[c][g].canceled
    BY <2>1, GoneRecord
  <2>3. R.at = to /\ R.next = v
    BY <2>1 DEF Collectors
  <2> QED BY <2>2, <2>3
<1> HIDE DEF R
<1>4. /\ collector' \in [Clusters -> [Goroutines -> Collectors]]
      /\ collector'[c][g] = R
      /\ \A d \in Clusters, h \in Goroutines :
           d # c \/ h # g => collector'[d][h] = collector[d][h]
  BY <1>1, <1>2, <1>3
<1>5. \A d \in Clusters, h \in Goroutines : Live(d, h)' => Live(d, h)
  BY <1>3, <1>4 DEF Live, Goes
<1> QED BY <1>3, <1>4, <1>5 DEF CollectorInv, CollectedOnce, Goes, OthersStay

(* A step that saves nothing, and after which the goroutine has nothing     *)
(* older than what is saved.                                                *)
LEMMA CollectorWaits ==
  ASSUME CollectorInv, NEW c \in Clusters, NEW g \in Goroutines,
         NEW from \in Places \ {"unused", "ended"}, NEW to \in Places, NEW v \in Versions,
         Goes(c, g, from, to, v), UNCHANGED saved,
         to \in {"listed", "watching"} => saved[c] <= v,
         to = "listed" => v <= latest[c]
  PROVE CollectorInv'
<1>1. SavedFits'
  <2> SUFFICES ASSUME NEW d \in Clusters, NEW h \in Goroutines, Saver(d, h)'
               PROVE /\ saved[d] <= collector'[d][h].next
                     /\ collector'[d][h].at = "listed" => collector'[d][h].next <= latest[d]
    BY DEF SavedFits, CollectorInv, Goes, OthersStay
  <2>1. CASE d = c /\ h = g
    BY <2>1, CollectorGoes DEF Saver
  <2>2. CASE d # c \/ h # g
    BY <2>2, CollectorGoes DEF Saver, SavedFits, CollectorInv
  <2> QED BY <2>1, <2>2
<1> QED BY <1>1, CollectorGoes
        DEF CollectorInv, EventTypeOK, Collectors, Versions, Goes, OthersStay

(* A step that saves: the version is no older, and no other goroutine may save. *)
LEMMA CollectorSaves ==
  ASSUME CollectorInv, NEW c \in Clusters, NEW g \in Goroutines, processEvent(c, g)
  PROVE /\ CollectorInv'
        /\ \A d \in Clusters : saved'[d] >= saved[d]
<1> USE EventCollectorAssumption
<1>1. PICK version \in Saves(c, g) : saved' = [saved EXCEPT ![c] = version]
  BY DEF processEvent
<1>2. PICK from \in {"listed", "watching"} :
        \E to \in {"opening", "watching"}, v \in Versions :
          /\ Goes(c, g, from, to, v)
          /\ collector[c][g].next <= latest[c] \/ from = "listed"
          /\ to = "watching" => v = collector[c][g].next + 1
  <2>1. collector[c][g].next \in Versions /\ latest[c] \in 0..MaxVersions
    BY DEF CollectorInv, EventTypeOK, Versions
  <2> QED BY <2>1 DEF processEvent, Versions
<1>3. PICK to \in {"opening", "watching"}, v \in Versions :
          /\ Goes(c, g, from, to, v)
          /\ collector[c][g].next <= latest[c] \/ from = "listed"
          /\ to = "watching" => v = collector[c][g].next + 1
  BY <1>2
<1>4. from \in Places \ {"unused", "ended"} /\ to \in Places
  BY DEF Places
<1>5. /\ saved[c] \in 0..MaxVersions /\ latest[c] \in 0..MaxVersions
      /\ collector[c][g].next \in Versions /\ collector[c][g].canceled \in BOOLEAN
      /\ saved[c] <= latest[c]
  BY DEF CollectorInv, EventTypeOK, Versions, SavedFits
<1>6. collector[c][g].at = from
  BY <1>3 DEF Goes
<1>7. /\ ~collector[c][g].canceled =>
           saved[c] <= collector[c][g].next /\ collector[c][g].next <= latest[c]
      /\ ~collector[c][g].canceled => \A h \in Goroutines \ {g} : ~Saver(c, h)
  <2> SUFFICES ASSUME ~collector[c][g].canceled
               PROVE /\ saved[c] <= collector[c][g].next /\ collector[c][g].next <= latest[c]
                     /\ \A h \in Goroutines \ {g} : ~Saver(c, h)
    OBVIOUS
  <2>1. Saver(c, g)
    BY <1>6 DEF Saver
  <2>2. \A h \in Goroutines : Saver(c, h) => watches[c] = h
    BY DEF CollectorInv, CollectedOnce, Saver, Live
  <2> QED BY <1>3, <1>5, <1>6, <2>1, <2>2 DEF CollectorInv, SavedFits
<1>8. version \in 0..MaxVersions /\ saved[c] <= version /\ version <= latest[c]
  <2>1. CASE version = saved[c]
    BY <2>1, <1>5
  <2>2. CASE version # saved[c]
    BY <2>2, <1>1, <1>5, <1>7 DEF Saves, Versions
  <2> QED BY <2>1, <2>2
<1>9. /\ saved' \in [Clusters -> 0..MaxVersions] /\ saved'[c] = version
      /\ \A d \in Clusters \ {c} : saved'[d] = saved[d]
  BY <1>1, <1>8 DEF CollectorInv, EventTypeOK
<1>10. SavedFits'
  <2>1. \A d \in Clusters : saved'[d] <= latest'[d]
    BY <1>3, <1>8, <1>9 DEF Goes, OthersStay, CollectorInv, SavedFits
  <2> SUFFICES ASSUME NEW d \in Clusters, NEW h \in Goroutines, Saver(d, h)'
               PROVE /\ saved'[d] <= collector'[d][h].next
                     /\ collector'[d][h].at = "listed" => collector'[d][h].next <= latest[d]
    BY <1>3, <2>1 DEF SavedFits, Goes, OthersStay
  <2>2. CASE d = c /\ h = g
    <3>1. to = "watching" /\ v = collector[c][g].next + 1 /\ ~collector[c][g].canceled
      BY <2>2, <1>3, <1>4, CollectorGoes DEF Saver
    <3>2. collector'[c][g].next = v /\ collector'[c][g].at = to
      BY <1>3, <1>4, CollectorGoes
    <3>3. version \in {saved[c], collector[c][g].next}
      BY <1>1 DEF Saves
    <3>4. saved[c] <= collector[c][g].next
      BY <1>7, <3>1
    <3>5. version <= collector[c][g].next
      BY <1>5, <3>3, <3>4 DEF Versions
    <3> QED BY <2>2, <1>5, <1>8, <1>9, <3>1, <3>2, <3>5 DEF Versions
  <2>3. CASE d # c \/ h # g
    <3>1. collector'[d][h] = collector[d][h] /\ Saver(d, h)
      BY <2>3, <1>3, <1>4, CollectorGoes DEF Saver
    <3>2. d # c \/ saved'[d] = saved[d]
      BY <2>3, <3>1, <1>1, <1>7, <1>9 DEF Saves
    <3> QED BY <1>9, <3>1, <3>2 DEF CollectorInv, SavedFits
  <2> QED BY <2>2, <2>3
<1>11. CollectedOnce' /\ collector' \in [Clusters -> [Goroutines -> Collectors]]
  BY <1>3, <1>4, CollectorGoes
<1>12. EventTypeOK'
  BY <1>3, <1>9, <1>11 DEF CollectorInv, EventTypeOK, Collectors, Versions, Goes, OthersStay
<1>13. \A d \in Clusters : saved'[d] >= saved[d]
  <2> SUFFICES ASSUME NEW d \in Clusters PROVE saved'[d] >= saved[d]
    OBVIOUS
  <2>1. saved[d] \in 0..MaxVersions
    BY DEF CollectorInv, EventTypeOK
  <2> QED BY <1>8, <1>9, <2>1
<1> QED BY <1>10, <1>11, <1>12, <1>13 DEF CollectorInv

LEMMA CollectorGetsClient ==
  ASSUME CollectorInv, NEW c \in Clusters, NEW g \in Goroutines, GetClient(c, g)
  PROVE CollectorInv'
<1> USE EventCollectorAssumption
<1> DEFINE to == IF client[c] = NoClient THEN "ended" ELSE "syncing"
           R == [collector[c][g] EXCEPT !.client = client[c], !.at = to]
<1>1. collector \in [Clusters -> [Goroutines -> Collectors]]
  BY CollectorTyped DEF CollectorInv
<1>2. R \in Collectors /\ R.canceled = collector[c][g].canceled /\ R.at = to
  <2>1. collector[c][g] \in Collectors /\ client[c] \in 0..MaxClients
    BY <1>1 DEF CollectorInv, EventTypeOK
  <2>2. to \in Places
    BY DEF Places
  <2> HIDE DEF to
  <2>3. R \in Collectors /\ R.canceled = collector[c][g].canceled
    BY <2>1, <2>2, ClientRecord
  <2>4. R.at = to
    BY <2>1 DEF Collectors
  <2> QED BY <2>3, <2>4
<1>3. collector' = [collector EXCEPT ![c] = [collector[c] EXCEPT ![g] = R]]
  BY <1>1 DEF GetClient, Collectors
<1>4. to \notin {"listed", "watching"}
  OBVIOUS
<1> HIDE DEF R, to
<1>5. collector' \in [Clusters -> [Goroutines -> Collectors]]
  BY <1>1, <1>2, <1>3
<1>6. \A d \in Clusters, h \in Goroutines : Live(d, h)' => Live(d, h)
  BY <1>1, <1>2, <1>3 DEF Live, GetClient
<1>7. KeepsSavers
  BY <1>1, <1>2, <1>3, <1>4 DEF KeepsSavers, Saver
<1>8. SavedFits'
  BY <1>7, SavedFitsStays DEF GetClient, OthersStay, CollectorInv, rowVars
<1> QED BY <1>5, <1>6, <1>8
        DEF GetClient, OthersStay, CollectorInv, EventTypeOK, CollectedOnce, Collectors, Versions

LEMMA CollectorStepKeeps ==
  ASSUME CollectorInv, NEW c \in Clusters, NEW g \in Goroutines, CollectorStep(c, g)
  PROVE CollectorInv' /\ \A d \in Clusters : saved'[d] >= saved[d]
<1> USE EventCollectorAssumption
<1>1. /\ latest[c] \in 0..MaxVersions /\ saved[c] \in 0..MaxVersions /\ saved[c] <= latest[c]
      /\ latest[c] \in Versions /\ Replayed(c) \in Versions /\ 0 \in Versions
      /\ saved[c] <= Replayed(c)
  BY DEF CollectorInv, EventTypeOK, SavedFits, Versions, Replayed
<1>2. \A d \in Clusters : saved[d] \in 0..MaxVersions
  BY DEF CollectorInv, EventTypeOK
<1>3. CASE GetClient(c, g)
  <2>1. UNCHANGED saved
    BY <1>3 DEF GetClient
  <2>2. CollectorInv'
    BY <1>3, CollectorGetsClient
  <2> QED BY <1>2, <2>1, <2>2
<1>4. CASE syncExistingEvents(c, g)
  <2>0. UNCHANGED saved
    BY <1>4 DEF syncExistingEvents
  <2>1. ASSUME Goes(c, g, "syncing", "listed", latest[c]) PROVE CollectorInv'
    BY <1>1, <2>0, <2>1, CollectorWaits DEF Places
  <2>2. ASSUME Goes(c, g, "syncing", "opening", 0) PROVE CollectorInv'
    BY <1>1, <2>0, <2>2, CollectorWaits DEF Places
  <2> QED BY <1>2, <1>4, <2>0, <2>1, <2>2 DEF syncExistingEvents
<1>5. CASE WatchEvents(c, g)
  <2>0. UNCHANGED saved
    BY <1>5 DEF WatchEvents
  <2>1. ASSUME Goes(c, g, "opening", "watching", Replayed(c)) PROVE CollectorInv'
    BY <1>1, <2>0, <2>1, CollectorWaits DEF Places
  <2>2. ASSUME Goes(c, g, "opening", "ended", 0) PROVE CollectorInv'
    BY <1>1, <2>0, <2>2, CollectorWaits DEF Places
  <2> QED BY <1>2, <1>5, <2>0, <2>1, <2>2 DEF WatchEvents
<1>6. CASE processEvent(c, g)
  BY <1>6, CollectorSaves
<1>7. CASE StreamEnds(c, g)
  <2>1. CollectorInv'
    BY <1>1, <1>7, CollectorWaits DEF StreamEnds, Places
  <2> QED BY <1>2, <1>7, <2>1 DEF StreamEnds
<1>8. CASE Reconnect(c, g)
  <2>1. CollectorInv'
    BY <1>1, <1>8, CollectorWaits DEF Reconnect, Places
  <2> QED BY <1>2, <1>8, <2>1 DEF Reconnect
<1>9. CASE Canceled(c, g)
  <2>1. CollectorInv'
    BY <1>1, <1>9, CollectorWaits DEF Canceled, Places
  <2> QED BY <1>2, <1>9, <2>1 DEF Canceled
<1> QED BY <1>3, <1>4, <1>5, <1>6, <1>7, <1>8, <1>9 DEF CollectorStep

LEMMA CollectorSteps ==
  CollectorInv /\ [EventNext]_eventVars =>
    CollectorInv' /\ \A c \in Clusters : saved'[c] >= saved[c]
<1> SUFFICES ASSUME CollectorInv, [EventNext]_eventVars
             PROVE CollectorInv' /\ \A c \in Clusters : saved'[c] >= saved[c]
  OBVIOUS
<1> USE EventCollectorAssumption
<1>1. \A c \in Clusters : saved[c] \in 0..MaxVersions /\ saved[c] >= saved[c]
  BY DEF CollectorInv, EventTypeOK
<1>2. CASE Refresh
  <2>1. SavedFits'
    BY <1>2, RefreshKeeps, SavedFitsStays DEF Refresh, CollectorInv
  <2> QED BY <1>1, <1>2, <2>1, RefreshKeeps
          DEF Refresh, CollectorInv, EventTypeOK, Collectors, Versions, rowVars
<1>3. CASE RunRefreshes
  <2>1. SavedFits'
    BY <1>3, RefreshKeeps, SavedFitsStays DEF RunRefreshes, CollectorInv
  <2> QED BY <1>1, <1>3, <2>1, RefreshKeeps
          DEF RunRefreshes, CollectorInv, EventTypeOK, Collectors, Versions, rowVars
<1>4. CASE RunWaits
  BY <1>1, <1>4
  DEF RunWaits, CollectorInv, EventTypeOK, CollectedOnce, SavedFits, Saver, Live, rowVars
<1>5. CASE Stop
  BY <1>1, <1>5, StopKeeps DEF Stop, rowVars
<1>6. ASSUME NEW c \in Clusters, ConnectCluster(c) \/ DisconnectCluster(c)
      PROVE CollectorInv' /\ UNCHANGED saved
  <2>1. UNCHANGED <<collecting, loop, watches, collector, rowVars>>
    BY <1>6 DEF ConnectCluster, DisconnectCluster
  <2>2. /\ client' \in [Clusters -> 0..MaxClients] /\ clients' \in [Clusters -> 0..MaxClients]
        /\ refreshes' \in 0..MaxRefreshes
    <3>1. CASE ConnectCluster(c)
      BY <3>1 DEF ConnectCluster, RefreshLater, CollectorInv, EventTypeOK
    <3>2. CASE DisconnectCluster(c)
      BY <3>2 DEF DisconnectCluster, RefreshLater, CollectorInv, EventTypeOK
    <3> QED BY <1>6, <3>1, <3>2
  <2>3. EventTypeOK'
    BY <2>1, <2>2 DEF CollectorInv, EventTypeOK, rowVars
  <2> QED BY <2>1, <2>3 DEF CollectorInv, CollectedOnce, SavedFits, Saver, Live, rowVars
<1>7. ASSUME NEW c \in Clusters, EventOccurs(c) PROVE CollectorInv' /\ UNCHANGED saved
  <2>1. EventTypeOK' /\ CollectedOnce'
    BY <1>7 DEF EventOccurs, CollectorInv, EventTypeOK, CollectedOnce, Live
  <2>2. \A d \in Clusters : latest[d] \in Nat /\ saved[d] \in Nat /\ latest[d] <= latest'[d]
    BY <1>7 DEF EventOccurs, CollectorInv, EventTypeOK
  <2>3. \A d \in Clusters, g \in Goroutines : collector[d][g].next \in Nat
    BY DEF CollectorInv, EventTypeOK
  <2>4. SavedFits'
    BY <1>7, <2>1, <2>2, <2>3 DEF EventOccurs, CollectorInv, EventTypeOK, SavedFits, Saver
  <2> QED BY <1>7, <2>1, <2>4 DEF EventOccurs, CollectorInv
<1>8. ASSUME NEW c \in Clusters, NEW g \in Goroutines, CollectorStep(c, g)
      PROVE CollectorInv' /\ \A d \in Clusters : saved'[d] >= saved[d]
  BY <1>8, CollectorStepKeeps
<1>9. CASE UNCHANGED eventVars
  BY <1>1, <1>9
  DEF eventVars, rowVars, CollectorInv, EventTypeOK, CollectedOnce, SavedFits, Saver, Live
<1> QED BY <1>1, <1>2, <1>3, <1>4, <1>5, <1>6, <1>7, <1>8, <1>9 DEF EventNext

(* A cluster has at most one watch that is not canceled, and the registry   *)
(* can cancel it, for any number of clusters, refreshes and reconnects.     *)
THEOREM EventsCollectedOnce == EventSpec => []CollectedOnce
<1>1. CollectorInv => CollectedOnce
  BY DEF CollectorInv
<1> QED BY <1>1, CollectorStarts, CollectorSteps, PTL DEF EventSpec

(* Of an event no older version is saved after a newer one, whatever is     *)
(* listed and replayed and however often a cluster is connected again.      *)
THEOREM EventsGoForward == EventSpec => SavesGoForward
<1>1. CollectorInv /\ [EventNext]_eventVars =>
        [\A c \in Clusters : saved'[c] >= saved[c]]_eventVars
  BY CollectorSteps
<1> QED BY <1>1, CollectorStarts, CollectorSteps, PTL DEF EventSpec, SavesGoForward
-----------------------------------------------------------------------------
(* Resource watches.  A watch that was never started is in nobody's hands. *)
UnstartedIsApart ==
  \A w \in Watches :
    source[w] = "unused" => /\ consumer[w] = "unused" /\ w \notin watchCanceled
                            /\ \A k \in Kinds : watchers[k] # w

WatchInv == WatchTypeOK /\ UnstartedIsApart /\ RegisteredIsUncanceled /\ EscapesOnlyByCleanup

LEMMA WatchStarts == WatchInit => WatchInv
<1> SUFFICES ASSUME WatchInit PROVE WatchInv
  OBVIOUS
<1> USE WatchAssumption DEF WatchInit
<1>1. WatchTypeOK
  <2>1. queued \in [Watches -> 0..EventSlots]
    OBVIOUS
  <2>2. /\ source \in [Watches -> {"unused", "reading", "sending", "ended"}]
        /\ consumer \in [Watches -> {"unused", "reading", "leaving", "ended"}]
        /\ watchers \in [Kinds -> Watches \cup {NoWatch}]
    OBVIOUS
  <2> QED BY <2>1, <2>2 DEF WatchTypeOK
<1>2. UnstartedIsApart /\ RegisteredIsUncanceled /\ EscapesOnlyByCleanup
  BY DEF UnstartedIsApart, RegisteredIsUncanceled, EscapesOnlyByCleanup, Registered
<1> QED BY <1>1, <1>2 DEF WatchInv

LEMMA WatchSteps == WatchInv /\ [WatchNext]_watchVars => WatchInv'
<1> SUFFICES ASSUME WatchInv, [WatchNext]_watchVars PROVE WatchInv'
  OBVIOUS
<1> USE WatchAssumption DEF WatchInv, WatchTypeOK, UnstartedIsApart, RegisteredIsUncanceled,
                            EscapesOnlyByCleanup, Registered
<1>1. ASSUME NEW w \in Watches, StartResourceWatch(w) PROVE WatchInv'
  <2>1. WatchTypeOK'
    <3>1. watchCanceled' \subseteq Watches
      BY <1>1 DEF StartResourceWatch
    <3>2. watchers' \in [Kinds -> Watches \cup {NoWatch}]
      BY <1>1 DEF StartResourceWatch
    <3>3. /\ source' \in [Watches -> {"unused", "reading", "sending", "ended"}]
          /\ consumer' \in [Watches -> {"unused", "reading", "leaving", "ended"}]
      BY <1>1 DEF StartResourceWatch
    <3> QED BY <1>1, <3>1, <3>2, <3>3 DEF StartResourceWatch
  <2>2. UnstartedIsApart'
    BY <1>1 DEF StartResourceWatch
  <2>3. RegisteredIsUncanceled'
    BY <1>1 DEF StartResourceWatch
  <2>4. EscapesOnlyByCleanup'
    BY <1>1 DEF StartResourceWatch
  <2> QED BY <2>1, <2>2, <2>3, <2>4
<1>2. ASSUME NEW w \in Watches,
             SourceReads(w) \/ SourceSends(w) \/ SourceCanceled(w) \/ StreamCloses(w)
      PROVE WatchInv'
  BY <1>2 DEF SourceReads, SourceSends, SourceCanceled, StreamCloses
<1>3. ASSUME NEW w \in Watches, ConsumerEmits(w) PROVE WatchInv'
  BY <1>3 DEF ConsumerEmits
<1>4. ASSUME NEW w \in Watches, ConsumerLeaves(w) PROVE WatchInv'
  BY <1>4 DEF ConsumerLeaves
<1>5. ASSUME NEW w \in Watches, ConsumerCleansUp(w) PROVE WatchInv'
  BY <1>5 DEF ConsumerCleansUp
<1>6. ASSUME NEW k \in Kinds, StopResourceWatch(k) PROVE WatchInv'
  BY <1>6 DEF StopResourceWatch
<1>7. CASE StopAllResourceWatchers
  BY <1>7 DEF StopAllResourceWatchers
<1>8. CASE UNCHANGED watchVars
  BY <1>8 DEF watchVars
<1> QED BY <1>1, <1>2, <1>3, <1>4, <1>5, <1>6, <1>7, <1>8 DEF WatchNext, ConsumerExit

(* What a kind's entry names can be stopped and runs until then, and a      *)
(* running watch is named by its kind's entry unless an older watch of its  *)
(* kind took the entry with it when it ended.                               *)
THEOREM RunningWatchesAreNamed == WatchSpec => []WatchersNamed
<1>1. WatchInv => WatchersNamed
  BY DEF WatchInv, WatchersNamed
<1> QED BY <1>1, WatchStarts, WatchSteps, PTL DEF WatchSpec

-----------------------------------------------------------------------------
(* Port forwards.  An entry is for its id, and a port has one holder. *)
EntriesFit == \A i \in ForwardIds : forwards[i] # NoForward => fwdId[forwards[i]] = i
Holding(f) == forwarder[f] \in {"ready", "running", "stopping"}
OneHolder ==
  \A f, g \in Forwards : Holding(f) /\ Holding(g) /\ PortOf(fwdId[f]) = PortOf(fwdId[g]) => f = g

ForwardInv == ForwardTypeOK /\ EntriesFit /\ OneHolder /\ RunningIsListed

LEMMA ForwardStarts == ForwardInit => ForwardInv
<1> SUFFICES ASSUME ForwardInit PROVE ForwardInv
  OBVIOUS
<1> USE ForwardAssumption DEF ForwardInit
<1>1. ForwardTypeOK
  BY DEF ForwardTypeOK
<1>2. EntriesFit /\ OneHolder /\ RunningIsListed
  BY DEF EntriesFit, OneHolder, Holding, RunningIsListed
<1> QED BY <1>1, <1>2 DEF ForwardInv

(* Ports have one holder where a step adds none, or one to a port with none. *)
LEMMA HoldersKept ==
  ASSUME OneHolder, fwdId' = fwdId, \A f \in Forwards : Holding(f)' => Holding(f)
  PROVE OneHolder'
BY DEF OneHolder

LEMMA PortTaken ==
  ASSUME ForwardTypeOK, OneHolder, NEW f \in Forwards, Bind(f)
  PROVE OneHolder'
<1>1. \A g \in Forwards : Holding(g) => PortOf(fwdId[g]) # PortOf(fwdId[f])
  BY DEF Bind, PortFree, Holds, Holding
<1>2. \A g \in Forwards \ {f} : Holding(g)' => Holding(g)
  BY DEF Bind, Holding, ForwardTypeOK
<1>3. fwdId' = fwdId
  BY DEF Bind
<1> QED BY <1>1, <1>2, <1>3 DEF OneHolder

(* What an unlisted forwarder that runs is owed stays, where it is not new. *)
LEMMA ListedKept ==
  ASSUME RunningIsListed, fwdId' = fwdId, fwdError \subseteq fwdError',
         \A f \in Forwards : status'[f] = "" => status[f] = "",
         \A f \in Forwards : forwarder'[f] = "running" /\ forwards'[fwdId[f]] # f =>
                               forwarder[f] = "running" /\ forwards[fwdId[f]] # f
  PROVE RunningIsListed'
<1> SUFFICES ASSUME NEW f \in Forwards, forwarder'[f] = "running", forwards'[fwdId[f]] # f
             PROVE \E g \in Forwards \ {f} :
                     fwdId[g] = fwdId[f] /\ g \in fwdError' /\ status'[g] # ""
  BY DEF RunningIsListed
<1>1. PICK g \in Forwards \ {f} : fwdId[g] = fwdId[f] /\ g \in fwdError /\ status[g] # ""
  BY DEF RunningIsListed
<1> QED BY <1>1

LEMMA ForwardSteps == ForwardInv /\ [ForwardNext]_fwdVars => ForwardInv'
<1> SUFFICES ASSUME ForwardInv, [ForwardNext]_fwdVars PROVE ForwardInv'
  OBVIOUS
<1> USE ForwardAssumption DEF ForwardTypeOK, EntriesFit
<1>0. ForwardTypeOK /\ EntriesFit /\ OneHolder /\ RunningIsListed
  BY DEF ForwardInv
<1>1. ASSUME NEW f \in Forwards, ProbePort(f) \/ BindFails(f) PROVE ForwardInv'
  <2>1. ForwardTypeOK' /\ EntriesFit'
    BY <1>0, <1>1 DEF ProbePort, BindFails
  <2>2. OneHolder'
    BY <1>0, <1>1, HoldersKept DEF ProbePort, BindFails, Holding
  <2>3. RunningIsListed'
    BY <1>0, <1>1, ListedKept DEF ProbePort, BindFails
  <2> QED BY <2>1, <2>2, <2>3 DEF ForwardInv
<1>2. ASSUME NEW f \in Forwards, Bind(f) PROVE ForwardInv'
  <2>1. ForwardTypeOK' /\ EntriesFit'
    BY <1>0, <1>2 DEF Bind
  <2>2. RunningIsListed'
    BY <1>0, <1>2, ListedKept DEF Bind
  <2> QED BY <1>0, <1>2, <2>1, <2>2, PortTaken DEF ForwardInv
<1>3. ASSUME NEW f \in Forwards, Register(f) PROVE ForwardInv'
  <2>1. ForwardTypeOK' /\ EntriesFit'
    BY <1>0, <1>3 DEF Register
  <2>2. OneHolder'
    BY <1>0, <1>3, HoldersKept DEF Register, Holding
  <2>3. RunningIsListed'
    <3> SUFFICES ASSUME NEW g \in Forwards, forwarder'[g] = "running", forwards'[fwdId[g]] # g
                 PROVE \E h \in Forwards \ {g} :
                         fwdId[h] = fwdId[g] /\ h \in fwdError /\ status'[h] # ""
      BY <1>3 DEF Register, RunningIsListed
    <3>1. g # f /\ forwarder[g] = "running"
      BY <1>0, <1>3 DEF Register
    <3>2. CASE forwards[fwdId[g]] # g
      <4>1. PICK h \in Forwards \ {g} : fwdId[h] = fwdId[g] /\ h \in fwdError /\ status[h] # ""
        BY <1>0, <3>1, <3>2 DEF RunningIsListed
      <4> QED BY <1>0, <1>3, <4>1 DEF Register
    <3>3. CASE forwards[fwdId[g]] = g
      <4>1. fwdId[f] = fwdId[g]
        BY <1>0, <1>3, <3>3 DEF Register
      <4>2. forwarder[f] # "ready"
        BY <1>0, <3>1, <4>1 DEF OneHolder, Holding
      <4>3. f \in fwdError /\ status'[f] = "Active"
        BY <1>0, <1>3, <4>2 DEF Register
      <4> QED BY <3>1, <4>1, <4>3
    <3> QED BY <3>2, <3>3
  <2> QED BY <2>1, <2>2, <2>3 DEF ForwardInv
<1>4. ASSUME NEW f \in Forwards, ConnectionLost(f) \/ ForwarderStops(f) PROVE ForwardInv'
  <2>1. ForwardTypeOK' /\ EntriesFit'
    BY <1>0, <1>4 DEF ConnectionLost, ForwarderStops
  <2>2. OneHolder'
    BY <1>0, <1>4, HoldersKept DEF ConnectionLost, ForwarderStops, Holding
  <2>3. RunningIsListed'
    BY <1>0, <1>4, ListedKept DEF ConnectionLost, ForwarderStops
  <2> QED BY <2>1, <2>2, <2>3 DEF ForwardInv
<1>5. ASSUME NEW f \in Forwards, Monitor(f) PROVE ForwardInv'
  <2>1. /\ UNCHANGED <<forwards, fwdId, forwarder, fwdError>>
        /\ monitor' = [monitor EXCEPT ![f] = "ended"]
        /\ \/ status' = status
           \/ \E s \in {"Error", "Stopped"} : status' = [status EXCEPT ![forwards[fwdId[f]]] = s]
    BY <1>5 DEF Monitor
  <2>2. status' \in [Forwards -> {"", "Active", "Stopped", "Error"}]
    BY <1>0, <2>1
  <2>3. ForwardTypeOK' /\ EntriesFit'
    BY <1>0, <2>1, <2>2
  <2>4. OneHolder'
    BY <1>0, <2>1, HoldersKept DEF Holding
  <2>5. RunningIsListed'
    <3>1. \A g \in Forwards : status'[g] = "" => status[g] = ""
      BY <1>0, <2>1
    <3> QED BY <1>0, <2>1, <3>1, ListedKept
  <2> QED BY <2>3, <2>4, <2>5 DEF ForwardInv
<1>6. ASSUME NEW i \in ForwardIds, StopForward(i) PROVE ForwardInv'
  <2>1. ForwardTypeOK' /\ EntriesFit'
    BY <1>0, <1>6 DEF StopForward, Stopped
  <2>2. OneHolder'
    BY <1>0, <1>6, HoldersKept DEF StopForward, Stopped, Holding
  <2>3. RunningIsListed'
    <3>1. \A f \in Forwards : forwarder'[f] = "running" /\ forwards'[fwdId[f]] # f =>
                               forwarder[f] = "running" /\ forwards[fwdId[f]] # f
      BY <1>0, <1>6 DEF StopForward, Stopped
    <3>2. fwdId' = fwdId /\ fwdError' = fwdError /\ status' = status
      BY <1>6 DEF StopForward
    <3> QED BY <1>0, <3>1, <3>2, ListedKept
  <2> QED BY <2>1, <2>2, <2>3 DEF ForwardInv
<1>7. CASE StopAllForwards
  <2>1. ForwardTypeOK' /\ EntriesFit'
    BY <1>0, <1>7 DEF StopAllForwards, Stopped
  <2>2. OneHolder'
    BY <1>0, <1>7, HoldersKept DEF StopAllForwards, Stopped, Holding
  <2>3. RunningIsListed'
    <3>1. \A f \in Forwards : forwarder'[f] = "running" /\ forwards'[fwdId[f]] # f =>
                               forwarder[f] = "running" /\ forwards[fwdId[f]] # f
      BY <1>0, <1>7, ZenonT(60) DEF StopAllForwards, Stopped
    <3>2. fwdId' = fwdId /\ fwdError' = fwdError /\ status' = status
      BY <1>7 DEF StopAllForwards
    <3> QED BY <1>0, <3>1, <3>2, ListedKept
  <2> QED BY <2>1, <2>2, <2>3 DEF ForwardInv
<1>8. CASE UNCHANGED fwdVars
  BY <1>0, <1>8 DEF fwdVars, ForwardInv, OneHolder, Holding, RunningIsListed
<1> QED BY <1>1, <1>2, <1>3, <1>4, <1>5, <1>6, <1>7, <1>8 DEF ForwardNext

(* A running forwarder is the one its id is registered to, unless an        *)
(* earlier forwarder of the id failed before it was entered: the port that  *)
(* the id determines has one holder, whatever is created and stopped.       *)
THEOREM RunningForwardsAreListed == ForwardSpec => []RunningIsListed
<1>1. ForwardInv => RunningIsListed
  BY DEF ForwardInv
<1> QED BY <1>1, ForwardStarts, ForwardSteps, PTL DEF ForwardSpec

-----------------------------------------------------------------------------
(* Log streams.  A wrapper starts when its source does; the lines in a      *)
(* channel are the last that were scanned, and the one in hand precedes     *)
(* them.                                                                    *)
WrapperFollows == \A g \in Streams : scanner[g] \in {"unused", "opening"} => wrapper[g] = "unused"
ChannelInOrder ==
  \A g \in Streams :
    /\ Len(lineCh[g]) <= written[g]
    /\ \A i \in 1..Len(lineCh[g]) : lineCh[g][i] = written[g] - Len(lineCh[g]) + i
HeldIsNext ==
  \A g \in Streams : wrapper[g] = "appending" =>
    inHand[g] = written[g] - Len(lineCh[g]) /\ inHand[g] > 0

LogInv ==
  LogTypeOK /\ OneStream /\ WrapperFollows /\ ChannelInOrder /\ HeldIsNext /\ LinesUnbroken

Lines == [stream : Streams, n : 1..MaxLine]

LEMMA LogStarts == LogInit => LogInv
<1> SUFFICES ASSUME LogInit PROVE LogInv
  OBVIOUS
<1> USE LogAssumption DEF LogInit
<1>1. LogTypeOK
  <2>1. /\ written \in [Streams -> 0..MaxLine] /\ inHand \in [Streams -> 0..MaxLine]
        /\ forwarded \in [Streams -> 0..OutSlots]
    OBVIOUS
  <2>2. lines \in Seq(Lines) /\ lineCh \in [Streams -> Seq(1..MaxLine)]
    OBVIOUS
  <2> QED BY <2>1, <2>2 DEF LogTypeOK, Lines
<1>2. OneStream /\ WrapperFollows /\ ChannelInOrder /\ HeldIsNext
  BY DEF OneStream, WrapperFollows, ChannelInOrder, HeldIsNext
<1>3. LinesUnbroken
  <2>1. Len(lines) = 0
    OBVIOUS
  <2>2. 1..Len(lines) = {}
    BY <2>1
  <2> QED BY <2>2 DEF LinesUnbroken, Unbroken
<1> QED BY <1>1, <1>2, <1>3 DEF LogInv

(* A line is added at the end, and what is dropped is dropped in front. *)
LEMMA LineAdded ==
  ASSUME NEW s \in Seq(Lines), NEW l \in Lines
  PROVE LET t == Trimmed(Append(s, l))
        IN \E d \in 0..Len(s) :
             /\ t \in Seq(Lines) /\ Len(t) = Len(s) + 1 - d
             /\ t[Len(t)] = l
             /\ \A i \in 1..(Len(t) - 1) : t[i] = s[i + d]
<1> DEFINE a == Append(s, l)
<1>1. a \in Seq(Lines) /\ Len(a) = Len(s) + 1 /\ a[Len(s) + 1] = l
      /\ \A i \in 1..Len(s) : a[i] = s[i]
  OBVIOUS
<1>2. Len(s) \in Nat /\ MaxLines \in Nat \ {0}
  BY LogAssumption
<1> HIDE DEF a
<1>3. CASE Len(a) > MaxLines
  <2> DEFINE d == Len(a) - MaxLines
             t == SubSeq(a, d + 1, Len(a))
  <2>1. d \in 1..Len(s)
    BY <1>1, <1>2, <1>3
  <2>2. t \in Seq(Lines) /\ Len(t) = Len(a) - d /\ \A i \in 1..Len(t) : t[i] = a[i + d]
    BY <1>1, <1>2, <2>1, SubSeqProperties, Z3
  <2>3. Trimmed(a) = t
    BY <1>3 DEF Trimmed
  <2> HIDE DEF d, t
  <2>4. Len(t) = Len(s) + 1 - d /\ Len(t) \in 1..(Len(s) + 1) /\ Len(t) + d = Len(s) + 1
    BY <1>1, <1>2, <2>1, <2>2
  <2>5. t[Len(t)] = l
    BY <1>1, <2>2, <2>4
  <2>6. \A i \in 1..(Len(t) - 1) : t[i] = s[i + d]
    <3> TAKE i \in 1..(Len(t) - 1)
    <3>1. i \in 1..Len(t) /\ i + d \in 1..Len(s)
      BY <1>2, <2>1, <2>4
    <3>2. t[i] = a[i + d]
      BY <2>2, <3>1
    <3> QED BY <1>1, <3>1, <3>2
  <2> QED BY <1>2, <2>1, <2>2, <2>3, <2>4, <2>5, <2>6 DEF a
<1>4. CASE ~(Len(a) > MaxLines)
  <2>1. Trimmed(a) = a
    BY <1>4 DEF Trimmed
  <2> QED BY <1>1, <1>2, <2>1 DEF a
<1> QED BY <1>3, <1>4


(* The lines added and dropped keep the run, when the new one is the next. *)
LEMMA UnbrokenGrows ==
  ASSUME NEW s \in Seq(Lines), NEW last \in [Streams -> Int], Unbroken(s, last),
         NEW g \in Streams, NEW n \in 1..MaxLine, n = last[g] + 1
  PROVE Unbroken(Trimmed(Append(s, [stream |-> g, n |-> n])), [last EXCEPT ![g] = n])
<1> DEFINE l == [stream |-> g, n |-> n]
           t == Trimmed(Append(s, l))
           next == [last EXCEPT ![g] = n]
<1>1. l \in Lines /\ l.stream = g /\ l.n = n
  BY DEF Lines
<1>2. \A i \in 1..Len(s) : s[i].stream \in Streams /\ s[i].n \in 1..MaxLine
  <2> TAKE i \in 1..Len(s)
  <2>1. s[i] \in Lines
    OBVIOUS
  <2> QED BY <2>1 DEF Lines
<1>3. next \in [Streams -> Int] /\ next[g] = n /\ \A h \in Streams \ {g} : next[h] = last[h]
  BY LogAssumption
<1> HIDE DEF l
<1>4. PICK d \in 0..Len(s) :
        /\ t \in Seq(Lines) /\ Len(t) = Len(s) + 1 - d
        /\ t[Len(t)] = l
        /\ \A i \in 1..(Len(t) - 1) : t[i] = s[i + d]
  BY <1>1, LineAdded
<1> HIDE DEF t, next
<1>5. Len(s) \in Nat /\ Len(t) \in Nat
  BY <1>4
<1>8. d \in Nat /\ Len(t) = Len(s) + 1 - d
  BY <1>4
<1> SUFFICES ASSUME NEW i \in 1..Len(t)
             PROVE LET h == t[i].stream IN
               /\ t[i].n <= next[h]
               /\ \A j \in (i + 1)..Len(t) : t[j].stream = h => t[j].n > t[i].n
               /\ \A m \in (t[i].n + 1)..next[h] :
                    \E j \in (i + 1)..Len(t) : t[j] = [stream |-> h, n |-> m]
  BY DEF Unbroken, t, next, l
<1>6. CASE i = Len(t)
  <2>1. (i + 1)..Len(t) = {} /\ (n + 1)..next[g] = {} /\ n <= next[g]
    BY <1>3, <1>5, <1>6, LogAssumption
  <2> QED BY <1>1, <1>4, <1>6, <2>1
<1>7. CASE i < Len(t)
  <2> DEFINE h == s[i + d].stream
             m0 == s[i + d].n
  <2>1. i + d \in 1..Len(s) /\ t[i] = s[i + d]
    <3>1. i \in 1..(Len(t) - 1) /\ i + d \in 1..Len(s)
      BY <1>4, <1>5, <1>7
    <3> QED BY <1>4, <3>1
  <2>2. /\ m0 <= last[h]
        /\ \A j \in (i + d + 1)..Len(s) : s[j].stream = h => s[j].n > m0
        /\ \A m \in (m0 + 1)..last[h] :
             \E j \in (i + d + 1)..Len(s) : s[j] = [stream |-> h, n |-> m]
    BY <2>1 DEF Unbroken
  <2>3. h \in Streams /\ m0 \in Int /\ t[i].stream = h /\ t[i].n = m0
    <3>1. s[i + d].stream \in Streams /\ s[i + d].n \in 1..MaxLine
      BY ONLY <1>2, <2>1
    <3> QED BY ONLY <2>1, <3>1, LogAssumption DEF h, m0
  <2> HIDE DEF h, m0
  <2>4. last[h] \in Int /\ n \in Int /\ last[h] <= next[h]
    <3>1. last[h] \in Int /\ n \in Int
      BY <2>3, LogAssumption
    <3>2. CASE h = g
      BY ONLY <1>3, <3>1, <3>2, n = last[g] + 1
    <3>3. CASE h # g
      BY ONLY <1>3, <2>3, <3>1, <3>3
    <3> QED BY <3>1, <3>2, <3>3
  <2>5. ASSUME NEW j \in (i + 1)..Len(t), t[j].stream = h PROVE t[j].n > m0
    <3>1. CASE j = Len(t)
      <4>1. g = h /\ t[j].n = n
        BY <1>1, <1>4, <2>5, <3>1
      <4> QED BY <2>2, <2>3, <2>4, <4>1
    <3>2. CASE j < Len(t)
      <4>1. t[j] = s[j + d] /\ j + d \in (i + d + 1)..Len(s)
        <5>1. j \in 1..(Len(t) - 1) /\ j + d \in (i + d + 1)..Len(s)
          BY ONLY <1>5, <1>8, <3>2, i \in 1..Len(t), j \in (i + 1)..Len(t)
        <5> QED BY ONLY <1>4, <5>1
      <4> QED BY <2>2, <2>5, <4>1
    <3> QED BY ONLY <1>5, <2>5, <3>1, <3>2
  <2>6. ASSUME NEW m \in (m0 + 1)..next[h]
        PROVE \E j \in (i + 1)..Len(t) : t[j] = [stream |-> h, n |-> m]
    <3>1. CASE h = g /\ m = n
      <4>1. Len(t) \in (i + 1)..Len(t)
        BY <1>5, <1>7
      <4> QED BY <1>4, <3>1, <4>1 DEF l
    <3>2. CASE ~(h = g /\ m = n)
      <4>1. m \in (m0 + 1)..last[h]
        BY <1>3, <2>3, <2>4, <3>2
      <4>2. PICK j \in (i + d + 1)..Len(s) : s[j] = [stream |-> h, n |-> m]
        BY <2>2, <4>1
      <4> DEFINE k == j - d
      <4>3. k \in (i + 1)..(Len(t) - 1) /\ k \in 1..(Len(t) - 1) /\ k + d = j
        <5>1. j \in Int /\ i \in Int /\ i >= 1 /\ i + d + 1 <= j /\ j <= Len(s)
          BY ONLY <1>5, <1>8, <4>2, i \in 1..Len(t), j \in (i + d + 1)..Len(s)
        <5> QED BY ONLY <1>5, <1>8, <5>1
      <4> HIDE DEF k
      <4>4. t[k] = s[k + d]
        BY <1>4, <4>3, Zenon
      <4>5. k \in (i + 1)..Len(t)
        BY <1>5, <4>3
      <4> QED BY <4>2, <4>3, <4>4, <4>5
    <3> QED BY <3>1, <3>2
  <2>7. m0 <= next[h]
    BY <1>3, <2>2, <2>3, <2>4
  <2> QED BY <2>3, <2>5, <2>6, <2>7
<1> QED BY <1>5, <1>6, <1>7
(* What the buffer shows is judged by the lines and by how far each wrapper is. *)
LEMMA UnbrokenKept ==
  ASSUME LinesUnbroken, lines' = lines \/ lines' = <<>>, Dealt' = Dealt
  PROVE LinesUnbroken'
<1>1. CASE lines' = <<>>
  <2>1. 1..Len(lines') = {}
    BY <1>1
  <2> QED BY <2>1 DEF LinesUnbroken, Unbroken
<1>2. CASE lines' = lines
  BY <1>2 DEF LinesUnbroken
<1> QED BY <1>1, <1>2

LEMMA TailTaken ==
  ASSUME NEW T, NEW s \in Seq(T), s # <<>>
  PROVE /\ Tail(s) \in Seq(T) /\ Len(Tail(s)) = Len(s) - 1
        /\ Len(s) \in Nat \ {0} /\ Head(s) = s[1]
        /\ \A i \in 1..(Len(s) - 1) : Tail(s)[i] = s[i + 1]
BY HeadTailProperties

LEMMA LogSteps == LogInv /\ [LogNext]_logVars => LogInv'
<1> SUFFICES ASSUME LogInv, [LogNext]_logVars PROVE LogInv'
  OBVIOUS
<1>0. LogTypeOK /\ OneStream /\ WrapperFollows /\ ChannelInOrder /\ HeldIsNext /\ LinesUnbroken
  BY DEF LogInv
<1> USE LogAssumption DEF OneStream, WrapperFollows, ChannelInOrder, HeldIsNext
<1>1. ASSUME NEW g \in Streams, StreamLogs(g) PROVE LogInv'
  <2>1. LogTypeOK'
    BY <1>0, <1>1 DEF StreamLogs, LogTypeOK
  <2>2. OneStream' /\ WrapperFollows'
    BY <1>0, <1>1 DEF StreamLogs, LogTypeOK
  <2>3. ChannelInOrder' /\ HeldIsNext'
    BY <1>0, <1>1 DEF StreamLogs
  <2>4. Dealt' = Dealt
    BY <1>1 DEF StreamLogs, Dealt
  <2>5. LinesUnbroken'
    BY <1>0, <1>1, <2>4, UnbrokenKept DEF StreamLogs
  <2> QED BY <2>1, <2>2, <2>3, <2>5 DEF LogInv
<1>2. ASSUME NEW g \in Streams, OpenLogs(g) PROVE LogInv'
  <2>1. LogTypeOK'
    BY <1>0, <1>2 DEF OpenLogs, LogTypeOK
  <2>2. OneStream' /\ WrapperFollows'
    BY <1>0, <1>2 DEF OpenLogs, LogTypeOK
  <2>3. \A h \in Streams : wrapper'[h] = "appending" <=> wrapper[h] = "appending"
    BY <1>0, <1>2 DEF OpenLogs, LogTypeOK
  <2>4. ChannelInOrder' /\ HeldIsNext'
    BY <1>0, <1>2, <2>3 DEF OpenLogs
  <2>5. Dealt' = Dealt
    BY <1>2, <2>3 DEF OpenLogs, Dealt
  <2>6. LinesUnbroken'
    BY <1>0, <1>2, <2>5, UnbrokenKept DEF OpenLogs
  <2> QED BY <2>1, <2>2, <2>4, <2>6 DEF LogInv
<1>3. ASSUME NEW g \in Streams, ScanLine(g) PROVE LogInv'
  <2>1. written[g] + 1 \in 1..MaxLine /\ lineCh[g] \in Seq(1..MaxLine)
    BY <1>0, <1>3, SMTT(30) DEF ScanLine, LogTypeOK
  <2>2. LogTypeOK'
    <3>1. Append(lineCh[g], written[g] + 1) \in Seq(1..MaxLine)
      BY <2>1
    <3>2. lineCh' \in [Streams -> Seq(1..MaxLine)] /\ written' \in [Streams -> 0..MaxLine]
      BY <1>0, <1>3, <2>1, <3>1, SMTT(30) DEF ScanLine, LogTypeOK
    <3> QED BY <1>0, <1>3, <3>2 DEF ScanLine, LogTypeOK
  <2>3. OneStream' /\ WrapperFollows'
    BY <1>0, <1>3 DEF ScanLine
  <2>4. /\ written'[g] = written[g] + 1 /\ lineCh'[g] = Append(lineCh[g], written[g] + 1)
        /\ \A h \in Streams \ {g} : written'[h] = written[h] /\ lineCh'[h] = lineCh[h]
        /\ wrapper' = wrapper /\ inHand' = inHand /\ lines' = lines
    BY <1>0, <1>3 DEF ScanLine, LogTypeOK
  <2>5. Len(lineCh'[g]) = Len(lineCh[g]) + 1 /\ Len(lineCh[g]) \in Nat /\ written[g] \in Nat
    BY <1>0, <2>1, <2>4 DEF LogTypeOK
  <2>6. ChannelInOrder'
    <3> SUFFICES ASSUME NEW h \in Streams
                 PROVE /\ Len(lineCh'[h]) <= written'[h]
                       /\ \A i \in 1..Len(lineCh'[h]) :
                            lineCh'[h][i] = written'[h] - Len(lineCh'[h]) + i
      BY DEF ChannelInOrder
    <3>1. CASE h # g
      <4>1. written'[h] = written[h] /\ lineCh'[h] = lineCh[h]
        BY <2>4, <3>1
      <4> QED BY <1>0, <4>1, SMTT(30)
    <3>2. CASE h = g
      <4>1. Len(lineCh'[g]) <= written'[g]
        BY <1>0, <2>4, <2>5
      <4>2. ASSUME NEW i \in 1..Len(lineCh'[g])
            PROVE lineCh'[g][i] = written'[g] - Len(lineCh'[g]) + i
        <5>1. CASE i = Len(lineCh[g]) + 1
          BY <2>1, <2>4, <2>5, <5>1
        <5>2. CASE i \in 1..Len(lineCh[g])
          <6>1. lineCh[g][i] = written[g] - Len(lineCh[g]) + i
            BY <1>0, <5>2
          <6>2. Append(lineCh[g], written[g] + 1)[i] = lineCh[g][i]
            BY <2>1, <5>2
          <6>3. lineCh'[g][i] = written[g] - Len(lineCh[g]) + i
            BY <2>4, <6>1, <6>2
          <6>4. written'[g] - Len(lineCh'[g]) + i = written[g] - Len(lineCh[g]) + i
            BY <2>4, <2>5, <5>2
          <6> QED BY <6>3, <6>4
        <5> QED BY <2>5, <5>1, <5>2
      <4> QED BY <3>2, <4>1, <4>2
    <3> QED BY <3>1, <3>2
  <2>7. \A h \in Streams : written'[h] - Len(lineCh'[h]) = written[h] - Len(lineCh[h])
    <3>1. written'[g] - Len(lineCh'[g]) = written[g] - Len(lineCh[g])
      BY <2>4, <2>5
    <3> QED BY <2>4, <3>1
  <2>8. HeldIsNext'
    BY <1>0, <2>4, <2>7
  <2>9. Dealt' = Dealt
    BY <2>4, <2>7 DEF Dealt
  <2>10. LinesUnbroken'
    BY <1>0, <2>4, <2>9, UnbrokenKept
  <2> QED BY <2>2, <2>3, <2>6, <2>8, <2>10 DEF LogInv
<1>4. ASSUME NEW g \in Streams, ScanCanceled(g) \/ PodEnds(g) PROVE LogInv'
  <2>1. LogTypeOK'
    BY <1>0, <1>4 DEF ScanCanceled, PodEnds, LogTypeOK
  <2>2. OneStream' /\ WrapperFollows'
    BY <1>0, <1>4 DEF ScanCanceled, PodEnds, LogTypeOK
  <2>3. ChannelInOrder' /\ HeldIsNext'
    BY <1>0, <1>4 DEF ScanCanceled, PodEnds
  <2>4. LinesUnbroken'
    BY <1>0, <1>4, UnbrokenKept DEF ScanCanceled, PodEnds, Dealt
  <2> QED BY <2>1, <2>2, <2>3, <2>4 DEF LogInv
<1>5. ASSUME NEW g \in Streams, TakeLine(g) PROVE LogInv'
  <2>1. /\ lineCh[g] \in Seq(1..MaxLine) /\ lineCh[g] # <<>> /\ written[g] \in 0..MaxLine
        /\ Len(lineCh[g]) <= written[g]
        /\ \A i \in 1..Len(lineCh[g]) : lineCh[g][i] = written[g] - Len(lineCh[g]) + i
    BY <1>0, <1>5 DEF TakeLine, LogTypeOK
  <2>2. /\ Tail(lineCh[g]) \in Seq(1..MaxLine) /\ Len(Tail(lineCh[g])) = Len(lineCh[g]) - 1
        /\ Len(lineCh[g]) \in Nat \ {0} /\ Head(lineCh[g]) = lineCh[g][1]
        /\ \A i \in 1..(Len(lineCh[g]) - 1) : Tail(lineCh[g])[i] = lineCh[g][i + 1]
    BY <2>1, TailTaken
  <2>3. lineCh[g][1] \in 1..MaxLine /\ lineCh[g][1] = written[g] - Len(lineCh[g]) + 1
    <3>1. 1 \in 1..Len(lineCh[g])
      BY ONLY <2>2
    <3>2. lineCh[g][1] \in 1..MaxLine
      BY <2>1, <3>1
    <3> QED BY ONLY <2>1, <3>1, <3>2
  <2>4. /\ inHand'[g] = lineCh[g][1] /\ lineCh'[g] = Tail(lineCh[g]) /\ wrapper'[g] = "appending"
        /\ \A h \in Streams \ {g} :
             inHand'[h] = inHand[h] /\ lineCh'[h] = lineCh[h] /\ wrapper'[h] = wrapper[h]
        /\ written' = written /\ lines' = lines /\ wrapper[g] = "reading"
    BY <1>0, <1>5, <2>2 DEF TakeLine, LogTypeOK
  <2>5. LogTypeOK'
    <3>1. lineCh' \in [Streams -> Seq(1..MaxLine)]
      BY <1>0, <1>5, <2>2 DEF TakeLine, LogTypeOK
    <3>2. /\ inHand' \in [Streams -> 0..MaxLine]
          /\ wrapper' \in [Streams -> {"unused", "reading", "appending", "forwarding", "ended"}]
      <4>1. Head(lineCh[g]) \in 0..MaxLine
        BY <2>2, <2>3
      <4> QED BY <1>0, <1>5, <4>1 DEF TakeLine, LogTypeOK
    <3> QED BY <1>0, <1>5, <3>1, <3>2 DEF TakeLine, LogTypeOK
  <2>6. OneStream' /\ WrapperFollows'
    BY <1>0, <1>5 DEF TakeLine, LogTypeOK
  <2>7. ChannelInOrder'
    <3> SUFFICES ASSUME NEW h \in Streams
                 PROVE /\ Len(lineCh'[h]) <= written'[h]
                       /\ \A i \in 1..Len(lineCh'[h]) :
                            lineCh'[h][i] = written'[h] - Len(lineCh'[h]) + i
      BY DEF ChannelInOrder
    <3>1. CASE h # g
      <4>1. written'[h] = written[h] /\ lineCh'[h] = lineCh[h]
        BY <2>4, <3>1
      <4> QED BY <1>0, <4>1, SMTT(30)
    <3>2. CASE h = g
      <4>1. Len(lineCh'[g]) <= written'[g]
        BY <2>1, <2>2, <2>4
      <4>2. ASSUME NEW i \in 1..Len(lineCh'[g])
            PROVE lineCh'[g][i] = written'[g] - Len(lineCh'[g]) + i
        <5>1. i \in 1..(Len(lineCh[g]) - 1) /\ i + 1 \in 1..Len(lineCh[g])
          BY <2>2, <2>4
        <5>2. lineCh'[g][i] = lineCh[g][i + 1]
          BY <2>2, <2>4, <5>1
        <5>3. lineCh[g][i + 1] = written[g] - Len(lineCh[g]) + (i + 1)
          BY <2>1, <5>1
        <5>4. /\ Len(lineCh'[g]) = Len(lineCh[g]) - 1 /\ written'[g] = written[g]
              /\ Len(lineCh[g]) \in Int /\ written[g] \in Int /\ i \in Int
          BY <2>1, <2>2, <2>4
        <5>5. written[g] - Len(lineCh[g]) + (i + 1) = written[g] - (Len(lineCh[g]) - 1) + i
          <6>1. \A w, k, x \in Int : w - k + (x + 1) = w - (k - 1) + x
            OBVIOUS
          <6>2. written[g] \in Int /\ Len(lineCh[g]) \in Int /\ i \in Int
            BY <5>4
          <6> QED BY <6>1, <6>2, Zenon
        <5> QED BY <5>2, <5>3, <5>4, <5>5
      <4> QED BY <3>2, <4>1, <4>2
    <3> QED BY <3>1, <3>2
  <2>8. HeldIsNext'
    <3>1. inHand'[g] = written'[g] - Len(lineCh'[g]) /\ inHand'[g] > 0
      <4>1. /\ Len(lineCh'[g]) = Len(lineCh[g]) - 1 /\ written'[g] = written[g]
            /\ Len(lineCh[g]) \in Int /\ written[g] \in Int
        BY ONLY <2>1, <2>2, <2>4
      <4>2. inHand'[g] = written[g] - Len(lineCh[g]) + 1 /\ inHand'[g] \in 1..MaxLine
        BY ONLY <2>3, <2>4
      <4> QED BY ONLY <4>1, <4>2
    <3> QED BY <1>0, <2>4, <3>1
  <2>9. Dealt' = Dealt
    <3>1. written'[g] - Len(lineCh'[g]) - 1 = written[g] - Len(lineCh[g]) - 0
      <4>1. /\ Len(lineCh'[g]) = Len(lineCh[g]) - 1 /\ written'[g] = written[g]
            /\ Len(lineCh[g]) \in Int /\ written[g] \in Int
        BY ONLY <2>1, <2>2, <2>4
      <4> QED BY ONLY <4>1
    <3> QED BY <2>4, <3>1 DEF Dealt
  <2>10. LinesUnbroken'
    BY <1>0, <2>4, <2>9, UnbrokenKept
  <2> QED BY <2>5, <2>6, <2>7, <2>8, <2>10 DEF LogInv
<1>6. ASSUME NEW g \in Streams, LineChannelClosed(g) \/ Forward(g) \/ ForwardCanceled(g)
      PROVE LogInv'
  <2>1. /\ wrapper[g] \in {"reading", "forwarding"} /\ wrapper'[g] \in {"reading", "ended"}
        /\ wrapper' \in [Streams -> {"unused", "reading", "appending", "forwarding", "ended"}]
        /\ \A h \in Streams \ {g} : wrapper'[h] = wrapper[h]
        /\ UNCHANGED <<current, lines, scanner, written, lineCh, inHand, logCanceled>>
    BY <1>0, <1>6, ZenonT(60) DEF LineChannelClosed, Forward, ForwardCanceled, LogTypeOK
  <2>2. forwarded' \in [Streams -> 0..OutSlots]
    <3>1. CASE Forward(g)
      <4>1. forwarded[g] + 1 \in 0..OutSlots
        BY <1>0, <3>1 DEF Forward, LogTypeOK
      <4> QED BY <1>0, <3>1, <4>1 DEF Forward, LogTypeOK
    <3>2. CASE ~Forward(g)
      BY <1>0, <1>6, <3>2 DEF LineChannelClosed, ForwardCanceled, LogTypeOK
    <3> QED BY <3>1, <3>2
  <2>3. LogTypeOK'
    BY <1>0, <2>1, <2>2 DEF LogTypeOK
  <2>4. OneStream' /\ WrapperFollows'
    BY <1>0, <2>1
  <2>5. ChannelInOrder' /\ HeldIsNext'
    BY <1>0, <2>1
  <2>6. Dealt' = Dealt
    BY <2>1 DEF Dealt
  <2>7. LinesUnbroken'
    BY <1>0, <2>1, <2>6, UnbrokenKept
  <2> QED BY <2>3, <2>4, <2>5, <2>7 DEF LogInv
<1>7. ASSUME NEW g \in Streams, AppendLine(g) PROVE LogInv'
  <2> DEFINE n == inHand[g]
  <2>1. n \in 1..MaxLine /\ n = written[g] - Len(lineCh[g]) /\ wrapper[g] = "appending"
    BY <1>0, <1>7 DEF AppendLine, LogTypeOK
  <2>2. /\ written[g] \in Int /\ \A h \in Streams : Len(lineCh[h]) \in Int /\ written[h] \in Int
    BY <1>0 DEF LogTypeOK
  <2>3. /\ inHand'[g] = 0 /\ wrapper'[g] = "forwarding"
        /\ \A h \in Streams \ {g} : inHand'[h] = inHand[h] /\ wrapper'[h] = wrapper[h]
        /\ UNCHANGED <<current, scanner, written, lineCh, forwarded, logCanceled>>
        /\ lines' = Trimmed(Append(lines, [stream |-> g, n |-> n]))
    BY <1>0, <1>7 DEF AppendLine, LogTypeOK
  <2>4. lines \in Seq(Lines) /\ [stream |-> g, n |-> n] \in Lines
    BY <1>0, <2>1 DEF LogTypeOK, Lines
  <2>5. lines' \in Seq(Lines)
    BY <2>3, <2>4, LineAdded
  <2>6. LogTypeOK'
    <3>1. /\ inHand' \in [Streams -> 0..MaxLine]
          /\ wrapper' \in [Streams -> {"unused", "reading", "appending", "forwarding", "ended"}]
      BY <1>0, <1>7 DEF AppendLine, LogTypeOK
    <3> QED BY <1>0, <2>3, <2>5, <3>1 DEF LogTypeOK, Lines
  <2>7. OneStream' /\ WrapperFollows'
    BY <1>0, <2>1, <2>3
  <2>8. ChannelInOrder' /\ HeldIsNext'
    BY <1>0, <2>3
  <2>9. Dealt \in [Streams -> Int] /\ n = Dealt[g] + 1 /\ Dealt' = [Dealt EXCEPT ![g] = n]
    <3>1. Dealt \in [Streams -> Int]
      BY <2>2 DEF Dealt
    <3>2. Dealt[g] = n - 1
      BY <2>1 DEF Dealt
    <3>3. n \in Int /\ n - 0 = n
      BY <2>1, LogAssumption
    <3>4. \A h \in Streams : Dealt'[h] = IF h = g THEN n ELSE Dealt[h]
      BY <2>1, <2>3, <3>3 DEF Dealt
    <3>5. Dealt' = [h \in Streams |-> Dealt'[h]]
      BY DEF Dealt
    <3> QED BY <3>1, <3>2, <3>3, <3>4, <3>5
  <2> HIDE DEF n
  <2>10. LinesUnbroken'
    <3>1. Unbroken(lines, Dealt)
      BY <1>0 DEF LinesUnbroken
    <3>2. Unbroken(Trimmed(Append(lines, [stream |-> g, n |-> n])), [Dealt EXCEPT ![g] = n])
      BY <2>1, <2>4, <2>9, <3>1, UnbrokenGrows
    <3> DEFINE buffer == Trimmed(Append(lines, [stream |-> g, n |-> n]))
               last == [Dealt EXCEPT ![g] = n]
    <3>3. lines' = buffer /\ Dealt' = last /\ Unbroken(buffer, last)
      BY <2>3, <2>9, <3>2
    <3> HIDE DEF buffer, last
    <3> QED BY <3>3 DEF LinesUnbroken, Unbroken
  <2> QED BY <2>6, <2>7, <2>8, <2>10 DEF LogInv
<1>8. CASE StopStreaming \/ ClearBuffer
  <2>1. LogTypeOK'
    <3>1. CASE StopStreaming
      BY <1>0, <3>1 DEF StopStreaming, LogTypeOK
    <3>2. CASE ClearBuffer
      BY <1>0, <3>2 DEF ClearBuffer, LogTypeOK
    <3> QED BY <1>8, <3>1, <3>2
  <2>2. OneStream' /\ WrapperFollows'
    BY <1>0, <1>8 DEF StopStreaming, ClearBuffer, LogTypeOK
  <2>3. ChannelInOrder' /\ HeldIsNext'
    BY <1>0, <1>8 DEF StopStreaming, ClearBuffer
  <2>4. Dealt' = Dealt
    BY <1>8 DEF StopStreaming, ClearBuffer, Dealt
  <2>5. LinesUnbroken'
    BY <1>0, <1>8, <2>4, UnbrokenKept DEF StopStreaming, ClearBuffer
  <2> QED BY <2>1, <2>2, <2>3, <2>5 DEF LogInv
<1>9. CASE UNCHANGED logVars
  <2>1. LogTypeOK'
    BY <1>0, <1>9 DEF logVars, LogTypeOK
  <2>2. OneStream' /\ WrapperFollows' /\ ChannelInOrder' /\ HeldIsNext'
    BY <1>0, <1>9 DEF logVars
  <2>3. LinesUnbroken'
    BY <1>0, <1>9, UnbrokenKept DEF logVars, Dealt
  <2> QED BY <2>1, <2>2, <2>3 DEF LogInv
<1> QED BY <1>1, <1>2, <1>3, <1>4, <1>5, <1>6, <1>7, <1>8, <1>9 DEF LogNext, Scan, Wrap

(* At most one stream runs uncanceled, for any number of streams and any    *)
(* sizes of the channels: a new one cancels the one before it (logs.go).    *)
THEOREM OneStreamRuns == LogSpec => []OneStream
<1>1. LogInv => OneStream
  BY DEF LogInv
<1> QED BY <1>1, LogStarts, LogSteps, PTL DEF LogSpec

(* What the buffer holds of each stream is an unbroken run of its lines,    *)
(* for any number of streams and any sizes of the buffer and the channels.  *)
THEOREM BufferIsUnbroken == LogSpec => []LinesUnbroken
<1>1. LogInv => LinesUnbroken
  BY DEF LogInv
<1> QED BY <1>1, LogStarts, LogSteps, PTL DEF LogSpec
-----------------------------------------------------------------------------
(* The services share no state: each keeps its invariant whichever steps.  *)
ServicesInv == WatchInv /\ LogInv /\ ForwardInv /\ TerminalInv /\ CollectorInv

LEMMA ServicesStep == ServicesInv /\ [Next]_vars => ServicesInv'
<1> SUFFICES ASSUME ServicesInv, [Next]_vars PROVE ServicesInv'
  OBVIOUS
<1>1. /\ [WatchNext]_watchVars /\ [LogNext]_logVars /\ [ForwardNext]_fwdVars
      /\ [TerminalNext]_termVars /\ [EventNext]_eventVars
  BY DEF Next, vars
<1> QED BY <1>1, WatchSteps, LogSteps, ForwardSteps, TerminalSteps, CollectorSteps DEF ServicesInv

(* Every service's state keeps its type at every step: registries name      *)
(* calls, and channels stay within their slots, whatever the capacities.    *)
THEOREM StreamTypes == Spec => []TypeOK
<1>1. Init => ServicesInv
  BY WatchStarts, LogStarts, ForwardStarts, TerminalStarts, CollectorStarts DEF Init, ServicesInv
<1>2. ServicesInv => TypeOK
  BY DEF ServicesInv, WatchInv, LogInv, ForwardInv, TerminalInv, CollectorInv, TypeOK
<1> QED BY <1>1, <1>2, ServicesStep, PTL DEF Spec
=============================================================================
