---------------------------- MODULE EventCollector ----------------------------
(***************************************************************************)
(* The history's event collector (internal/history/events.go): one watch   *)
(* goroutine for each connected cluster, started and stopped by            *)
(* refreshWatches, which the ticker of the collector's loop and every      *)
(* connect and disconnect call beside one another.  A watch keeps the      *)
(* client it got at its start.  Of a cluster's events one is followed, by  *)
(* the version of it the API server has and the one that was saved last.   *)
(* The row it is saved in, with the count that every save adds to and that *)
(* other events of the same object and reason share, is left out.          *)
(***************************************************************************)
EXTENDS Naturals

CONSTANTS
  Clusters,
  NoClient,       \* 0: the cluster is not connected
  MaxClients,     \* bound: clients made for a cluster
  MaxCollectors,  \* bound: watch goroutines started for a cluster
  MaxRefreshes,   \* bound: calls of Refresh under way
  MaxVersions     \* bound: times the event occurs

ASSUME EventCollectorAssumption ==
  NoClient = 0 /\ {MaxClients, MaxCollectors, MaxRefreshes, MaxVersions} \subseteq Nat

VARIABLES
  client,      \* the open client of each cluster; the latest has the highest number
  clients,     \* the clients made for each cluster
  collecting,  \* EventCollector.running
  loop,        \* where its loop is
  refreshes,   \* the calls of Refresh that wait for the mutex
  watches,     \* the goroutine whose cancel function is registered for a cluster
  collector,   \* the goroutines started for a cluster
  latest,      \* the event's version on the API server, 0 before it first occurs
  saved        \* the version saved last

rowVars == <<latest, saved>>
eventVars == <<client, clients, collecting, loop, refreshes, watches, collector, rowVars>>

NoCollector == 0
Goroutines == 1..MaxCollectors
Places == {"unused", "starting", "syncing", "listed", "opening", "watching", "retrying", "ended"}
Live(c, g) == collector[c][g].at \notin {"unused", "ended"} /\ ~collector[c][g].canceled

EventInit ==
  /\ client = [c \in Clusters |-> NoClient] /\ clients = [c \in Clusters |-> 0]
  /\ collecting = TRUE /\ loop = "refreshing" /\ refreshes = 0
  /\ watches = [c \in Clusters |-> NoCollector]
  /\ collector = [c \in Clusters |->
       [g \in Goroutines |->
         [at |-> "unused", client |-> NoClient, canceled |-> FALSE, next |-> 0]]]
  /\ latest = [c \in Clusters |-> 0] /\ saved = [c \in Clusters |-> 0]

-----------------------------------------------------------------------------
(* Connect and Disconnect of the app: each leaves a goroutine that calls Refresh. *)
RefreshLater == refreshes < MaxRefreshes /\ refreshes' = refreshes + 1

ConnectCluster(c) ==
  /\ client[c] = NoClient /\ clients[c] < MaxClients
  /\ clients' = [clients EXCEPT ![c] = @ + 1] /\ client' = [client EXCEPT ![c] = clients[c] + 1]
  /\ RefreshLater
  /\ UNCHANGED <<collecting, loop, watches, collector, rowVars>>
DisconnectCluster(c) ==
  /\ client[c] # NoClient
  /\ client' = [client EXCEPT ![c] = NoClient]
  /\ RefreshLater
  /\ UNCHANGED <<clients, collecting, loop, watches, collector, rowVars>>

(* What one call does under the mutex: a watch for each connected cluster   *)
(* that has no entry, also none that has ended, and none for the others.    *)
Unused(c) == {g \in Goroutines : collector[c][g].at = "unused"}
Another(c) == CHOOSE g \in Unused(c) : TRUE
Missing == {c \in Clusters : client[c] # NoClient /\ watches[c] = NoCollector}
Gone == {c \in Clusters : client[c] = NoClient /\ watches[c] # NoCollector}

(* Mutant: the entry is deleted and its watch not canceled. *)
WithoutForgotten(c) == collector[c]
Without(c) == [collector[c] EXCEPT ![watches[c]].canceled = TRUE]

refreshWatches ==
  /\ \A c \in Missing : Unused(c) # {}
  /\ watches' = [c \in Clusters |->
       IF c \in Missing THEN Another(c) ELSE IF c \in Gone THEN NoCollector ELSE watches[c]]
  /\ collector' = [c \in Clusters |->
       CASE c \in Missing -> [collector[c] EXCEPT ![Another(c)].at = "starting"]
         [] c \in Gone -> Without(c)
         [] OTHER -> collector[c]]

(* Refresh looks at nothing else: after Stop it starts watches again. *)
Refresh ==
  /\ refreshes > 0 /\ refreshes' = refreshes - 1
  /\ refreshWatches
  /\ UNCHANGED <<client, clients, collecting, loop, rowVars>>

(* The loop refreshes first, and then at every tick; a tick may be taken    *)
(* although the stop has come.                                              *)
RunRefreshes ==
  /\ loop = "refreshing" /\ loop' = "waiting"
  /\ refreshWatches
  /\ UNCHANGED <<client, clients, collecting, refreshes, rowVars>>
RunWaits ==
  /\ loop = "waiting" /\ loop' \in {"refreshing"} \cup (IF collecting THEN {} ELSE {"ended"})
  /\ UNCHANGED <<client, clients, collecting, refreshes, watches, collector, rowVars>>

Stop ==
  /\ collecting /\ collecting' = FALSE
  /\ watches' = [c \in Clusters |-> NoCollector]
  /\ collector' = [c \in Clusters |-> IF watches[c] = NoCollector THEN collector[c] ELSE Without(c)]
  /\ UNCHANGED <<client, clients, loop, refreshes, rowVars>>

-----------------------------------------------------------------------------
(* The event occurs again: the API server has a new version of it. *)
EventOccurs(c) ==
  /\ latest[c] < MaxVersions /\ latest' = [latest EXCEPT ![c] = @ + 1]
  /\ UNCHANGED <<client, clients, collecting, loop, refreshes, watches, collector, saved>>

(* A watch goroutine: what its own steps leave alone, and how one goes from *)
(* a place to the next with the version it is to process then.              *)
OthersStay == UNCHANGED <<client, clients, collecting, loop, refreshes, watches, latest>>
Goes(c, g, from, to, version) ==
  /\ collector[c][g].at = from
  /\ collector' = [collector EXCEPT ![c][g].at = to, ![c][g].next = version]
  /\ OthersStay
Answers(c, g) == collector[c][g].client = client[c] /\ ~collector[c][g].canceled

(* It takes the client there is by now; without one its entry stays. *)
GetClient(c, g) ==
  /\ collector[c][g].at = "starting"
  /\ collector' = [collector EXCEPT ![c][g].client = client[c],
       ![c][g].at = IF client[c] = NoClient THEN "ended" ELSE "syncing"]
  /\ OthersStay /\ UNCHANGED saved

(* The events there are are listed, this one among them, or not. *)
syncExistingEvents(c, g) ==
  /\ UNCHANGED saved
  /\ \/ Answers(c, g) /\ latest[c] > 0 /\ Goes(c, g, "syncing", "listed", latest[c])
     \/ Goes(c, g, "syncing", "opening", 0)

(* A watch asks for no version: it begins with the event as it is, which a  *)
(* listing or an earlier watch may have had, and goes on with what follows. *)
Replayed(c) == IF latest[c] = 0 THEN 1 ELSE latest[c]

(* The first watch that fails is not tried again, and its entry stays. *)
WatchEvents(c, g) ==
  /\ UNCHANGED saved
  /\ \/ Answers(c, g) /\ Goes(c, g, "opening", "watching", Replayed(c))
     \/ Goes(c, g, "opening", "ended", 0)

(* The version is saved whatever there is of the event already; a save with *)
(* a canceled context fails, and another may.                               *)
Saves(c, g) ==
  {saved[c]} \cup (IF collector[c][g].canceled THEN {} ELSE {collector[c][g].next})
processEvent(c, g) ==
  /\ \/ Goes(c, g, "listed", "opening", 0)
     \/ /\ collector[c][g].next <= latest[c]
        /\ Goes(c, g, "watching", "watching", collector[c][g].next + 1)
  /\ \E version \in Saves(c, g) : saved' = [saved EXCEPT ![c] = version]

(* A stream goes on when its client is closed.  Once it has ended, a client *)
(* that is closed is asked again and again.                                 *)
StreamEnds(c, g) == Goes(c, g, "watching", "retrying", 0) /\ UNCHANGED saved
Reconnect(c, g) ==
  Answers(c, g) /\ Goes(c, g, "retrying", "watching", Replayed(c)) /\ UNCHANGED saved
Canceled(c, g) ==
  /\ collector[c][g].canceled
  /\ Goes(c, g, "watching", "ended", 0) \/ Goes(c, g, "retrying", "ended", 0)
  /\ UNCHANGED saved

CollectorStep(c, g) ==
  \/ GetClient(c, g) \/ syncExistingEvents(c, g) \/ WatchEvents(c, g) \/ processEvent(c, g)
  \/ StreamEnds(c, g) \/ Reconnect(c, g) \/ Canceled(c, g)

EventNext ==
  \/ Refresh \/ RunRefreshes \/ RunWaits \/ Stop
  \/ \E c \in Clusters : ConnectCluster(c) \/ DisconnectCluster(c) \/ EventOccurs(c)
  \/ \E c \in Clusters, g \in Goroutines : CollectorStep(c, g)

EventSpec == EventInit /\ [][EventNext]_eventVars

-----------------------------------------------------------------------------
EventTypeOK ==
  /\ client \in [Clusters -> 0..MaxClients] /\ clients \in [Clusters -> 0..MaxClients]
  /\ collecting \in BOOLEAN /\ loop \in {"refreshing", "waiting", "ended"}
  /\ refreshes \in 0..MaxRefreshes
  /\ watches \in [Clusters -> 0..MaxCollectors]
  /\ collector \in [Clusters -> [Goroutines ->
       [at : Places, client : 0..MaxClients, canceled : BOOLEAN, next : 0..(MaxVersions + 1)]]]
  /\ latest \in [Clusters -> 0..MaxVersions] /\ saved \in [Clusters -> 0..MaxVersions]

(* A cluster has at most one watch goroutine that is not canceled, and it   *)
(* is the one the registry can cancel, whichever refreshes of the loop, of  *)
(* connects and disconnects and of a shutdown come between one another.     *)
CollectedOnce ==
  \A c \in Clusters : \A g \in Goroutines : Live(c, g) => watches[c] = g

(* Of an event no older version is saved after a newer one: not by a        *)
(* listing or a watch that repeats what was saved before, nor by a watch of *)
(* before a disconnect beside the one that a new connect has started.       *)
SavesGoForward == [][\A c \in Clusters : saved'[c] >= saved[c]]_eventVars
=============================================================================
