---------------------------- MODULE ResourceWatch ----------------------------
(***************************************************************************)
(* The resource watchers of resource_watcher.go over cluster.Watch         *)
(* (internal/client/cluster.go).  A watch is two goroutines with a channel *)
(* between them: the source reads the API server's stream, the consumer    *)
(* emits "resource:changed".  The map App.watchers holds the cancel        *)
(* function of one watch per kind; a watch is named by its number.         *)
(***************************************************************************)
EXTENDS Naturals

CONSTANTS
  Kinds,      \* resource kinds
  Watches,    \* calls of StartResourceWatch that reach the cluster
  NoWatch,
  EventSlots  \* capacity of the channel, 100 in the code

ASSUME WatchAssumption == NoWatch \notin Watches /\ EventSlots \in Nat

VARIABLES
  watchers,       \* App.watchers
  watchKind,      \* the kind each watch is for
  source,         \* "unused", "reading", "sending" (an event in hand), "ended"
  consumer,       \* "unused", "reading", "leaving", "ended"
  queued,         \* events in the channel
  watchCanceled,  \* watches whose context is canceled
  stoppedAll      \* auxiliary: StopAllResourceWatchers was called, and no
                  \* StartResourceWatch since

watchVars == <<watchers, watchKind, source, consumer, queued, watchCanceled, stoppedAll>>

WatchTypeOK ==
  /\ watchers \in [Kinds -> Watches \cup {NoWatch}]
  /\ watchKind \in [Watches -> Kinds]
  /\ source \in [Watches -> {"unused", "reading", "sending", "ended"}]
  /\ consumer \in [Watches -> {"unused", "reading", "leaving", "ended"}]
  /\ queued \in [Watches -> 0..EventSlots]
  /\ watchCanceled \subseteq Watches
  /\ stoppedAll \in BOOLEAN

WatchInit ==
  /\ watchers = [k \in Kinds |-> NoWatch]
  /\ watchKind \in [Watches -> Kinds]
  /\ source = [w \in Watches |-> "unused"]
  /\ consumer = [w \in Watches |-> "unused"]
  /\ queued = [w \in Watches |-> 0]
  /\ watchCanceled = {}
  /\ stoppedAll = FALSE

-----------------------------------------------------------------------------
Registered(k) == {watchers[k]} \ {NoWatch}

(* Mutant: the watcher a kind already has is not canceled. *)
StartResourceWatchOver(w) ==
  LET k == watchKind[w] IN
  /\ source[w] = "unused"
  /\ stoppedAll' = FALSE
  /\ watchers' = [watchers EXCEPT ![k] = w]
  /\ source' = [source EXCEPT ![w] = "reading"]
  /\ consumer' = [consumer EXCEPT ![w] = "reading"]
  /\ UNCHANGED <<watchKind, queued, watchCanceled>>

(* StartResourceWatch holds App.mu across the cluster's Watch call.  The    *)
(* kind's old watcher is canceled first, so that when Watch fails the kind  *)
(* is left with none.                                                       *)
StartResourceWatch(w) ==
  LET k == watchKind[w] IN
  /\ source[w] = "unused"
  /\ stoppedAll' = FALSE
  /\ \/ /\ watchers' = [watchers EXCEPT ![k] = w]
        /\ source' = [source EXCEPT ![w] = "reading"]
        /\ consumer' = [consumer EXCEPT ![w] = "reading"]
        /\ watchCanceled' = watchCanceled \cup Registered(k)
     \/ /\ watchers' = [watchers EXCEPT ![k] = NoWatch]
        /\ source' = [source EXCEPT ![w] = "ended"]
        /\ consumer' = [consumer EXCEPT ![w] = "ended"]
        /\ watchCanceled' = watchCanceled \cup Registered(k) \cup {w}
  /\ UNCHANGED <<watchKind, queued>>

StopResourceWatch(k) ==
  /\ watchers[k] # NoWatch
  /\ watchCanceled' = watchCanceled \cup Registered(k)
  /\ watchers' = [watchers EXCEPT ![k] = NoWatch]
  /\ UNCHANGED <<watchKind, source, consumer, queued, stoppedAll>>

StopAllResourceWatchers ==
  /\ watchCanceled' = watchCanceled \cup UNION {Registered(k) : k \in Kinds}
  /\ watchers' = [k \in Kinds |-> NoWatch]
  /\ stoppedAll' = TRUE
  /\ UNCHANGED <<watchKind, source, consumer, queued>>

-----------------------------------------------------------------------------
(* The source: an event arrives, or its context is canceled, or the server  *)
(* ends the stream.  The send that follows watches neither.                 *)
SourceReads(w) ==
  /\ source[w] = "reading"
  /\ source' = [source EXCEPT ![w] = "sending"]
  /\ UNCHANGED <<watchers, watchKind, consumer, queued, watchCanceled, stoppedAll>>

SourceSends(w) ==
  /\ source[w] = "sending"
  /\ queued[w] < EventSlots
  /\ queued' = [queued EXCEPT ![w] = @ + 1]
  /\ source' = [source EXCEPT ![w] = "reading"]
  /\ UNCHANGED <<watchers, watchKind, consumer, watchCanceled, stoppedAll>>

SourceCanceled(w) ==
  /\ source[w] = "reading"
  /\ w \in watchCanceled
  /\ source' = [source EXCEPT ![w] = "ended"]
  /\ UNCHANGED <<watchers, watchKind, consumer, queued, watchCanceled, stoppedAll>>

StreamCloses(w) ==
  /\ source[w] = "reading"
  /\ source' = [source EXCEPT ![w] = "ended"]
  /\ UNCHANGED <<watchers, watchKind, consumer, queued, watchCanceled, stoppedAll>>

(* The consumer: an event is emitted; the loop is left when the context is  *)
(* canceled, or when the channel is closed and empty.                       *)
ConsumerEmits(w) ==
  /\ consumer[w] = "reading"
  /\ queued[w] > 0
  /\ queued' = [queued EXCEPT ![w] = @ - 1]
  /\ UNCHANGED <<watchers, watchKind, source, consumer, watchCanceled, stoppedAll>>

(* Mutant: a canceled consumer leaves only when the stream closes. *)
ConsumerLeavesOnClose(w) ==
  /\ consumer[w] = "reading"
  /\ source[w] = "ended" /\ queued[w] = 0
  /\ consumer' = [consumer EXCEPT ![w] = "leaving"]
  /\ UNCHANGED <<watchers, watchKind, source, queued, watchCanceled, stoppedAll>>

ConsumerLeaves(w) ==
  /\ consumer[w] = "reading"
  /\ w \in watchCanceled \/ (source[w] = "ended" /\ queued[w] = 0)
  /\ consumer' = [consumer EXCEPT ![w] = "leaving"]
  /\ UNCHANGED <<watchers, watchKind, source, queued, watchCanceled, stoppedAll>>

(* The deferred delete, of whichever watch the kind has by now. *)
ConsumerCleansUp(w) ==
  /\ consumer[w] = "leaving"
  /\ consumer' = [consumer EXCEPT ![w] = "ended"]
  /\ watchers' = [watchers EXCEPT ![watchKind[w]] = NoWatch]
  /\ UNCHANGED <<watchKind, source, queued, watchCanceled, stoppedAll>>

(* The steps of a consumer that has reason to leave. *)
ConsumerExit(w) == ConsumerLeaves(w) \/ ConsumerCleansUp(w)

WatchNext ==
  \/ \E w \in Watches :
       \/ StartResourceWatch(w)
       \/ SourceReads(w) \/ SourceSends(w) \/ SourceCanceled(w) \/ StreamCloses(w)
       \/ ConsumerEmits(w) \/ ConsumerExit(w)
  \/ \E k \in Kinds : StopResourceWatch(k)
  \/ StopAllResourceWatchers

WatchFairness == \A w \in Watches : WF_watchVars(ConsumerExit(w))

WatchSpec == WatchInit /\ [][WatchNext]_watchVars /\ WatchFairness

-----------------------------------------------------------------------------
(* The watch a kind's entry names is for that kind and not yet canceled:    *)
(* stopping the kind stops something, however starts, failures and          *)
(* clean-ups of earlier watches interleave.                                 *)
RegisteredIsUncanceled ==
  \A k \in Kinds : \A w \in Registered(k) :
    watchKind[w] = k /\ w \notin watchCanceled /\ consumer[w] # "ended"

(* A watch escapes its registry only where an older watch of its kind has   *)
(* ended: the deferred delete is the only way to lose a running watcher.    *)
EscapesOnlyByCleanup ==
  \A w \in Watches :
    consumer[w] = "reading" /\ w \notin watchCanceled /\ watchers[watchKind[w]] # w
      => \E v \in Watches \ {w} : watchKind[v] = watchKind[w] /\ consumer[v] = "ended"

(* What a kind's entry names runs and can be stopped, and what runs is     *)
(* named by its kind's entry, but for that one way to lose it.              *)
WatchersNamed == RegisteredIsUncanceled /\ EscapesOnlyByCleanup

(* A canceled consumer ends. *)
CanceledConsumerEnds ==
  \A w \in Watches : w \in watchCanceled ~> consumer[w] = "ended"

=============================================================================
