---------------------------- MODULE TimelineView -----------------------------
(***************************************************************************)
(* Events and cluster snapshots over time (TimelineView.tsx).  Without the *)
(* history database the view falls back to the cluster's own events; with  *)
(* it, two snapshots can be picked and compared.  A refresh, a comparison  *)
(* and a snapshot being taken run beside each other and share one spinner. *)
(***************************************************************************)
EXTENDS ListView, Sequences

VARIABLES
  typeFilter,
  picks,               \* the snapshots picked, A and then B
  timelineAvailable

timelineVars == <<listVars, typeFilter, picks, timelineAvailable>>
ownVars == <<typeFilter, picks, timelineAvailable>>

EventTypes == {"all", "Warning", "Normal"}
EventFields == {"time", "type", "reason", "object", "count"}
TimelineParts == {"events", "snapshots"}
TimelineShown == activeView = "timeline"
Newest == [field |-> "time", direction |-> "desc"]

TimelineInit == typeFilter = "all" /\ picks = <<>> /\ timelineAvailable = TRUE
Forgotten == typeFilter' = "all" /\ picks' = <<>> /\ timelineAvailable' = TRUE

(* The view asks for the events, and for the snapshots if there is a history. *)
Listed == {"events"} \cup (IF timelineAvailable' THEN {"snapshots"} ELSE {})
Spinning == isLoading' = TRUE /\ failed' = FALSE

OpenTimeline ==
  /\ ~TimelineShown /\ Navigate("timeline")
  /\ Forgotten
  /\ Begin({"available"} \cup (IF isConnected THEN Listed ELSE {}))
  /\ isLoading' = isConnected
  /\ Fresh("events", TimelineParts, Newest)

CloseTimeline(to) == Unmount("timeline", to) /\ Forgotten

(* The effect on the connection and the filters.  A disconnect keeps picks. *)
Renewed(pending) ==
  IF isConnected'
  THEN /\ BagCardinality(pending) + Cardinality(Listed) <= MaxCalls
       /\ calls' = pending (+) SetToBag(Listed)
       /\ Spinning /\ UNCHANGED held
  ELSE /\ held' = [p \in TimelineParts |-> 0]
       /\ calls' = pending /\ UNCHANGED <<isLoading, failed>>

TimelineConnection ==
  /\ TimelineShown /\ UNCHANGED <<chosenVars, opened, ownVars>>
  /\ IF isConnected' = isConnected THEN UNCHANGED <<held, calls, isLoading, failed, index>>
     ELSE Renewed(calls) /\ ResetIf(held'["events"] # held["events"])

(* The namespace, the type (also by the key w) or another range of time. *)
FilterEvents(ns, type) ==
  /\ TimelineShown
  /\ \/ tab = "events" /\ ns \in Filters \cup {NoFilter} /\ type = typeFilter
     \/ tab = "events" /\ ns = filter
     \/ ns = filter /\ type = IF typeFilter = "Warning" THEN "all" ELSE "Warning"
  /\ filter' = ns /\ typeFilter' = type
  /\ UNCHANGED <<shellVars, tab, search, sort, opened, picks, timelineAvailable>>
  /\ IF ns = filter /\ type = typeFilter THEN UNCHANGED <<held, calls, isLoading, failed, index>>
     ELSE Renewed(calls) /\ index' = -1
ChooseRange ==
  /\ TimelineShown /\ tab = "events" /\ "range" \in opened
  /\ opened' = opened \ {"range"}
  /\ UNCHANGED <<shellVars, chosenVars, ownVars>>
  /\ Renewed(calls) /\ ResetIf(held'["events"] # held["events"])

(* The button and the key r; the timer of the automatic refresh asks again *)
(* whatever is under way.                                                  *)
RefreshEvents ==
  /\ TimelineShown /\ isConnected
  /\ ~isLoading \/ "auto" \in opened
  /\ Begin({"events"}) /\ Spinning
  /\ UNCHANGED <<shellVars, chosenVars, held, index, opened, ownVars>>

-----------------------------------------------------------------------------
(* Rows arrive; the spinner stops for every call that shares it. *)
Arrive(part, n) ==
  /\ held' = [held EXCEPT ![part] = n]
  /\ ResetIf(held'["events"] # held["events"])

EventsReturn ==
  /\ TimelineShown
  /\ UNCHANGED <<shellVars, chosenVars, opened, ownVars>>
  /\ \E call \in {"events", "fallback"} : End(call)
  /\ isLoading' = FALSE
  /\ \/ \E n \in Sizes : Arrive("events", n) /\ failed' = failed
     \/ failed' = TRUE /\ UNCHANGED <<held, index>>

(* No history: the fallback is asked for, and the effect asks once more. *)
NotAvailable ==
  /\ TimelineShown /\ BagIn("events", calls)
  /\ timelineAvailable' = FALSE /\ UNCHANGED <<shellVars, chosenVars, opened, typeFilter, picks>>
  /\ LET pending == (calls (-) SetToBag({"events"})) (+) SetToBag({"fallback"})
     IN IF timelineAvailable
        THEN Renewed(pending) /\ ResetIf(held'["events"] # held["events"])
        ELSE calls' = pending /\ UNCHANGED <<held, isLoading, failed, index>>

AvailableReturns(answer) ==
  /\ TimelineShown /\ BagIn("available", calls)
  /\ timelineAvailable' = answer
  /\ UNCHANGED <<shellVars, chosenVars, opened, typeFilter, picks>>
  /\ LET pending == calls (-) SetToBag({"available"})
     IN IF answer # timelineAvailable
        THEN Renewed(pending) /\ ResetIf(held'["events"] # held["events"])
        ELSE calls' = pending /\ UNCHANGED <<held, isLoading, failed, index>>

(* A failure to list the snapshots is only logged. *)
SnapshotsReturn ==
  /\ TimelineShown /\ (End("snapshots") \/ End("taken"))
  /\ \E n \in Sizes : held' = [held EXCEPT !["snapshots"] = n]
  /\ UNCHANGED <<shellVars, chosenVars, isLoading, failed, index, opened, ownVars>>

-----------------------------------------------------------------------------
(* The tabs, and the key e; a comparison left that way is not forgotten, *)
(* but there is no way back to it.                                       *)
ShowEvents ==
  /\ TimelineShown /\ tab' = "events"
  /\ UNCHANGED <<shellVars, filter, search, sort, held, calls, isLoading, failed, index,
                 opened, ownVars>>
ShowSnapshots ==
  /\ TimelineShown /\ timelineAvailable
  /\ Begin({"snapshots"}) /\ tab' = "snapshots"
  /\ UNCHANGED <<shellVars, filter, search, sort, held, isLoading, failed, index, opened, ownVars>>
BackToSnapshots ==
  /\ TimelineShown /\ tab = "diff"
  /\ tab' = "snapshots" /\ opened' = opened \ {"diff"}
  /\ UNCHANGED <<shellVars, filter, search, sort, held, calls, isLoading, failed, index, ownVars>>

(* A second click takes a pick back, a third pick drops the first. *)
Repicked(picked, s) ==
  IF \E i \in DOMAIN picked : picked[i] = s
  THEN IF Head(picked) = s THEN Tail(picked) ELSE <<Head(picked)>>
  ELSE IF Len(picked) >= 2 THEN <<picked[2], s>> ELSE Append(picked, s)
toggleSnapshotSelection(s) ==
  /\ TimelineShown /\ tab = "snapshots" /\ s \in 1..held["snapshots"]
  /\ picks' = Repicked(picks, s)
  /\ UNCHANGED <<shellVars, listVars, typeFilter, timelineAvailable>>

CompareSnapshots ==
  /\ TimelineShown /\ tab = "snapshots" /\ Len(picks) = 2 /\ ~isLoading
  /\ Begin({"compare"}) /\ isLoading' = TRUE
  /\ UNCHANGED <<shellVars, chosenVars, held, failed, index, opened, ownVars>>

(* The comparison is shown wherever the user has gone meanwhile. *)
ComparisonReturns ==
  /\ TimelineShown /\ End("compare") /\ isLoading' = FALSE
  /\ \/ tab' = "diff" /\ opened' = opened \cup {"diff"} /\ failed' = failed
     \/ failed' = TRUE /\ UNCHANGED <<tab, opened>>
  /\ UNCHANGED <<shellVars, filter, search, sort, held, index, ownVars>>

handleTakeSnapshot ==
  /\ TimelineShown /\ tab = "snapshots" /\ isConnected
  /\ ~BagIn("take", calls) /\ ~BagIn("taken", calls)
  /\ Begin({"take"})
  /\ UNCHANGED <<shellVars, chosenVars, held, isLoading, failed, index, opened, ownVars>>
SnapshotTaken ==
  /\ TimelineShown /\ BagIn("take", calls)
  /\ \/ calls' = (calls (-) SetToBag({"take"})) (+) SetToBag({"taken"})
     \/ End("take")
  /\ UNCHANGED <<shellVars, chosenVars, held, isLoading, failed, index, opened, ownVars>>

(* The keys count all events, also those the search leaves out. *)
MoveInTimeline ==
  /\ TimelineShown /\ tab = "events"
  /\ MoveIndex(held["events"])
  /\ UNCHANGED <<shellVars, chosenVars, held, calls, isLoading, failed, opened, ownVars>>

(* Time starts with the latest, the other fields ascending. *)
handleEventSort(field) ==
  /\ TimelineShown /\ tab = "events"
  /\ sort' = IF sort.field = field THEN Turned(sort)
             ELSE IF field = "time" THEN Newest ELSE Ascending(field)
  /\ UNCHANGED <<shellVars, tab, filter, search, held, calls, isLoading, failed, index, opened, ownVars>>

TimelineNext ==
  \/ OpenTimeline \/ ChooseRange \/ RefreshEvents \/ EventsReturn \/ NotAvailable
  \/ SnapshotsReturn \/ ShowEvents \/ ShowSnapshots \/ BackToSnapshots
  \/ CompareSnapshots \/ ComparisonReturns \/ handleTakeSnapshot \/ SnapshotTaken \/ MoveInTimeline
  \/ \E v \in Views : CloseTimeline(v)
  \/ \E ns \in Filters \cup {NoFilter}, type \in EventTypes : FilterEvents(ns, type)
  \/ \E answer \in BOOLEAN : AvailableReturns(answer)
  \/ \E s \in 1..MaxItems : toggleSnapshotSelection(s)
  \/ \E f \in EventFields : handleEventSort(f)
  \/ /\ TimelineShown /\ UNCHANGED ownVars
     /\ \/ tab = "events" /\ \E panel \in {"range", "auto", "info"} : Toggle(panel)
        \/ tab = "events" /\ \E text \in BOOLEAN : Type(text)

(* Two different snapshots at most are picked, a comparison's page has one *)
(* to show, and the highlight is on an event.                              *)
TimelineTypeOK ==
  IF TimelineShown
  THEN /\ tab \in {"events", "snapshots", "diff"} /\ held \in [TimelineParts -> Sizes]
       /\ tab = "diff" => "diff" \in opened
       /\ Len(picks) <= 2 /\ (Len(picks) = 2 => picks[1] # picks[2])
       /\ IndexWithin(held["events"])
  ELSE TimelineInit
=============================================================================
