------------------------------ MODULE LogsView -------------------------------
(***************************************************************************)
(* The page that shows the logs of the pod or workload chosen in the       *)
(* explorer (LogsView.tsx).  Every change of the choice or the connection  *)
(* stops the old stream and starts a new one without waiting for either,   *)
(* and the poll that fetches the lines begins when a start has answered,   *)
(* whatever has happened meanwhile; the backend keeps one stream           *)
(* (LogStream).                                                            *)
(***************************************************************************)
EXTENDS AppShell

CONSTANTS LogTargets, NoTarget,  \* pods and workloads, and none
          isWorkload(_),
          MaxLogCalls            \* bound: starts under way, and stops

VARIABLES
  selectedPod,             \* what the App has chosen
  starts, stops,           \* calls under way: [target, mine], and a number
  answers,                 \* of this page's starts: [target, ok]
  streamed, buffered,      \* what the backend streams, and whose lines it has kept
  poll, lost,              \* the poll the page can clear; its kinds of polls that it cannot
  isStreaming, logsLoading, logsError,
  logs,                    \* whose lines are shown
  autoScroll

serviceVars == <<answers, streamed, buffered>>
pageVars == <<poll, lost, isStreaming, logsLoading, logsError, logs, autoScroll>>
logsVars == <<selectedPod, starts, stops, serviceVars, pageVars>>

LogsShown == activeView = "logs"
Target == LogTargets \cup {NoTarget}
PollKinds == {"pod", "workload"}
PollOf(t) == IF isWorkload(t) THEN "workload" ELSE "pod"

LogsInit ==
  /\ selectedPod = NoTarget /\ starts = {} /\ stops = 0
  /\ answers = {} /\ streamed = NoTarget /\ buffered = NoTarget
  /\ poll = "none" /\ lost = {} /\ isStreaming = FALSE /\ logsLoading = FALSE
  /\ logsError = FALSE /\ logs = NoTarget /\ autoScroll = TRUE

(* Starting empties the page; a start is not waited for. *)
startLogs(t) ==
  /\ [target |-> t, mine |-> TRUE] \notin starts /\ Cardinality(starts) < MaxLogCalls
  /\ starts' = starts \cup {[target |-> t, mine |-> TRUE]}
  /\ logsLoading' = TRUE /\ logsError' = FALSE /\ logs' = NoTarget

(* Stopping clears the poll there is and asks the backend. *)
stopLogs(n) ==
  /\ stops + n <= MaxLogCalls /\ stops' = stops + n
  /\ poll' = "none" /\ isStreaming' = FALSE

(* The effect on the choice and the connection, and its cleanup. *)
Restart(t, online) ==
  /\ stopLogs(1)
  /\ IF t # NoTarget /\ online THEN startLogs(t)
     ELSE UNCHANGED <<starts, logsLoading, logsError, logs>>

(* From the explorer with a choice, or back by the sidebar to the last one: *)
(* the page is a new one, and nothing ran that it could stop.               *)
OpenLogs(t) ==
  /\ ~LogsShown /\ Navigate("logs")
  /\ t = selectedPod \/ (activeView = "explorer" /\ isConnected)
  /\ selectedPod' = t
  /\ IF t # NoTarget /\ isConnected THEN startLogs(t)
     ELSE UNCHANGED starts /\ logsLoading' = FALSE /\ logsError' = FALSE /\ logs' = NoTarget
  /\ autoScroll' = TRUE
  /\ UNCHANGED <<stops, serviceVars, poll, lost, isStreaming>>

(* The page goes away.  Its starts go on; the polls they begin when they   *)
(* answer, like those lost before, run on without a page to show anything. *)
Gone ==
  /\ logsLoading' = FALSE /\ logsError' = FALSE /\ logs' = NoTarget /\ autoScroll' = TRUE
  /\ starts' = {[c EXCEPT !.mine = FALSE] : c \in starts} /\ answers' = {} /\ lost' = {}
  /\ UNCHANGED <<streamed, buffered>>
LeaveLogs(v) ==
  /\ LogsShown /\ v # "logs" /\ Navigate(v)
  /\ stopLogs(1) /\ Gone
  /\ UNCHANGED selectedPod

(* Escape and the cross stop the stream, and once more when the page goes. *)
onClearPod ==
  /\ LogsShown /\ Navigate("explorer")
  /\ selectedPod' = NoTarget
  /\ stopLogs(2) /\ Gone

LogsConnection ==
  IF LogsShown /\ isConnected' # isConnected
  THEN Restart(selectedPod, isConnected') /\ UNCHANGED <<selectedPod, serviceVars, lost, autoScroll>>
  ELSE UNCHANGED logsVars

-----------------------------------------------------------------------------
(* The backend takes the calls in whatever order they reach it.  A start   *)
(* gives up the stream and the lines there were; a stop keeps the lines.   *)
StopLogStream ==
  /\ stops > 0 /\ stops' = stops - 1
  /\ streamed' = NoTarget
  /\ UNCHANGED <<shellVars, selectedPod, starts, answers, buffered, pageVars>>
StartLogStream(c) ==
  /\ c \in starts /\ starts' = starts \ {c}
  /\ \E ok \in BOOLEAN :
       /\ \/ ok /\ streamed' = c.target /\ buffered' = c.target
          \/ ~ok /\ streamed' = NoTarget /\ buffered' = NoTarget
          \/ ~ok /\ UNCHANGED <<streamed, buffered>>
       /\ answers' = answers \cup (IF c.mine THEN {[target |-> c.target, ok |-> ok]} ELSE {})
  /\ UNCHANGED <<shellVars, selectedPod, stops, pageVars>>

(* A poll begins, and the last one, if it was not cleared, goes on unseen.  *)
(* A start canceled by the next one is no error.                            *)
StartReturns(a) ==
  /\ a \in answers /\ answers' = answers \ {a} /\ logsLoading' = FALSE
  /\ IF a.ok
     THEN /\ isStreaming' = TRUE /\ logsError' = logsError
          /\ lost' = lost \cup ({poll} \ {"none"}) /\ poll' = PollOf(a.target)
     ELSE logsError' \in {logsError, TRUE} /\ UNCHANGED <<lost, poll, isStreaming>>
  /\ UNCHANGED <<shellVars, selectedPod, starts, stops, streamed, buffered, logs, autoScroll>>

(* A poll, also a lost one, shows the lines the backend keeps  *)
(* of its kind; the page shows the lines of the kind chosen.                *)
PollLogs ==
  /\ LogsShown /\ buffered # NoTarget
  /\ PollOf(buffered) \in lost \cup {poll}
  /\ selectedPod # NoTarget /\ PollOf(selectedPod) = PollOf(buffered)
  /\ logs' = buffered
  /\ UNCHANGED <<shellVars, selectedPod, starts, stops, serviceVars, poll, lost, isStreaming,
                 logsLoading, logsError, autoScroll>>

(* Lines are there once loading is over, and new ones are scrolled to      *)
(* unless the user has scrolled away.                                      *)
LogPage ==
  CASE ~isConnected -> "connect" [] isConnected /\ selectedPod = NoTarget -> "select"
    [] OTHER -> IF logsLoading THEN "loading" ELSE IF logsError THEN "error"
                ELSE IF logs = NoTarget THEN "none" ELSE "lines"
handleScroll(near) ==
  /\ LogsShown /\ LogPage = "lines"
  /\ autoScroll' = near
  /\ UNCHANGED <<shellVars, selectedPod, starts, stops, serviceVars, poll, lost, isStreaming,
                 logsLoading, logsError, logs>>
scrollToBottom == ~autoScroll /\ handleScroll(TRUE)

LogsNext ==
  \/ onClearPod \/ StopLogStream \/ PollLogs \/ scrollToBottom
  \/ \E t \in Target : OpenLogs(t)
  \/ \E v \in Views : LeaveLogs(v)
  \/ \E c \in starts : StartLogStream(c)
  \/ \E a \in answers : StartReturns(a)
  \/ \E near \in BOOLEAN : handleScroll(near)

-----------------------------------------------------------------------------
(* The page says that it is streaming exactly while it has a poll it can   *)
(* clear, and a page that has gone has neither.                            *)
LogsTypeOK ==
  /\ selectedPod \in Target /\ starts \subseteq [target : LogTargets, mine : BOOLEAN] /\ logs \in Target
  /\ streamed \in {buffered, NoTarget} /\ poll \in PollKinds \cup {"none"} /\ lost \subseteq PollKinds
  /\ isStreaming <=> poll # "none"
  /\ ~LogsShown => /\ poll = "none" /\ logs = NoTarget /\ answers = {} /\ lost = {}
                   /\ \A c \in starts : ~c.mine
=============================================================================
