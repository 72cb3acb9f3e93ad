------------------------------ MODULE LogStream ------------------------------
(***************************************************************************)
(* Pod log streaming: LogService.StreamLogs (internal/core/logs.go) as     *)
(* App.StartLogStream calls it (app_logs.go), over cluster.Logs            *)
(* (internal/client/cluster.go).  A stream is two goroutines: the source   *)
(* scans the pod's log into a channel, the wrapper appends each line to    *)
(* the service's buffer and then forwards it to a second channel.          *)
(* StartLogStream drops that second channel: nothing ever reads it.        *)
(*                                                                         *)
(* Lines are numbered 1, 2, ... by each pod.                               *)
(***************************************************************************)
EXTENDS Naturals, Sequences

CONSTANTS
  Streams,    \* calls of StreamLogs
  NoStream,
  LineSlots,  \* capacity of the source's channel, 100 in the code
  OutSlots,   \* capacity of the forwarding channel, 100 in the code
  MaxLines,   \* lines the buffer keeps, 10000 in the code
  MaxLine     \* bound: lines one pod writes

ASSUME LogAssumption ==
  /\ NoStream \notin Streams
  /\ {LineSlots, OutSlots, MaxLines, MaxLine} \subseteq Nat \ {0}

VARIABLES
  current,      \* the stream of LogService.cancel
  lines,        \* LogService.lines: a stream and a line number each
  scanner,      \* the source: "unused", "opening", "scanning", "ended"
  wrapper,      \* "unused", "reading", "appending", "forwarding", "ended"
  written,      \* lines the pod has written that were scanned
  lineCh,       \* the first channel: the lines in it
  inHand,       \* the line the wrapper holds
  forwarded,    \* lines in the second channel
  logCanceled   \* streams whose context is canceled

logVars == <<current, lines, scanner, wrapper, written, lineCh, inHand,
             forwarded, logCanceled>>

LogTypeOK ==
  /\ current \in Streams \cup {NoStream}
  /\ lines \in Seq([stream : Streams, n : 1..MaxLine])
  /\ scanner \in [Streams -> {"unused", "opening", "scanning", "ended"}]
  /\ wrapper \in [Streams -> {"unused", "reading", "appending", "forwarding", "ended"}]
  /\ written \in [Streams -> 0..MaxLine]
  /\ lineCh \in [Streams -> Seq(1..MaxLine)]
  /\ inHand \in [Streams -> 0..MaxLine]
  /\ forwarded \in [Streams -> 0..OutSlots]
  /\ logCanceled \subseteq Streams

LogInit ==
  /\ current = NoStream
  /\ lines = <<>>
  /\ scanner = [g \in Streams |-> "unused"]
  /\ wrapper = [g \in Streams |-> "unused"]
  /\ written = [g \in Streams |-> 0]
  /\ lineCh = [g \in Streams |-> <<>>]
  /\ inHand = [g \in Streams |-> 0]
  /\ forwarded = [g \in Streams |-> 0]
  /\ logCanceled = {}

-----------------------------------------------------------------------------
(* Mutant: the stream that was running is left alone. *)
StreamLogsOver(g) ==
  /\ scanner[g] = "unused"
  /\ current' = g
  /\ lines' = <<>>
  /\ scanner' = [scanner EXCEPT ![g] = "opening"]
  /\ UNCHANGED <<wrapper, written, lineCh, inHand, forwarded, logCanceled>>

(* StreamLogs: under the mutex the running stream is canceled and the       *)
(* buffer emptied.                                                          *)
StreamLogs(g) ==
  /\ scanner[g] = "unused"
  /\ logCanceled' = logCanceled \cup ({current} \ {NoStream})
  /\ current' = g
  /\ lines' = <<>>
  /\ scanner' = [scanner EXCEPT ![g] = "opening"]
  /\ UNCHANGED <<wrapper, written, lineCh, inHand, forwarded>>

(* cluster.Logs, with no lock held; an error leaves the cancel function of  *)
(* a stream that never was.                                                 *)
OpenLogs(g) ==
  /\ scanner[g] = "opening"
  /\ \/ /\ scanner' = [scanner EXCEPT ![g] = "scanning"]
        /\ wrapper' = [wrapper EXCEPT ![g] = "reading"]
     \/ scanner' = [scanner EXCEPT ![g] = "ended"] /\ UNCHANGED wrapper
  /\ UNCHANGED <<current, lines, written, lineCh, inHand, forwarded, logCanceled>>

StopStreaming ==
  /\ current # NoStream
  /\ logCanceled' = logCanceled \cup {current}
  /\ current' = NoStream
  /\ UNCHANGED <<lines, scanner, wrapper, written, lineCh, inHand, forwarded>>

ClearBuffer ==
  /\ lines' = <<>>
  /\ UNCHANGED <<current, scanner, wrapper, written, lineCh, inHand, forwarded, logCanceled>>

-----------------------------------------------------------------------------
(* The source hands over the next line when its channel has room, in a      *)
(* select with the context.                                                 *)
ScanLine(g) ==
  /\ scanner[g] = "scanning"
  /\ written[g] < MaxLine
  /\ Len(lineCh[g]) < LineSlots
  /\ written' = [written EXCEPT ![g] = @ + 1]
  /\ lineCh' = [lineCh EXCEPT ![g] = Append(@, written[g] + 1)]
  /\ UNCHANGED <<current, lines, scanner, wrapper, inHand, forwarded, logCanceled>>

(* The context is canceled, which also ends the HTTP stream; or the pod     *)
(* ends.                                                                    *)
ScanCanceled(g) ==
  /\ scanner[g] = "scanning"
  /\ g \in logCanceled
  /\ scanner' = [scanner EXCEPT ![g] = "ended"]
  /\ UNCHANGED <<current, lines, wrapper, written, lineCh, inHand, forwarded, logCanceled>>

PodEnds(g) ==
  /\ scanner[g] = "scanning"
  /\ scanner' = [scanner EXCEPT ![g] = "ended"]
  /\ UNCHANGED <<current, lines, wrapper, written, lineCh, inHand, forwarded, logCanceled>>

(* The wrapper: for line := range logChan ... *)
TakeLine(g) ==
  /\ wrapper[g] = "reading"
  /\ lineCh[g] # <<>>
  /\ inHand' = [inHand EXCEPT ![g] = Head(lineCh[g])]
  /\ lineCh' = [lineCh EXCEPT ![g] = Tail(@)]
  /\ wrapper' = [wrapper EXCEPT ![g] = "appending"]
  /\ UNCHANGED <<current, lines, scanner, written, forwarded, logCanceled>>

LineChannelClosed(g) ==
  /\ wrapper[g] = "reading"
  /\ lineCh[g] = <<>>
  /\ scanner[g] = "ended"
  /\ wrapper' = [wrapper EXCEPT ![g] = "ended"]
  /\ UNCHANGED <<current, lines, scanner, written, lineCh, inHand, forwarded, logCanceled>>

(* Mutant: the newest line is the one that is dropped. *)
TrimmedAtEnd(s) == SubSeq(s, 1, IF Len(s) > MaxLines THEN MaxLines ELSE Len(s))

Trimmed(s) ==
  IF Len(s) > MaxLines THEN SubSeq(s, Len(s) - MaxLines + 1, Len(s)) ELSE s

(* Under the mutex, whichever stream is current by now. *)
AppendLine(g) ==
  /\ wrapper[g] = "appending"
  /\ lines' = Trimmed(Append(lines, [stream |-> g, n |-> inHand[g]]))
  /\ wrapper' = [wrapper EXCEPT ![g] = "forwarding"]
  /\ inHand' = [inHand EXCEPT ![g] = 0]
  /\ UNCHANGED <<current, scanner, written, lineCh, forwarded, logCanceled>>

(* Mutant: the second channel has no bound. *)
ForwardOver(g) ==
  /\ wrapper[g] = "forwarding"
  /\ forwarded' = [forwarded EXCEPT ![g] = @ + 1]
  /\ wrapper' = [wrapper EXCEPT ![g] = "reading"]
  /\ UNCHANGED <<current, lines, scanner, written, lineCh, inHand, logCanceled>>

(* Select: room in the second channel, or the context. *)
Forward(g) ==
  /\ wrapper[g] = "forwarding"
  /\ forwarded[g] < OutSlots
  /\ forwarded' = [forwarded EXCEPT ![g] = @ + 1]
  /\ wrapper' = [wrapper EXCEPT ![g] = "reading"]
  /\ UNCHANGED <<current, lines, scanner, written, lineCh, inHand, logCanceled>>

(* Mutant: the send does not watch the context. *)
ForwardCanceledNever(g) == FALSE /\ UNCHANGED logVars

ForwardCanceled(g) ==
  /\ wrapper[g] = "forwarding"
  /\ g \in logCanceled
  /\ wrapper' = [wrapper EXCEPT ![g] = "ended"]
  /\ UNCHANGED <<current, lines, scanner, written, lineCh, inHand, forwarded, logCanceled>>

Scan(g) == ScanLine(g) \/ ScanCanceled(g)
Wrap(g) ==
  TakeLine(g) \/ LineChannelClosed(g) \/ AppendLine(g) \/ Forward(g) \/ ForwardCanceled(g)

LogNext ==
  \/ \E g \in Streams :
       StreamLogs(g) \/ OpenLogs(g) \/ Scan(g) \/ PodEnds(g) \/ Wrap(g)
  \/ StopStreaming \/ ClearBuffer

LogFairness ==
  \A g \in Streams : WF_logVars(ScanCanceled(g)) /\ WF_logVars(Wrap(g)) /\ WF_logVars(OpenLogs(g))

LogSpec == LogInit /\ [][LogNext]_logVars /\ LogFairness

-----------------------------------------------------------------------------
(* At most one stream runs uncanceled, the one that StopStreaming reaches.  *)
OneStream ==
  \A g \in Streams :
    scanner[g] \in {"opening", "scanning"} /\ g # current => g \in logCanceled

(* The last line of each stream that its wrapper has dealt with. *)
Dealt ==
  [g \in Streams |->
     written[g] - Len(lineCh[g]) - (IF wrapper[g] = "appending" THEN 1 ELSE 0)]

(* Each line is followed by all later ones of its stream up to the last,    *)
(* and by no earlier one.                                                   *)
Unbroken(s, last) ==
  \A i \in 1..Len(s) :
    LET g == s[i].stream IN
    /\ s[i].n <= last[g]
    /\ \A j \in (i + 1)..Len(s) : s[j].stream = g => s[j].n > s[i].n
    /\ \A n \in (s[i].n + 1)..last[g] :
         \E j \in (i + 1)..Len(s) : s[j] = [stream |-> g, n |-> n]

(* What the buffer holds of a stream is an unbroken run of its lines, in    *)
(* order, whatever was cleared, trimmed or written by other streams in      *)
(* between, up to the last line the wrapper has dealt with.                 *)
LinesUnbroken == Unbroken(lines, Dealt)

(* A canceled stream ends, also when its second channel is full. *)
CanceledStreamEnds ==
  \A g \in Streams :
    g \in logCanceled ~> scanner[g] = "ended" /\ wrapper[g] \in {"unused", "ended"}

(* A line that was read of a running stream reaches the buffer ("LogService — streaming *)
(* pod log tailing", docs/architecture/overview.md).                        *)
LinesArrive ==
  \A g \in Streams, n \in 1..MaxLine :
    written[g] >= n ~> written[g] - Len(lineCh[g]) >= n \/ g \in logCanceled
=============================================================================
