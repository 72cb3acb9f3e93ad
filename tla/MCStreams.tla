------------------------------ MODULE MCStreams ------------------------------
(***************************************************************************)
(* The four services that run goroutines per request, and the collector of *)
(* events that runs one per cluster.  They share no state, so one is       *)
(* looked at in each behavior: a product of them would show nothing more.  *)
(***************************************************************************)
EXTENDS ResourceWatch, LogStream, PortForward, Terminal, EventCollector

VARIABLE focus

vars == <<watchVars, logVars, fwdVars, termVars, eventVars, focus>>

(* Ids are numbers in the instances.  Calls of one service can be exchanged *)
(* for one another, and so can kinds, pods, ports and shells: what the      *)
(* calls ask for is taken in order, from the first on, and no two watches   *)
(* are of the second kind.                                                  *)
Ordered(f, Rank(_)) ==
  \A c, d \in DOMAIN f : c < d => Rank(f[c]) <= Rank(f[d])

Init ==
  /\ focus \in {"watch", "log", "forward", "terminal", "events"}
  /\ WatchInit /\ LogInit /\ ForwardInit /\ TerminalInit /\ EventInit
  /\ Ordered(watchKind, LAMBDA k : k)
  /\ Ordered(fwdId, LAMBDA i : 10 * i[1] + i[2])
  /\ Ordered(shellId, LAMBDA i : i)
  /\ \A v, w \in Watches : watchKind[v] = 2 /\ watchKind[w] = 2 => v = w
  /\ \E f \in Forwards : fwdId[f] = <<1, 1>>
  /\ \E p \in Shells : shellId[p] = 1
  \* what the services out of focus would be asked is settled
  /\ focus = "watch" \/ \A w \in Watches : watchKind[w] = 1
  /\ focus = "forward" \/ \A f \in Forwards : fwdId[f] = <<1, 1>>
  /\ focus = "terminal" \/ \A p \in Shells : shellId[p] = 1

(* Bound: events wait in the channel of one watch at a time. *)
QueueBound == \A v, w \in Watches : queued[v] > 0 /\ queued[w] > 0 => v = w

Next ==
  /\ UNCHANGED focus
  /\ \/ focus = "watch" /\ WatchNext /\ QueueBound' /\ UNCHANGED <<logVars, fwdVars, termVars, eventVars>>
     \/ focus = "log" /\ LogNext /\ UNCHANGED <<watchVars, fwdVars, termVars, eventVars>>
     \/ focus = "forward" /\ ForwardNext /\ UNCHANGED <<watchVars, logVars, termVars, eventVars>>
     \/ focus = "terminal" /\ TerminalNext /\ UNCHANGED <<watchVars, logVars, fwdVars, eventVars>>
     \/ focus = "events" /\ EventNext /\ UNCHANGED <<watchVars, logVars, fwdVars, termVars>>

(* A service out of focus has no step to take: its fairness asks nothing. *)
Fairness == WatchFairness /\ LogFairness /\ ForwardFairness /\ TerminalFairness

Spec == Init /\ [][Next]_vars /\ Fairness

-----------------------------------------------------------------------------
(* Every service's state has its type: channels stay within their slots and *)
(* registries name calls.                                                   *)
TypeOK ==
  /\ focus = "watch" => WatchTypeOK
  /\ focus = "log" => LogTypeOK
  /\ focus = "forward" => ForwardTypeOK
  /\ focus = "terminal" => TerminalTypeOK
  /\ focus = "events" => EventTypeOK
=============================================================================
