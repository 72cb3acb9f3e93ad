-------------------------- MODULE ClusterConnection --------------------------
(***************************************************************************)
(* Connecting and disconnecting clusters: App.Connect and App.Disconnect   *)
(* (app_cluster.go), the ClusterService they call (internal/core/          *)
(* cluster.go), the manager, the health monitor's loop and the shutdown.   *)
(*                                                                         *)
(* Every call of the frontend runs in a goroutine of its own, and a call   *)
(* is several critical sections under different locks.  callAt, hbAt and   *)
(* phase say where each goroutine is, and with that which locks it holds:  *)
(*   the manager's mutex, over the network waits of Add and the closing of *)
(*   clients;                                                              *)
(*   each client's mutex, over the network waits of Info (write) and       *)
(*   PortForward (read);                                                   *)
(*   the monitor's mutex, while a transition reads manager.ActiveContext().*)
(***************************************************************************)
EXTENDS ClusterManager, HealthMonitor

CONSTANT Callers   \* goroutines serving frontend calls

VARIABLES
  callAt,     \* how far each call is, or "idle"
  callCtx,    \* the context the call is about, while it matters
  hbAt,       \* how far the heartbeat is, or "idle"
  hbCtx,      \* the client it asks: context
  hbGen,      \*   and generation, until it has its answer
  up,         \* environment: the contexts whose API server answers
  phase,      \* how far the shutdown is, or "running"
  failed      \* auxiliary: contexts with a failed heartbeat since the count
              \* of failures was last reset

callVars == <<callAt, callCtx>>
hbVars == <<hbAt, hbCtx, hbGen>>
vars == <<managerVars, healthVars, callVars, hbVars, up, phase, failed>>

(* A call is inside Add ("adding" for Connect, "diffing" for the resource   *)
(* diff), inside Remove or PortForward, between two critical sections, or   *)
(* in the transition of the monitor it notifies ("telling").                *)
CallSteps == {"idle", "adding", "added", "selected", "removing",
              "removed", "telling", "diffing", "dialing"}

(* A heartbeat waits for its client's mutex ("picked"), asks, has its       *)
(* answer, or is in a transition of the monitor.                            *)
HeartbeatSteps == {"idle", "picked", "asking", "ok", "err", "telling"}

Phases == {"running", "stopping", "stopped", "closing", "closed"}

TypeOK ==
  /\ ManagerTypeOK
  /\ HealthTypeOK
  /\ callAt \in [Callers -> CallSteps]
  /\ callCtx \in [Callers -> Contexts \cup {NoContext}]
  /\ hbAt \in HeartbeatSteps
  /\ hbCtx \in Contexts \cup {NoContext}
  /\ hbGen \in Gens \cup {NoGen}
  /\ up \in SUBSET Contexts
  /\ phase \in Phases
  /\ failed \in SUBSET Contexts

Init ==
  /\ ManagerInit
  /\ HealthInit
  /\ callAt = [p \in Callers |-> "idle"]
  /\ callCtx = [p \in Callers |-> NoContext]
  /\ hbAt = "idle" /\ hbCtx = NoContext /\ hbGen = NoGen
  /\ up \in SUBSET Contexts
  /\ phase = "running"
  /\ failed = {}

-----------------------------------------------------------------------------
(* The locks.  An RWMutex makes new readers wait while a writer does.       *)

(* Nobody is in Add, Remove or Close. *)
ManagerFree ==
  /\ phase # "closing"
  /\ \A p \in Callers : callAt[p] \notin {"adding", "diffing", "removing"}

(* Nobody is in a transition of the monitor. *)
MonitorFree ==
  /\ hbAt # "telling"
  /\ \A p \in Callers : callAt[p] # "telling"

HeldByHeartbeat(x) == hbAt = "asking" /\ hbCtx = x /\ hbGen = conn[x]
ClaimedByHeartbeat(x) == hbAt = "picked" /\ hbCtx = x /\ hbGen = conn[x]
HeldByDial(x) == \E p \in Callers : callAt[p] = "dialing" /\ callCtx[p] = x

(* The mutex of the client stored for x, for a writer and for a reader. *)
ClientFree(x) == ~HeldByHeartbeat(x) /\ ~HeldByDial(x)
ClientReadable(x) == ~HeldByHeartbeat(x) /\ ~ClaimedByHeartbeat(x)

-----------------------------------------------------------------------------
Idle(p) == callAt[p] = "idle"
Goto(p, step, x) ==
  /\ callAt' = [callAt EXCEPT ![p] = step]
  /\ callCtx' = [callCtx EXCEPT ![p] = x]
Return(p) == Goto(p, "idle", NoContext)

(* A new client object is one no goroutine holds: which one is of no matter. *)
Fresh(x, g) == g \notin open[x] /\ ~(hbCtx = x /\ hbGen = g)
NewClient(x) == CHOOSE g \in Gens : Fresh(x, g)

(* Connect, and the resource diff for a context that has no client: Add     *)
(* takes the manager's mutex and keeps it while the API server answers.     *)
AddBegin(p, x) ==
  /\ Idle(p)
  /\ ManagerFree
  /\ \E g \in Gens : Fresh(x, g)
  /\ AddClient(x, NewClient(x))
  /\ \E step \in {"adding", "diffing"} : Goto(p, step, x)
  /\ UNCHANGED <<healthVars, hbVars, up, phase, failed>>

(* Mutant: Add tells the monitor while it holds the manager's mutex. *)
AddEndTellsMonitor(p) ==
  /\ callAt[p] \in {"adding", "diffing"}
  /\ MonitorFree
  /\ \/ /\ callCtx[p] \in up
        /\ AddAnswered(callCtx[p])
        /\ IF callAt[p] = "adding" THEN Goto(p, "added", callCtx[p]) ELSE Return(p)
     \/ /\ callCtx[p] \notin up
        /\ AddFailed(callCtx[p])
        /\ Return(p)
  /\ UNCHANGED <<healthVars, hbVars, up, phase, failed>>

(* The call of a failed Add returns its error.  The diff neither selects    *)
(* the cluster nor tells the monitor.                                       *)
AddEnd(p) ==
  /\ callAt[p] \in {"adding", "diffing"}
  /\ \/ /\ callCtx[p] \in up
        /\ AddAnswered(callCtx[p])
        /\ IF callAt[p] = "adding" THEN Goto(p, "added", callCtx[p]) ELSE Return(p)
     \/ /\ callCtx[p] \notin up
        /\ AddFailed(callCtx[p])
        /\ Return(p)
  /\ UNCHANGED <<healthVars, hbVars, up, phase, failed>>

(* An existing client is kept without asking it anything. *)
ConnectExisting(p, x) ==
  /\ Idle(p)
  /\ ManagerFree
  /\ HasClient(x)
  /\ Goto(p, "added", x)
  /\ UNCHANGED <<managerVars, healthVars, hbVars, up, phase, failed>>

(* The service then keeps the name for display, under a mutex of its own.   *)
ConnectSelect(p) ==
  /\ callAt[p] = "added"
  /\ ManagerFree
  /\ \/ SetActive(callCtx[p]) /\ Goto(p, "selected", NoContext)
     \/ ~HasClient(callCtx[p]) /\ Return(p) /\ UNCHANGED managerVars
  /\ UNCHANGED <<healthVars, hbVars, up, phase, failed>>

(* Only a transition to another state reads the manager and emits. *)
TellIfChanged(p) ==
  IF health' = health THEN Return(p) ELSE Goto(p, "telling", NoContext)

ConnectNotify(p) ==
  /\ callAt[p] = "selected"
  /\ MonitorFree
  /\ NotifyConnected
  /\ failed' = {}
  /\ TellIfChanged(p)
  /\ UNCHANGED <<managerVars, hbVars, up, phase>>

(* Disconnect: Remove waits for the client's mutex while it holds the       *)
(* manager's.  The monitor is then told, whichever context was              *)
(* disconnected, and ClusterService.activeContext is not touched.           *)
RemoveBegin(p, x) ==
  /\ Idle(p)
  /\ ManagerFree
  /\ HasClient(x)
  /\ Goto(p, "removing", x)
  /\ UNCHANGED <<managerVars, healthVars, hbVars, up, phase, failed>>

RemoveEnd(p) ==
  /\ callAt[p] = "removing"
  /\ ClientFree(callCtx[p])
  /\ Remove(callCtx[p])
  /\ Goto(p, "removed", NoContext)
  /\ UNCHANGED <<healthVars, hbVars, up, phase, failed>>

DisconnectNotify(p) ==
  /\ callAt[p] = "removed"
  /\ MonitorFree
  /\ NotifyDisconnected
  /\ TellIfChanged(p)
  /\ UNCHANGED <<managerVars, hbVars, up, phase, failed>>

(* The transition reads manager.ActiveContext() for the event it emits,     *)
(* with the monitor's mutex held.                                           *)
NotifyEmit(p) ==
  /\ callAt[p] = "telling"
  /\ ManagerFree
  /\ Return(p)
  /\ UNCHANGED <<managerVars, healthVars, hbVars, up, phase, failed>>

(* A port forward of the active cluster holds the client's read lock until  *)
(* the forward is ready or has failed: nothing limits that time.            *)
DialBegin(p) ==
  /\ Idle(p)
  /\ ManagerFree
  /\ ActiveExists
  /\ ClientReadable(active)
  /\ Goto(p, "dialing", active)
  /\ UNCHANGED <<managerVars, healthVars, hbVars, up, phase, failed>>

DialEnd(p) ==
  /\ callAt[p] = "dialing"
  /\ Return(p)
  /\ UNCHANGED <<managerVars, healthVars, hbVars, up, phase, failed>>

-----------------------------------------------------------------------------
(* The heartbeat reads manager.Active(); without one it returns silently.   *)
(* The loop may take one more tick after it is told to stop.                *)
HeartbeatPick ==
  /\ phase \in {"running", "stopping"}
  /\ hbAt = "idle"
  /\ ManagerFree
  /\ ActiveExists
  /\ hbAt' = "picked"
  /\ hbCtx' = active
  /\ hbGen' = conn[active]
  /\ UNCHANGED <<managerVars, healthVars, callVars, up, phase, failed>>

HeartbeatLock ==
  /\ hbAt = "picked"
  /\ hbGen = conn[hbCtx] => ~HeldByDial(hbCtx)
  /\ hbAt' = "asking"
  /\ UNCHANGED <<managerVars, healthVars, callVars, hbCtx, hbGen, up, phase, failed>>

(* Mutant: Info answers from the information cached at connect time. *)
HeartbeatInfoCached ==
  /\ hbAt = "asking"
  /\ hbAt' = IF hbGen \in open[hbCtx] THEN "ok" ELSE "err"
  /\ hbGen' = NoGen
  /\ UNCHANGED <<managerVars, healthVars, callVars, hbCtx, up, phase, failed>>

(* Info fails on a closed client and when the API server does not answer. *)
HeartbeatInfo ==
  /\ hbAt = "asking"
  /\ hbAt' = IF hbGen \in open[hbCtx] /\ hbCtx \in up THEN "ok" ELSE "err"
  /\ hbGen' = NoGen
  /\ UNCHANGED <<managerVars, healthVars, callVars, hbCtx, up, phase, failed>>

HeartbeatApply ==
  /\ MonitorFree
  /\ \/ hbAt = "ok" /\ HeartbeatSucceeded /\ failed' = {}
     \/ hbAt = "err" /\ HeartbeatFailed /\ failed' = failed \cup {hbCtx}
  /\ hbAt' = IF health' = health THEN "idle" ELSE "telling"
  /\ hbCtx' = NoContext
  /\ UNCHANGED <<managerVars, callVars, hbGen, up, phase>>

(* The transition emits "cluster:status", which nothing in the frontend     *)
(* listens to.                                                              *)
HeartbeatEmit ==
  /\ hbAt = "telling"
  /\ ManagerFree
  /\ hbAt' = "idle"
  /\ UNCHANGED <<managerVars, healthVars, callVars, hbCtx, hbGen, up, phase, failed>>

(* The API server of a context goes down or comes back. *)
Flip(x) ==
  /\ up' = IF x \in up THEN up \ {x} ELSE up \cup {x}
  /\ UNCHANGED <<managerVars, healthVars, callVars, hbVars, phase, failed>>

-----------------------------------------------------------------------------
(* shutdown: healthMonitor.Stop() cancels the loop and waits for it, then   *)
(* nexus.Close() closes the manager and every client in it.                 *)
ShutdownPhase(from, to) ==
  /\ phase = from
  /\ phase' = to
  /\ UNCHANGED <<healthVars, callVars, hbVars, up, failed>>

ShutdownStop == ShutdownPhase("running", "stopping") /\ UNCHANGED managerVars

LoopEnd ==
  /\ hbAt = "idle"
  /\ ShutdownPhase("stopping", "stopped")
  /\ UNCHANGED managerVars

CloseBegin ==
  /\ ManagerFree
  /\ ShutdownPhase("stopped", "closing")
  /\ UNCHANGED managerVars

CloseEnd ==
  /\ \A x \in Contexts : HasClient(x) => ClientFree(x)
  /\ ShutdownPhase("closing", "closed")
  /\ CloseAll

Continue(p) ==
  \/ AddEnd(p) \/ ConnectSelect(p) \/ ConnectNotify(p)
  \/ RemoveEnd(p) \/ DisconnectNotify(p) \/ NotifyEmit(p)
Heartbeat ==
  HeartbeatPick \/ HeartbeatLock \/ HeartbeatInfo \/ HeartbeatApply \/ HeartbeatEmit
Shutdown == LoopEnd \/ CloseBegin \/ CloseEnd

Next ==
  \/ \E p \in Callers, x \in Contexts :
       AddBegin(p, x) \/ ConnectExisting(p, x) \/ RemoveBegin(p, x)
  \/ \E p \in Callers : DialBegin(p) \/ DialEnd(p) \/ Continue(p)
  \/ \E x \in Contexts : Flip(x)
  \/ Heartbeat
  \/ ShutdownStop \/ Shutdown

Spec == Init /\ [][Next]_vars

(* A call that has started runs on, the loop's ticker keeps firing, and the *)
(* shutdown, once begun, goes through.  Strong fairness: Go's mutexes do    *)
(* not starve a goroutine that waits while others take the lock in turn,    *)
(* and the loop's select picks at random between a tick and the end.  The   *)
(* user, the API servers and the dial of a port forward owe nothing.        *)
Fairness ==
  /\ \A p \in Callers : SF_vars(Continue(p))
  /\ SF_vars(Heartbeat)
  /\ SF_vars(Shutdown)

FairSpec == Spec /\ Fairness

-----------------------------------------------------------------------------
(* The clients that are not closed are exactly the ones the manager stores: *)
(* no call is served by a closed client and no connection is left open with *)
(* nothing that could ever close it, through every Add that succeeds or     *)
(* fails, every Remove and the Close.                                       *)
OpenIsManaged ==
  \A x \in Contexts : open[x] = IF HasClient(x) THEN {conn[x]} ELSE {}

(* The contexts whose client can be got from the manager: a client whose    *)
(* Add is still waiting for its first answer is behind the mutex.           *)
BeingAdded(x) ==
  \E p \in Callers : callAt[p] \in {"adding", "diffing"} /\ callCtx[p] = x
Served(x) == HasClient(x) /\ ~BeingAdded(x)
ActiveServed == active \in Contexts /\ Served(active)

(* The connection layer implements ActiveCluster: whatever the interleaving *)
(* of calls, the cluster that manager.Active() hands out changes only by a  *)
(* selection, by losing its client, or when nothing was active.  An Add     *)
(* that fails is never seen.                                                *)
Promise == INSTANCE ActiveCluster WITH
  connected <- {x \in Contexts : Served(x)},
  selected <- IF ActiveServed THEN active ELSE NoContext

ImplementsActiveCluster == Promise!Spec

(* Exactly the clusters that can be got have their information cached, so   *)
(* that manager.List() never falls back to StatusUnknown: an Add whose      *)
(* first Info fails leaves no client behind, and a Remove no information.   *)
EveryClientHasInfo == infos = {x \in Contexts : Served(x)}

(* The client behind the active context is never closed or exchanged under  *)
(* it: as long as a context stays active, its client stays the same one.    *)
ActiveClientIsStable ==
  [][ActiveServed /\ active' = active => conn'[active] = conn[active]]_vars

(* The state the monitor reports fits its count of consecutive failures, in *)
(* whichever order heartbeats, connects and disconnects come.               *)
HealthLadder ==
  /\ health = "connected" => failures < DegradeAfter
  /\ health = "degraded" => failures \in DegradeAfter..(DisconnectAfter - 1)
  /\ health = "reconnecting" => failures >= DisconnectAfter

(* No Connect is between selecting its cluster and telling the monitor. *)
ConnectsNotified == \A p \in Callers : callAt[p] # "selected"

(* A degraded cluster has itself failed a heartbeat: an answer still in     *)
(* flight for the cluster that was active before a switch cannot alone      *)
(* degrade the new one.                                                     *)
DegradedIsEarned ==
  ConnectsNotified /\ ActiveServed /\ health \in {"degraded", "reconnecting"}
    => active \in failed

ActiveIs(x) == active = x /\ HasClient(x) /\ phase = "running"

(* No port forward holds its client's lock for ever. *)
DialsReturn == \A p \in Callers : []<>(callAt[p] # "dialing")

(* If a cluster stays active and answers, the monitor reports it connected  *)
(* again and again, whatever happened before and whatever other clusters    *)
(* are connected and disconnected meanwhile, unless a port forward that     *)
(* never becomes ready keeps the heartbeat from the client's lock.          *)
HealthRecovers ==
  DialsReturn =>
    \A x \in Contexts :
      <>[](ActiveIs(x) /\ x \in up) => []<>(health = "connected")

(* If the active cluster stops answering for good and the user does         *)
(* nothing, the monitor eventually stops reporting it connected.            *)
OutageNoticed ==
  \A x \in Contexts :
    <>[](ActiveIs(x) /\ x \notin up /\ \A p \in Callers : Idle(p))
      => <>[](health # "connected")

(* The shutdown waits for the loop, the manager's mutex and the mutex of    *)
(* every client, and the loop for a client's, the monitor's and the         *)
(* manager's: no order in which heartbeats, connects, disconnects, diffs    *)
(* and port forwards take them keeps the application from closing, as long  *)
(* as every dial returns.                                                   *)
ShutdownCompletes == DialsReturn => (phase = "stopping" ~> phase = "closed")
=============================================================================
