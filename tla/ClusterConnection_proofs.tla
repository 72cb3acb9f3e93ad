----------------------- MODULE ClusterConnection_proofs -----------------------
(***************************************************************************)
(* Proofs about ClusterConnection, for any number of contexts, callers and *)
(* client generations and for any thresholds.                              *)
(***************************************************************************)
EXTENDS ClusterConnection, TLAPS

(* A call that will use its context has one, and so has a heartbeat in      *)
(* flight.                                                                  *)
InFlightWellFormed ==
  /\ \A p \in Callers :
       callAt[p] \in {"adding", "diffing", "added", "removing", "dialing"}
         => callCtx[p] \in Contexts
  /\ hbAt \in {"picked", "asking", "ok", "err"} => hbCtx \in Contexts

IInv == TypeOK /\ InFlightWellFormed

USE DEF HasClient, ActiveExists

LEMMA InitIInv == Init => IInv
BY ClusterManagerAssumption, HealthAssumption
   DEF Init, IInv, TypeOK, InFlightWellFormed, ManagerInit, HealthInit,
       ManagerTypeOK, HealthTypeOK, CallSteps, HeartbeatSteps, Phases, States

(* What the manager's operations do to its own variables. *)
LEMMA ManagerStep ==
  ASSUME ManagerTypeOK, NEW x \in Contexts
  PROVE  /\ \A g \in Gens : AddClient(x, g) => ManagerTypeOK'
         /\ AddAnswered(x) => ManagerTypeOK'
         /\ AddFailed(x) => ManagerTypeOK'
         /\ Remove(x) => ManagerTypeOK'
         /\ SetActive(x) => ManagerTypeOK'
         /\ CloseAll => ManagerTypeOK'
<1>1. ASSUME NEW g \in Gens, AddClient(x, g) PROVE ManagerTypeOK'
  BY <1>1 DEF ManagerTypeOK, AddClient
<1>2. ASSUME AddAnswered(x) PROVE ManagerTypeOK'
  BY <1>2 DEF ManagerTypeOK, AddAnswered
<1>3. ASSUME AddFailed(x) PROVE ManagerTypeOK'
  BY <1>3 DEF ManagerTypeOK, AddFailed
<1>4. ASSUME Remove(x) PROVE ManagerTypeOK'
  BY <1>4 DEF ManagerTypeOK, Remove
<1>5. ASSUME SetActive(x) PROVE ManagerTypeOK'
  BY <1>5 DEF ManagerTypeOK, SetActive
<1>6. ASSUME CloseAll PROVE ManagerTypeOK'
  BY <1>6 DEF ManagerTypeOK, CloseAll
<1> QED BY <1>1, <1>2, <1>3, <1>4, <1>5, <1>6

(* What the monitor's transitions do to its own variables. *)
LEMMA HealthStep ==
  ASSUME HealthTypeOK
  PROVE  /\ NotifyConnected => HealthTypeOK'
         /\ NotifyDisconnected => HealthTypeOK'
         /\ HeartbeatSucceeded => HealthTypeOK'
         /\ HeartbeatFailed => HealthTypeOK'
<1> USE HealthAssumption DEF HealthTypeOK, States
<1>1. ASSUME NotifyConnected PROVE HealthTypeOK'
  BY <1>1 DEF NotifyConnected
<1>2. ASSUME NotifyDisconnected PROVE HealthTypeOK'
  BY <1>2 DEF NotifyDisconnected
<1>3. ASSUME HeartbeatSucceeded PROVE HealthTypeOK'
  BY <1>3 DEF HeartbeatSucceeded
<1>4. ASSUME HeartbeatFailed PROVE HealthTypeOK'
  BY <1>4 DEF HeartbeatFailed, AfterFailure, NextBackoff
<1> QED BY <1>1, <1>2, <1>3, <1>4

(* An Add that begins stores a client that nobody holds. *)
LEMMA NewClientIsFresh ==
  ASSUME NEW p \in Callers, NEW x \in Contexts, AddBegin(p, x)
  PROVE  NewClient(x) \in Gens /\ Fresh(x, NewClient(x))
<1>1. \E g \in Gens : Fresh(x, g)
  BY DEF AddBegin
<1> QED BY <1>1 DEF NewClient

(* What each step of Next does, by operation. *)
LEMMA NextIInv == IInv /\ [Next]_vars => IInv'
<1> SUFFICES ASSUME IInv, [Next]_vars PROVE IInv'
  OBVIOUS
<1> USE ClusterManagerAssumption
    DEF IInv, TypeOK, InFlightWellFormed, CallSteps, HeartbeatSteps, Phases, Goto,
        Return, Idle, managerVars, healthVars, callVars, hbVars
<1>1. ASSUME NEW p \in Callers, NEW x \in Contexts, AddBegin(p, x) PROVE IInv'
  <2>1. ManagerTypeOK'
    BY <1>1, ManagerStep, NewClientIsFresh DEF AddBegin
  <2> QED BY <1>1, <2>1 DEF AddBegin, HealthTypeOK
<1>2. ASSUME NEW p \in Callers, AddEnd(p) PROVE IInv'
  <2>1. callCtx[p] \in Contexts
    BY <1>2 DEF AddEnd
  <2>2. ManagerTypeOK'
    BY <1>2, <2>1, ManagerStep DEF AddEnd
  <2> QED BY <1>2, <2>1, <2>2 DEF AddEnd, HealthTypeOK
<1>3. ASSUME NEW p \in Callers, NEW x \in Contexts, ConnectExisting(p, x) PROVE IInv'
  BY <1>3 DEF ConnectExisting, ManagerTypeOK, HealthTypeOK
<1>4. ASSUME NEW p \in Callers, ConnectSelect(p) PROVE IInv'
  <2>1. callCtx[p] \in Contexts
    BY <1>4 DEF ConnectSelect
  <2>2. ManagerTypeOK'
    BY <1>4, <2>1, ManagerStep DEF ConnectSelect, ManagerTypeOK
  <2> QED BY <1>4, <2>2 DEF ConnectSelect, HealthTypeOK
<1>5. ASSUME NEW p \in Callers, ConnectNotify(p) PROVE IInv'
  <2>1. HealthTypeOK'
    BY <1>5, HealthStep DEF ConnectNotify
  <2> QED BY <1>5, <2>1 DEF ConnectNotify, TellIfChanged, ManagerTypeOK
<1>6. ASSUME NEW p \in Callers, NEW x \in Contexts, RemoveBegin(p, x) PROVE IInv'
  BY <1>6 DEF RemoveBegin, ManagerTypeOK, HealthTypeOK
<1>7. ASSUME NEW p \in Callers, RemoveEnd(p) PROVE IInv'
  <2>1. callCtx[p] \in Contexts
    BY <1>7 DEF RemoveEnd
  <2>2. ManagerTypeOK'
    BY <1>7, <2>1, ManagerStep DEF RemoveEnd
  <2> QED BY <1>7, <2>2 DEF RemoveEnd, HealthTypeOK
<1>8. ASSUME NEW p \in Callers, DisconnectNotify(p) PROVE IInv'
  <2>1. HealthTypeOK'
    BY <1>8, HealthStep DEF DisconnectNotify
  <2> QED BY <1>8, <2>1 DEF DisconnectNotify, TellIfChanged, ManagerTypeOK
<1>9. ASSUME NEW p \in Callers, NotifyEmit(p) \/ DialEnd(p) PROVE IInv'
  BY <1>9 DEF NotifyEmit, DialEnd, ManagerTypeOK, HealthTypeOK
<1>10. ASSUME NEW p \in Callers, DialBegin(p) PROVE IInv'
  BY <1>10 DEF DialBegin, ManagerTypeOK, HealthTypeOK
<1>11. ASSUME HeartbeatPick PROVE IInv'
  BY <1>11 DEF HeartbeatPick, ManagerTypeOK, HealthTypeOK
<1>12. ASSUME HeartbeatLock \/ HeartbeatInfo \/ HeartbeatEmit PROVE IInv'
  BY <1>12 DEF HeartbeatLock, HeartbeatInfo, HeartbeatEmit, ManagerTypeOK, HealthTypeOK
<1>13. ASSUME HeartbeatApply PROVE IInv'
  <2>1. HealthTypeOK'
    BY <1>13, HealthStep DEF HeartbeatApply
  <2>2. failed' \in SUBSET Contexts
    BY <1>13 DEF HeartbeatApply
  <2> QED BY <1>13, <2>1, <2>2 DEF HeartbeatApply, ManagerTypeOK
<1>14. ASSUME NEW x \in Contexts, Flip(x) PROVE IInv'
  BY <1>14 DEF Flip, ManagerTypeOK, HealthTypeOK
<1>15. ASSUME ShutdownStop \/ LoopEnd \/ CloseBegin PROVE IInv'
  BY <1>15 DEF ShutdownStop, LoopEnd, CloseBegin, ShutdownPhase, ManagerTypeOK,
     HealthTypeOK
<1>16. ASSUME CloseEnd PROVE IInv'
  BY <1>16 DEF CloseEnd, ShutdownPhase, ManagerTypeOK, HealthTypeOK, CloseAll
<1>17. ASSUME UNCHANGED vars PROVE IInv'
  BY <1>17 DEF vars, ManagerTypeOK, HealthTypeOK
<1> QED
  BY <1>1, <1>2, <1>3, <1>4, <1>5, <1>6, <1>7, <1>8, <1>9, <1>10, <1>11,
     <1>12, <1>13, <1>14, <1>15, <1>16, <1>17
  DEF Next, Continue, Heartbeat, Shutdown

LEMMA Invariance == Spec => []IInv
BY InitIInv, NextIInv, PTL DEF Spec

(* Type correctness of the whole connection layer. *)
THEOREM TypeCorrect == Spec => []TypeOK
<1>1. IInv => TypeOK
  BY DEF IInv
<1> QED BY <1>1, Invariance, PTL

-----------------------------------------------------------------------------
(* The manager's mutex, as the places of the goroutines give it. *)
Adding(p) == callAt[p] \in {"adding", "diffing"}
Writing(p) == callAt[p] \in {"adding", "diffing", "removing"}

(* At most one goroutine is in a writing section of the manager, and a      *)
(* client whose Add has not ended is in its map.                            *)
MutualExclusion ==
  /\ \A p, q \in Callers : Writing(p) /\ Writing(q) => p = q
  /\ phase = "closing" => \A p \in Callers : ~Writing(p)
  /\ \A p \in Callers : Adding(p) => HasClient(callCtx[p])

(* Every step of Next, as what it does to the manager and to the places of  *)
(* the calls in its writing sections.                                       *)
AddStarts(p, x, g) ==
  /\ ManagerFree /\ AddClient(x, g) /\ UNCHANGED phase
  /\ \/ Goto(p, "adding", x)
     \/ Goto(p, "diffing", x)
AddStops(p) ==
  /\ Adding(p) /\ UNCHANGED phase
  /\ \/ AddAnswered(callCtx[p])
     \/ AddFailed(callCtx[p])
  /\ \/ Goto(p, "added", callCtx[p])
     \/ Goto(p, "idle", NoContext)
RemoveStarts(p, x) ==
  /\ ManagerFree /\ UNCHANGED <<managerVars, phase>> /\ Goto(p, "removing", x)
RemoveStops(p) ==
  /\ callAt[p] = "removing" /\ Remove(callCtx[p]) /\ UNCHANGED phase
  /\ Goto(p, "removed", NoContext)
Selects(p) ==
  /\ ManagerFree /\ SetActive(callCtx[p]) /\ UNCHANGED phase
  /\ Goto(p, "selected", NoContext)
Elsewhere(p) ==
  /\ ~Writing(p) /\ UNCHANGED <<managerVars, phase>>
  /\ \E step \in CallSteps \ {"adding", "diffing", "removing"},
        x \in Contexts \cup {NoContext} : Goto(p, step, x)
Closes == phase = "closing" /\ CloseAll /\ phase' = "closed" /\ UNCHANGED callVars
Advances ==
  /\ UNCHANGED <<managerVars, callVars>>
  /\ phase' = "closing" /\ phase # "closing" => ManagerFree

ManagerNext ==
  \/ \E p \in Callers, x \in Contexts :
       (\E g \in Gens : Fresh(x, g) /\ AddStarts(p, x, g)) \/ RemoveStarts(p, x)
  \/ \E p \in Callers :
       /\ callCtx[p] \in Contexts
       /\ AddStops(p) \/ RemoveStops(p) \/ Selects(p)
  \/ \E p \in Callers : Elsewhere(p)
  \/ Closes \/ Advances

LEMMA ManagerSteps == IInv /\ [Next]_vars => ManagerNext
<1> SUFFICES ASSUME IInv, [Next]_vars PROVE ManagerNext
  OBVIOUS
<1> USE DEF IInv, TypeOK, InFlightWellFormed, ManagerNext, Idle, Return, managerVars
<1>1. ASSUME NEW p \in Callers, NEW x \in Contexts, AddBegin(p, x) PROVE ManagerNext
  <2>1. AddStarts(p, x, NewClient(x))
    BY <1>1 DEF AddBegin, AddStarts
  <2> QED BY <1>1, <2>1, NewClientIsFresh
<1>2. ASSUME NEW p \in Callers, AddEnd(p) PROVE ManagerNext
  BY <1>2 DEF AddEnd, AddStops, Adding
<1>3. ASSUME NEW p \in Callers, NEW x \in Contexts, RemoveBegin(p, x) PROVE ManagerNext
  BY <1>3 DEF RemoveBegin, RemoveStarts
<1>4. ASSUME NEW p \in Callers, RemoveEnd(p) PROVE ManagerNext
  BY <1>4 DEF RemoveEnd, RemoveStops
<1>5. ASSUME NEW p \in Callers, ConnectSelect(p) PROVE ManagerNext
  BY <1>5 DEF ConnectSelect, Selects, Elsewhere, Writing, CallSteps
<1>6. ASSUME NEW p \in Callers, NEW x \in Contexts, ConnectExisting(p, x) PROVE ManagerNext
  BY <1>6 DEF ConnectExisting, Elsewhere, Writing, CallSteps
<1>7. ASSUME NEW p \in Callers,
             ConnectNotify(p) \/ DisconnectNotify(p) \/ NotifyEmit(p) \/ DialEnd(p)
      PROVE  ManagerNext
  BY <1>7 DEF ConnectNotify, DisconnectNotify, NotifyEmit, DialEnd, TellIfChanged,
     Elsewhere, Writing, CallSteps
<1>8. ASSUME NEW p \in Callers, DialBegin(p) PROVE ManagerNext
  BY <1>8 DEF DialBegin, Elsewhere, Writing, CallSteps
<1>9. ASSUME Heartbeat PROVE ManagerNext
  BY <1>9 DEF Heartbeat, HeartbeatPick, HeartbeatLock, HeartbeatInfo, HeartbeatApply,
     HeartbeatEmit, Advances
<1>10. ASSUME NEW x \in Contexts, Flip(x) PROVE ManagerNext
  BY <1>10 DEF Flip, Advances
<1>11. ASSUME ShutdownStop \/ LoopEnd \/ CloseBegin PROVE ManagerNext
  BY <1>11 DEF ShutdownStop, LoopEnd, CloseBegin, ShutdownPhase, Advances
<1>12. ASSUME CloseEnd PROVE ManagerNext
  BY <1>12 DEF CloseEnd, ShutdownPhase, Closes
<1>13. ASSUME UNCHANGED vars PROVE ManagerNext
  BY <1>13 DEF vars, Advances
<1> QED
  BY <1>1, <1>2, <1>3, <1>4, <1>5, <1>6, <1>7, <1>8, <1>9, <1>10, <1>11, <1>12, <1>13
  DEF Next, Continue, Shutdown

LEMMA InitMutualExclusion == Init => MutualExclusion
BY DEF Init, MutualExclusion, Writing, Adding

LEMMA NextMutualExclusion ==
  IInv /\ MutualExclusion /\ [Next]_vars => MutualExclusion'
<1> SUFFICES ASSUME IInv, MutualExclusion, ManagerNext PROVE MutualExclusion'
  BY ManagerSteps
<1> USE ClusterManagerAssumption
    DEF IInv, TypeOK, ManagerTypeOK, CallSteps, MutualExclusion, Writing, Adding,
        ManagerFree, Goto, managerVars, callVars
<1>1. ASSUME NEW p \in Callers, NEW x \in Contexts, NEW g \in Gens, AddStarts(p, x, g)
      PROVE  MutualExclusion'
  BY <1>1 DEF AddStarts, AddClient
<1>2. ASSUME NEW p \in Callers, AddStops(p) PROVE MutualExclusion'
  BY <1>2 DEF AddStops, AddAnswered, AddFailed
<1>3. ASSUME NEW p \in Callers, NEW x \in Contexts, RemoveStarts(p, x)
      PROVE  MutualExclusion'
  BY <1>3 DEF RemoveStarts
<1>4. ASSUME NEW p \in Callers, RemoveStops(p) PROVE MutualExclusion'
  BY <1>4 DEF RemoveStops, Remove
<1>5. ASSUME NEW p \in Callers, Selects(p) PROVE MutualExclusion'
  BY <1>5 DEF Selects, SetActive
<1>6. ASSUME NEW p \in Callers, Elsewhere(p) PROVE MutualExclusion'
  BY <1>6 DEF Elsewhere
<1>7. ASSUME Closes PROVE MutualExclusion'
  BY <1>7 DEF Closes, CloseAll
<1>8. ASSUME Advances PROVE MutualExclusion'
  BY <1>8 DEF Advances
<1> QED BY <1>1, <1>2, <1>3, <1>4, <1>5, <1>6, <1>7, <1>8 DEF ManagerNext

LEMMA ExclusionInvariance == Spec => [](IInv /\ MutualExclusion)
BY InitIInv, NextIInv, InitMutualExclusion, NextMutualExclusion, PTL DEF Spec

-----------------------------------------------------------------------------
(* No closed client is served and no open one is lost, whatever the         *)
(* interleaving of connects that succeed or fail, disconnects, diffs,       *)
(* heartbeats and shutdown.                                                 *)
THEOREM OpenIsManagedHolds == Spec => []OpenIsManaged
<1>1. Init => OpenIsManaged
  BY DEF Init, ManagerInit, OpenIsManaged
<1>2. IInv /\ OpenIsManaged /\ [Next]_vars => OpenIsManaged'
  <2> SUFFICES ASSUME IInv, OpenIsManaged, ManagerNext PROVE OpenIsManaged'
    BY ManagerSteps
  <2> USE ClusterManagerAssumption DEF IInv, TypeOK, ManagerTypeOK, OpenIsManaged
  <2>1. ASSUME NEW x \in Contexts, NEW g \in Gens, AddClient(x, g) PROVE OpenIsManaged'
    BY <2>1 DEF AddClient
  <2>2. ASSUME NEW x \in Contexts, AddFailed(x) PROVE OpenIsManaged'
    BY <2>2 DEF AddFailed
  <2>3. ASSUME NEW x \in Contexts, Remove(x) PROVE OpenIsManaged'
    BY <2>3 DEF Remove
  <2>4. CASE CloseAll
    BY <2>4 DEF CloseAll
  <2>5. CASE UNCHANGED <<conn, open>>
    BY <2>5
  <2> QED
    BY <2>1, <2>2, <2>3, <2>4, <2>5
    DEF ManagerNext, AddStarts, AddStops, RemoveStarts, RemoveStops, Selects,
        Elsewhere, Closes, Advances, AddAnswered, SetActive, managerVars
<1> QED BY <1>1, <1>2, Invariance, PTL DEF Spec

(* Exactly the clusters whose client can be got have their information      *)
(* cached: mutual exclusion makes the one client being added the only       *)
(* exception.                                                               *)
THEOREM ClientsHaveInfo == Spec => []EveryClientHasInfo
<1>1. Init => EveryClientHasInfo
  BY DEF Init, ManagerInit, EveryClientHasInfo, Served
<1>2. IInv /\ MutualExclusion /\ EveryClientHasInfo /\ [Next]_vars => EveryClientHasInfo'
  <2> SUFFICES ASSUME IInv, MutualExclusion, EveryClientHasInfo, ManagerNext
               PROVE  EveryClientHasInfo'
    BY ManagerSteps
  <2> USE ClusterManagerAssumption
      DEF IInv, TypeOK, ManagerTypeOK, CallSteps, MutualExclusion, Writing, Adding,
          ManagerFree, Goto, managerVars, callVars, EveryClientHasInfo, Served, BeingAdded
  <2>1. ASSUME NEW p \in Callers, NEW x \in Contexts, NEW g \in Gens, AddStarts(p, x, g)
        PROVE  EveryClientHasInfo'
    BY <2>1 DEF AddStarts, AddClient
  <2>2. ASSUME NEW p \in Callers, callCtx[p] \in Contexts, AddStops(p)
        PROVE  EveryClientHasInfo'
    BY <2>2 DEF AddStops, AddAnswered, AddFailed
  <2>3. ASSUME NEW p \in Callers, NEW x \in Contexts, RemoveStarts(p, x)
        PROVE  EveryClientHasInfo'
    BY <2>3 DEF RemoveStarts
  <2>4. ASSUME NEW p \in Callers, RemoveStops(p) PROVE EveryClientHasInfo'
    BY <2>4 DEF RemoveStops, Remove
  <2>5. ASSUME NEW p \in Callers, Selects(p) PROVE EveryClientHasInfo'
    BY <2>5 DEF Selects, SetActive
  <2>6. ASSUME NEW p \in Callers, Elsewhere(p) PROVE EveryClientHasInfo'
    BY <2>6 DEF Elsewhere
  <2>7. ASSUME Closes PROVE EveryClientHasInfo'
    BY <2>7 DEF Closes, CloseAll
  <2>8. ASSUME Advances PROVE EveryClientHasInfo'
    BY <2>8 DEF Advances
  <2> QED BY <2>1, <2>2, <2>3, <2>4, <2>5, <2>6, <2>7, <2>8 DEF ManagerNext
<1> QED BY <1>1, <1>2, ExclusionInvariance, PTL DEF Spec

(* While a context stays active its client is the same one. *)
THEOREM ActiveClientStays == Spec => ActiveClientIsStable
<1>1. IInv /\ [Next]_vars
        => [ActiveServed /\ active' = active => conn'[active] = conn[active]]_vars
  <2> SUFFICES ASSUME IInv, ManagerNext, ActiveServed, active' = active
               PROVE  conn'[active] = conn[active]
    BY ManagerSteps DEF vars
  <2> USE ClusterManagerAssumption
      DEF IInv, TypeOK, ManagerTypeOK, ActiveServed, Served, BeingAdded, Adding
  <2>1. ASSUME NEW x \in Contexts, NEW g \in Gens, AddClient(x, g)
        PROVE  conn'[active] = conn[active]
    BY <2>1 DEF AddClient
  <2>2. ASSUME NEW p \in Callers, AddStops(p) PROVE conn'[active] = conn[active]
    BY <2>2 DEF AddStops, AddAnswered, AddFailed
  <2>3. ASSUME NEW x \in Contexts, Remove(x) PROVE conn'[active] = conn[active]
    BY <2>3 DEF Remove
  <2>4. CASE CloseAll
    BY <2>4 DEF CloseAll
  <2>5. CASE UNCHANGED conn
    BY <2>5
  <2> QED
    BY <2>1, <2>2, <2>3, <2>4, <2>5
    DEF ManagerNext, AddStarts, RemoveStarts, RemoveStops, Selects, Elsewhere,
        Closes, Advances, SetActive, managerVars
<1> QED BY <1>1, Invariance, PTL DEF Spec, ActiveClientIsStable

-----------------------------------------------------------------------------
(* The monitor's state and its failure count, whichever client failed. *)
THEOREM HealthLadderHolds == Spec => []HealthLadder
<1>1. Init => HealthLadder
  BY HealthAssumption DEF Init, HealthInit, HealthLadder
<1>2. IInv /\ HealthLadder /\ [Next]_vars => HealthLadder'
  <2> SUFFICES ASSUME IInv, HealthLadder, [Next]_vars PROVE HealthLadder'
    OBVIOUS
  <2> USE HealthAssumption DEF IInv, TypeOK, HealthTypeOK, States, HealthLadder
  <2>1. CASE NotifyConnected
    BY <2>1 DEF NotifyConnected
  <2>2. CASE NotifyDisconnected
    BY <2>2 DEF NotifyDisconnected
  <2>3. CASE HeartbeatSucceeded
    BY <2>3 DEF HeartbeatSucceeded
  <2>4. CASE HeartbeatFailed
    BY <2>4 DEF HeartbeatFailed, AfterFailure
  <2>5. CASE UNCHANGED <<health, failures>>
    BY <2>5
  <2>6. \/ NotifyConnected \/ NotifyDisconnected
        \/ HeartbeatSucceeded \/ HeartbeatFailed
        \/ UNCHANGED <<health, failures>>
    BY DEF Next, Continue, Heartbeat, Shutdown, AddBegin, AddEnd, ConnectExisting,
       ConnectSelect, ConnectNotify, RemoveBegin, RemoveEnd, DisconnectNotify,
       NotifyEmit, DialBegin, DialEnd, HeartbeatPick, HeartbeatLock, HeartbeatInfo,
       HeartbeatApply, HeartbeatEmit, Flip, ShutdownStop, LoopEnd, CloseBegin,
       CloseEnd, ShutdownPhase, vars, healthVars
  <2> QED BY <2>1, <2>2, <2>3, <2>4, <2>5, <2>6
<1> QED BY <1>1, <1>2, Invariance, PTL DEF Spec

(* The manager starts with an active context that has no client.  Until     *)
(* something is selected or added there, no heartbeat can even begin.       *)
DanglingIsQuiet ==
  active \in Contexts /\ ~Served(active) => hbAt = "idle" /\ failures = 0

(* Once every Connect has notified the monitor, a failure that the active   *)
(* cluster did not contribute to is at most one, and if there is one no     *)
(* heartbeat of another cluster is in flight any more.                      *)
StrayFailureIsAlone ==
  ConnectsNotified /\ ActiveServed /\ active \notin failed
    => /\ failures <= 1
       /\ failures = 1 /\ hbAt \in {"picked", "asking", "ok", "err"}
            => hbCtx = active

BlameInv == DanglingIsQuiet /\ StrayFailureIsAlone

LEMMA NextBlameInv ==
  IInv /\ MutualExclusion /\ BlameInv /\ [Next]_vars => BlameInv'
<1> SUFFICES ASSUME IInv, MutualExclusion, BlameInv, [Next]_vars PROVE BlameInv'
  OBVIOUS
<1> USE ClusterManagerAssumption, HealthAssumption
    DEF IInv, TypeOK, InFlightWellFormed, ManagerTypeOK, HealthTypeOK, CallSteps,
        HeartbeatSteps, BlameInv, DanglingIsQuiet, StrayFailureIsAlone,
        ConnectsNotified, ActiveServed, Served, BeingAdded, ManagerFree,
        MutualExclusion, Writing, Adding,
        Goto, Return, Idle, managerVars, healthVars, callVars, hbVars
<1>1. ASSUME NEW p \in Callers, NEW x \in Contexts, AddBegin(p, x) PROVE BlameInv'
  BY <1>1, NewClientIsFresh DEF AddBegin, AddClient
<1>2. ASSUME NEW p \in Callers, AddEnd(p) PROVE BlameInv'
  <2>1. CASE AddAnswered(callCtx[p])
    BY <1>2, <2>1 DEF AddEnd, AddAnswered
  <2>2. CASE AddFailed(callCtx[p])
    BY <1>2, <2>2 DEF AddEnd, AddFailed
  <2> QED BY <1>2, <2>1, <2>2 DEF AddEnd
<1>3. ASSUME NEW p \in Callers, NEW x \in Contexts, ConnectExisting(p, x) PROVE BlameInv'
  BY <1>3 DEF ConnectExisting
<1>4. ASSUME NEW p \in Callers, ConnectSelect(p) PROVE BlameInv'
  BY <1>4 DEF ConnectSelect, SetActive
<1>5. ASSUME NEW p \in Callers, ConnectNotify(p) PROVE BlameInv'
  BY <1>5 DEF ConnectNotify, NotifyConnected, TellIfChanged
<1>6. ASSUME NEW p \in Callers, NEW x \in Contexts, RemoveBegin(p, x) PROVE BlameInv'
  BY <1>6 DEF RemoveBegin
<1>7. ASSUME NEW p \in Callers, RemoveEnd(p) PROVE BlameInv'
  BY <1>7 DEF RemoveEnd, Remove
<1>8. ASSUME NEW p \in Callers, DisconnectNotify(p) PROVE BlameInv'
  BY <1>8 DEF DisconnectNotify, NotifyDisconnected, TellIfChanged
<1>9. ASSUME NEW p \in Callers, NotifyEmit(p) \/ DialEnd(p) PROVE BlameInv'
  BY <1>9 DEF NotifyEmit, DialEnd
<1>10. ASSUME NEW p \in Callers, DialBegin(p) PROVE BlameInv'
  BY <1>10 DEF DialBegin
<1>11. ASSUME HeartbeatPick PROVE BlameInv'
  BY <1>11 DEF HeartbeatPick
<1>12. ASSUME HeartbeatLock \/ HeartbeatInfo \/ HeartbeatEmit PROVE BlameInv'
  BY <1>12 DEF HeartbeatLock, HeartbeatInfo, HeartbeatEmit
<1>13. ASSUME HeartbeatApply PROVE BlameInv'
  <2>1. CASE hbAt = "ok"
    BY <1>13, <2>1 DEF HeartbeatApply, HeartbeatSucceeded
  <2>2. CASE hbAt = "err"
    BY <1>13, <2>2 DEF HeartbeatApply, HeartbeatFailed
  <2> QED BY <1>13, <2>1, <2>2 DEF HeartbeatApply
<1>14. ASSUME NEW x \in Contexts, Flip(x) PROVE BlameInv'
  BY <1>14 DEF Flip
<1>15. ASSUME ShutdownStop \/ LoopEnd \/ CloseBegin PROVE BlameInv'
  BY <1>15 DEF ShutdownStop, LoopEnd, CloseBegin, ShutdownPhase
<1>16. ASSUME CloseEnd PROVE BlameInv'
  BY <1>16 DEF CloseEnd, ShutdownPhase, CloseAll
<1>17. ASSUME UNCHANGED vars PROVE BlameInv'
  BY <1>17 DEF vars
<1> QED
  BY <1>1, <1>2, <1>3, <1>4, <1>5, <1>6, <1>7, <1>8, <1>9, <1>10, <1>11,
     <1>12, <1>13, <1>14, <1>15, <1>16, <1>17
  DEF Next, Continue, Heartbeat, Shutdown

(* A cluster reported degraded has failed a heartbeat itself. *)
THEOREM DegradedIsEarnedHolds == Spec => []DegradedIsEarned
<1>1. Init => BlameInv
  BY DEF Init, HealthInit, ManagerInit, BlameInv, DanglingIsQuiet, StrayFailureIsAlone
<1>2. IInv /\ HealthLadder /\ BlameInv => DegradedIsEarned
  BY HealthAssumption
     DEF IInv, TypeOK, HealthTypeOK, HealthLadder, BlameInv, StrayFailureIsAlone,
         DegradedIsEarned
<1> QED
  BY <1>1, <1>2, NextBlameInv, ExclusionInvariance, HealthLadderHolds, PTL DEF Spec

-----------------------------------------------------------------------------
(* Every step of the connection layer is a step of ActiveCluster or leaves  *)
(* its two variables alone: an Add opens its cluster when it is answered,   *)
(* and one that fails is never seen.                                        *)
THEOREM ImplementsPromise == Spec => ImplementsActiveCluster
<1>1. Init => Promise!Init
  BY ClusterManagerAssumption DEF Init, ManagerInit, Promise!Init, ActiveServed, Served
<1>2. IInv /\ MutualExclusion /\ [Next]_vars => [Promise!Next]_(Promise!clusterVars)
  <2> SUFFICES ASSUME IInv, MutualExclusion, ManagerNext
               PROVE  [Promise!Next]_(Promise!clusterVars)
    BY ManagerSteps
  <2> USE ClusterManagerAssumption
      DEF IInv, TypeOK, ManagerTypeOK, CallSteps, MutualExclusion, Writing, Adding,
          ManagerFree, Goto, managerVars, callVars, ActiveServed, Served, BeingAdded
  <2>1. ASSUME NEW p \in Callers, NEW x \in Contexts, NEW g \in Gens, AddStarts(p, x, g)
        PROVE  UNCHANGED Promise!clusterVars
    BY <2>1 DEF AddStarts, AddClient, Promise!clusterVars
  <2>2. ASSUME NEW p \in Callers, callCtx[p] \in Contexts, AddStops(p)
        PROVE  Promise!Open(callCtx[p]) \/ UNCHANGED Promise!clusterVars
    <3>1. CASE AddAnswered(callCtx[p])
      BY <2>2, <3>1 DEF AddStops, AddAnswered, Promise!Open
    <3>2. CASE AddFailed(callCtx[p])
      BY <2>2, <3>2 DEF AddStops, AddFailed, Promise!clusterVars
    <3> QED BY <2>2, <3>1, <3>2 DEF AddStops
  <2>3. ASSUME NEW p \in Callers, NEW x \in Contexts, RemoveStarts(p, x)
        PROVE  UNCHANGED Promise!clusterVars
    BY <2>3 DEF RemoveStarts, Promise!clusterVars
  <2>4. ASSUME NEW p \in Callers, callCtx[p] \in Contexts, RemoveStops(p)
        PROVE  Promise!Drop(callCtx[p])
    BY <2>4 DEF RemoveStops, Remove, Promise!Drop
  <2>5. ASSUME NEW p \in Callers, callCtx[p] \in Contexts, Selects(p)
        PROVE  Promise!Select(callCtx[p])
    BY <2>5 DEF Selects, SetActive, Promise!Select
  <2>6. ASSUME NEW p \in Callers, Elsewhere(p) PROVE UNCHANGED Promise!clusterVars
    BY <2>6 DEF Elsewhere, Promise!clusterVars
  <2>7. ASSUME Closes PROVE Promise!DropAll
    BY <2>7 DEF Closes, CloseAll, Promise!DropAll
  <2>8. ASSUME Advances PROVE UNCHANGED Promise!clusterVars
    BY <2>8 DEF Advances, Promise!clusterVars
  <2> HIDE DEF IInv, TypeOK, MutualExclusion, ActiveServed, Served, BeingAdded, Goto
  <2>9. \/ \E x \in Contexts : Promise!Open(x) \/ Promise!Select(x) \/ Promise!Drop(x)
        \/ Promise!DropAll
        \/ UNCHANGED Promise!clusterVars
    BY <2>1, <2>2, <2>3, <2>4, <2>5, <2>6, <2>7, <2>8, Zenon DEF ManagerNext
  <2> QED BY <2>9 DEF Promise!Next
<1> QED
  BY <1>1, <1>2, ExclusionInvariance, PTL DEF Spec, ImplementsActiveCluster, Promise!Spec
=============================================================================
