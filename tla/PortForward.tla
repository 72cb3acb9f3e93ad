----------------------------- MODULE PortForward -----------------------------
(***************************************************************************)
(* Port forwards: internal/core/portforward.go over cluster.PortForward    *)
(* (internal/client/cluster.go).  A forwarder is a goroutine that holds a  *)
(* local port; a monitor goroutine waits for its end and updates the entry *)
(* the service has under the forward's id, which names pod and ports.      *)
(***************************************************************************)
CONSTANTS
  Forwards,     \* calls of CreateForward that pass the port checks
  NoForward,
  Pods,
  LocalPorts

ASSUME ForwardAssumption == NoForward \notin Forwards

(* An id names pod, local port and remote port; the remote port tells       *)
(* nothing apart that the pod does not.                                     *)
ForwardIds == Pods \X LocalPorts
PortOf(i) == i[2]

VARIABLES
  forwards,   \* PortForwardService.forwards
  fwdId,      \* the id each call is for
  forwarder,  \* "unused", "dialing", "ready", "running", "stopping", "ended"
  fwdError,   \* forwarders that ended with an error
  status,     \* ActiveForward.Status: "", "Active", "Stopped", "Error"
  monitor     \* the monitor goroutine: "unused", "waiting", "ended"

fwdVars == <<forwards, fwdId, forwarder, fwdError, status, monitor>>

ForwardTypeOK ==
  /\ forwards \in [ForwardIds -> Forwards \cup {NoForward}]
  /\ fwdId \in [Forwards -> ForwardIds]
  /\ forwarder \in [Forwards -> {"unused", "dialing", "ready", "running", "stopping", "ended"}]
  /\ fwdError \subseteq Forwards
  /\ status \in [Forwards -> {"", "Active", "Stopped", "Error"}]
  /\ monitor \in [Forwards -> {"unused", "waiting", "ended"}]

ForwardInit ==
  /\ forwards = [i \in ForwardIds |-> NoForward]
  /\ fwdId \in [Forwards -> ForwardIds]
  /\ forwarder = [f \in Forwards |-> "unused"]
  /\ fwdError = {}
  /\ status = [f \in Forwards |-> ""]
  /\ monitor = [f \in Forwards |-> "unused"]

(* The forwarders that hold the local port: until ForwardPorts returns. *)
Holds(f, p) == PortOf(fwdId[f]) = p /\ forwarder[f] \in {"ready", "running", "stopping"}
PortFree(p) == \A f \in Forwards : ~Holds(f, p)

-----------------------------------------------------------------------------
(* CreateForward: the port is probed, and let go again. *)
ProbePort(f) ==
  /\ forwarder[f] = "unused"
  /\ PortFree(PortOf(fwdId[f]))
  /\ forwarder' = [forwarder EXCEPT ![f] = "dialing"]
  /\ UNCHANGED <<forwards, fwdId, fwdError, status, monitor>>

(* Mutant: the port can be bound by two forwarders. *)
BindShared(f) ==
  /\ forwarder[f] = "dialing"
  /\ forwarder' = [forwarder EXCEPT ![f] = "ready"]
  /\ UNCHANGED <<forwards, fwdId, fwdError, status, monitor>>

(* The forwarder binds it, if it is still free, and is ready... *)
Bind(f) ==
  /\ forwarder[f] = "dialing"
  /\ PortFree(PortOf(fwdId[f]))
  /\ forwarder' = [forwarder EXCEPT ![f] = "ready"]
  /\ UNCHANGED <<forwards, fwdId, fwdError, status, monitor>>

(* ... or the call fails and nothing was registered.  (The third case of    *)
(* the select, the app's context, ends with the program.)                   *)
BindFails(f) ==
  /\ forwarder[f] = "dialing"
  /\ forwarder' = [forwarder EXCEPT ![f] = "ended"]
  /\ UNCHANGED <<forwards, fwdId, fwdError, status, monitor>>

(* Under the mutex, over whatever the id had. *)
Register(f) ==
  /\ status[f] = ""
  /\ forwarder[f] = "ready" \/ (forwarder[f] = "ended" /\ f \in fwdError)
  /\ forwards' = [forwards EXCEPT ![fwdId[f]] = f]
  /\ status' = [status EXCEPT ![f] = "Active"]
  /\ monitor' = [monitor EXCEPT ![f] = "waiting"]
  /\ forwarder' = [forwarder EXCEPT ![f] = IF @ = "ready" THEN "running" ELSE @]
  /\ UNCHANGED <<fwdId, fwdError>>

(* The connection to the pod is lost: ForwardPorts returns an error and     *)
(* lets the port go.                                                        *)
ConnectionLost(f) ==
  /\ forwarder[f] \in {"ready", "running"}
  /\ forwarder' = [forwarder EXCEPT ![f] = "ended"]
  /\ fwdError' = fwdError \cup {f}
  /\ UNCHANGED <<forwards, fwdId, status, monitor>>

(* ForwardPorts returns after Stop. *)
ForwarderStops(f) ==
  /\ forwarder[f] = "stopping"
  /\ forwarder' = [forwarder EXCEPT ![f] = "ended"]
  /\ UNCHANGED <<forwards, fwdId, fwdError, status, monitor>>

(* Mutant: the monitor forgets errors. *)
MonitorQuietly(f) ==
  /\ monitor[f] = "waiting"
  /\ forwarder[f] = "ended"
  /\ monitor' = [monitor EXCEPT ![f] = "ended"]
  /\ LET g == forwards[fwdId[f]] IN
     status' = IF g = NoForward \/ f \in fwdError THEN status
               ELSE [status EXCEPT ![g] = "Stopped"]
  /\ UNCHANGED <<forwards, fwdId, forwarder, fwdError>>

(* The monitor: the entry the id has by now gets this forwarder's result. *)
Monitor(f) ==
  /\ monitor[f] = "waiting"
  /\ forwarder[f] = "ended"
  /\ monitor' = [monitor EXCEPT ![f] = "ended"]
  /\ LET g == forwards[fwdId[f]] IN
     status' = IF g = NoForward THEN status
               ELSE [status EXCEPT ![g] = IF f \in fwdError THEN "Error" ELSE "Stopped"]
  /\ UNCHANGED <<forwards, fwdId, forwarder, fwdError>>

Stopped(s) ==
  [f \in Forwards |-> IF f \in s /\ forwarder[f] = "running" THEN "stopping" ELSE forwarder[f]]

StopForward(i) ==
  /\ forwards[i] # NoForward
  /\ forwarder' = Stopped({forwards[i]})
  /\ forwards' = [forwards EXCEPT ![i] = NoForward]
  /\ UNCHANGED <<fwdId, fwdError, status, monitor>>

StopAllForwards ==
  /\ forwarder' = Stopped({forwards[i] : i \in ForwardIds})
  /\ forwards' = [i \in ForwardIds |-> NoForward]
  /\ UNCHANGED <<fwdId, fwdError, status, monitor>>

ForwardNext ==
  \/ \E f \in Forwards :
       \/ ProbePort(f) \/ Bind(f) \/ BindFails(f) \/ Register(f)
       \/ ConnectionLost(f) \/ ForwarderStops(f) \/ Monitor(f)
  \/ \E i \in ForwardIds : StopForward(i)
  \/ StopAllForwards

ForwardFairness == \A f \in Forwards : WF_fwdVars(Monitor(f))

ForwardSpec == ForwardInit /\ [][ForwardNext]_fwdVars /\ ForwardFairness

-----------------------------------------------------------------------------
(* A forwarder that runs is the one its id is registered to, so that it can *)
(* be stopped: entries are overwritten without a look at what they held,    *)
(* and the port, which the id determines, is what makes that safe.  It is   *)
(* not when a forwarder fails between being ready and being entered: its    *)
(* entry may then come late, and over the one of its successor.             *)
RunningIsListed ==
  \A f \in Forwards :
    forwarder[f] = "running" /\ forwards[fwdId[f]] # f =>
      \E g \in Forwards \ {f} : fwdId[g] = fwdId[f] /\ g \in fwdError /\ status[g] # ""

(* A listed forward whose forwarder has ended does not stay "Active". *)
EndIsShown ==
  \A f \in Forwards :
    forwards[fwdId[f]] = f /\ forwarder[f] = "ended"
      ~> forwards[fwdId[f]] # f \/ status[f] # "Active"
=============================================================================
