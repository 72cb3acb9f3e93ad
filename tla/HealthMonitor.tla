---------------------------- MODULE HealthMonitor ----------------------------
(***************************************************************************)
(* The heartbeat state machine of internal/health/monitor.go.  A heartbeat *)
(* reads the active client, asks it for its Info with no lock held, and    *)
(* only then takes the monitor's mutex: the three steps are separate, and  *)
(* connects, disconnects and cluster switches fall between them.           *)
(***************************************************************************)
EXTENDS Naturals

CONSTANTS
  DegradeAfter,     \* consecutive failures before "degraded"
  DisconnectAfter,  \* consecutive failures before "reconnecting"
  BackoffMin,       \* seconds
  BackoffMax,       \* seconds
  MaxFailures       \* bound: the count of failures saturates here (the code
                    \* only compares it with the two thresholds)

ASSUME HealthAssumption ==
  /\ DegradeAfter \in Nat \ {0, 1}
  /\ DisconnectAfter \in Nat
  /\ MaxFailures \in Nat
  /\ DegradeAfter < DisconnectAfter
  /\ DisconnectAfter <= MaxFailures
  /\ BackoffMin \in Nat
  /\ BackoffMax \in Nat
  /\ BackoffMin <= BackoffMax

States == {"connected", "degraded", "disconnected", "reconnecting"}

VARIABLES
  health,    \* ClusterHealthMonitor.state
  failures,  \* consecutive failed heartbeats
  backoff    \* seconds

healthVars == <<health, failures, backoff>>

HealthTypeOK ==
  /\ health \in States
  /\ failures \in 0..MaxFailures
  /\ backoff \in BackoffMin..BackoffMax

HealthInit ==
  /\ health = "disconnected"
  /\ failures = 0
  /\ backoff = BackoffMin

-----------------------------------------------------------------------------
(* Mutant: the failure count survives a connect. *)
NotifyConnectedKeepsCount ==
  /\ health' = "connected"
  /\ UNCHANGED <<failures, backoff>>

NotifyConnected ==
  /\ failures' = 0
  /\ backoff' = BackoffMin
  /\ health' = "connected"

(* An explicit disconnect keeps the failure count and the backoff. *)
NotifyDisconnected ==
  /\ health' = "disconnected"
  /\ UNCHANGED <<failures, backoff>>

(* Mutant: degraded one failure too early. *)
AfterFailureEarly(n) ==
  IF n >= DisconnectAfter /\ health # "disconnected" THEN "reconnecting"
  ELSE IF n + 1 >= DegradeAfter /\ health = "connected" THEN "degraded"
  ELSE health

(* The switch of heartbeat() after a failure, n failures in all.  A monitor *)
(* already "disconnected" stays so: only a success or a connect leaves it.  *)
AfterFailure(n) ==
  IF n >= DisconnectAfter /\ health # "disconnected" THEN "reconnecting"
  ELSE IF n >= DegradeAfter /\ health = "connected" THEN "degraded"
  ELSE health

(* Mutant: the backoff is doubled without its cap. *)
NextBackoffUncapped == 2 * backoff

NextBackoff == IF 2 * backoff > BackoffMax THEN BackoffMax ELSE 2 * backoff

HeartbeatFailed ==
  /\ failures' = IF failures < MaxFailures THEN failures + 1 ELSE failures
  /\ health' = AfterFailure(failures + 1)
  /\ backoff' = NextBackoff

(* Mutant: a success resets the counters and leaves a lost cluster lost. *)
HeartbeatSucceededQuietly ==
  /\ health' = IF health = "degraded" THEN "connected" ELSE health
  /\ failures' = 0
  /\ backoff' = BackoffMin

HeartbeatSucceeded ==
  /\ health' = "connected"
  /\ failures' = 0
  /\ backoff' = BackoffMin
=============================================================================
