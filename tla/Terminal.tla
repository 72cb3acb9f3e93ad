------------------------------- MODULE Terminal -------------------------------
(***************************************************************************)
(* Terminal sessions: internal/terminal/manager.go.  A session is a shell  *)
(* on a PTY and a reader goroutine, which closes the session's id when the *)
(* PTY gives no more.  Close kills the shell and reaps it under the mutex. *)
(***************************************************************************)
CONSTANTS
  Shells,     \* calls of Start that pass the validation
  NoShell,
  SessionIds  \* the ids the frontend gives them

ASSUME TerminalAssumption == NoShell \notin Shells

VARIABLES
  sessions,  \* Manager.sessions
  shellId,   \* the id each shell is started under
  shell,     \* "unused", "alive", "exited" (by itself), "reaped"
  reader     \* the reader: "unused", "reading", "leaving", "ended"

termVars == <<sessions, shellId, shell, reader>>

TerminalTypeOK ==
  /\ sessions \in [SessionIds -> Shells \cup {NoShell}]
  /\ shellId \in [Shells -> SessionIds]
  /\ shell \in [Shells -> {"unused", "alive", "exited", "reaped"}]
  /\ reader \in [Shells -> {"unused", "reading", "leaving", "ended"}]

TerminalInit ==
  /\ sessions = [i \in SessionIds |-> NoShell]
  /\ shellId \in [Shells -> SessionIds]
  /\ shell = [p \in Shells |-> "unused"]
  /\ reader = [p \in Shells |-> "unused"]

-----------------------------------------------------------------------------
(* Mutant: no check that the id is taken. *)
StartTerminalOver(p) ==
  /\ shell[p] = "unused"
  /\ sessions' = [sessions EXCEPT ![shellId[p]] = p]
  /\ shell' = [shell EXCEPT ![p] = "alive"]
  /\ reader' = [reader EXCEPT ![p] = "reading"]
  /\ UNCHANGED shellId

StartTerminal(p) ==
  /\ shell[p] = "unused"
  /\ sessions[shellId[p]] = NoShell
  /\ sessions' = [sessions EXCEPT ![shellId[p]] = p]
  /\ shell' = [shell EXCEPT ![p] = "alive"]
  /\ reader' = [reader EXCEPT ![p] = "reading"]
  /\ UNCHANGED shellId

(* What Close does under the mutex; without a session it returns. *)
Reap(i) ==
  LET p == sessions[i] IN
  IF p = NoShell THEN UNCHANGED <<sessions, shell>>
  ELSE /\ sessions' = [sessions EXCEPT ![i] = NoShell]
       /\ shell' = [shell EXCEPT ![p] = "reaped"]

CloseTerminal(i) ==
  /\ sessions[i] # NoShell
  /\ Reap(i)
  /\ UNCHANGED <<shellId, reader>>

ShellExits(p) ==
  /\ shell[p] = "alive"
  /\ shell' = [shell EXCEPT ![p] = "exited"]
  /\ UNCHANGED <<sessions, shellId, reader>>

(* Read fails: the shell is gone, or the PTY was closed. *)
ReadFails(p) ==
  /\ reader[p] = "reading"
  /\ shell[p] \in {"exited", "reaped"}
  /\ reader' = [reader EXCEPT ![p] = "leaving"]
  /\ UNCHANGED <<sessions, shellId, shell>>

(* Mutant: the reader leaves without closing the session. *)
ReaderLeavesOpen(p) ==
  /\ reader[p] = "leaving"
  /\ reader' = [reader EXCEPT ![p] = "ended"]
  /\ UNCHANGED <<sessions, shellId, shell>>

(* The deferred Close, of whichever session has the id by now. *)
ReaderCloses(p) ==
  /\ reader[p] = "leaving"
  /\ Reap(shellId[p])
  /\ reader' = [reader EXCEPT ![p] = "ended"]
  /\ UNCHANGED shellId

TerminalNext ==
  \/ \E p \in Shells : StartTerminal(p) \/ ShellExits(p) \/ ReadFails(p) \/ ReaderCloses(p)
  \/ \E i \in SessionIds : CloseTerminal(i)

TerminalFairness == \A p \in Shells : WF_termVars(ReadFails(p)) /\ WF_termVars(ReaderCloses(p))

TerminalSpec == TerminalInit /\ [][TerminalNext]_termVars /\ TerminalFairness

-----------------------------------------------------------------------------
(* Every shell that was started and not reaped has a session: it can be     *)
(* written to and closed, and no process is left behind.                    *)
NoOrphanShell ==
  \A p \in Shells : shell[p] \in {"alive", "exited"} => sessions[shellId[p]] = p

(* A shell that exits by itself is reaped and its session removed. *)
ExitIsReaped == \A p \in Shells : shell[p] = "exited" ~> shell[p] = "reaped"
=============================================================================
