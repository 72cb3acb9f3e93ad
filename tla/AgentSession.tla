----------------------------- MODULE AgentSession -----------------------------
(***************************************************************************)
(* The AI agent: AIAgentQuery and the approval calls (app_agent.go), the   *)
(* loop of internal/ai/agent.go with its guardrails, the tools it runs     *)
(* (app_agent_executor.go) and the approval cards of the frontend          *)
(* (AIQueryView.tsx).                                                      *)
(*                                                                         *)
(* Each query runs its loop in a goroutine.  The registry agentSessions    *)
(* maps a session id, the conversation's id, to the query's cancel         *)
(* function and its approval channel; an object of the registry is named   *)
(* here by the agent that created it.                                      *)
(***************************************************************************)
EXTENDS Guardrails

CONSTANTS
  Sessions,     \* conversation ids
  StopIds,      \* the ids StopAgentSession is called with
  Tools,        \* the tool names the model may call
  MaxCalls,     \* bound: tool calls in one response
  MaxIterations,
  TokenCounts,  \* tokens of one response
  NoAgent, NoSession, NoMsg

ASSUME AgentSessionAssumption ==
  /\ NoAgent \notin Agents
  /\ NoSession \notin Sessions
  /\ {MaxCalls, MaxIterations} \subseteq Nat \ {0}
  /\ TokenCounts \subseteq Nat

VARIABLES
  cluster,    \* the active cluster
  registry,   \* App.agentSessions
  at,         \* where each agent's loop is
  sid,        \* its session id
  checkedFor, \* agent.cluster: the cluster active when the query started
  iter, tokens,
  todo,       \* the calls of this response not yet dealt with
  waitOn,     \* the session object RequestApproval found
  canceled,   \* session contexts that are canceled
  ch,         \* approvalCh of each session object, capacity 1
  cards,      \* the approval cards on the screen
  loading,    \* the view's isLoading, which keeps the submit button disabled
  answered,   \* the cards whose decision was accepted, not yet replaced
  approved,   \* auxiliary: the cards whose Approve was accepted
  executed    \* auxiliary: the calls that took effect

loopVars == <<at, sid, checkedFor, iter, tokens, todo, waitOn>>
uiVars == <<cards, loading, answered, approved>>
vars == <<now, guardVars, cluster, registry, loopVars, canceled, ch, uiVars, executed>>

Calls == [tool : Tools, ns : Namespaces \cup {NoNamespace}]

(* A tool call's id: its name, the iteration and the tokens of the response. *)
CallId(a) == [tool |-> Head(todo[a]).tool, iter |-> iter[a], tokens |-> tokens[a]]

(* The invocation itself: how many calls of the response are left tells two *)
(* calls of one response apart.                                             *)
Invocation(a) == [agent |-> a, iter |-> iter[a], left |-> Len(todo[a])]

Ids == [tool : Tools, iter : 1..MaxIterations, tokens : TokenCounts]
Messages == [id : Ids, approve : BOOLEAN]
Invocations == [agent : Agents, iter : 1..MaxIterations, left : 1..MaxCalls]
Cards == [inv : Invocations, session : Sessions, id : Ids]

Steps == {"unused", "thinking", "checking", "asking", "waiting", "executing",
          "returned", "ended"}

TypeOK ==
  /\ GuardTypeOK
  /\ cluster \in Clusters
  /\ registry \in [Sessions -> Agents \cup {NoAgent}]
  /\ at \in [Agents -> Steps]
  /\ sid \in [Agents -> Sessions \cup {NoSession}]
  /\ checkedFor \in [Agents -> Clusters]
  /\ iter \in [Agents -> 0..MaxIterations]
  /\ tokens \in [Agents -> TokenCounts \cup {0}]
  /\ todo \in [Agents -> Seq(Calls)]
  /\ waitOn \in [Agents -> Agents \cup {NoAgent}]
  /\ canceled \subseteq Agents
  /\ ch \in [Agents -> Messages \cup {NoMsg}]
  /\ cards \subseteq Cards
  /\ loading \in BOOLEAN
  /\ answered \subseteq Cards
  /\ approved \subseteq Cards
  /\ executed \subseteq [inv : Invocations, call : Calls, on : Clusters,
                         session : Sessions, id : Ids]

Init ==
  /\ GuardInit
  /\ cluster \in Clusters
  /\ registry = [s \in Sessions |-> NoAgent]
  /\ at = [a \in Agents |-> "unused"]
  /\ sid = [a \in Agents |-> NoSession]
  /\ checkedFor = [a \in Agents |-> cluster]
  /\ iter = [a \in Agents |-> 0]
  /\ tokens = [a \in Agents |-> 0]
  /\ todo = [a \in Agents |-> <<>>]
  /\ waitOn = [a \in Agents |-> NoAgent]
  /\ canceled = {}
  /\ ch = [a \in Agents |-> NoMsg]
  /\ cards = {} /\ loading = FALSE /\ answered = {} /\ approved = {}
  /\ executed = {}

-----------------------------------------------------------------------------
(* AIAgentQuery.  The view clears its cards, the session is registered over *)
(* whatever the id had, and the active cluster's name is read once.         *)
StartQuery(a, s) ==
  /\ at[a] = "unused"
  /\ ~loading
  /\ loading' = TRUE
  /\ cards' = {} /\ answered' = {}
  /\ registry' = [registry EXCEPT ![s] = a]
  /\ sid' = [sid EXCEPT ![a] = s]
  /\ checkedFor' = [checkedFor EXCEPT ![a] = cluster]
  /\ at' = [at EXCEPT ![a] = "thinking"]
  /\ UNCHANGED <<now, guardVars, cluster, iter, tokens, todo, waitOn, canceled,
                 ch, approved, executed>>

(* Mutant: one iteration too many. *)
IterationsLeftLate(a) == iter[a] <= MaxIterations
IterationsLeft(a) == iter[a] < MaxIterations

(* The provider answers with tool calls.  Both loops, native and textual,   *)
(* are here: they differ in how tokens are counted.                         *)
Think(a) ==
  /\ at[a] = "thinking"
  /\ a \notin canceled
  /\ IterationsLeft(a)
  /\ \E n \in 1..MaxCalls : \E calls \in [1..n -> Calls] : todo' = [todo EXCEPT ![a] = calls]
  /\ \E t \in TokenCounts : tokens' = [tokens EXCEPT ![a] = t]
  /\ iter' = [iter EXCEPT ![a] = @ + 1]
  /\ at' = [at EXCEPT ![a] = "checking"]
  /\ UNCHANGED <<now, guardVars, cluster, registry, sid, checkedFor, waitOn,
                 canceled, ch, uiVars, executed>>

(* The loop returns: with an answer and its "complete" event, with an error *)
(* and its event (a canceled context fails the provider's call), or out of  *)
(* iterations, without any event: the view then stays loading.              *)
Return(a) ==
  /\ at[a] = "thinking"
  /\ at' = [at EXCEPT ![a] = "returned"]
  /\ loading' = (loading /\ iter[a] = MaxIterations)
  /\ UNCHANGED <<now, guardVars, cluster, registry, sid, checkedFor, iter,
                 tokens, todo, waitOn, canceled, ch, cards, answered, approved, executed>>

(* Mutant: an agent that was stopped leaves its session behind. *)
CleanupUnlessStopped(a) ==
  /\ at[a] = "returned"
  /\ at' = [at EXCEPT ![a] = "ended"]
  /\ registry' = IF a \in canceled THEN registry
                 ELSE [registry EXCEPT ![sid[a]] = NoAgent]
  /\ UNCHANGED <<now, guardVars, cluster, sid, checkedFor, iter, tokens, todo,
                 waitOn, canceled, ch, uiVars, executed>>

(* The deferred delete: whatever the id is registered to by now. *)
Cleanup(a) ==
  /\ at[a] = "returned"
  /\ at' = [at EXCEPT ![a] = "ended"]
  /\ registry' = [registry EXCEPT ![sid[a]] = NoAgent]
  /\ UNCHANGED <<now, guardVars, cluster, sid, checkedFor, iter, tokens, todo,
                 waitOn, canceled, ch, uiVars, executed>>

-----------------------------------------------------------------------------
(* The call is dealt with: on to the next one, or to the next iteration. *)
NextCall(a) ==
  /\ todo' = [todo EXCEPT ![a] = Tail(@)]
  /\ at' = [at EXCEPT ![a] = IF Len(todo[a]) = 1 THEN "thinking" ELSE "checking"]
  /\ UNCHANGED <<sid, checkedFor, iter, tokens>>

(* executeToolCall: the guardrails, with the cluster of the query's start.  *)
(* A call that needs approval puts a card on the screen first.              *)
Check(a) ==
  /\ at[a] = "checking"
  /\ LET call == Head(todo[a]) IN
     \/ /\ CheckToolBlocks(a, call.tool, call.ns, checkedFor[a], tokens[a])
        /\ NextCall(a)
        /\ UNCHANGED cards
     \/ /\ CheckToolPasses(a, call.tool, call.ns, checkedFor[a], tokens[a])
        /\ IF NeedsApproval(call.tool)
           THEN /\ at' = [at EXCEPT ![a] = "asking"]
                /\ cards' = cards \cup
                     {[inv |-> Invocation(a), session |-> sid[a], id |-> CallId(a)]}
           ELSE at' = [at EXCEPT ![a] = "executing"] /\ UNCHANGED cards
        /\ UNCHANGED <<sid, checkedFor, iter, tokens, todo>>
  /\ UNCHANGED <<now, cluster, registry, waitOn, canceled, ch, loading,
                 answered, approved, executed>>

(* RequestApproval looks the session up by its id: it may find none, or a   *)
(* later query's.                                                           *)
RequestApproval(a) ==
  /\ at[a] = "asking"
  /\ IF registry[sid[a]] = NoAgent
     THEN NextCall(a) /\ UNCHANGED waitOn
     ELSE /\ waitOn' = [waitOn EXCEPT ![a] = registry[sid[a]]]
          /\ at' = [at EXCEPT ![a] = "waiting"]
          /\ UNCHANGED <<sid, checkedFor, iter, tokens, todo>>
  /\ UNCHANGED <<now, guardVars, cluster, registry, canceled, ch, uiVars, executed>>

(* Mutant: the message's tool call id is not compared. *)
GrantsAnyId(a, msg) == msg.approve

(* A message for another tool call counts as a rejection. *)
Grants(a, msg) == msg.approve /\ msg.id = CallId(a)

Receive(a) ==
  /\ at[a] = "waiting"
  /\ LET msg == ch[waitOn[a]] IN
     /\ msg # NoMsg
     /\ ch' = [ch EXCEPT ![waitOn[a]] = NoMsg]
     /\ IF Grants(a, msg)
        THEN /\ at' = [at EXCEPT ![a] = "executing"]
             /\ UNCHANGED <<sid, checkedFor, iter, tokens, todo>>
        ELSE NextCall(a)
  /\ waitOn' = [waitOn EXCEPT ![a] = NoAgent]
  /\ UNCHANGED <<now, guardVars, cluster, registry, canceled, uiVars, executed>>

(* Mutant: the wait does not watch the context. *)
AbandonNever(a) == FALSE /\ UNCHANGED vars

(* The session's context is canceled while the agent waits. *)
Abandon(a) ==
  /\ at[a] = "waiting"
  /\ a \in canceled
  /\ NextCall(a)
  /\ waitOn' = [waitOn EXCEPT ![a] = NoAgent]
  /\ UNCHANGED <<now, guardVars, cluster, registry, canceled, ch, uiVars, executed>>

(* The Kubernetes client refuses a canceled context; exec_command runs a    *)
(* local command and does not look at it.                                   *)
Reaches(a, tool) == tool = "exec_command" \/ a \notin canceled

(* ExecuteTool, on the cluster that is active now.  It may fail: no active  *)
(* cluster, read-only mode, a timeout, an error of the API server.  The     *)
(* scale, restart, apply and patch tools only write a message.              *)
Execute(a) ==
  /\ at[a] = "executing"
  /\ LET call == Head(todo[a]) IN
     \/ UNCHANGED executed
     \/ /\ call.tool \in {"delete_resource", "exec_command"}
        /\ Reaches(a, call.tool)
        /\ executed' = executed \cup
             {[inv |-> Invocation(a), call |-> call, on |-> cluster,
               session |-> sid[a], id |-> CallId(a)]}
  /\ NextCall(a)
  /\ UNCHANGED <<now, guardVars, cluster, registry, waitOn, canceled, ch, uiVars>>

-----------------------------------------------------------------------------
(* Approve or Reject on a card: a call to the backend, whose send never     *)
(* blocks and fails when the channel holds a decision already.  The card    *)
(* stays on the screen, its buttons enabled, until the call has returned.   *)
Decide(card, approve) ==
  /\ card \in cards
  /\ LET sess == registry[card.session] IN
     /\ sess # NoAgent
     /\ ch[sess] = NoMsg
     /\ ch' = [ch EXCEPT ![sess] = [id |-> card.id, approve |-> approve]]
  /\ answered' = answered \cup {card}
  /\ approved' = IF approve THEN approved \cup {card} ELSE approved
  /\ UNCHANGED <<now, guardVars, cluster, registry, loopVars, canceled, cards,
                 loading, executed>>

(* The call has returned: every card with that tool call id is replaced. *)
Dismiss(card) ==
  /\ card \in answered
  /\ cards' = {c \in cards : c.id # card.id}
  /\ answered' = answered \ {card}
  /\ UNCHANGED <<now, guardVars, cluster, registry, loopVars, canceled, ch,
                 loading, approved, executed>>

(* The Stop button, while the view is loading.  An id that is not           *)
(* registered is an error the view only logs.                               *)
Stop(s) ==
  /\ loading
  /\ loading' = FALSE
  /\ canceled' = IF s \in Sessions /\ registry[s] # NoAgent
                 THEN canceled \cup {registry[s]} ELSE canceled
  /\ UNCHANGED <<now, guardVars, cluster, registry, loopVars, ch, cards,
                 answered, approved, executed>>

SwitchCluster(x) ==
  /\ cluster' = x
  /\ UNCHANGED <<now, guardVars, registry, loopVars, canceled, ch, uiVars, executed>>

Wait == Tick /\ UNCHANGED <<guardVars, cluster, registry, loopVars, canceled, ch, uiVars, executed>>

Loop(a) ==
  \/ Return(a) \/ Think(a) \/ Check(a) \/ RequestApproval(a)
  \/ Receive(a) \/ Abandon(a) \/ Execute(a) \/ Cleanup(a)

Next ==
  \/ \E a \in Agents : Loop(a) \/ \E s \in Sessions : StartQuery(a, s)
  \/ \E card \in cards \cup answered : Dismiss(card) \/ \E b \in BOOLEAN : Decide(card, b)
  \/ \E s \in StopIds : Stop(s)
  \/ \E x \in Clusters : SwitchCluster(x)
  \/ Wait

Spec == Init /\ [][Next]_vars

(* The goroutine of a started query runs on; the user owes nothing. *)
FairSpec == Spec /\ \A a \in Agents : WF_vars(Loop(a))

-----------------------------------------------------------------------------
(* A call that took effect was approved: the user accepted a card of that   *)
(* session with that tool call id, whatever stale, duplicate or foreign     *)
(* decisions went through the channel before.                               *)
ApprovedById ==
  \A e \in executed : \E c \in approved : c.session = e.session /\ c.id = e.id

(* No destructive call takes effect in a protected namespace it names, or   *)
(* for a query that was started on a production cluster.                    *)
GuardedExecution ==
  \A e \in executed :
    /\ e.call.ns \notin ProtectedNamespaces
    /\ ~AllowProductionDestructive => checkedFor[e.inv.agent] \notin ProductionClusters

(* The registry names only agents whose loop has not ended, each under its  *)
(* own conversation: no decision is accepted for a session that is over.    *)
RegistryHoldsLive ==
  \A s \in Sessions : registry[s] # NoAgent =>
    at[registry[s]] \notin {"unused", "ended"} /\ sid[registry[s]] = s

(* A canceled agent ends, wherever its loop was: waiting for the user,      *)
(* in the middle of a response, or between two.                             *)
StoppedEnds == \A a \in Agents : a \in canceled ~> at[a] = "ended"

(* Every call that took effect was approved on its own card ("tool must be  *)
(* approved before every invocation", internal/ai/tools.go).                *)
ApprovedPerInvocation ==
  \A e \in executed : \E c \in approved : c.inv = e.inv

(* Nothing is deleted on a production cluster: the guardrails are checked   *)
(* for "the currently active cluster" (internal/ai/guardrails.go).          *)
ProductionProtected ==
  ~AllowProductionDestructive =>
    \A e \in executed : e.call.tool = "delete_resource" => e.on \notin ProductionClusters

(* Once the view no longer shows an agent running, no agent is running      *)
(* uncanceled ("so the frontend can stop the agent", app_agent.go).         *)
StopIsHeard ==
  ~loading => \A a \in Agents : at[a] \in {"unused", "returned", "ended"} \/ a \in canceled
=============================================================================
