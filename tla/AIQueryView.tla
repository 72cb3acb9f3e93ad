------------------------------ MODULE AIQueryView ------------------------------
(***************************************************************************)
(* The copilot's view: frontend/src/components/AIQueryView.tsx.  A query   *)
(* is answered by one call (AIQueryWithContext, raced against a timer of   *)
(* 60 seconds) or by the agent, whose end is an event without the query's  *)
(* name.  The view is unmounted when another one is shown: its own state   *)
(* and its listeners go, the calls it made go on.                          *)
(*                                                                         *)
(* The autopilot is left out: its delayed calls look for the reply among   *)
(* the messages of the render the query was sent from, which has no such   *)
(* message, and return.                                                    *)
(***************************************************************************)
EXTENDS AIStore

VARIABLES
  mounted,
  isLoading,     \* the input is disabled
  agentRunning,  \* the stop button is shown
  stopping,      \* a click on it waits for StopAgentSession
  request,       \* what answers each query
  convOf,        \* the conversation each was sent in
  fresh,         \* queries whose conversation was created to send them
  mine,          \* queries sent by this mounting of the view
  executing      \* ExecuteCommand calls, each with the reply it was made from

viewVars == <<mounted, isLoading, agentRunning, stopping, request, convOf, fresh, mine, executing>>
aiVars == <<storeVars, viewVars>>

Requests == {"unused", "standard", "launching", "agent", "ended"}

ViewTypeOK ==
  /\ StoreTypeOK
  /\ {mounted, isLoading, agentRunning, stopping} \subseteq BOOLEAN
  /\ request \in [Queries -> Requests]
  /\ convOf \in [Queries -> Conversations \cup {NoConversation}]
  /\ fresh \subseteq Queries /\ mine \subseteq Queries
  /\ executing \subseteq [query : Queries, index : 1..MaxCommands, from : Replies]

ViewInit ==
  /\ StoreInit
  /\ mounted = FALSE
  /\ isLoading = FALSE /\ agentRunning = FALSE /\ stopping = FALSE
  /\ request = [q \in Queries |-> "unused"]
  /\ convOf = [q \in Queries |-> NoConversation]
  /\ fresh = {} /\ mine = {} /\ executing = {}

-----------------------------------------------------------------------------
Mount ==
  /\ ~mounted
  /\ mounted' = TRUE
  /\ UNCHANGED <<storeVars, isLoading, agentRunning, stopping, request, convOf, fresh, mine, executing>>

(* What the component held goes with it. *)
Unmounted ==
  /\ mounted' = FALSE
  /\ isLoading' = FALSE /\ agentRunning' = FALSE /\ stopping' = FALSE
  /\ mine' = {}

Unmount ==
  /\ mounted
  /\ Unmounted
  /\ UNCHANGED <<storeVars, request, convOf, fresh, executing>>

(* The window is loaded again: nothing waits for the calls any more, but    *)
(* agents go on in the backend and the new page hears their events.         *)
Reload ==
  /\ Rehydrate
  /\ Unmounted
  /\ request' = [q \in Queries |->
                   CASE request[q] \in {"launching", "agent"} -> "agent"
                     [] request[q] = "unused" -> "unused"
                     [] OTHER -> "ended"]
  /\ executing' = {}
  /\ UNCHANGED <<convOf, fresh>>

-----------------------------------------------------------------------------
(* The sidebar. *)
SidebarClick ==
  /\ mounted
  /\ \/ createConversation /\ UNCHANGED <<thread, reply>>
     \/ \E c \in conversations :
          \/ deleteConversation(c)
          \/ activeConversationId' = c /\ UNCHANGED <<conversations, thread, reply>>
  /\ UNCHANGED <<contextQueue, viewVars>>

(* Items come from the other views, while this one is not shown; here they  *)
(* can be taken out.                                                        *)
AddToContext(i) ==
  /\ ~mounted
  /\ addToContext(i)
  /\ UNCHANGED <<conversations, thread, reply, activeConversationId, viewVars>>

ContextPanel ==
  /\ mounted
  /\ contextQueue # {}
  /\ \/ clearContext
     \/ \E i \in contextQueue : removeFromContext(i)
  /\ UNCHANGED <<conversations, thread, reply, activeConversationId, viewVars>>

-----------------------------------------------------------------------------
(* handleSubmit up to its first await. *)
Submit(q, kind) ==
  /\ mounted /\ ~isLoading
  /\ IF activeConversationId = NoConversation
     THEN createConversation /\ fresh' = fresh \cup {q}
     ELSE UNCHANGED <<conversations, activeConversationId, fresh>>
  /\ addMessages(activeConversationId', q)
  /\ convOf' = [convOf EXCEPT ![q] = activeConversationId']
  /\ request' = [request EXCEPT ![q] = kind]
  /\ mine' = mine \cup {q}
  /\ isLoading' = TRUE
  /\ agentRunning' = (agentRunning \/ kind = "launching")
  /\ UNCHANGED <<contextQueue, mounted, stopping, executing>>

handleSubmit ==
  LET unused == {q \in Queries : request[q] = "unused"} IN
  /\ unused # {}
  /\ Submit(Fresh(unused), "standard") \/ Submit(Fresh(unused), "launching")

(* A setIsLoading of a mounting that is gone does nothing. *)
Unlock(q) == isLoading' = (isLoading /\ q \notin mine)

Answered(q, n) ==
  [isLoading |-> FALSE, answer |-> q, commands |-> [i \in 1..n |-> "pending"], commandsOf |-> q]

(* The answer of a standard query goes to its own message, by its ids. *)
QueryAnswered(q) ==
  /\ request[q] = "standard"
  /\ request' = [request EXCEPT ![q] = "ended"]
  /\ \E n \in {0, MaxCommands} : updateMessage(convOf[q], q, Answered(q, n))
  /\ clearContext
  /\ Unlock(q)
  /\ UNCHANGED <<conversations, thread, activeConversationId, mounted, agentRunning, stopping, convOf, fresh, mine, executing>>

(* Mutant: the finally block is lost. *)
QueryFailedLocked(q) ==
  /\ request[q] = "standard"
  /\ request' = [request EXCEPT ![q] = "ended"]
  /\ IF q \in fresh THEN UNCHANGED reply ELSE updateMessage(convOf[q], q, NoReply)
  /\ UNCHANGED <<conversations, thread, activeConversationId, contextQueue, mounted, isLoading, agentRunning, stopping, convOf, fresh, mine, executing>>

(* An error, or the timer.  The handler looks the conversation up in the    *)
(* list of the render it was called from, where one it created is missing.  *)
QueryFailed(q) ==
  /\ request[q] = "standard"
  /\ request' = [request EXCEPT ![q] = "ended"]
  /\ IF q \in fresh THEN UNCHANGED reply ELSE updateMessage(convOf[q], q, NoReply)
  /\ Unlock(q)
  /\ UNCHANGED <<conversations, thread, activeConversationId, contextQueue, mounted, agentRunning, stopping, convOf, fresh, mine, executing>>

-----------------------------------------------------------------------------
(* AIAgentQuery returns as soon as its loop is started. *)
AgentLaunched(q) ==
  /\ request[q] = "launching"
  /\ request' = [request EXCEPT ![q] = "agent"]
  /\ clearContext
  /\ UNCHANGED <<conversations, thread, reply, activeConversationId, mounted, isLoading, agentRunning, stopping, convOf, fresh, mine, executing>>

AgentNotLaunched(q) ==
  /\ request[q] = "launching"
  /\ request' = [request EXCEPT ![q] = "ended"]
  /\ updateMessage(convOf[q], q, NoReply)
  /\ Unlock(q)
  /\ agentRunning' = (agentRunning /\ q \notin mine)
  /\ UNCHANGED <<conversations, thread, activeConversationId, contextQueue, mounted, stopping, convOf, fresh, mine, executing>>

(* The reply that handleComplete takes for the agent's: the last one that   *)
(* loads, in the conversation that is active by then.                       *)
LoadingReplies ==
  {i \in DOMAIN thread[activeConversationId] : reply[thread[activeConversationId][i]].isLoading}

(* Mutant: the last reply, loading or not. *)
CompleteLastReply(q) ==
  IF activeConversationId = NoConversation \/ thread[activeConversationId] = <<>> THEN UNCHANGED reply
  ELSE \E n \in {0, MaxCommands} :
         updateMessage(activeConversationId, Last(thread[activeConversationId]), Answered(q, n))

CompleteReply(q) ==
  IF activeConversationId = NoConversation \/ LoadingReplies = {} THEN UNCHANGED reply
  ELSE \E n \in {0, MaxCommands} :
         updateMessage(activeConversationId, thread[activeConversationId][Max(LoadingReplies)],
                       Answered(q, n))

(* The agent ends: with an answer (ai:agent:complete) or with an error      *)
(* (ai:agent:error), heard only by a view that is mounted, or out of        *)
(* iterations without any event.  Stopping the agent asks for a session the *)
(* backend does not have: it goes on.                                       *)
AgentEnds(q) ==
  /\ request[q] = "agent"
  /\ request' = [request EXCEPT ![q] = "ended"]
  /\ \/ /\ mounted
        /\ CompleteReply(q) \/ UNCHANGED reply
        /\ isLoading' = FALSE /\ agentRunning' = FALSE
     \/ UNCHANGED <<reply, isLoading, agentRunning>>
  /\ UNCHANGED <<conversations, thread, activeConversationId, contextQueue, mounted, stopping, convOf, fresh, mine, executing>>

handleStopAgent ==
  /\ mounted /\ agentRunning /\ ~stopping
  /\ stopping' = TRUE
  /\ UNCHANGED <<storeVars, mounted, isLoading, agentRunning, request, convOf, fresh, mine, executing>>

StopReturns ==
  /\ stopping
  /\ stopping' = FALSE /\ isLoading' = FALSE /\ agentRunning' = FALSE
  /\ UNCHANGED <<storeVars, mounted, request, convOf, fresh, mine, executing>>

(* Mutant: the buttons are not locked. *)
OfferedUnlocked(q, i) ==
  /\ mounted
  /\ activeConversationId # NoConversation /\ Contains(thread[activeConversationId], q)
  /\ i \in DOMAIN reply[q].commands
  /\ reply[q].commands[i] = "pending"

-----------------------------------------------------------------------------
(* A command's buttons work once the one before it is completed or skipped. *)
Offered(q, i) ==
  /\ mounted
  /\ activeConversationId # NoConversation /\ Contains(thread[activeConversationId], q)
  /\ i \in DOMAIN reply[q].commands
  /\ reply[q].commands[i] = "pending"
  /\ i > 1 => reply[q].commands[i - 1] \in {"completed", "rejected"}

(* The handler writes the commands back as they were when it was called,    *)
(* with one status changed: at once, and again when the command returns.    *)
WithStatus(r, i, status) == [r EXCEPT !.commands[i] = status]

handleExecuteCommand(q, i) ==
  /\ Offered(q, i)
  /\ reply' = [reply EXCEPT ![q] = WithStatus(reply[q], i, "running")]
  /\ executing' = executing \cup {[query |-> q, index |-> i, from |-> reply[q]]}
  /\ UNCHANGED <<conversations, thread, activeConversationId, contextQueue, mounted, isLoading, agentRunning, stopping, request, convOf, fresh, mine>>

CommandReturns(x) ==
  /\ executing' = executing \ {x}
  /\ \E status \in {"completed", "error"} :
       updateMessage(convOf[x.query], x.query,
         [reply[x.query] EXCEPT !.commands = WithStatus(x.from, x.index, status).commands,
                                !.commandsOf = x.from.commandsOf])
  /\ UNCHANGED <<conversations, thread, activeConversationId, contextQueue, mounted, isLoading, agentRunning, stopping, request, convOf, fresh, mine>>

handleRejectCommand(q, i) ==
  /\ Offered(q, i)
  /\ reply' = [reply EXCEPT ![q] = WithStatus(reply[q], i, "rejected")]
  /\ UNCHANGED <<conversations, thread, activeConversationId, contextQueue, viewVars>>

-----------------------------------------------------------------------------
Returns(q) == QueryAnswered(q) \/ QueryFailed(q) \/ AgentLaunched(q) \/ AgentNotLaunched(q) \/ AgentEnds(q)

AINext ==
  \/ Mount \/ Unmount \/ Reload
  \/ SidebarClick
  \/ (\E i \in Items : AddToContext(i)) \/ ContextPanel
  \/ handleSubmit \/ handleStopAgent \/ StopReturns
  \/ \E q \in Queries : Returns(q)
  \/ \E q \in Queries, i \in 1..MaxCommands : handleExecuteCommand(q, i) \/ handleRejectCommand(q, i)
  \/ \E x \in executing : CommandReturns(x)

AISpec == ViewInit /\ [][AINext]_aiVars

(* A query returns at the latest when its timer fires, and a stop looks up  *)
(* a session.  An agent need not end: its cards may wait for the user.      *)
AIFairness ==
  /\ \A q \in Queries : WF_aiVars(QueryAnswered(q) \/ QueryFailed(q))
  /\ WF_aiVars(StopReturns)

-----------------------------------------------------------------------------
(* The input is not left disabled without a way out: whatever ends the      *)
(* query, other queries' ends, and views that come and go, it is enabled    *)
(* again or the stop button is shown, and that button enables it.  (An      *)
(* agent that runs out of iterations sends no event: then only the button   *)
(* does.)                                                                   *)
InputReturns ==
  /\ isLoading ~> (~isLoading \/ agentRunning)
  /\ stopping ~> ~isLoading

(* A reply that shows the answer to its own query keeps it, whichever       *)
(* agent ends later and whatever conversation is active then.               *)
AnswersStay ==
  [][\A q \in Queries :
       (reply[q].answer = q /\ Contains(thread'[convOf[q]], q)) => reply'[q].answer = q]_aiVars

(* The state of a command never goes back: a command that was run or        *)
(* skipped is not offered again, although each command that returns writes  *)
(* all of them as they were when it was started.                            *)
Advances(s, t) ==
  \/ s = t
  \/ s = "pending" /\ t \in {"running", "rejected"}
  \/ s = "running" /\ t \in {"completed", "error"}

CommandsAdvance ==
  [][\A q \in Queries :
       reply'[q].commandsOf = reply[q].commandsOf /\ reply[q].commandsOf # NoQuery =>
         \A i \in DOMAIN reply[q].commands : Advances(reply[q].commands[i], reply'[q].commands[i])]_aiVars
=============================================================================
