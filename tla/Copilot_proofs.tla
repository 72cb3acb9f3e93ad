---------------------------- MODULE Copilot_proofs ----------------------------
(***************************************************************************)
(* Proofs about the copilot, for any conversations, queries, commands and  *)
(* providers.  An answer once shown under its own query stays, the states  *)
(* of commands only advance, the settings of the providers fit together,   *)
(* and everything the copilot keeps has its type.                          *)
(***************************************************************************)
EXTENDS MCCopilot, ConfigFile_proofs, Integers, WellFoundedInduction, TLAPS

-----------------------------------------------------------------------------
(* The conversations.  Every message is in the conversation its query was  *)
(* sent in:                                                                *)
Sent ==
  \A q \in Queries, c \in Conversations :
    Contains(thread[c], q) => convOf[q] = c /\ request[q] # "unused"

(* Nothing shows the answer of a query that is not answered, and nothing   *)
(* waits to write its commands:                                            *)
Unanswered ==
  \A q \in Queries : request[q] # "ended" =>
    /\ \A p \in Queries : reply[p].answer # q /\ reply[p].commandsOf # q
    /\ \A x \in executing : x.from.commandsOf # q

(* A message that shows an answer does not load; its commands are run or   *)
(* skipped from the first on:                                              *)
Over == {"completed", "rejected"}
InTurn(r) ==
  /\ r.commandsOf = NoQuery => r.commands = <<>>
  /\ \A i, j \in DOMAIN r.commands : j < i /\ r.commands[i] # "pending" => r.commands[j] \in Over
Settled == \A q \in Queries : InTurn(reply[q]) /\ (reply[q].answer # NoQuery => ~reply[q].isLoading)

(* A command that is run was the next one, and while its answer is shown,  *)
(* the message differs from what it was in this command alone.  Nothing    *)
(* else is run of the same commands:                                       *)
NextIn(r, i) ==
  /\ i \in DOMAIN r.commands /\ r.commands[i] = "pending"
  /\ \A j \in DOMAIN r.commands : j < i => r.commands[j] \in Over
OneAtATime ==
  \A x \in executing :
    /\ InTurn(x.from) /\ NextIn(x.from, x.index)
    /\ reply[x.query].commandsOf = x.from.commandsOf =>
         reply[x.query].commands = [x.from.commands EXCEPT ![x.index] = "running"]
    /\ \A y \in executing :
         x.query = y.query /\ x.from.commandsOf = y.from.commandsOf => x = y

AIInv == ViewTypeOK /\ Sent /\ Unanswered /\ Settled /\ OneAtATime
-----------------------------------------------------------------------------
Commands == UNION {[1..n -> Statuses] : n \in 0..MaxCommands}

LEMMA BlankReplies ==
  /\ NoReply \in Replies /\ LoadingReply \in Replies
  /\ \A r \in {NoReply, LoadingReply} :
       r.answer = NoQuery /\ r.commandsOf = NoQuery /\ r.commands = <<>>
<1>1. <<>> \in Commands
  <2>1. <<>> \in [1..0 -> Statuses] /\ 0 \in 0..MaxCommands
    BY AIStoreAssumption
  <2> QED BY <2>1 DEF Commands
<1>2. Replies = [isLoading : BOOLEAN, answer : Queries \cup {NoQuery}, commands : Commands,
                 commandsOf : Queries \cup {NoQuery}]
  BY DEF Replies, Commands
<1>3. /\ NoReply \in Replies /\ NoReply.answer = NoQuery /\ NoReply.commandsOf = NoQuery
      /\ NoReply.commands = <<>>
  BY <1>1, <1>2 DEF NoReply
<1> HIDE DEF NoReply, Commands
<1>4. /\ LoadingReply \in Replies /\ LoadingReply.answer = NoReply.answer
      /\ LoadingReply.commandsOf = NoReply.commandsOf /\ LoadingReply.commands = NoReply.commands
  BY <1>2, <1>3 DEF LoadingReply
<1> QED BY <1>3, <1>4

(* What one reply becomes: blank, or the answer of a query that ends, with *)
(* commands none of which waits to be written.                             *)
Blank(r) == r.answer = NoQuery /\ r.commandsOf = NoQuery /\ r.commands = <<>>

LEMMA AnsweredReply ==
  ASSUME NEW q \in Queries, NEW n \in {0, MaxCommands}
  PROVE /\ Answered(q, n) \in Replies /\ InTurn(Answered(q, n))
        /\ Answered(q, n).answer = q /\ Answered(q, n).commandsOf = q
        /\ ~Answered(q, n).isLoading
<1>1. n \in 0..MaxCommands /\ q # NoQuery
  BY AIStoreAssumption
<1> DEFINE c == [i \in 1..n |-> "pending"]
<1>2. c \in Commands
  <2>1. c \in [1..n -> Statuses]
    BY DEF Statuses
  <2> QED BY <1>1, <2>1 DEF Commands
<1>3. \A i \in DOMAIN c : c[i] = "pending"
  OBVIOUS
<1> HIDE DEF c
<1>4. Answered(q, n) = [isLoading |-> FALSE, answer |-> q, commands |-> c, commandsOf |-> q]
  BY DEF Answered, c
<1> QED BY <1>1, <1>2, <1>3, <1>4 DEF Commands, Replies, InTurn

(* The sent queries' endings: a query that has not ended had not. *)
Endings == \A q \in Queries : request'[q] # "ended" => request[q] # "ended"

(* The invariant's parts about replies, when no reply changes. *)
RepliesInv == Unanswered /\ Settled /\ OneAtATime

(* What a step may do to the replies. *)
AnswerKept(q) ==
  (reply[q].answer = q /\ Contains(thread'[convOf[q]], q)) => reply'[q].answer = q
CommandsGoOn(q) ==
  (reply'[q].commandsOf = reply[q].commandsOf /\ reply[q].commandsOf # NoQuery) =>
    \A i \in DOMAIN reply[q].commands : Advances(reply[q].commands[i], reply'[q].commands[i])
Kept == \A q \in Queries : AnswerKept(q) /\ CommandsGoOn(q)

LEMMA RepliesStay ==
  ASSUME RepliesInv, Endings, reply' = reply, executing' \subseteq executing
  PROVE RepliesInv' /\ Kept
<1>1. Unanswered' /\ Settled'
  BY DEF RepliesInv, Endings, Unanswered, Settled
<1>2. OneAtATime'
  BY DEF RepliesInv, OneAtATime
<1>3. Kept
  BY DEF Kept, AnswerKept, CommandsGoOn, Advances
<1> QED BY <1>1, <1>2, <1>3 DEF RepliesInv

(* When one reply becomes blank or answered. *)
LEMMA ReplyWritten ==
  ASSUME RepliesInv, Endings, reply \in [Queries -> Replies], executing' = executing,
         executing \subseteq [query : Queries, index : 1..MaxCommands, from : Replies],
         NEW q \in Queries, NEW r \in Replies, reply' = [reply EXCEPT ![q] = r],
         reply[q].answer # q,
         Blank(r) \/ \E p \in Queries : /\ request[p] # "ended" /\ request'[p] = "ended"
                                       /\ r.answer = p /\ r.commandsOf = p
                                       /\ ~r.isLoading /\ InTurn(r)
  PROVE RepliesInv' /\ Kept
<1>1. reply'[q] = r /\ \A p \in Queries : p # q => reply'[p] = reply[p]
  OBVIOUS
<1>2. /\ InTurn(r) /\ (r.answer # NoQuery => ~r.isLoading)
      /\ \A p \in Queries : request'[p] # "ended" => r.answer # p /\ r.commandsOf # p
  <2>1. DOMAIN <<>> = {}
    OBVIOUS
  <2>2. CASE Blank(r)
    BY <2>1, <2>2, AIStoreAssumption DEF Blank, InTurn
  <2>3. CASE ~Blank(r)
    BY <2>3
  <2> QED BY <2>2, <2>3
<1>3. \A x \in executing : x.from.commandsOf # NoQuery
  <2>1. DOMAIN <<>> = {}
    OBVIOUS
  <2> QED BY <2>1 DEF RepliesInv, OneAtATime, InTurn, NextIn
<1>4. \A x \in executing : x.from.commandsOf # r.commandsOf
  <2>1. CASE Blank(r)
    BY <1>3, <2>1 DEF Blank
  <2>2. CASE \E p \in Queries : request[p] # "ended" /\ r.commandsOf = p
    BY <2>2 DEF RepliesInv, Unanswered
  <2> QED BY <2>1, <2>2
<1>5. Unanswered'
  BY <1>1, <1>2 DEF RepliesInv, Endings, Unanswered
<1>6. Settled'
  BY <1>1, <1>2 DEF RepliesInv, Settled
<1>7. OneAtATime'
  <2> SUFFICES ASSUME NEW x \in executing
               PROVE reply'[x.query].commandsOf = x.from.commandsOf =>
                       reply'[x.query].commands = [x.from.commands EXCEPT ![x.index] = "running"]
    BY DEF RepliesInv, OneAtATime
  <2>1. x.query \in Queries
    OBVIOUS
  <2>2. CASE x.query = q
    BY <1>1, <1>4, <2>2
  <2>3. CASE x.query # q
    BY <1>1, <2>1, <2>3 DEF RepliesInv, OneAtATime
  <2> QED BY <2>2, <2>3
<1>8. Kept
  <2> SUFFICES ASSUME NEW p \in Queries PROVE AnswerKept(p) /\ CommandsGoOn(p)
    BY DEF Kept
  <2>1. CASE p # q
    BY <1>1, <2>1 DEF AnswerKept, CommandsGoOn, Advances
  <2>2. CASE p = q
    <3>1. r.commandsOf = NoQuery \/ r.commandsOf # reply[q].commandsOf
      BY DEF Blank, RepliesInv, Unanswered
    <3> QED BY <1>1, <2>2, <3>1 DEF AnswerKept, CommandsGoOn
  <2> QED BY <2>1, <2>2
<1> QED BY <1>5, <1>6, <1>7, <1>8 DEF RepliesInv

(* The same for a message that is written only if it is still there. *)
LEMMA MessageUpdated ==
  ASSUME AIInv, Endings, executing' = executing, NEW c, NEW q \in Queries, NEW r \in Replies,
         updateMessage(c, q, r), reply[q].answer # q,
         Blank(r) \/ \E p \in Queries : /\ request[p] # "ended" /\ request'[p] = "ended"
                                       /\ r.answer = p /\ r.commandsOf = p
                                       /\ ~r.isLoading /\ InTurn(r)
  PROVE RepliesInv' /\ Kept /\ reply' \in [Queries -> Replies]
<1>1. /\ RepliesInv /\ reply \in [Queries -> Replies]
      /\ executing \subseteq [query : Queries, index : 1..MaxCommands, from : Replies]
  BY DEF AIInv, RepliesInv, ViewTypeOK, StoreTypeOK
<1>2. CASE Contains(thread[c], q)
  <2>1. reply' = [reply EXCEPT ![q] = r]
    BY <1>2 DEF updateMessage
  <2>2. RepliesInv' /\ Kept
    BY <1>1, <2>1, ReplyWritten
  <2> QED BY <1>1, <2>1, <2>2
<1>3. CASE ~Contains(thread[c], q)
  <2>1. reply' = reply
    BY <1>3 DEF updateMessage
  <2> QED BY <1>1, <2>1, RepliesStay
<1> QED BY <1>2, <1>3

(* What every step that sends and deletes nothing leaves as it is. *)
Threads == <<conversations, thread, activeConversationId, convOf, fresh>>

LEMMA ThreadsStay ==
  ASSUME AIInv, UNCHANGED Threads, RepliesInv', reply' \in [Queries -> Replies],
         request' \in [Queries -> Requests],
         \A q \in Queries : request[q] # "unused" => request'[q] # "unused",
         contextQueue' \subseteq Items, mine' \subseteq Queries,
         {mounted', isLoading', agentRunning', stopping'} \subseteq BOOLEAN,
         executing' \subseteq [query : Queries, index : 1..MaxCommands, from : Replies]
  PROVE AIInv'
<1>1. ViewTypeOK'
  BY DEF AIInv, Threads, ViewTypeOK, StoreTypeOK
<1>2. Sent'
  BY DEF AIInv, Threads, Sent
<1> QED BY <1>1, <1>2 DEF RepliesInv, AIInv
-----------------------------------------------------------------------------
(* The steps that change no reply. *)
LEMMA ViewKeepsAI ==
  ASSUME AIInv, Mount \/ Unmount \/ Reload \/ ContextPanel \/ handleStopAgent \/ StopReturns
                \/ (\E i \in Items : AddToContext(i))
                \/ (\E q \in Queries : AgentLaunched(q)) \/ UNCHANGED aiVars
  PROVE AIInv' /\ Kept
<1>1. /\ reply' = reply /\ thread' = thread /\ convOf' = convOf /\ fresh' = fresh
      /\ conversations' = conversations /\ executing' \subseteq executing
      /\ activeConversationId' \in {activeConversationId, NoConversation}
  BY DEF Mount, Unmount, Unmounted, Reload, Rehydrate, ContextPanel, handleStopAgent, StopReturns,
     AddToContext, addToContext, AgentLaunched, clearContext, removeFromContext, aiVars, storeVars,
     viewVars
<1>2. contextQueue' \subseteq Items
  BY DEF Mount, Unmount, Reload, Rehydrate, ContextPanel, handleStopAgent, StopReturns,
     AddToContext, addToContext, AgentLaunched, clearContext, removeFromContext, aiVars, storeVars,
     viewVars, AIInv, ViewTypeOK, StoreTypeOK
<1>3. {mounted', isLoading', agentRunning', stopping'} \subseteq BOOLEAN /\ mine' \subseteq Queries
  BY DEF Mount, Unmount, Unmounted, Reload, ContextPanel, handleStopAgent, StopReturns,
     AddToContext, AgentLaunched, aiVars, viewVars, AIInv, ViewTypeOK
<1>4. /\ request' \in [Queries -> Requests] /\ Endings
      /\ \A q \in Queries : request[q] # "unused" => request'[q] # "unused"
  <2>1. request \in [Queries -> Requests]
    BY DEF AIInv, ViewTypeOK
  <2>2. CASE request' = request
    BY <2>1, <2>2 DEF Endings
  <2>3. CASE Reload
    BY <2>1, <2>3 DEF Reload, Requests, Endings
  <2>4. ASSUME NEW q \in Queries, AgentLaunched(q)
        PROVE /\ request' \in [Queries -> Requests] /\ Endings
              /\ \A p \in Queries : request[p] # "unused" => request'[p] # "unused"
    BY <2>1, <2>4 DEF AgentLaunched, Requests, Endings
  <2>5. request' = request \/ Reload \/ \E q \in Queries : AgentLaunched(q)
    BY DEF Mount, Unmount, ContextPanel, handleStopAgent, StopReturns, AddToContext, aiVars, viewVars
  <2> QED BY <2>2, <2>3, <2>4, <2>5
<1>5. RepliesInv' /\ Kept
  BY <1>1, <1>4, RepliesStay DEF AIInv, RepliesInv
<1>6. ViewTypeOK'
  BY <1>1, <1>2, <1>3, <1>4 DEF AIInv, ViewTypeOK, StoreTypeOK
<1>7. Sent'
  BY <1>1, <1>4 DEF AIInv, Sent
<1> QED BY <1>5, <1>6, <1>7 DEF AIInv, RepliesInv

(* The sidebar: a message that goes with its conversation is shown no more. *)
LEMMA DeleteKeepsAI ==
  ASSUME AIInv, NEW c \in conversations, deleteConversation(c), UNCHANGED <<contextQueue, viewVars>>
  PROVE AIInv' /\ Kept
<1>1. /\ conversations' = conversations \ {c}
      /\ thread' = [thread EXCEPT ![c] = <<>>]
      /\ reply' = [q \in Queries |-> IF Contains(thread[c], q) THEN NoReply ELSE reply[q]]
      /\ activeConversationId' =
           IF activeConversationId = c THEN NoConversation ELSE activeConversationId
      /\ UNCHANGED <<contextQueue, mounted, isLoading, agentRunning, stopping, request, convOf,
                     fresh, mine, executing>>
  BY DEF deleteConversation, viewVars
<1>2. c \in Conversations /\ thread \in [Conversations -> Seq(Queries)]
  BY DEF AIInv, ViewTypeOK, StoreTypeOK
<1>3. thread'[c] = <<>> /\ \A d \in Conversations : d # c => thread'[d] = thread[d]
  BY <1>1, <1>2
<1>4. \A q : ~Contains(thread'[c], q)
  BY <1>3 DEF Contains
<1>5. \A q \in Queries : reply'[q] = reply[q] \/ (reply'[q] = NoReply /\ Contains(thread[c], q))
  BY <1>1
<1>6. Blank(NoReply) /\ NoReply \in Replies /\ NoReply.isLoading = FALSE /\ InTurn(NoReply)
  <2>1. DOMAIN <<>> = {}
    OBVIOUS
  <2> QED BY <2>1, BlankReplies DEF Blank, NoReply, InTurn
<1>7. ViewTypeOK'
  <2>1. thread' \in [Conversations -> Seq(Queries)]
    BY <1>1, <1>2
  <2>2. reply' \in [Queries -> Replies]
    BY <1>1, <1>6 DEF AIInv, ViewTypeOK, StoreTypeOK
  <2> QED BY <1>1, <2>1, <2>2 DEF AIInv, ViewTypeOK, StoreTypeOK
<1>8. Sent'
  BY <1>1, <1>3, <1>4 DEF AIInv, Sent
<1>9. Unanswered'
  <2>1. \A q \in Queries : q # NoQuery
    BY AIStoreAssumption
  <2> QED BY <1>1, <1>5, <1>6, <2>1 DEF AIInv, Unanswered, Blank
<1>10. Settled'
  BY <1>1, <1>5, <1>6 DEF AIInv, Settled, Blank
<1>11. OneAtATime'
  <2>1. \A x \in executing : x.query \in Queries /\ x.from.commandsOf # NoQuery
    <3>1. DOMAIN <<>> = {}
      OBVIOUS
    <3> QED BY <3>1 DEF AIInv, ViewTypeOK, OneAtATime, InTurn, NextIn
  <2>2. \A x \in executing : reply'[x.query].commandsOf = x.from.commandsOf
                               => reply'[x.query] = reply[x.query]
    BY <1>5, <1>6, <2>1 DEF Blank
  <2> QED BY <1>1, <2>2 DEF AIInv, OneAtATime
<1>12. ASSUME NEW q \in Queries PROVE AnswerKept(q) /\ CommandsGoOn(q)
  <2>1. CASE reply'[q] = reply[q]
    BY <2>1 DEF AnswerKept, CommandsGoOn, Advances
  <2>2. CASE reply'[q] = NoReply /\ Contains(thread[c], q)
    BY <1>2, <1>4, <1>6, <2>2 DEF AIInv, Sent, AnswerKept, CommandsGoOn, Blank
  <2> QED BY <1>5, <2>1, <2>2
<1> QED BY <1>7, <1>8, <1>9, <1>10, <1>11, <1>12 DEF AIInv, Kept

LEMMA ConversationCreated ==
  ASSUME AIInv, createConversation
  PROVE /\ conversations \subseteq conversations' /\ conversations' \subseteq Conversations
        /\ activeConversationId' \in conversations'
<1> DEFINE unused == Conversations \ conversations
<1>1. conversations \subseteq Conversations /\ conversations # Conversations
  BY DEF AIInv, ViewTypeOK, StoreTypeOK, createConversation
<1>2. \E x \in unused : TRUE
  BY <1>1
<1>3. Fresh(unused) \in unused
  BY <1>2 DEF Fresh
<1>4. conversations' = conversations \cup {Fresh(unused)} /\ activeConversationId' = Fresh(unused)
  BY DEF createConversation
<1> QED BY <1>1, <1>3, <1>4

LEMMA SidebarKeepsAI ==
  ASSUME AIInv, SidebarClick
  PROVE AIInv' /\ Kept
<1>1. CASE \E c \in conversations : deleteConversation(c) /\ UNCHANGED <<contextQueue, viewVars>>
  BY <1>1, DeleteKeepsAI
<1>2. CASE UNCHANGED <<thread, reply, contextQueue, viewVars>>
           /\ conversations \subseteq conversations' /\ conversations' \subseteq Conversations
           /\ activeConversationId' \in conversations' \cup {NoConversation}
  <2>1. UNCHANGED <<thread, reply, contextQueue, mounted, isLoading, agentRunning, stopping,
                    request, convOf, fresh, mine, executing>>
    BY <1>2 DEF viewVars
  <2>2. RepliesInv' /\ Kept
    BY <2>1, RepliesStay DEF AIInv, RepliesInv, Endings
  <2>3. ViewTypeOK'
    BY <1>2, <2>1 DEF AIInv, ViewTypeOK, StoreTypeOK
  <2>4. Sent'
    BY <2>1 DEF AIInv, Sent
  <2> QED BY <2>2, <2>3, <2>4 DEF AIInv, RepliesInv
<1>3. ASSUME createConversation
      PROVE /\ conversations \subseteq conversations' /\ conversations' \subseteq Conversations
            /\ activeConversationId' \in conversations'
  BY <1>3, ConversationCreated
<1>4. ASSUME NEW c \in conversations, activeConversationId' = c, UNCHANGED conversations
      PROVE /\ conversations \subseteq conversations' /\ conversations' \subseteq Conversations
            /\ activeConversationId' \in conversations'
  BY <1>4 DEF AIInv, ViewTypeOK, StoreTypeOK
<1> QED BY <1>1, <1>2, <1>3, <1>4 DEF SidebarClick
-----------------------------------------------------------------------------
(* A query is sent. *)
LEMMA SubmitKeepsAI ==
  ASSUME AIInv, handleSubmit
  PROVE AIInv' /\ Kept
<1>1. PICK q \in Queries, kind \in {"standard", "launching"} : request[q] = "unused" /\ Submit(q, kind)
  <2> DEFINE unused == {q \in Queries : request[q] = "unused"}
  <2>1. \E x \in unused : TRUE
    BY DEF handleSubmit
  <2>2. Fresh(unused) \in unused
    BY <2>1 DEF Fresh
  <2> QED BY <2>2 DEF handleSubmit
<1> DEFINE c == activeConversationId'
<1>2. /\ thread' = [thread EXCEPT ![c] = Append(@, q)]
      /\ reply' = [reply EXCEPT ![q] = LoadingReply]
      /\ convOf' = [convOf EXCEPT ![q] = c]
      /\ request' = [request EXCEPT ![q] = kind]
      /\ mine' = mine \cup {q} /\ isLoading' = TRUE
      /\ agentRunning' = (agentRunning \/ kind = "launching")
      /\ UNCHANGED <<contextQueue, mounted, stopping, executing>>
  BY <1>1 DEF Submit, addMessages
<1>3. /\ conversations' \subseteq Conversations /\ c \in conversations'
      /\ fresh' \subseteq Queries
  <2>1. CASE activeConversationId = NoConversation
    <3>1. createConversation /\ fresh' = fresh \cup {q}
      BY <1>1, <2>1 DEF Submit
    <3> QED BY <3>1, ConversationCreated DEF AIInv, ViewTypeOK
  <2>2. CASE activeConversationId # NoConversation
    <3>1. UNCHANGED <<conversations, activeConversationId, fresh>>
      BY <1>1, <2>2 DEF Submit
    <3> QED BY <2>2, <3>1 DEF AIInv, ViewTypeOK, StoreTypeOK
  <2> QED BY <2>1, <2>2
<1> HIDE DEF c
<1>4. /\ thread \in [Conversations -> Seq(Queries)] /\ c \in Conversations
      /\ request \in [Queries -> Requests] /\ reply \in [Queries -> Replies]
      /\ convOf \in [Queries -> Conversations \cup {NoConversation}]
  BY <1>3 DEF AIInv, ViewTypeOK, StoreTypeOK
<1>5. RepliesInv' /\ Kept
  <2>1. Endings /\ reply[q].answer # q
    BY <1>1, <1>2, <1>4 DEF Endings, AIInv, Unanswered
  <2>2. executing \subseteq [query : Queries, index : 1..MaxCommands, from : Replies]
    BY DEF AIInv, ViewTypeOK
  <2>3. LoadingReply \in Replies /\ Blank(LoadingReply)
    BY BlankReplies DEF Blank
  <2> QED BY <1>1, <1>2, <1>4, <2>1, <2>2, <2>3, ReplyWritten DEF AIInv, RepliesInv
<1>6. ViewTypeOK'
  <2>1. thread' \in [Conversations -> Seq(Queries)]
    BY <1>2, <1>4
  <2>2. reply' \in [Queries -> Replies] /\ request' \in [Queries -> Requests]
        /\ convOf' \in [Queries -> Conversations \cup {NoConversation}]
    BY <1>2, <1>4, BlankReplies DEF Requests
  <2>3. StoreTypeOK'
    BY <1>2, <1>3, <2>1, <2>2 DEF AIInv, ViewTypeOK, StoreTypeOK, c
  <2> QED BY <1>2, <1>3, <2>2, <2>3 DEF AIInv, ViewTypeOK
<1>7. Sent'
  <2> SUFFICES ASSUME NEW p \in Queries, NEW d \in Conversations, Contains(thread'[d], p)
               PROVE convOf'[p] = d /\ request'[p] # "unused"
    BY DEF Sent
  <2>1. Contains(thread[d], p) \/ (d = c /\ p = q)
    <3>1. CASE d = c
      <4>1. thread'[d] = Append(thread[d], q) /\ thread[d] \in Seq(Queries)
        BY <1>2, <1>4, <3>1
      <4>2. PICK i \in 1..Len(thread'[d]) : thread'[d][i] = p
        BY DEF Contains
      <4>3. (i \in 1..Len(thread[d]) /\ thread[d][i] = p) \/ p = q
        BY <4>1, <4>2
      <4> QED BY <3>1, <4>3 DEF Contains
    <3>2. CASE d # c
      BY <1>2, <1>4, <3>2
    <3> QED BY <3>1, <3>2
  <2>2. CASE p = q
    <3>1. ~Contains(thread[d], q)
      BY <1>1 DEF AIInv, Sent
    <3> QED BY <1>1, <1>2, <1>4, <2>1, <2>2, <3>1
  <2>3. CASE p # q
    BY <1>2, <1>4, <2>1, <2>3 DEF AIInv, Sent
  <2> QED BY <2>2, <2>3
<1> QED BY <1>5, <1>6, <1>7 DEF AIInv, RepliesInv

(* A query's own call returns. *)
LEMMA QueryKeepsAI ==
  ASSUME AIInv, NEW q \in Queries, QueryAnswered(q) \/ QueryFailed(q) \/ AgentNotLaunched(q)
  PROVE AIInv' /\ Kept
<1>1. /\ request[q] \in {"standard", "launching"}
      /\ request' = [request EXCEPT ![q] = "ended"]
      /\ contextQueue' \in {{}, contextQueue}
      /\ isLoading' = (isLoading /\ q \notin mine)
      /\ agentRunning' \in {agentRunning, agentRunning /\ q \notin mine}
      /\ UNCHANGED <<conversations, thread, activeConversationId, mounted, stopping, convOf, fresh,
                     mine, executing>>
  BY DEF QueryAnswered, QueryFailed, AgentNotLaunched, clearContext, Unlock
<1>2. \/ reply' = reply
      \/ updateMessage(convOf[q], q, NoReply)
      \/ \E n \in {0, MaxCommands} : updateMessage(convOf[q], q, Answered(q, n))
  BY DEF QueryAnswered, QueryFailed, AgentNotLaunched
<1>3. /\ request \in [Queries -> Requests] /\ {isLoading, agentRunning} \subseteq BOOLEAN
      /\ reply \in [Queries -> Replies]
      /\ executing \subseteq [query : Queries, index : 1..MaxCommands, from : Replies]
  BY DEF AIInv, ViewTypeOK, StoreTypeOK
<1>4. Endings /\ request'[q] = "ended" /\ reply[q].answer # q
  BY <1>1, <1>3 DEF Endings, AIInv, Unanswered
<1>5. RepliesInv' /\ Kept /\ reply' \in [Queries -> Replies]
  <2>1. CASE reply' = reply
    BY <1>1, <1>3, <1>4, <2>1, RepliesStay DEF AIInv, RepliesInv
  <2>2. CASE updateMessage(convOf[q], q, NoReply)
    <3>1. NoReply \in Replies /\ Blank(NoReply)
      BY BlankReplies DEF Blank
    <3> QED BY <1>1, <1>4, <2>2, <3>1, MessageUpdated
  <2>3. ASSUME NEW n \in {0, MaxCommands}, updateMessage(convOf[q], q, Answered(q, n))
        PROVE RepliesInv' /\ Kept /\ reply' \in [Queries -> Replies]
    <3>1. request[q] # "ended"
      BY <1>1
    <3> QED BY <1>1, <1>4, <2>3, <3>1, AnsweredReply, MessageUpdated
  <2> QED BY <1>2, <2>1, <2>2, <2>3
<1>6. /\ contextQueue' \subseteq Items /\ mine' \subseteq Queries
      /\ {mounted', isLoading', agentRunning', stopping'} \subseteq BOOLEAN
  BY <1>1 DEF AIInv, ViewTypeOK, StoreTypeOK
<1>7. /\ request' \in [Queries -> Requests]
      /\ \A p \in Queries : request[p] # "unused" => request'[p] # "unused"
  BY <1>1, <1>3 DEF Requests
<1>8. UNCHANGED Threads
  BY <1>1 DEF Threads
<1> QED BY <1>1, <1>3, <1>5, <1>6, <1>7, <1>8, ThreadsStay
-----------------------------------------------------------------------------
(* The agent ends: the reply it writes to is one that loads, if any does. *)
LEMMA LargestPlace ==
  ASSUME NEW n \in Nat, NEW S \in SUBSET (1..n), S # {}
  PROVE Max(S) \in S
<1> DEFINE T == {n - i : i \in S}
<1>1. T \subseteq Nat /\ T # {}
  <2>1. \A i \in S : n - i \in Nat
    OBVIOUS
  <2>2. PICK i \in S : TRUE
    OBVIOUS
  <2>3. n - i \in T
    BY <2>2
  <2> QED BY <2>1, <2>3
<1>2. IsWellFoundedOn(OpToRel(<, Nat), Nat)
  BY NatLessThanWellFounded, Zenon
<1> HIDE DEF T
<1>3. PICK x \in T : \A y \in T : ~(<<y, x>> \in OpToRel(<, Nat))
  BY <1>1, <1>2, WFMin, Zenon
<1>4. ASSUME NEW y \in T PROVE x <= y
  <2>1. y \in Nat /\ x \in Nat
    BY <1>1
  <2>2. <<y, x>> \in Nat \X Nat /\ <<y, x>>[1] = y /\ <<y, x>>[2] = x
    BY <2>1
  <2>3. ~(y < x)
    BY <1>3, <2>2, Zenon DEF OpToRel
  <2> QED BY <2>1, <2>3
<1>5. PICK i \in S : x = n - i
  BY DEF T
<1>6. \A j \in S : i >= j
  BY <1>4, <1>5 DEF T
<1> QED BY <1>5, <1>6 DEF Max

LEMMA AgentEndKeepsAI ==
  ASSUME AIInv, NEW q \in Queries, AgentEnds(q)
  PROVE AIInv' /\ Kept
<1>1. /\ request[q] = "agent" /\ request' = [request EXCEPT ![q] = "ended"]
      /\ isLoading' \in {FALSE, isLoading} /\ agentRunning' \in {FALSE, agentRunning}
      /\ UNCHANGED <<conversations, thread, activeConversationId, contextQueue, mounted, stopping,
                     convOf, fresh, mine, executing>>
      /\ CompleteReply(q) \/ reply' = reply
  BY DEF AgentEnds
<1>2. /\ request \in [Queries -> Requests]
      /\ reply \in [Queries -> Replies]
      /\ thread \in [Conversations -> Seq(Queries)]
      /\ activeConversationId \in Conversations \cup {NoConversation}
      /\ executing \subseteq [query : Queries, index : 1..MaxCommands, from : Replies]
  BY DEF AIInv, ViewTypeOK, StoreTypeOK
<1>3. Endings /\ request'[q] = "ended"
  BY <1>1, <1>2 DEF Endings
<1>4. RepliesInv' /\ Kept /\ reply' \in [Queries -> Replies]
  <2>1. CASE reply' = reply
    BY <1>1, <1>2, <1>3, <2>1, RepliesStay DEF AIInv, RepliesInv
  <2>2. CASE CompleteReply(q) /\ reply' # reply
    <3> DEFINE shown == thread[activeConversationId]
               p == shown[Max(LoadingReplies)]
    <3>1. /\ activeConversationId # NoConversation /\ LoadingReplies # {}
          /\ \E n \in {0, MaxCommands} : updateMessage(activeConversationId, p, Answered(q, n))
      BY <2>2 DEF CompleteReply
    <3>2. shown \in Seq(Queries) /\ LoadingReplies \in SUBSET (1..Len(shown)) /\ Len(shown) \in Nat
      BY <1>2, <3>1 DEF LoadingReplies
    <3>3. Max(LoadingReplies) \in LoadingReplies
      BY <3>1, <3>2, LargestPlace
    <3>4. p \in Queries /\ reply[p].isLoading
      <4>1. \A i \in LoadingReplies : reply[shown[i]].isLoading
        BY DEF LoadingReplies
      <4> DEFINE i == Max(LoadingReplies)
      <4>2. i \in LoadingReplies /\ i \in 1..Len(shown)
        BY <3>2, <3>3
      <4> HIDE DEF i, shown
      <4>3. shown[i] \in Queries
        BY <3>2, <4>2
      <4> QED BY <4>1, <4>2, <4>3 DEF i, p
    <3> HIDE DEF p
    <3>5. reply[p].answer # p
      BY <3>4, AIStoreAssumption DEF AIInv, Settled
    <3>6. PICK n \in {0, MaxCommands} : updateMessage(activeConversationId, p, Answered(q, n))
      BY <3>1
    <3>7. request[q] # "ended"
      BY <1>1
    <3> QED BY <1>1, <1>3, <3>4, <3>5, <3>6, <3>7, AnsweredReply, MessageUpdated
  <2> QED BY <1>1, <2>1, <2>2
<1>5. /\ contextQueue' \subseteq Items /\ mine' \subseteq Queries
      /\ {mounted', isLoading', agentRunning', stopping'} \subseteq BOOLEAN
  BY <1>1 DEF AIInv, ViewTypeOK, StoreTypeOK
<1>6. /\ request' \in [Queries -> Requests]
      /\ \A r \in Queries : request[r] # "unused" => request'[r] # "unused"
  BY <1>1, <1>2 DEF Requests
<1>7. UNCHANGED Threads
  BY <1>1 DEF Threads
<1> QED BY <1>1, <1>2, <1>4, <1>5, <1>6, <1>7, ThreadsStay

-----------------------------------------------------------------------------
(* One command's status in a reply. *)
LEMMA StatusWritten ==
  ASSUME NEW r \in Replies, NEW i \in DOMAIN r.commands, NEW status \in Statuses
  PROVE /\ WithStatus(r, i, status) \in Replies
        /\ WithStatus(r, i, status).commands = [r.commands EXCEPT ![i] = status]
        /\ WithStatus(r, i, status).answer = r.answer
        /\ WithStatus(r, i, status).isLoading = r.isLoading
        /\ WithStatus(r, i, status).commandsOf = r.commandsOf
<1>1. Replies = [isLoading : BOOLEAN, answer : Queries \cup {NoQuery}, commands : Commands,
                 commandsOf : Queries \cup {NoQuery}]
  BY DEF Replies, Commands
<1>2. r.commands \in Commands
  BY <1>1
<1> DEFINE c == [r.commands EXCEPT ![i] = status]
<1>3. c \in Commands
  <2>1. PICK n \in 0..MaxCommands : r.commands \in [1..n -> Statuses]
    BY <1>2 DEF Commands
  <2>2. c \in [1..n -> Statuses]
    BY <2>1
  <2> QED BY <2>1, <2>2 DEF Commands
<1>4. WithStatus(r, i, status) = [r EXCEPT !.commands = c]
  BY <1>1 DEF WithStatus
<1> HIDE DEF c
<1>5. /\ [r EXCEPT !.commands = c] \in Replies
      /\ [r EXCEPT !.commands = c].commands = c
      /\ [r EXCEPT !.commands = c].answer = r.answer
      /\ [r EXCEPT !.commands = c].isLoading = r.isLoading
      /\ [r EXCEPT !.commands = c].commandsOf = r.commandsOf
  BY <1>1, <1>3
<1> QED BY <1>4, <1>5 DEF c
LEMMA StatusInTurn ==
  ASSUME NEW r \in Replies, InTurn(r), NEW i, NextIn(r, i), NEW status \in Statuses,
         NEW s, s.commands = [r.commands EXCEPT ![i] = status], s.commandsOf = r.commandsOf
  PROVE InTurn(s)
<1>1. DOMAIN s.commands = DOMAIN r.commands /\ s.commands[i] = status
      /\ \A j \in DOMAIN r.commands : j # i => s.commands[j] = r.commands[j]
  BY DEF NextIn
<1>2. s.commandsOf # NoQuery
  <2>1. DOMAIN <<>> = {}
    OBVIOUS
  <2> QED BY <2>1 DEF InTurn, NextIn
<1>3. DOMAIN r.commands \subseteq Nat
  BY DEF Replies
<1>4. ASSUME NEW k \in DOMAIN r.commands, NEW j \in DOMAIN r.commands, j < k,
             s.commands[k] # "pending"
      PROVE s.commands[j] \in Over
  <2>1. CASE k = i
    <3>1. j # i /\ r.commands[j] \in Over
      BY <1>3, <1>4, <2>1 DEF NextIn
    <3> QED BY <1>1, <3>1
  <2>2. CASE k # i
    <3>1. r.commands[j] \in Over
      BY <1>1, <1>4, <2>2 DEF InTurn
    <3>2. j # i
      BY <3>1 DEF NextIn, Over
    <3> QED BY <1>1, <3>1, <3>2
  <2> QED BY <2>1, <2>2
<1> QED BY <1>1, <1>2, <1>4 DEF InTurn

(* A button works for the next command only, and not while one is run. *)
LEMMA OfferedIsNext ==
  ASSUME AIInv, NEW q \in Queries, NEW i \in 1..MaxCommands, Offered(q, i)
  PROVE /\ NextIn(reply[q], i) /\ reply[q] \in Replies
        /\ \A x \in executing : ~(x.query = q /\ x.from.commandsOf = reply[q].commandsOf)
<1>1. reply[q] \in Replies /\ InTurn(reply[q])
  BY DEF AIInv, ViewTypeOK, StoreTypeOK, Settled
<1>2. DOMAIN reply[q].commands \subseteq Nat
      /\ \A k \in DOMAIN reply[q].commands : k = 1 \/ (k > 1 /\ k - 1 \in DOMAIN reply[q].commands)
  BY <1>1 DEF Replies
<1>3. /\ i \in DOMAIN reply[q].commands /\ reply[q].commands[i] = "pending"
      /\ i > 1 => reply[q].commands[i - 1] \in Over
  BY DEF Offered, Over
<1>4. NextIn(reply[q], i)
  <2> SUFFICES ASSUME NEW j \in DOMAIN reply[q].commands, j < i PROVE reply[q].commands[j] \in Over
    BY <1>3 DEF NextIn
  <2>1. i > 1 /\ i - 1 \in DOMAIN reply[q].commands /\ (j = i - 1 \/ j < i - 1)
    BY <1>2, <1>3
  <2>2. reply[q].commands[i - 1] \in Over /\ reply[q].commands[i - 1] # "pending"
    BY <1>3, <2>1 DEF Over
  <2> QED BY <1>1, <2>1, <2>2 DEF InTurn
<1>5. ASSUME NEW x \in executing, x.query = q, x.from.commandsOf = reply[q].commandsOf
      PROVE FALSE
  <2>1. /\ reply[q].commands = [x.from.commands EXCEPT ![x.index] = "running"]
        /\ NextIn(x.from, x.index)
    BY <1>5 DEF AIInv, OneAtATime
  <2>2. /\ x.index \in DOMAIN reply[q].commands /\ reply[q].commands[x.index] = "running"
        /\ \A j \in DOMAIN reply[q].commands : j < x.index => reply[q].commands[j] \in Over
    <3>1. DOMAIN reply[q].commands = DOMAIN x.from.commands /\ x.index \in DOMAIN x.from.commands
      BY <2>1 DEF NextIn
    <3>2. x.index \in Nat
      BY <1>2, <3>1
    <3> QED BY <1>2, <2>1, <3>1, <3>2 DEF NextIn
  <2>3. x.index \in Nat /\ i \in Nat /\ "running" \notin Over /\ "pending" \notin Over
    BY <1>2, <2>2 DEF Over
  <2>4. i # x.index /\ ~(i < x.index) /\ ~(x.index < i)
    BY <1>3, <1>4, <2>2, <2>3 DEF NextIn
  <2> QED BY <2>3, <2>4
<1> QED BY <1>1, <1>4, <1>5

(* A command is run or skipped. *)
LEMMA CommandKeepsAI ==
  ASSUME AIInv, NEW q \in Queries, NEW i \in 1..MaxCommands,
         handleExecuteCommand(q, i) \/ handleRejectCommand(q, i)
  PROVE AIInv' /\ Kept
<1> DEFINE x == [query |-> q, index |-> i, from |-> reply[q]]
<1>1. /\ Offered(q, i)
      /\ UNCHANGED <<conversations, thread, activeConversationId, contextQueue, mounted, isLoading,
                     agentRunning, stopping, request, convOf, fresh, mine>>
  BY DEF handleExecuteCommand, handleRejectCommand, viewVars
<1>2. PICK status \in {"running", "rejected"} :
        /\ reply' = [reply EXCEPT ![q] = WithStatus(reply[q], i, status)]
        /\ executing' = (IF status = "running" THEN executing \cup {x} ELSE executing)
  BY DEF handleExecuteCommand, handleRejectCommand, viewVars
<1>3. /\ NextIn(reply[q], i) /\ reply[q] \in Replies /\ InTurn(reply[q])
      /\ \A y \in executing : ~(y.query = q /\ y.from.commandsOf = reply[q].commandsOf)
  BY <1>1, OfferedIsNext DEF AIInv, Settled
<1>4. /\ reply \in [Queries -> Replies]
      /\ executing \subseteq [query : Queries, index : 1..MaxCommands, from : Replies]
  BY DEF AIInv, ViewTypeOK, StoreTypeOK
<1>5. /\ reply'[q] \in Replies /\ reply'[q].commands = [reply[q].commands EXCEPT ![i] = status]
      /\ reply'[q].answer = reply[q].answer /\ reply'[q].isLoading = reply[q].isLoading
      /\ reply'[q].commandsOf = reply[q].commandsOf
      /\ \A p \in Queries : p # q => reply'[p] = reply[p]
  <2>1. reply'[q] = WithStatus(reply[q], i, status) /\ \A p \in Queries : p # q => reply'[p] = reply[p]
    BY <1>2, <1>4
  <2>2. i \in DOMAIN reply[q].commands /\ status \in Statuses
    BY <1>3 DEF NextIn, Statuses
  <2> QED BY <1>3, <2>1, <2>2, StatusWritten
<1>6. x \in [query : Queries, index : 1..MaxCommands, from : Replies]
      /\ x.query = q /\ x.index = i /\ x.from = reply[q]
  BY <1>3
<1> HIDE DEF x
<1>7. reply' \in [Queries -> Replies]
      /\ executing' \subseteq [query : Queries, index : 1..MaxCommands, from : Replies]
  BY <1>2, <1>4, <1>5, <1>6
<1>8. Unanswered'
  BY <1>1, <1>2, <1>5, <1>6 DEF AIInv, Unanswered
<1>9. Settled'
  <2>1. status \in Statuses
    BY DEF Statuses
  <2>2. InTurn(reply'[q])
    BY <1>3, <1>5, <2>1, StatusInTurn
  <2> QED BY <1>5, <2>2 DEF AIInv, Settled
<1>10. OneAtATime'
  <2>1. ASSUME NEW y \in executing
        PROVE /\ InTurn(y.from) /\ NextIn(y.from, y.index)
              /\ reply'[y.query].commandsOf = y.from.commandsOf =>
                   reply'[y.query].commands = [y.from.commands EXCEPT ![y.index] = "running"]
    <3>1. y.query \in Queries
      BY <1>4
    <3> QED BY <1>3, <1>5, <3>1 DEF AIInv, OneAtATime
  <2>2. CASE status = "rejected"
    BY <1>2, <2>1, <2>2 DEF AIInv, OneAtATime
  <2>3. CASE status = "running"
    <3>1. executing' = executing \cup {x}
      BY <1>2, <2>3
    <3>2. /\ InTurn(x.from) /\ NextIn(x.from, x.index)
          /\ reply'[x.query].commands = [x.from.commands EXCEPT ![x.index] = "running"]
      BY <1>3, <1>5, <1>6, <2>3
    <3>3. \A y \in executing : ~(y.query = x.query /\ y.from.commandsOf = x.from.commandsOf)
      BY <1>3, <1>6
    <3> QED BY <2>1, <3>1, <3>2, <3>3 DEF AIInv, OneAtATime
  <2> QED BY <2>2, <2>3
<1>11. Kept
  <2> SUFFICES ASSUME NEW p \in Queries PROVE AnswerKept(p) /\ CommandsGoOn(p)
    BY DEF Kept
  <2>1. CASE p # q
    BY <1>5, <2>1 DEF AnswerKept, CommandsGoOn, Advances
  <2>2. CASE p = q
    <3>1. AnswerKept(q)
      BY <1>5 DEF AnswerKept
    <3>2. ASSUME NEW k \in DOMAIN reply[q].commands
          PROVE Advances(reply[q].commands[k], reply'[q].commands[k])
      <4>1. CASE k = i
        <5>1. reply[q].commands[k] = "pending" /\ reply'[q].commands[k] = status
          BY <1>3, <1>5, <4>1 DEF NextIn
        <5> QED BY <5>1 DEF Advances
      <4>2. CASE k # i
        BY <1>5, <4>2 DEF Advances
      <4> QED BY <4>1, <4>2
    <3> QED BY <2>2, <3>1, <3>2 DEF CommandsGoOn
  <2> QED BY <2>1, <2>2
<1>12. ViewTypeOK'
  BY <1>1, <1>7 DEF AIInv, ViewTypeOK, StoreTypeOK
<1>13. Sent'
  BY <1>1 DEF AIInv, Sent
<1> QED BY <1>8, <1>9, <1>10, <1>11, <1>12, <1>13 DEF AIInv
(* A command returns: its handler writes back what it started from. *)
LEMMA CommandReturnKeepsAI ==
  ASSUME AIInv, NEW x \in executing, CommandReturns(x)
  PROVE AIInv' /\ Kept
<1> DEFINE q == x.query
<1>1. /\ executing' = executing \ {x}
      /\ UNCHANGED <<conversations, thread, activeConversationId, contextQueue, mounted, isLoading,
                     agentRunning, stopping, request, convOf, fresh, mine>>
  BY DEF CommandReturns
<1>2. /\ reply \in [Queries -> Replies] /\ q \in Queries /\ x.from \in Replies
      /\ executing \subseteq [query : Queries, index : 1..MaxCommands, from : Replies]
      /\ RepliesInv /\ Endings
  BY <1>1 DEF AIInv, RepliesInv, ViewTypeOK, StoreTypeOK, Endings
<1>3. InTurn(x.from) /\ NextIn(x.from, x.index)
  BY DEF AIInv, OneAtATime
<1>4. PICK status \in {"completed", "error"} :
        updateMessage(convOf[q], q,
          [reply[q] EXCEPT !.commands = WithStatus(x.from, x.index, status).commands,
                           !.commandsOf = x.from.commandsOf])
  BY DEF CommandReturns
<1> DEFINE c == [x.from.commands EXCEPT ![x.index] = status]
           r == [reply[q] EXCEPT !.commands = c, !.commandsOf = x.from.commandsOf]
<1>5. WithStatus(x.from, x.index, status).commands = c /\ c \in Commands
  <2>1. x.index \in DOMAIN x.from.commands /\ status \in Statuses
    BY <1>3 DEF NextIn, Statuses
  <2>2. /\ WithStatus(x.from, x.index, status) \in Replies
        /\ WithStatus(x.from, x.index, status).commands = c
    BY <1>2, <2>1, StatusWritten
  <2> QED BY <2>2 DEF Replies, Commands
<1>6. Replies = [isLoading : BOOLEAN, answer : Queries \cup {NoQuery}, commands : Commands,
                 commandsOf : Queries \cup {NoQuery}]
  BY DEF Replies, Commands
<1> HIDE DEF c
<1>7. /\ r \in Replies /\ r.commands = c /\ r.commandsOf = x.from.commandsOf
      /\ r.answer = reply[q].answer /\ r.isLoading = reply[q].isLoading
  BY <1>2, <1>5, <1>6
<1>8. updateMessage(convOf[q], q, r)
  BY <1>4, <1>5
<1> HIDE DEF r
<1>9. RepliesInv' /\ Kept /\ reply' \in [Queries -> Replies]
  <2>1. CASE reply' = reply
    BY <1>1, <1>2, <2>1, RepliesStay
  <2>2. CASE reply' = [reply EXCEPT ![q] = r]
    <3>1. reply'[q] = r /\ \A p \in Queries : p # q => reply'[p] = reply[p]
      BY <1>2, <2>2
    <3>2. Unanswered'
      BY <1>1, <1>2, <1>7, <3>1 DEF RepliesInv, Unanswered
    <3>3. Settled'
      <4>1. InTurn(r)
        <5>1. status \in Statuses
          BY DEF Statuses
        <5>2. r.commands = [x.from.commands EXCEPT ![x.index] = status]
          BY <1>7 DEF c
        <5> QED BY <1>2, <1>3, <1>7, <5>1, <5>2, StatusInTurn
      <4> QED BY <1>2, <1>7, <3>1, <4>1 DEF RepliesInv, Settled
    <3>4. OneAtATime'
      <4>1. ASSUME NEW y \in executing'
            PROVE reply'[y.query].commandsOf = y.from.commandsOf =>
                    reply'[y.query].commands = [y.from.commands EXCEPT ![y.index] = "running"]
        <5>1. y \in executing /\ y # x /\ y.query \in Queries
          BY <1>1, <1>2
        <5>2. /\ y.query = x.query => y.from.commandsOf # x.from.commandsOf
              /\ reply[y.query].commandsOf = y.from.commandsOf =>
                   reply[y.query].commands = [y.from.commands EXCEPT ![y.index] = "running"]
          BY <1>2, <5>1 DEF RepliesInv, OneAtATime
        <5>3. CASE y.query = q
          BY <1>7, <3>1, <5>2, <5>3
        <5>4. CASE y.query # q
          BY <3>1, <5>1, <5>2, <5>4
        <5> QED BY <5>3, <5>4
      <4> QED BY <1>1, <1>2, <4>1 DEF RepliesInv, OneAtATime
    <3>5. Kept
      <4> SUFFICES ASSUME NEW p \in Queries PROVE AnswerKept(p) /\ CommandsGoOn(p)
        BY DEF Kept
      <4>1. CASE p # q
        BY <3>1, <4>1 DEF AnswerKept, CommandsGoOn, Advances
      <4>2. CASE p = q
        <5>1. AnswerKept(q)
          BY <1>7, <3>1 DEF AnswerKept
        <5>2. ASSUME reply[q].commandsOf = x.from.commandsOf, NEW k \in DOMAIN reply[q].commands
              PROVE Advances(reply[q].commands[k], r.commands[k])
          <6>1. reply[q].commands = [x.from.commands EXCEPT ![x.index] = "running"]
            BY <5>2 DEF RepliesInv, AIInv, OneAtATime
          <6>2. CASE k = x.index
            <7>1. reply[q].commands[k] = "running" /\ r.commands[k] = status
              BY <1>3, <1>7, <6>1, <6>2 DEF NextIn, c
            <7> QED BY <7>1 DEF Advances
          <6>3. CASE k # x.index
            <7>1. reply[q].commands[k] = r.commands[k]
              BY <1>7, <5>2, <6>1, <6>3 DEF c
            <7> QED BY <7>1 DEF Advances
          <6> QED BY <6>2, <6>3
        <5> QED BY <1>7, <3>1, <4>2, <5>1, <5>2 DEF CommandsGoOn
      <4> QED BY <4>1, <4>2
    <3>6. reply' \in [Queries -> Replies]
      BY <1>2, <1>7, <2>2
    <3> QED BY <3>2, <3>3, <3>4, <3>5, <3>6 DEF RepliesInv
  <2> QED BY <1>8, <2>1, <2>2 DEF updateMessage
<1>10. ViewTypeOK'
  BY <1>1, <1>2, <1>9 DEF AIInv, ViewTypeOK, StoreTypeOK
<1>11. Sent'
  BY <1>1 DEF AIInv, Sent
<1> QED BY <1>9, <1>10, <1>11 DEF AIInv, RepliesInv
LEMMA AIStarts == ViewInit => AIInv
<1> SUFFICES ASSUME ViewInit PROVE AIInv
  OBVIOUS
<1>1. NoReply \in Replies /\ Blank(NoReply) /\ InTurn(NoReply)
  <2>1. DOMAIN <<>> = {}
    OBVIOUS
  <2> QED BY <2>1, BlankReplies DEF Blank, InTurn
<1>2. <<>> \in Seq(Queries) /\ \A q : ~Contains(<<>>, q)
  BY DEF Contains
<1>3. ViewTypeOK
  BY <1>1, <1>2 DEF ViewInit, StoreInit, ViewTypeOK, StoreTypeOK, Requests
<1>4. Sent
  BY <1>2 DEF ViewInit, StoreInit, Sent
<1>5. Unanswered /\ Settled /\ OneAtATime
  <2>1. \A q \in Queries : q # NoQuery /\ reply[q] = NoReply
    BY AIStoreAssumption DEF ViewInit, StoreInit
  <2> QED BY <1>1, <2>1 DEF ViewInit, Blank, Unanswered, Settled, OneAtATime
<1> QED BY <1>3, <1>4, <1>5 DEF AIInv

LEMMA AISteps == AIInv /\ [AINext]_aiVars => AIInv' /\ Kept
<1> SUFFICES ASSUME AIInv, [AINext]_aiVars PROVE AIInv' /\ Kept
  OBVIOUS
<1>1. CASE Mount \/ Unmount \/ Reload \/ ContextPanel \/ handleStopAgent \/ StopReturns
           \/ (\E i \in Items : AddToContext(i)) \/ UNCHANGED aiVars
  BY <1>1, ViewKeepsAI
<1>2. CASE SidebarClick
  BY <1>2, SidebarKeepsAI
<1>3. CASE handleSubmit
  BY <1>3, SubmitKeepsAI
<1>4. ASSUME NEW q \in Queries, Returns(q) PROVE AIInv' /\ Kept
  BY <1>4, QueryKeepsAI, AgentEndKeepsAI, ViewKeepsAI DEF Returns
<1>5. ASSUME NEW q \in Queries, NEW i \in 1..MaxCommands,
             handleExecuteCommand(q, i) \/ handleRejectCommand(q, i)
      PROVE AIInv' /\ Kept
  BY <1>5, CommandKeepsAI
<1>6. ASSUME NEW x \in executing, CommandReturns(x) PROVE AIInv' /\ Kept
  BY <1>6, CommandReturnKeepsAI
<1> QED BY <1>1, <1>2, <1>3, <1>4, <1>5, <1>6 DEF AINext

(* A reply that shows the answer to its own query keeps it as long as its   *)
(* conversation is there, whichever agent ends later, whatever conversation *)
(* is active then, and through reloads of the window.                      *)
THEOREM AnswersAreKept == AISpec => AnswersStay
<1>1. AIInv /\ [AINext]_aiVars =>
        [\A q \in Queries :
           (reply[q].answer = q /\ Contains(thread'[convOf[q]], q)) => reply'[q].answer = q]_aiVars
  BY AISteps DEF Kept, AnswerKept
<1> QED BY <1>1, AIStarts, AISteps, PTL DEF AISpec, AnswersStay

(* A command that was run or skipped is not offered again, although each    *)
(* command that returns writes all of them as they were when it started.   *)
THEOREM CommandsOnlyAdvance == AISpec => CommandsAdvance
<1>1. AIInv /\ [AINext]_aiVars =>
        [\A q \in Queries :
           reply'[q].commandsOf = reply[q].commandsOf /\ reply[q].commandsOf # NoQuery =>
             \A i \in DOMAIN reply[q].commands :
               Advances(reply[q].commands[i], reply'[q].commands[i])]_aiVars
  BY AISteps DEF Kept, CommandsGoOn
<1> QED BY <1>1, AIStarts, AISteps, PTL DEF AISpec, CommandsAdvance

-----------------------------------------------------------------------------
(* The providers.  What the form and the file promise is not inductive:    *)
(* copies of settings wait in the saves and in the fetches of models, to   *)
(* be written or shown later.  All of them make the promise, the enabled   *)
(* providers have entries, and settings that select none have all of them, *)
(* so that they leave nothing enabled in the file they are written over.   *)
FitsTogether(s) ==
  /\ s.enabled # {} => s.selectedProvider # NoProvider
  /\ s.on => s.enabled # {}
  /\ s.selectedModel = s.selectedProvider \/ s.selectedModel = NoProvider

Complete(s) ==
  /\ s.enabled \subseteq s.listed
  /\ s.selectedProvider = NoProvider => s.listed = Providers

Fitting == {s \in Settings : FitsTogether(s) /\ Complete(s)}

(* The form has an entry for every provider. *)
Forms == {f \in Fitting : f.listed = Providers}

ProviderInv ==
  /\ disk \in Fitting
  /\ form \in Forms \cup {NoForm}
  /\ refreshing \subseteq [provider : Providers, settings : Forms, live : BOOLEAN]
  /\ saves \subseteq [settings : Fitting, show : Providers \cup {NoProvider}]
  /\ availableModels \subseteq Providers
  /\ selectedModel \in Providers \cup {NoProvider}
  /\ consentDialog \in Providers \cup {NoProvider}
  /\ edits \in 0..MaxEdits

-----------------------------------------------------------------------------
(* The ways settings are changed keep them fitting. *)
LEMMA SettingsFields ==
  ASSUME NEW s \in Settings
  PROVE /\ s.on \in BOOLEAN /\ s.listed \subseteq Providers /\ s.enabled \subseteq Providers
        /\ s.models \subseteq Providers /\ s.keyed \subseteq Providers
        /\ s.selectedProvider \in Providers \cup {NoProvider}
        /\ s.selectedModel \in Providers \cup {NoProvider}
BY DEF Settings

LEMMA SettingsMade ==
  ASSUME NEW s \in Settings, NEW s1 \in BOOLEAN, NEW s2 \in SUBSET Providers,
         NEW s3 \in SUBSET Providers, NEW s4 \in SUBSET Providers, NEW s5 \in SUBSET Providers,
         NEW s6 \in Providers \cup {NoProvider}, NEW s7 \in Providers \cup {NoProvider}
  PROVE [on |-> s1, listed |-> s2, enabled |-> s3, models |-> s4, keyed |-> s5,
         selectedProvider |-> s6, selectedModel |-> s7] \in Settings
BY DEF Settings

(* A selection of a provider, with its model or without. *)
LEMMA SelectionFits ==
  ASSUME NEW s \in Fitting, NEW p \in Providers, NEW m \in {p, NoProvider}
  PROVE [s EXCEPT !.selectedProvider = p, !.selectedModel = m] \in Fitting
<1> DEFINE t == [s EXCEPT !.selectedProvider = p, !.selectedModel = m]
<1>1. s \in Settings /\ FitsTogether(s) /\ Complete(s)
  BY DEF Fitting
<1>2. t \in Settings
  BY <1>1 DEF Settings
<1>3. /\ t.enabled = s.enabled /\ t.on = s.on /\ t.listed = s.listed
      /\ t.selectedProvider = p /\ t.selectedModel = m
  BY <1>1 DEF Settings
<1>4. p # NoProvider
  BY ProviderSettingsAssumption
<1> HIDE DEF t
<1>5. FitsTogether(t)
  BY <1>1, <1>3, <1>4 DEF FitsTogether
<1>6. Complete(t)
  BY <1>1, <1>3, <1>4 DEF Complete
<1>7. t \in Fitting
  BY <1>2, <1>5, <1>6 DEF Fitting
<1> QED BY <1>7 DEF t

LEMMA SelectingFits ==
  ASSUME NEW f \in Forms, NEW p \in Providers
  PROVE Selecting(f, p) \in Forms
<1>1. FirstModel(f, p) \in {p, NoProvider}
  BY DEF FirstModel
<1>2. Selecting(f, p) \in Fitting
  BY <1>1, SelectionFits DEF Selecting, Forms
<1>3. Selecting(f, p).listed = f.listed
  BY DEF Selecting, Forms, Fitting, Settings
<1> QED BY <1>2, <1>3 DEF Forms

(* Texts and lists of models are not promised anything about. *)
LEMMA DataFits ==
  ASSUME NEW f \in Forms, NEW p \in Providers
  PROVE /\ [f EXCEPT !.keyed = @ \cup {p}] \in Forms
        /\ WithModels(f, p) \in Forms
<1>1. f \in Settings /\ FitsTogether(f) /\ Complete(f) /\ f.listed = Providers
  BY DEF Forms, Fitting
<1> DEFINE g == [f EXCEPT !.keyed = @ \cup {p}]
<1> DEFINE h == [f EXCEPT !.models = @ \cup {p}]
<1>2. g \in Settings /\ h \in Settings
  BY <1>1 DEF Settings
<1>3. /\ g.enabled = f.enabled /\ g.on = f.on /\ g.listed = f.listed
      /\ g.selectedProvider = f.selectedProvider /\ g.selectedModel = f.selectedModel
  BY <1>1 DEF Settings
<1>4. /\ h.enabled = f.enabled /\ h.on = f.on /\ h.listed = f.listed
      /\ h.selectedProvider = f.selectedProvider /\ h.selectedModel = f.selectedModel
  BY <1>1 DEF Settings
<1>5. WithModels(f, p) = h
  BY DEF WithModels
<1> HIDE DEF g, h
<1>6. FitsTogether(g) /\ Complete(g) /\ FitsTogether(h) /\ Complete(h)
  BY <1>1, <1>3, <1>4 DEF FitsTogether, Complete
<1>7. g \in Forms /\ h \in Forms
  BY <1>1, <1>2, <1>3, <1>4, <1>6 DEF Forms, Fitting
<1> QED BY <1>5, <1>7 DEF g

LEMMA OpenedFits ==
  ASSUME disk \in Fitting
  PROVE [disk EXCEPT !.listed = Providers, !.models = @ \cup BuiltIn] \in Forms
<1> DEFINE f == [disk EXCEPT !.listed = Providers, !.models = @ \cup BuiltIn]
<1>1. disk \in Settings /\ FitsTogether(disk) /\ Complete(disk)
  BY DEF Fitting
<1>2. f \in Settings
  BY <1>1, ProviderSettingsAssumption DEF Settings
<1>3. /\ f.enabled = disk.enabled /\ f.on = disk.on /\ f.listed = Providers
      /\ f.selectedProvider = disk.selectedProvider /\ f.selectedModel = disk.selectedModel
  BY <1>1 DEF Settings
<1>4. f.enabled \subseteq Providers
  BY <1>2, SettingsFields
<1> HIDE DEF f
<1>5. FitsTogether(f) /\ Complete(f)
  BY <1>1, <1>3, <1>4 DEF FitsTogether, Complete
<1>6. f \in Forms
  BY <1>2, <1>3, <1>5 DEF Forms, Fitting
<1> QED BY <1>6 DEF f

(* Switching a provider on or off. *)
LEMMA ToggledFits ==
  ASSUME NEW f \in Forms, NEW p \in Providers, NEW enabled \in SUBSET Providers,
         enabled = IF p \in f.enabled THEN f.enabled \ {p} ELSE f.enabled \cup {p},
         NEW g \in Reselected(f, p, enabled)
  PROVE [g EXCEPT !.enabled = enabled, !.on = enabled # {}] \in Forms
<1> DEFINE t == [g EXCEPT !.enabled = enabled, !.on = enabled # {}]
<1>1. /\ f \in Settings /\ f.listed = Providers
      /\ (f.enabled # {} => f.selectedProvider # NoProvider)
      /\ (f.selectedModel = f.selectedProvider \/ f.selectedModel = NoProvider)
  BY DEF Forms, Fitting, FitsTogether
<1>2. /\ g \in Settings /\ g.listed = Providers
      /\ (g.selectedModel = g.selectedProvider \/ g.selectedModel = NoProvider)
      /\ (enabled # {} => g.selectedProvider # NoProvider)
  <2>1. ASSUME NEW q \in Providers \cup {NoProvider}, g = Selecting(f, q)
        PROVE /\ g \in Settings /\ g.listed = Providers /\ g.selectedProvider = q
              /\ (g.selectedModel = q \/ g.selectedModel = NoProvider)
    <3>1. FirstModel(f, q) \in Providers \cup {NoProvider}
          /\ (FirstModel(f, q) = q \/ FirstModel(f, q) = NoProvider)
      BY DEF FirstModel
    <3>2. g = [f EXCEPT !.selectedProvider = q, !.selectedModel = FirstModel(f, q)]
      BY <2>1 DEF Selecting
    <3> HIDE DEF FirstModel
    <3> QED BY <1>1, <3>1, <3>2 DEF Settings
  <2>2. CASE p \in enabled
    <3>1. g = IF f.selectedProvider = NoProvider THEN Selecting(f, p) ELSE f
      BY <2>2 DEF Reselected
    <3>2. CASE f.selectedProvider = NoProvider
      BY <2>1, <3>1, <3>2, ProviderSettingsAssumption
    <3>3. CASE f.selectedProvider # NoProvider
      BY <1>1, <3>1, <3>3
    <3> QED BY <3>2, <3>3
  <2>3. CASE p \notin enabled /\ f.selectedProvider # p
    <3>1. g = f
      BY <2>3 DEF Reselected
    <3>2. p \in f.enabled
      BY <2>3
    <3> QED BY <1>1, <3>1, <3>2
  <2>4. CASE p \notin enabled /\ f.selectedProvider = p
    <3>1. g \in {Selecting(f, q) : q \in IF enabled = {} THEN {NoProvider} ELSE enabled}
      BY <2>4 DEF Reselected
    <3>2. PICK q \in IF enabled = {} THEN {NoProvider} ELSE enabled : g = Selecting(f, q)
      BY <3>1
    <3>3. q \in Providers \cup {NoProvider} /\ (enabled # {} => q # NoProvider)
      BY <3>2, ProviderSettingsAssumption
    <3> QED BY <2>1, <3>2, <3>3
  <2> QED BY <2>2, <2>3, <2>4
<1>3. (enabled # {}) \in BOOLEAN
  OBVIOUS
<1>4. t \in Settings
  BY <1>2, <1>3 DEF Settings
<1>5. /\ t.enabled = enabled /\ t.on = (enabled # {}) /\ t.listed = g.listed
      /\ t.selectedProvider = g.selectedProvider /\ t.selectedModel = g.selectedModel
  BY <1>2 DEF Settings
<1> HIDE DEF t
<1>6. FitsTogether(t) /\ Complete(t)
  BY <1>2, <1>5 DEF FitsTogether, Complete
<1>7. t \in Forms
  BY <1>2, <1>4, <1>5, <1>6 DEF Forms, Fitting
<1> QED BY <1>7 DEF t

(* What is sent, written over what the file has. *)
LEMMA OverlaidFits ==
  ASSUME NEW old \in Fitting, NEW sent \in Fitting
  PROVE Overlaid(old, sent) \in Fitting
<1> DEFINE t == Overlaid(old, sent)
<1>1. /\ old \in Settings /\ sent \in Settings /\ FitsTogether(sent)
      /\ Complete(sent) /\ Complete(old)
  BY DEF Fitting
<1>2. /\ old.listed \subseteq Providers /\ sent.listed \subseteq Providers
      /\ old.enabled \subseteq Providers /\ sent.enabled \subseteq Providers
      /\ old.models \subseteq Providers /\ sent.models \subseteq Providers
      /\ old.keyed \subseteq Providers /\ sent.keyed \subseteq Providers
      /\ sent.on \in BOOLEAN /\ sent.selectedProvider \in Providers \cup {NoProvider}
      /\ sent.selectedModel \in Providers \cup {NoProvider}
  BY <1>1, SettingsFields
<1>3. t \in Settings
  BY <1>2 DEF Overlaid, Settings
<1>4. /\ t.on = sent.on /\ t.listed = old.listed \cup sent.listed
      /\ t.enabled = sent.enabled \cup (old.enabled \ sent.listed)
      /\ t.selectedProvider = sent.selectedProvider /\ t.selectedModel = sent.selectedModel
  BY DEF Overlaid
<1> HIDE DEF t
<1>5. FitsTogether(t)
  BY <1>1, <1>2, <1>4 DEF FitsTogether, Complete
<1>6. Complete(t)
  BY <1>1, <1>2, <1>4 DEF Complete
<1>7. t \in Fitting
  BY <1>3, <1>5, <1>6 DEF Fitting
<1> QED BY <1>7 DEF t

Saves == [settings : Fitting, show : Providers \cup {NoProvider}]

LEMMA CallFits ==
  ASSUME ProviderInv, NEW s \in Fitting, NEW show \in Providers \cup {NoProvider}, Call(s, show)
  PROVE saves' \subseteq Saves
BY DEF ProviderInv, Call, Saves

(* A selection of the copilot changes what the file holds now. *)
LEMMA SelectionCallFits ==
  ASSUME ProviderInv, NEW p \in Providers, NEW show \in Providers \cup {NoProvider},
         persistSelection(p, show)
  PROVE saves' \subseteq Saves
<1>1. [disk EXCEPT !.selectedProvider = p, !.selectedModel = p] \in Fitting
  BY SelectionFits DEF ProviderInv
<1> QED BY <1>1, CallFits DEF persistSelection

LEMMA ModelChangeFits ==
  ASSUME ProviderInv, NEW p \in Providers, handleModelChange(p)
  PROVE /\ saves' \subseteq Saves
        /\ selectedModel' \in Providers \cup {NoProvider}
        /\ consentDialog' \in Providers \cup {NoProvider}
<1>1. CASE p = Ollama
  BY <1>1, SelectionCallFits DEF handleModelChange, ProviderInv
<1>2. CASE p # Ollama
  BY <1>2 DEF handleModelChange, ProviderInv, Saves
<1> QED BY <1>1, <1>2

-----------------------------------------------------------------------------
LEMMA ProviderStarts == ProviderInit => ProviderInv
<1> SUFFICES ASSUME ProviderInit PROVE ProviderInv
  OBVIOUS
<1>1. disk \in Fitting
  <2>1. DefaultAI \in Settings
    BY ProviderSettingsAssumption DEF DefaultAI, Settings
  <2>2. FitsTogether(DefaultAI) /\ Complete(DefaultAI)
    BY ProviderSettingsAssumption DEF DefaultAI, FitsTogether, Complete
  <2> QED BY <2>1, <2>2 DEF ProviderInit, Fitting
<1>2. edits \in 0..MaxEdits
  BY ProviderSettingsAssumption DEF ProviderInit
<1> QED BY <1>1, <1>2 DEF ProviderInit, ProviderInv

LEMMA ProviderSteps == ProviderInv /\ [ProviderNext]_providerVars => ProviderInv'
<1> SUFFICES ASSUME ProviderInv, [ProviderNext]_providerVars PROVE ProviderInv'
  OBVIOUS
<1> USE DEF ProviderInv, Saves
<1>0. Forms \subseteq Fitting
  BY DEF Forms
<1>1. Edit => edits' \in 0..MaxEdits
  BY ProviderSettingsAssumption DEF Edit
<1>2. CASE OpenForm
  BY <1>2, OpenedFits DEF OpenForm
<1>3. CASE CloseForm
  <2>1. \A r \in refreshing :
          [r EXCEPT !.live = FALSE] \in [provider : Providers, settings : Forms, live : BOOLEAN]
    OBVIOUS
  <2> QED BY <1>3, <2>1 DEF CloseForm
<1>4. ASSUME NEW p \in Providers, toggleEnabled(p) PROVE ProviderInv'
  <2>1. form' \in Forms
    <3> DEFINE enabled == IF p \in form.enabled THEN form.enabled \ {p} ELSE form.enabled \cup {p}
    <3>1. form \in Forms
      BY <1>4 DEF toggleEnabled
    <3>2. PICK g \in Reselected(form, p, enabled) :
            form' = [g EXCEPT !.enabled = enabled, !.on = enabled # {}]
      BY <1>4 DEF toggleEnabled
    <3>3. enabled \in SUBSET Providers
      BY <3>1, SettingsFields DEF Forms, Fitting
    <3> QED BY <3>1, <3>2, <3>3, ToggledFits
  <2>2. saves' \subseteq Saves
    BY <1>0, <1>4, <2>1, CallFits DEF toggleEnabled
  <2> QED BY <1>1, <1>4, <2>1, <2>2 DEF toggleEnabled
<1>5. ASSUME NEW p \in Providers, setDefaultModel(p) PROVE ProviderInv'
  <2> DEFINE f == Selecting(form, p)
  <2>1. f \in Forms /\ p \in form.enabled /\ form \in Forms
    BY <1>5, SelectingFits DEF setDefaultModel, CanEdit
  <2>2. f.enabled = form.enabled
    BY <2>1 DEF Selecting, Forms, Fitting, Settings
  <2>3. form' = [f EXCEPT !.on = TRUE]
    BY <1>5 DEF setDefaultModel
  <2> HIDE DEF f
  <2>4. /\ form' \in Settings /\ form'.on = TRUE
        /\ form'.enabled = f.enabled /\ form'.listed = f.listed
        /\ form'.selectedProvider = f.selectedProvider /\ form'.selectedModel = f.selectedModel
    BY <2>1, <2>3 DEF Forms, Fitting, Settings
  <2>5. form' \in Forms
    BY <2>1, <2>2, <2>4 DEF Forms, Fitting, FitsTogether, Complete
  <2>6. saves' \subseteq Saves
    BY <1>0, <1>5, <2>5, CallFits DEF setDefaultModel
  <2> QED BY <1>1, <1>5, <2>5, <2>6 DEF setDefaultModel
<1>6. ASSUME NEW p \in Providers, updateProviderConfigLocal(p) PROVE ProviderInv'
  <2>1. form' \in Forms
    BY <1>6, DataFits DEF updateProviderConfigLocal, CanEdit
  <2> QED BY <1>1, <1>6, <2>1 DEF updateProviderConfigLocal
<1>7. ASSUME NEW p \in Providers, handleRefreshModels(p) PROVE ProviderInv'
  <2>1. form \in Forms
    BY <1>7 DEF handleRefreshModels, CanEdit
  <2>2. [provider |-> p, settings |-> form, live |-> TRUE]
          \in [provider : Providers, settings : Forms, live : BOOLEAN]
    BY <2>1
  <2> QED BY <1>1, <1>7, <2>2 DEF handleRefreshModels
<1>8. ASSUME NEW p \in Providers, ModelChip(p) PROVE ProviderInv'
  BY <1>1, <1>8, ModelChangeFits DEF ModelChip
<1>9. CASE persistCurrent
  <2>1. form \in Fitting
    BY <1>0, <1>9 DEF persistCurrent
  <2>2. saves' \subseteq Saves
    BY <1>9, <2>1, CallFits DEF persistCurrent
  <2> QED BY <1>1, <1>9, <2>2 DEF persistCurrent
<1>10. CASE loadAIConfig
  <2>1. Listed(disk) \subseteq Providers /\ disk.selectedModel \in Providers \cup {NoProvider}
    BY SettingsFields DEF Listed, Fitting
  <2>2. /\ saves' \subseteq Saves
        /\ selectedModel' \in Providers \cup {NoProvider}
        /\ consentDialog' \in Providers \cup {NoProvider}
    BY <1>10, <2>1, ModelChangeFits DEF loadAIConfig
  <2> QED BY <1>10, <2>1, <2>2 DEF loadAIConfig
<1>11. CASE handleConsentAccept
  <2>1. saves' \subseteq Saves
    BY <1>11, SelectionCallFits DEF handleConsentAccept
  <2> QED BY <1>11, <2>1 DEF handleConsentAccept
<1>12. CASE handleConsentDecline
  BY <1>12 DEF handleConsentDecline
<1>13. CASE handleConsentUseLocal
  <2>1. saves' \subseteq Saves
    BY <1>13, SelectionCallFits, ProviderSettingsAssumption DEF handleConsentUseLocal
  <2>2. selectedModel' \in Providers \cup {NoProvider}
    BY <1>13, ProviderSettingsAssumption DEF handleConsentUseLocal
  <2> QED BY <1>13, <2>1, <2>2 DEF handleConsentUseLocal
<1>14. ASSUME NEW s \in saves, SaveAISettings(s) PROVE ProviderInv'
  <2>1. s.settings \in Fitting /\ s.show \in Providers \cup {NoProvider}
    OBVIOUS
  <2>2. Overlaid(disk, s.settings) \in Fitting
    BY <2>1, OverlaidFits
  <2> QED BY <1>14, <2>1, <2>2 DEF SaveAISettings
<1>15. ASSUME NEW r \in refreshing, ModelsFetched(r) PROVE ProviderInv'
  <2>1. WithModels(r.settings, r.provider) \in Forms
    BY DataFits
  <2>2. saves' \subseteq Saves
    BY <1>0, <1>15, <2>1, CallFits DEF ModelsFetched
  <2>3. form' \in Forms \cup {NoForm}
    BY <1>15, <2>1 DEF ModelsFetched
  <2> QED BY <1>15, <2>2, <2>3 DEF ModelsFetched
<1>16. CASE UNCHANGED providerVars
  BY <1>16 DEF providerVars
<1> QED BY <1>2, <1>3, <1>4, <1>5, <1>6, <1>7, <1>8, <1>9, <1>10, <1>11, <1>12, <1>13, <1>14, <1>15,
           <1>16 DEF ProviderNext

(* In the form and in the file, while a provider is enabled one is         *)
(* selected, the switch is on only with a provider enabled, and a selected *)
(* model is the selected provider's, in whatever order switches, fetches,  *)
(* saves and consents come and however old the settings are that they      *)
(* write.                                                                  *)
THEOREM DefaultStays == ProviderSpec => []DefaultIsKept
<1>1. ProviderInv => DefaultIsKept
  BY DEF ProviderInv, DefaultIsKept, Forms, Fitting, FitsTogether
<1> QED BY <1>1, ProviderStarts, ProviderSteps, PTL DEF ProviderSpec

-----------------------------------------------------------------------------
(* All three together. *)
CopilotInv == AIInv /\ ProviderInv /\ ConfigInv /\ Counted

(* Whichever is looked at, the active conversation exists, what a reply    *)
(* shows was sent, and the settings, the providers and the file are typed. *)
THEOREM CopilotTypes == Spec => []TypeOK
<1>1. Init => CopilotInv
  BY AIStarts, ProviderStarts, ConfigStarts, CountsStart DEF Init, CopilotInv
<1>2. CopilotInv /\ [Next]_vars => CopilotInv'
  <2> SUFFICES ASSUME CopilotInv, [Next]_vars PROVE CopilotInv'
    OBVIOUS
  <2>1. [AINext]_aiVars /\ [ProviderNext]_providerVars /\ [ConfigNext]_configVars
    BY DEF Next, vars
  <2>2. ConfigInv'
    BY <2>1, ConfigStep DEF CopilotInv
  <2>3. Counted'
    BY <2>1, CountsStay DEF CopilotInv
  <2>4. AIInv' /\ ProviderInv'
    BY <2>1, AISteps, ProviderSteps DEF CopilotInv
  <2> QED BY <2>2, <2>3, <2>4 DEF CopilotInv
<1>3. CopilotInv => TypeOK
  <2> SUFFICES ASSUME CopilotInv PROVE TypeOK
    OBVIOUS
  <2>1. ViewTypeOK /\ ConfigTypeOK
    BY ConfigIsTyped DEF CopilotInv, AIInv
  <2>2. ProviderTypeOK
    BY DEF CopilotInv, ProviderInv, ProviderTypeOK, Forms, Fitting
  <2> QED BY <2>1, <2>2 DEF TypeOK
<1> QED BY <1>1, <1>2, <1>3, PTL DEF Spec
=============================================================================
