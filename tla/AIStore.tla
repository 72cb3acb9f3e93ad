-------------------------------- MODULE AIStore --------------------------------
(***************************************************************************)
(* The store of the AI copilot: frontend/src/stores/aiStore.ts.  A query   *)
(* adds two messages at once, the user's and the assistant's, so a         *)
(* conversation is the sequence of its queries and a query has one reply.  *)
(* Conversations, and the replies in them, are persisted; the active       *)
(* conversation and the context queue are not.                             *)
(***************************************************************************)
EXTENDS Naturals, Sequences, SequencesExt

CONSTANTS
  Conversations, NoConversation,
  Queries, NoQuery,
  Items,        \* resources that can be put in the context queue
  MaxCommands   \* bound: commands in one answer

ASSUME AIStoreAssumption ==
  /\ NoConversation \notin Conversations
  /\ NoQuery \notin Queries
  /\ MaxCommands \in Nat

VARIABLES
  conversations,         \* the ids of the conversations there are
  thread,                \* the queries of each, in order
  reply,                 \* the assistant message of each query
  activeConversationId,
  contextQueue

storeVars == <<conversations, thread, reply, activeConversationId, contextQueue>>

Statuses == {"pending", "running", "completed", "rejected", "error"}

(* What a reply shows: the query whose answer it is, if any, and the        *)
(* commands found in an answer, which need not be the same one.             *)
Replies ==
  [isLoading : BOOLEAN, answer : Queries \cup {NoQuery},
   commands : UNION {[1..n -> Statuses] : n \in 0..MaxCommands},
   commandsOf : Queries \cup {NoQuery}]

NoReply == [isLoading |-> FALSE, answer |-> NoQuery, commands |-> <<>>, commandsOf |-> NoQuery]
LoadingReply == [NoReply EXCEPT !.isLoading = TRUE]

StoreTypeOK ==
  /\ conversations \subseteq Conversations
  /\ thread \in [Conversations -> Seq(Queries)]
  /\ reply \in [Queries -> Replies]
  /\ activeConversationId \in conversations \cup {NoConversation}
  /\ contextQueue \subseteq Items

StoreInit ==
  /\ conversations = {}
  /\ thread = [c \in Conversations |-> <<>>]
  /\ reply = [q \in Queries |-> NoReply]
  /\ activeConversationId = NoConversation
  /\ contextQueue = {}

-----------------------------------------------------------------------------
(* Ids are made up: which unused one is taken makes no difference. *)
Fresh(S) == CHOOSE x \in S : TRUE

(* An id that is taken again after a deletion stands for a new one: nothing *)
(* finds the old messages under it.                                         *)
createConversation ==
  /\ conversations # Conversations
  /\ conversations' = conversations \cup {Fresh(Conversations \ conversations)}
  /\ activeConversationId' = Fresh(Conversations \ conversations)

(* Mutant: a deleted conversation stays the active one. *)
deleteConversationStaysActive(c) ==
  /\ conversations' = conversations \ {c}
  /\ thread' = [thread EXCEPT ![c] = <<>>]
  /\ reply' = [q \in Queries |-> IF Contains(thread[c], q) THEN NoReply ELSE reply[q]]
  /\ UNCHANGED activeConversationId

deleteConversation(c) ==
  /\ conversations' = conversations \ {c}
  /\ thread' = [thread EXCEPT ![c] = <<>>]
  /\ reply' = [q \in Queries |-> IF Contains(thread[c], q) THEN NoReply ELSE reply[q]]
  /\ activeConversationId' =
       IF activeConversationId = c THEN NoConversation ELSE activeConversationId

(* The two messages of a query: the second is the one that loads. *)
addMessages(c, q) ==
  /\ thread' = [thread EXCEPT ![c] = Append(@, q)]
  /\ reply' = [reply EXCEPT ![q] = LoadingReply]

(* updateMessage finds the message by its conversation's id and its own; a  *)
(* message that is gone is not written.                                     *)
updateMessage(c, q, r) ==
  reply' = IF Contains(thread[c], q) THEN [reply EXCEPT ![q] = r] ELSE reply

addToContext(i) == contextQueue' = contextQueue \cup {i}
removeFromContext(i) == contextQueue' = contextQueue \ {i}
clearContext == contextQueue' = {}

(* What is read back when the window loads again. *)
Rehydrate ==
  /\ activeConversationId' = NoConversation
  /\ contextQueue' = {}
  /\ UNCHANGED <<conversations, thread, reply>>
=============================================================================
